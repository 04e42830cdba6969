# Verification of bsdOS

bsdOS (`src/`) is a set of Rust daemons and tools for a FreeBSD system whose
applications run in jails and are shown on a remote viewer. This directory
holds TLA+ models of the daemons and tools, the TLC configurations that check them on
small instances, and TLAPS proofs for instances of every size. `PROJECT.json`
lists the runs, the mutants that show that the properties can fail, the map
from definitions to source lines, the findings, the hazards and the theorems.

    tlc -config sm_core.cfg MCStreamManager     # any run: cfg and module
    tlapm StreamManagerProofs.tla               # the proofs: any ...Proofs module

## The system

| part | state | operations | talks to |
|---|---|---|---|
| `bsdos-core` stream manager (`stream_manager.rs`, `main.rs`) | map app_id -> StreamInstance behind a tokio mutex; three child processes, three tasks and a runtime directory per stream | start_stream, stop_stream, restore_streams, monitor_loop, health_snapshot; autostart with a timeout; control topic | cage, wayland-tunnel and the application (spawn, sockets, signals); registry; Zenoh |
| stream registry (same file) | `/var/db/bsdos/streams.capnp` and its `.tmp` | load, save, add, remove, list | called by start (under the mutex) and stop (without it) |
| frame forwarder (`wayland_forwarder.rs`) | connection to the tunnel, per-connection cache, cache shared with a keepalive task | read packets, cache, publish, refresh before a commit, clear on disconnect; keepalive tick | tunnel socket; Zenoh viewers; aborted by stop_stream |
| input and resize handlers | one connection, subscriptions | forward events, run wlr-randr | tunnel, Zenoh |
| configuration | TOML, environment, `streams.conf` | resolve with precedence | main |
| `lifecycled` commands (`main.rs`, `zenoh_bridge.rs`, `jail_enum.rs`) | state map, priority map, guard flag | FREEZE, THAW, HIBERNATE, RESTORE, KILL, SET_PRIORITY, MEM_GUARD, queries | jail processes (signals), ZFS |
| memory monitor (`memory_monitor.rs`, `policy.rs`) | last pressure | a tick every 5 s that freezes, evicts or kills by pressure | the same maps and commands |
| `wlstream` | pools, surfaces, one frame, its damage | encode a payload; parse it; a handler per event; clamp and merge damage | a sender, a viewer |
| `bsdos-pkgd` | `.jpk` archive, jail roots | build, inspect, verify, install | files; the descriptor `jpk.toml` |
| `jpk-manager` | jail roots, `/etc/jail.conf.d`, ZFS datasets | install, uninstall | zstd, tar, jail, umount, zfs |
| `lifecycled` descriptors (`jpk_config.rs`) | map jail -> limits, read at start | load_zpids, parse_descriptor, load_descriptors | the same `jpk.toml` |
| `bsdos-run`, `machotool` | a temporary directory, the `--emit-jpk` file | check, extract, find the binary, read Info.plist and profile, derive the policy, resolve frameworks, emit a descriptor or exec the loader | `.ipa` archives, Mach-O files, the environment |

What makes these hard is concurrency without transactions. The stream manager
is called by three tasks and gives up its mutex for the seconds in which a
stream comes up; every command of `lifecycled` signals processes, runs zfs and
writes a map in separate steps, with any number of connections, a bridge and
the memory monitor doing so at once; the registry is rewritten by calls that
overlap; the keepalive shares a topic with the forwarder; package tools change
archive, roots and jail.conf file by file. Then there are the
failures: children that never bind their sockets or die, a start that fails
halfway or is dropped by a timeout, a daemon that dies and finds its children
still running, a power failure in the middle of a save, put errors, a process
table that cannot be read.

What makes each part correct:

* stream manager: a process group has one owner; an entry of the map leads to a
  group of its id; no error path forgets a running process; no task kills
  the children of another; operations return; dead streams are noticed;
* registry: the file is always one whole message; add and remove are atomic,
  also across errors and power failures; one entry per stream;
* forwarder: viewers never go back to an older frame; a late viewer is served;
* lifecycle: the state map tells the truth; Dead means that what was killed is
  gone; Hibernated means that there is a snapshot; no rollback under a process
  the command has seen; under lasting pressure background jails go; a guard that
  was lifted comes back;
* wlstream: no event is made of the bytes before a cut, and none is left out
  before the first unknown one; a frame shows what was drawn; redrawing the damage shows the whole frame;
* packages: success means done; what is unpacked was verified; a jail.conf
  stands for a complete root; the configuration of a jail is the one its
  descriptor states;
* bundles: what is believed of a bundle is what it says, in either format; the
  network is given as granted; a launch called viable is; no tree is left
  behind by a run that returns, none is removed under a loader that needs it.

## Modules

| module | role |
|---|---|
| `StreamManager` | the supervisor and the three tasks that drive it |
| `StreamManagerProofs` | theorems about it |
| `StreamRegistry` | the registry file, one step per file operation |
| `RegistrySpec` | what the registry promises; `StreamRegistry` implements it |
| `StreamRegistryProofs` | theorems about it, and that it implements `RegistrySpec` |
| `StreamForwarder` | forwarder and keepalive of a stream, over its incarnations |
| `StreamForwarderProofs` | theorems about it |
| `Lifecycle` | commands, bridge and memory monitor of lifecycled |
| `LifecycleProofs` | theorems about it |
| `WlStream` | encoder, wire, parser, compositor and a viewer |
| `WlStreamProofs` | theorems about it |
| `Option` | Rust's Option and Result, as sets of at most one element |
| `Descriptor` | `jpk.toml` as its two readers see it |
| `Packages` | the commands of the package tools; extends `Descriptor` |
| `PackagesProofs` | theorems about it |
| `PropertyList` | the readers of XML and binary property lists, bundle info, profiles |
| `MachO` | load commands, the deps report, its resolution in a bundle |
| `IpaRun` | a run of bsdos-run; composes `PropertyList`, `MachO`, `Descriptor` |
| `IpaRunProofs` | theorems about it |
| `PropertyFiles` | when a file of either format stores a document, a profile its entitlements |
| `PropertyTrees` | writers that make such files of trees, for TLC |
| `BundleFaithful` | what run_ipa believes of a bundle against the documents; extends `IpaRun`, `PropertyFiles` |
| `BundleReaderProofs` | lemmas about the readers of both formats and the walk over load commands |
| `MC...` | constants for TLC |

A definition marked *slip* in a comment is a plausible mistake in the code; it
is used by a mutant and by nothing else.

### StreamManager

`act[x]` is the operation that task `x` is executing ("main", "ctl" or "mon",
the monitor), a record of its phase and of the local variables that survive an
await: the stream, the config, the process group and the loaded registry.
start_stream is `StartCheck` (the lock is taken and released), `SpawnCage`,
`CageReady`, `TunnelReady`, `Insert`, `Persist` and the error exits
`CageSpawnFails`, `CageTimeout`, `TunnelSpawnFails`, `TunnelTimeout`,
`AppSpawnFails`. stop_stream is `StopRemove`, `StopNotFound`, `StopReap`,
`LoadRegistry`, `NotInRegistry`, `SaveRegistry`. A stretch of code without an
await is several steps only where a thread of another task can see the middle
of it. The map's mutex is `Locked`: the only step that ends with it held is
`Insert`, because start_stream writes the registry under it.

`procs[i][c]` is alive, zombie (exited, not waited for), adopted (alive, its
daemon gone) or none. For chrome the monitor uses pgrep and stop_stream pkill,
which do not tell streams apart: `AppDead` and `Killed`.

The forwarder, input and resize tasks of a stream are spawned and not awaited;
each returns when its publisher, subscriber or connection fails
(`wayland_forwarder.rs:53`, `stream_manager.rs:603`, `:694`), and nothing then
removes the entry. `tasks` is the set of groups one of whose tasks has not
ended, and `TasksEnd` ends them at any time: no property of the supervisor
rests on them, and none claims that they run.

A boot reads the autostart list, else the registry. `AutostartTimeout` drops
the future of start_stream at an await: the children stay, nobody owns them.
`Crash` loses the map and the tasks and keeps processes, directories, sockets
and registry. That the readiness file names the streams, telemetry and logging
are left out.

### StreamRegistry and RegistrySpec

A call is load, `Create` of `.tmp` (a new inode, or the old one truncated),
two writes, `SyncAll`, `Rename`, with an error possible at each. A power
failure loses any part of what was not synced and may undo a rename, as the
directory is never synced. `RegistrySpec` has four steps: add, remove, write
back, power failure. The refinement maps the registry to the contents of the
inode its path names. It holds for calls that do not overlap (`rg_single`).
`CallAdd` waits for other adds, as start_stream calls it under the mutex.

### StreamForwarder

An incarnation is one forwarder task and the keepalive it spawns. Frames of a
pool are numbered in the order in which tunnels send them, `shown[p]` is the
last one put, `waiting` the pools a new viewer has nothing of. The mutex of the
shared cache is the variable `lock`; the forwarder holds it within a step, the
keepalive over all the puts of a tick. A commit on a cached pool may or may not
find it 3 s old. Packets too short for their type are "other" packets.

### Lifecycle

`op[x]` is the command that task `x` executes: a connection, the bridge or the
monitor; all of them may act on every jail. `proc[j][p]` is the state of process
slot `p` of jail `j`: running, stopped or none. signal_jail_pids is
`ListPids`, which reads the process table once, and then a step `Signal` for
each process listed; a process that has exited by then is not reached. Between
any two of these steps the jail's processes exit and new ones start
(`ProcessEnds`, `ProcessStarts`): nothing in the code makes a fork, a jexec or
a jail(8) wait for lifecycled, so `ProcessStarts` has no guard but its bound,
`MaxStarts`. `Flaky` jails are those whose process table may fail to be read.

Three parts of the state are there for the properties alone. `late[j]` are the
processes that have started after the command which wrote the state of `j` had
listed its own; no command can have reached them. `fresh` is the same for a
command in progress. `mixed` are the jails whose state was written by a command
that another one overlapped (`alone` follows a command until it writes).

`data` and `snap` are versions of a jail's dataset and of its newest hibernate
snapshot. The monitor's tick reads the free memory, sorts the candidates (any
order sort_by may give equal ones) and reads the guard once, `MonitorTick`; it
then looks at one candidate after the other, `MonitorNext`, against the state and
the priority it finds by then.

### WlStream

The n-th drawing of an application paints colour n, on the part of its canvas
that the commit calls damaged, so a stale pixel anywhere tells which drawing it
is from. A payload is its events with their sizes in bytes: the transport may
lose it or cut it at, before or inside any event. Pool data may be raw, LZ4,
LZ4 that does not decode or is short, or LZ4 of exactly raw_len bytes, which
handle_pool_data takes for raw. A buffer has an offset and padded rows. One step
of the viewer is one call of a handler; `Redraw` is a viewer that merges the
damage of all commits since its last redraw and copies that part, as the
library's documentation describes. `viewer.gap` records that something which
was needed is missing, and is what DisplayCurrent excuses. Encoding is confined
to an empty wire, as it commutes with everything the viewer does.

### Descriptor and Packages

The contents of a file are the release it comes from. An archive has the members
that were `changed` since it was built, the members its manifest has `listed` and
whether the bytes of those `fit` the hashes: run_verify accepts an archive that
is whole and fits, since it compares the files the manifest lists and no others,
and only prints whether a signature is there. `Repack` replaces a member under
the old manifest; `RepackManifest` also writes the manifest anew, listing any of
the members. The two tools share
nothing (formats and roots differ), so only commands of one tool overlap. A
command is a record with its place in the code, the archive it has read and the
files it has still to unpack; `over` and `torn` record overlapping commands and
interrupted upgrades, which the properties exclude because the code makes no
provision for them. A developer may edit the source directory under a build,
somebody may repack an archive, any command may fail or be killed at any step.
A jpk-manager that is killed while it unpacks leaves zstd and tar at work: its
command becomes an `Orphan`, which goes on unpacking file by file until it is
through or ends (`OrphanEnds`).
`LoadDescriptors` is lifecycled at its start; load_descriptors returns a set of
maps, one per order in which a HashMap may be walked; when zpids.conf cannot be
read the map is empty, without the built-in configurations.

### PropertyList, MachO and IpaRun

A property list is a tree; XML is the sequence of its trimmed lines and a binary
list its table of objects, so that both readers work on what they really scan.
What a file is meant to say is a document, a tree, and `PropertyFiles` defines
when a file stores it. Beside the bytes the readers look at, a file carries the
key to its layout, which no reader sees: for XML the line of each entry of the
root (`at`), for a binary file the tree of every object that has one (`trees`),
for a profile also the end and the entries of its entitlements (`close`,
`inner`). `BundleFaithful` compares what run_ipa believes with the documents,
with the exceptions the line scan of plist.rs needs: a key that is spelled in two
places, an entity, an array inside the list of capabilities (`PlainText`); for
the network also a value on the line of its key and an Entitlements that is no
dictionary in full (`NetworkMisread`). `PropertyTrees` makes such files for TLC:
`Encode` and `Lines` are what writers of the two formats produce, the latter in
three layouts. They are recursive operators, and no proof module reaches them.

An image is a function from offsets to load commands, zeroes elsewhere, so that a
wrong cmdsize leads the walk to where it would lead in a file. The deps report is
the set of its lines, each with its place (`Precedes` is the order of printing).

run_ipa is one step per call that can fail; `End` drops the temporary directory,
as returning does; `Exec` and `Killed` do not. `AppExits` is the end of the
application that has replaced a run, which removes nothing.

The caller's environment is any set of entries of `HostVars`, pairs of a name and
a value: a name may occur twice, a value may not be Unicode (std::env::vars then
panics), and the names are those build_dyld_env sets, loader variables it does
not set, such as DYLD_INSERT_LIBRARIES, and any other. merge_env replaces the
former and keeps the rest. Budgets and limits come from the
code except `Budget`, which is 12 instead of 256.

## Runs

Bounds are on commands, deaths, failures and versions; each is a constant with
a guard, and none is on the number of steps.

| run | instance | result |
|---|---|---|
| `sm_core` | two streams, one a chrome; autostart of the terminal, one control start of either and one stop, one death of a process or end of tasks, two groups; fair | invariants, leaks, kills; operations return, main ready, dead streams noticed |
| `sm_restart` | registry with both streams, two configs of the browser, one start, one stop, one crash anywhere, three groups, symmetric | ownership and registry across a crash |
| `sm_duplicate` | control start during the autostart of the same stream | *violated*: the second insert overwrites the first |
| `lc_races` | two connections, bridge and monitor on one jail with two process slots; three commands, one start of a process, every level of pressure | what Dead, Hibernated and a rollback mean under every race |
| `lc_status` | a connection, bridge and monitor share a sound and a flaky jail; two commands, a start of a process, a restart of the daemon | what the map says after a command no other overlapped |
| `lc_oom` | two jails shared by bridge and monitor, a process that starts, always OOM; fair | background processes go, the guard returns |
| `rg_single` | one call at a time, three calls, two power failures | the file is always readable; implements `RegistrySpec` |
| `rg_torn` | an add and a remove overlap | *violated*: a truncated file is renamed over the registry |
| `fw_once` | one incarnation, two pools, three frames; fair | frames advance, cache is current, late viewers are served |
| `ws_frames` | two surfaces with pools of both formats and codings, two sizes, damage inside, across, outside and empty; faults | events are whole and in order, damage stays within the frame, frames and displays are faithful |
| `pk_tools` | two processes, two releases of one application and one of another, three commands, two faults or repackings, symmetric | success, jail.conf, verification and loaded configurations mean what they say |
| `ipa_run` | about a hundred bundles, each ordinary but in one respect, all flags, two runs | temporary directories, bundle info, network, descriptor, dependencies, loader paths |

Seven configurations are kept beside the runs, each a counterexample that TLC
finds to what a comment or a document of the code says; see "Disagreements":

| cfg | module | property TLC reports as violated |
|---|---|---|
| `lc_rollback` | MCLifecycle | RollbackOnlyKilled, when a process starts between the count of a RESTORE and the rollback |
| `lc_evict_stall` | MCLifecycle | CriticalFreesRam, with two ranked jails under lasting CRITICAL pressure |
| `ws_reset` | MCWlStream | ResetClears, as the parser drops a SESSION_RESET |
| `pk_repacked` | MCPackages | PayloadAsBuilt, with a manifest that was rewritten, too |
| `ipa_tempdir` | MCIpaRun | TempCleaned, when the application of a run has exited |
| `fw_restart` | MCStreamForwarder | FramesAdvance, over two incarnations of a stream |
| `ipa_budget` | MCIpaRun | NestingOnly, with a flat dictionary of 13 objects and a budget of 12 |

Why the bounds are enough to meet the interesting cases: `sm_core` has all
three tasks inside start_stream or stop_stream of one stream at once (the
autostart, the control command, a restart by the monitor), and process groups
left behind by a dropped future; a second control start adds only longer
sequences. One crash suffices for adopted children, as the state after a second
differs in nothing that the code can see. In `lc_races` three commands from two
connections and the bridge give every pair and triple of commands with all
their interleavings, plus the monitor's eviction; with two slots one process may
start while another is listed or signalled. `lc_status` has the restart, which
only matters to what the map has forgotten, and two commands: one that writes
the map alone, one that overlaps or follows it. Three frames over two pools
let a cached, a waiting and a published frame of a pool coexist with a second
pool in the same tick. Registry calls beyond the third meet no new kind of
`.tmp` file. `ws_frames` has room for a whole drawing, a partial one and
a fault or another event between, before and after them, on one surface or two:
enough for every pair of damages to be merged and for a lost one in between. In
`pk_tools` an install, its upgrade or removal, and one command that overlaps or
is cut off by one of two faults fit into three commands. The bundles of
`ipa_run` vary one aspect at a time, since the steps that read the aspects do
not share state; two runs show what the first leaves for the second.

Deadlock is checked but for the registry, wlstream, the packages and bsdos-run,
which have nothing to do when no call, event or command arrives.

### Fairness

The runtime polls every task that is ready, so the steps of an operation in
progress are weakly fair; so are the ticks of the monitors and the guard's
timers, which the runtime's clock fires. Polls for a socket end after twenty
tries, zfs commands are assumed to return. Nothing is assumed of children,
clients, tunnels, crashes or the opening of the Zenoh session. In
`StreamForwarder` a put of the keepalive that is tried again and again succeeds
at last (strong fairness of `KeepalivePut`): with puts that fail for ever no
viewer can be served.

## Proofs

The eight proof modules argue over arbitrary sets of streams, configs, process
groups, jails, connections, inodes, pools, releases, archives and so on, and
arbitrary bounds, from the named ASSUMEs of the modules alone: 33 theorems listed
in `PROJECT.json`, of every invariant and action property of the passing runs;
what is left to TLC is liveness (last paragraph). Three theorems have a hypothesis about the behaviour,
`Spec /\ []H => ...`, because the code keeps the promise only then; for each
there is a configuration in which H fails and TLC violates the property, and a
run in which H holds, so it is neither idle nor unsatisfiable.

`StreamManagerProofs`. SoleOwner is not inductive: that a start which inserts
its group does not create a second owner needs to know which phases carry a
group (TypeOK), that the group of a start is of its own config (OpContext) and
that entries lead to groups of their stream (`EntriesOwn`, for the monitor,
which restarts from the config it read there). The inductive invariant `IInv`
is the conjunction of the four; there is one lemma per conjunct, with one case
per action. RegistryUnique is inductive relative to it, over the registry and
over every copy an unlocked remove has loaded. NoSilentLeak and OnlyOwnerKills
are step properties: an action that lets go of a group either has its children
killed, is the autostart timeout, or overwrites an entry; and a process that
stops running has died by itself or by the task at work on its stream (or by
pkill, of chrome streams).

`LifecycleProofs` assumes nothing of the tasks, which all share all jails, and
nothing of when processes start. DeadIsGone needs that what a kill leaves
behind, whatever the other tasks do, is on its list still or has started since;
the same of a RESTORE that has reached no process; and that a snapshot that was
taken does not disappear before Hibernated is written (`PhaseFacts`). From that
follow DeadStaysGone, HibernationBacked and NoRollbackUnderProcess, under all
races. MapTruthful proves StatusTruthful: what FREEZE and HIBERNATE know of the
running processes they know only while they are alone on the jail
(`AloneFacts`), and what they have written then stays true, unless a jail is
being resumed (`TruthKept`).

`StreamRegistryProofs`. TypeOK holds under any overlap. AlwaysReadable and the
refinement of `RegistrySpec` are proved for behaviours in which no two calls
overlap (`Serialised`); stop_stream calls remove without the mutex, so the code
does not ensure it, and `rg_torn` shows what comes of it. The invariant follows
a call through its two writes and the fsync (`CallProgress`), knows that neither
the registry nor what the disk may fall back to is the file being written
(`Apart`), and, for the refinement, that the copy about to be renamed was made
from the registry that is still there (`CopyCurrent`). A rename is then an
atomic add, remove or write-back; every other step but a power failure is a
stutter.

`StreamForwarderProofs`. CacheCurrent speaks of the moments between packets;
`CacheInv` says at each await what the shared cache, the forwarder's own and the
frame in hand have to do with each other. FramesAdvance is proved while at most
one incarnation may still put something (`OneTalker`), from `Newest`: what a
talking task may put is not older than what viewers have. A single start has one
incarnation and needs no hypothesis (`NoFallbackOnce`, which is `fw_once` for any
number of pools and frames); stop_stream forgets the keepalive, and `fw_restart`
shows that OneTalker is needed then.

`PackagesProofs`. `Base` says what each command knows at its place in the code;
VerifiedPayload and ConfigsLoaded follow from it. SuccessMeansDone needs `Held`: a
command that had its root to itself finds there what it has put there, since
whoever touches a root marks the commands beside it as overlapped. ConfMeansFiles
needs in addition that of two commands which have both touched a root both know
of the overlap (`OverlapKnown`), that a first install and a removal past
jail.conf have none to leave behind (`NoConf`), and that a jail.conf without its
files has a command, or what a killed one left at work, on it or is reported as
torn (`Guarded`). ConfigsLoaded makes an exception of built-in configurations that a
descriptor happens to state as well; the proof attempt showed that they occur.

`WlStreamProofs`. `FrameInv` relates one drawing, its payload, the events
received, the pools and the frame; it gives NoTornEvent, DamageWithin and
FrameFaithful. Under it are lemmas about the arithmetic, for every 16-bit size:
clamp_damage covers exactly what the damage covers of the surface, merge_damage
covers both, with saturation. DisplayCurrent needs `DisplayInv`, which chains
every commit of a surface under way to the one before (`Linked`), the first to
what the frame shows and the last to what the application has drawn, and keeps
what the viewer does not show inside the damage it holds (`Tracked`). Its parts
were checked by TLC on the instance of `ws_frames` before they were proved. The
sums and the scan of parse_events are recursive functions over Nat; what they
compute is proved by an induction over sets of numbers (`LeastNat`), which needs
no operator as a parameter.

`BundleReaderProofs` has no theorem about a behaviour: it says what the readers
compute, for every file. The line scan finds under a key what the root
dictionary has there, if the key is spelled once (`ScannedInfoIs`); cutting the
Entitlements out of a profile gives that dictionary, to its own end
(`IsolatedIs`, `NetworkIs`). Of a binary file `BinaryIs` proves that parse_bplist
returns the document or an error, whatever the object table looks like, shared
or circular references and bad objects included: parse_object, with its budget,
can return only the tree of the object (`BodySound`). Of an image whose header
counts the commands that are in it (`Counted`), `ThinIs` proves that parse_thin
lists all of its dylibs and rpaths or fails: the offsets it visits grow, none of
them is in the zeroes between commands, where a cmdsize of 0 would be refused,
and so they are as many different commands as there are. parse_object, its loops
and the walk are functions defined by recursion; that they exist, and what they
are, is proved by an induction over sets of numbers, like that of
`WlStreamProofs`. The attempt showed that `Decoded` had a CASE whose arms
overlapped for a container with a bad child, of which TLC takes the first and a
prover any; the arms are now disjoint.

`IpaRunProofs` proves all six invariants of bsdos-run. The first invariant adds
to each step of run_ipa what the run knows there: its arguments (`Chosen`), that
a run with --emit-jpk never comes to the steps that start the application
(`NotEmitting`), that the binary is the one read_bundle_executable names
(`Found`) and that the bundle is what the one Info.plist says (`Parsed`). With
it, DescriptorUsable holds for every document in either format: the two readers
agree on the executable (`ExecutableIs`) and every check of bsdos-pkgd passes on
what ipa_to_jpk_descriptor writes (`DescriptorAccepted`). ViableHonest needs
that nothing is said of the dependencies before the plan is printed (`Unreported`) and
what a resolution finds (`ResolutionHonest`).
InfoFaithful and NetworkAsGranted rest on `BInv`, which says of every belief
where it was read: the bundle in Info.plist (`Informed`), the policy in the
readable profile or, without one, in the bundle (`Decided`), the network of the
descriptor in the policy (`Written`). All of these were checked by TLC on the
instance of `ipa_run` before they were proved. The assumptions on constants: a
bundle has at most one Info.plist, which stores its document, and at most one
profile, which signs its own if it is readable at all; the headers of images
count what is in them; `Trimmed` is given for the identifiers that occur; no
entity stands in the name `arm64`. TLC evaluates them on about a hundred bundles,
among them all that the properties make exceptions of.

Only model-checked: the liveness properties OpsFinish, MainReady, DeadNoticed,
OomClears, GuardReturns, LateJoinerServed, since fairness and ENABLED are beyond
the prover. That the writers of `PropertyTrees` produce files as `PropertyFiles`
describes them is checked as an assumption by TLC too, an induction over trees
being beyond the prover.

## Disagreements between code and documents

Two are runs (`sm_duplicate`, `rg_torn`), see "findings" in `PROJECT.json`; the
next seven have a configuration of their own:

* `lifecycled/src/main.rs:269` (`lc_rollback.cfg`): restore_application counts
  the processes its SIGCONT has reached and rolls back two zfs commands later; a
  process that has started by then runs on a file system that is rolled back
  under it, while `:219-220` says that a rollback is for processes that were
  killed ("Если убиты: zfs rollback + сигнал перезапуска entry-point").
* `wlstream/src/parser.rs:82` (`ws_reset.cfg`): an unknown event, SESSION_RESET
  among them, ends the parse, and the compositor keeps the pools and surfaces of
  the session that ended; `wlstream/spec/WAYLAND_STREAM_PROTOCOL.md:87` says
  "Client **must** clear all caches", `:116` the same, and `:114` wants unknown
  events skipped. NoTornEvent therefore claims nothing of whole events behind an
  unknown one. The Encoder has no function for a reset; in the model it is one
  of the events a sender may put into a payload.
* `bsdos-pkgd/src/verify.rs:67` (`pk_repacked.cfg`): the files the manifest lists
  are compared and no others, and nothing checks the signature: a manifest that
  was rewritten lets any payload in.
  `docs/specs/SPEC_jpk_descriptor_v1.md:298-299` demands a valid signature over
  `jpk.toml + payload.tar` and that every file's hash matches.
* `bsdos-run/src/main.rs:305` (`ipa_tempdir.cfg`): after a successful exec nothing
  removes the temporary directory, not even the end of the application, while
  `:60-61` says "cleaned up automatically on process exit".
* `memory_monitor.rs:233` (`lc_evict_stall.cfg`): a CRITICAL tick looks at the
  first candidate only, and an evicted jail stays first, so no other is ever
  evicted, while `:20` says "реально освобождает RAM".
* `wayland_forwarder.rs:72` (`fw_restart.cfg`): the keepalive's handle is not
  kept; stop_stream aborts the forwarder alone, and the keepalive goes on
  putting old frames, also over those of the next stream of that id, while
  `:174` says "so stale data isn't republished".
* `bsdos-run/src/bplist.rs:244` (`ipa_budget.cfg`): the budget is taken by every
  object and never given back, so it bounds objects, not nesting: 128 flat
  entries are "nesting too deep", while `:127` says "recursion is depth-limited".

Others, seen in the source while modelling, each reachable in the models but for
that about limits:

* `stream_manager.rs:349`: monitor_loop has taken a dead stream out of map and
  registry when its only restart attempt fails; the stream is not tried again,
  while line 307 says "restart the stream if any component died".
* `stream_manager.rs:219` and `:326`: pkill and pgrep by user name make chrome
  streams of one user share their fate, while the two-stream specification says
  "the streams never collide" (`docs/specs/SPEC_2stream_squirrel.md:29`).
* `memory_monitor.rs:239`: an eviction under CRITICAL pressure ends Dead, which
  restore_application refuses, although the snapshot is "для rollback" (`:228`).
* `memory_monitor.rs:216`: the WARN branch freezes only jails that the state
  map calls Running; one known from its descriptor alone is in no map.
* `memory_monitor.rs:188`: the guard is read once per tick, so MEM_GUARD off
  does not stop the kills of a tick that has begun.
* `lifecycled/src/main.rs:466`: the timer of one MEM_GUARD off also ends a later
  one, which was promised five minutes (`:471`).
* `memory_monitor.rs:97`: the percentage is truncated, so 5.0 to 5.9 % is Oom
  where the comment at `:86` says Critical.
* `lifecycled/src/main.rs:158`: commands signal first and write the map
  afterwards, with nothing holding the two together: after overlapping commands
  (STOP, CONT, Running, Frozen) the map may call a running jail Frozen, while
  `:62` says "SIGSTOP — в RAM, 0% CPU". StatusTruthful is about commands that no
  other overlaps (`mixed`).
* `lifecycled/src/main.rs:230` and `:333`: a jail not in the map is Dead for
  RESTORE and Running for STATUS, so after a restart of the daemon a stopped
  jail can be thawed but not restored.
* `wlstream/src/compositor.rs:112`: LZ4 data that happens to be raw_len long is
  shown as pixels.
* `wlstream/src/compositor.rs:203`: all surfaces share one frame; when another
  one takes it over, the damage of its commit does not cover what changed.
* bsdos-pkgd and jpk-manager both call their archives `.jpk` and read different
  formats, neither that of the other.
* `bsdos-pkgd/src/install.rs:68`: an upgrade unpacks over the old release, whose
  files stay, and a failure leaves both; the descriptor specification promises
  an "atomic swap" (`docs/specs/SPEC_jpk_descriptor_v1.md:270`).
* `jpk-manager/src/manager.rs:40`: an upgrade that is cut off leaves the old
  jail.conf over a mixed root.
* `lifecycled/src/jpk_config.rs:44`: the limits are optional for bsdos-pkgd and
  required here, and `max_cpu_percent` is a u8, so a descriptor that was
  accepted may not load. The descriptor `--emit-jpk` writes has no limits and
  cannot be loaded either.
* `lifecycled/src/main.rs:546`: the memory and CPU limits of a descriptor are
  printed and applied to nothing; only the priority is used. `jpk_config.rs:5`
  and `docs/specs/SPEC_jpk_descriptor_v1.md:128-130` speak of limits that are
  enforced. There is no run for it: the code has no state in which a limit could
  be in force, and the model none either; ConfigsLoaded is about the loaded map.
* `bsdos-run/src/plist.rs:10`: "Both paths converge", yet the XML scan takes keys
  of nested dictionaries, keeps entities as they are and the first of two equal
  keys, where the binary reader keeps the last.
* `bsdos-run/src/mobileprovision.rs:184`: after `<key>Entitlements</key><dict/>`
  the next dictionary of the profile, whatever it is, is read as entitlements.
* `bsdos-run/src/ipa.rs:114`: without CFBundleExecutable the binary is the name
  of the directory, while the descriptor's entrypoint is "AppBinary".
* `bsdos-run/src/jpk.rs:127`: identifiers with the same last label get the same
  jail name, and load_descriptors keeps one of them.
* `bsdos-run/src/frameworks.rs:284`: of a library that one slice needs and an
  earlier one names as weak, only the weak line counts, so a launch may be
  called viable that is not.

## Not modelled

* Contents of messages, encodings and log lines where no property depends on
  them: a registry is whole or torn, a forwarded frame is a number, a hash is
  equality, a string is a value. The lengths, offsets and pixels of wlstream and
  the layout of property lists and load commands are modelled.
* The input and resize handlers (one connection, forward or drop; a clamp of
  two numbers) and the reading of configuration (precedence and string
  handling): sequential code whose model would only restate it.
* is_v1_protocol, machotool's arch command, `--jail`, the text printed by
  inspect and dry runs: they decide nothing.
* STATUS, LIST, MEM_STATUS, HELP, the list command and the health text: they
  change nothing (health_snapshot reaps children, and that is an action).
* setup_zfs_swap, the ZSTD pool that the daemon creates and never uses, HAL
  telemetry: no state shared with anything modelled.
* Variables that no inherited environment in the model has: of the loader's own,
  one that build_dyld_env does not set stands for all of them.
* cage, wayland-tunnel, ZFS, jails, the viewer: external, as the code uses them.
* Infrastructure scripts, recipes, documents.

## Plan

1. StreamManager, its checks and proofs. Done.
2. Lifecycle, its checks and proofs. Done.
3. StreamRegistry against RegistrySpec, its checks and proofs. Done.
4. StreamForwarder, its checks and proofs. Done.
5. WlStream, its checks and proofs of all four invariants. Done.
6. Packages and Descriptor, their checks and proofs. Done.
7. PropertyList, MachO and IpaRun, their checks and proofs of all six
   invariants. Done.
8. A composition of StreamManager and StreamForwarder, in which Abort and Start
   are the steps of stop_stream and start_stream.
