--------------------------- MODULE StreamManager ---------------------------
(***************************************************************************)
(* The stream supervisor of bsdos-core (bsdos-core/src/stream_manager.rs   *)
(* and the tasks that drive it in bsdos-core/src/main.rs).                 *)
(*                                                                         *)
(* A stream is three child processes (the cage compositor, the tunnel and  *)
(* the application), three tokio tasks (forwarder, input, resize), a       *)
(* runtime directory with the sockets that the children bind, an entry of  *)
(* the map StreamManager::streams and an entry of the registry file.       *)
(* Three tasks of the multi-threaded runtime call the manager at the same  *)
(* time: "main" (autostart or restore, then the health loop), "ctl" (the   *)
(* Zenoh control subscriber) and "mon" (monitor_loop).  Each of them runs  *)
(* at most one start_stream or stop_stream, so an operation in progress is *)
(* the record act[x]; it is cut into one action per stretch of code that   *)
(* no other task can observe half done.                                    *)
(*                                                                         *)
(* Simplifications:                                                        *)
(*  - the map's mutex is held across steps only while start_stream writes  *)
(*    the registry, so it is the derived predicate Locked;                 *)
(*  - a process group is a slot of Inst, reused once nothing is left of    *)
(*    it; a spawn with no free slot is a spawn that fails;                 *)
(*  - the polls for a socket are one step that sees it or gives up;        *)
(*  - the three tasks of a stream end one by one; TasksEnd is the end of   *)
(*    the last of them;                                                    *)
(*  - saving the registry is atomic here; StreamRegistry looks inside.     *)
(***************************************************************************)
EXTENDS Naturals, FiniteSets

CONSTANTS
    Apps,         \* stream ids (app_id)
    Configs,      \* StreamConfig values
    AppOf,        \* the app_id of each config
    Chrome,       \* configs whose app is chrome or chromium, run by one user
    Autostart,    \* what streams.conf / BSDOS_AUTOSTREAM resolves to
    Registry0,    \* the registry file found at the first boot
    Inst,         \* slots for process groups
    None,         \* absent value
    MaxStarts, MaxStops,  \* bounds on control commands
    MaxDeaths,            \* bound on processes and tasks that end by themselves
    MaxCrashes            \* bound on crashes of the daemon

ASSUME ConstantsAssumption ==
    /\ None \notin Apps \cup Configs \cup Inst
    /\ AppOf \in [Configs -> Apps]
    /\ Chrome \subseteq Configs
    /\ Autostart \subseteq Configs
    /\ Registry0 \subseteq Configs
    /\ \A c, d \in Registry0 : AppOf[c] = AppOf[d] => c = d
    /\ MaxStarts \in Nat /\ MaxStops \in Nat
    /\ MaxDeaths \in Nat /\ MaxCrashes \in Nat

VARIABLES
    streams,   \* StreamManager::streams: app_id -> process group
    cfgOf,     \* the config each process group was started with
    procs,     \* procs[i][c]: component c of process group i
    tasks,     \* process groups with a tokio task that has not ended
    rundir,    \* streams whose runtime directory exists
    socks,     \* <<app, "wl">> / <<app, "st">>: socket files that exist
    registry,  \* the registry file (a set: its order is never used)
    act,       \* act[x]: the operation task x is executing
    todo,      \* configs task x has still to start (main) or restart (mon)
    used       \* how much of each bound has been spent

vars == <<streams, cfgOf, procs, tasks, rundir, socks, registry, act, todo, used>>

-----------------------------------------------------------------------------
Actors == {"main", "ctl", "mon"}

Comp == {"cage", "tunnel", "app"}

\* "zombie": exited, not yet waited for.  "adopted": alive, but the daemon
\* that spawned it is gone.  "none": never spawned, or gone and reaped.
Status == {"none", "alive", "zombie", "adopted"}

Running(s) == s \in {"alive", "adopted"}

NoProcs == [c \in Comp |-> "none"]

PCs == {"boot", "resolve", "idle", "ready",
        "check", "spawn", "waitCage", "waitTunnel", "insert", "persist",
        "remove", "reap", "loadReg", "saveReg"}

OpWith(pc, app, cfg, i) ==
    [pc |-> pc, app |-> app, cfg |-> cfg, inst |-> i, reg |-> {}]

Op(pc, app, cfg) == OpWith(pc, app, cfg, None)

Idle == Op("idle", None, None)

RestartBlank(x) ==      \* slip: the restart forgets which config it was
    IF x = "mon" THEN Op("check", act[x].app, None) ELSE Idle

\* What a task does when stop_stream returns: the monitor sleeps one second
\* and starts the stream again from the config it saw, the others are done.
AfterStop(x) ==
    IF x = "mon" THEN Op("check", act[x].app, act[x].cfg) ELSE Idle

\* start_stream holds the mutex of the map while it rewrites the registry.
Locked == \E x \in Actors : act[x].pc = "persist"

Supervised(i) == \E a \in Apps : streams[a] = i

Held(i) == Supervised(i) \/ \E x \in Actors : act[x].inst = i

Free(i) == procs[i] = NoProcs /\ i \notin tasks /\ ~Held(i)

IsChrome(i) == cfgOf[i] \in Chrome

\* Slip: the children of every stream with the same id, as pkill by name would.
KilledByName(i, S) ==
    [j \in Inst |-> [c \in Comp |->
        IF c \in S /\ cfgOf[j] # None /\ AppOf[cfgOf[j]] = AppOf[cfgOf[i]]
        THEN "none" ELSE procs[j][c]]]

\* Child::kill on the children of i, and, for chrome, pkill -f on every
\* browser of that user, whichever stream it belongs to.
Killed(i, S) ==
    [j \in Inst |-> [c \in Comp |->
        CASE j = i /\ c \in S -> "none"
          [] c = "app" /\ c \in S /\ IsChrome(i) /\ IsChrome(j) -> "none"
          [] OTHER -> procs[j][c]]]

\* try_wait on the children of the supervised streams reaps the zombies.
Reaped ==
    [i \in Inst |-> [c \in Comp |->
        IF Supervised(i) /\ procs[i][c] = "zombie" THEN "none" ELSE procs[i][c]]]

\* The monitor's verdict.  For chrome the child is only a launcher, so the
\* monitor asks pgrep whether the user runs any browser at all.
AppDead(i) ==
    IF IsChrome(i)
    THEN \A j \in Inst : IsChrome(j) => ~Running(procs[j]["app"])
    ELSE procs[i]["app"] # "alive"

Dead(i) == \/ procs[i]["cage"] # "alive"
           \/ procs[i]["tunnel"] # "alive"
           \/ AppDead(i)

\* add_to_registry and remove_from_registry on a loaded copy.
Without(reg, a) == {c \in reg : AppOf[c] # a}
PushOnly(reg, cfg) == reg \cup {cfg}      \* slip: push without retain
Upsert(reg, cfg) == Without(reg, AppOf[cfg]) \cup {cfg}

-----------------------------------------------------------------------------
Init ==
    /\ streams = [a \in Apps |-> None]
    /\ cfgOf = [i \in Inst |-> None]
    /\ procs = [i \in Inst |-> NoProcs]
    /\ tasks = {}
    /\ rundir = {}
    /\ socks = {}
    /\ registry = Registry0
    /\ act = [x \in Actors |-> IF x = "main" THEN Op("boot", None, None) ELSE Idle]
    /\ todo = [x \in Actors |-> {}]
    /\ used = [starts |-> 0, stops |-> 0, deaths |-> 0, crashes |-> 0]

Booted == act["main"].pc # "boot"

-----------------------------------------------------------------------------
(* The main task. *)

\* The Zenoh session is open: the control and monitor tasks are spawned.
OpenSession ==
    /\ act["main"].pc = "boot"
    /\ act' = [act EXCEPT !["main"] = Op("resolve", None, None)]
    /\ UNCHANGED <<streams, cfgOf, procs, tasks, rundir, socks, registry, todo, used>>

\* Autostart list if there is one, else the persisted registry.
Resolve ==
    /\ act["main"].pc = "resolve"
    /\ act' = [act EXCEPT !["main"] = Idle]
    /\ todo' = [todo EXCEPT !["main"] =
                   IF Autostart # {} THEN Autostart ELSE registry]
    /\ UNCHANGED <<streams, cfgOf, procs, tasks, rundir, socks, registry, used>>

\* Slip: the list is restored again from the start after each stream.
StartNextForever ==
    /\ act["main"].pc = "idle"
    /\ \E cfg \in todo["main"] :
          act' = [act EXCEPT !["main"] = Op("check", AppOf[cfg], cfg)]
    /\ UNCHANGED <<streams, cfgOf, procs, tasks, rundir, socks, registry, todo, used>>

\* The next config of the autostart or restore list is started.
StartNext ==
    /\ act["main"].pc = "idle"
    /\ \E cfg \in todo["main"] :
          /\ act' = [act EXCEPT !["main"] = Op("check", AppOf[cfg], cfg)]
          /\ todo' = [todo EXCEPT !["main"] = @ \ {cfg}]
    /\ UNCHANGED <<streams, cfgOf, procs, tasks, rundir, socks, registry, used>>

\* The list is done: the readiness file is written, the telemetry loop runs.
Ready ==
    /\ act["main"].pc = "idle"
    /\ todo["main"] = {}
    /\ act' = [act EXCEPT !["main"] = Op("ready", None, None)]
    /\ UNCHANGED <<streams, cfgOf, procs, tasks, rundir, socks, registry, todo, used>>

HealthSnapshot ==
    /\ act["main"].pc = "ready"
    /\ ~Locked
    /\ procs' = Reaped
    /\ UNCHANGED <<streams, cfgOf, tasks, rundir, socks, registry, act, todo, used>>

\* The 20 s timeout around an autostart drops the future at an await: the
\* Child values are dropped without a kill, the task handles detached.
AutostartTimeout ==
    /\ Autostart # {}
    /\ act["main"].pc \in {"check", "waitCage", "waitTunnel", "insert"}
    /\ act' = [act EXCEPT !["main"] = Idle]
    /\ UNCHANGED <<streams, cfgOf, procs, tasks, rundir, socks, registry, todo, used>>

-----------------------------------------------------------------------------
(* The control subscriber. *)

CtlStart(cfg) ==
    /\ Booted /\ act["ctl"].pc = "idle"
    /\ used.starts < MaxStarts
    /\ used' = [used EXCEPT !.starts = @ + 1]
    /\ act' = [act EXCEPT !["ctl"] = Op("check", AppOf[cfg], cfg)]
    /\ UNCHANGED <<streams, cfgOf, procs, tasks, rundir, socks, registry, todo>>

CtlStop(a) ==
    /\ Booted /\ act["ctl"].pc = "idle"
    /\ used.stops < MaxStops
    /\ used' = [used EXCEPT !.stops = @ + 1]
    /\ act' = [act EXCEPT !["ctl"] = Op("remove", a, None)]
    /\ UNCHANGED <<streams, cfgOf, procs, tasks, rundir, socks, registry, todo>>

-----------------------------------------------------------------------------
(* The monitor. *)

\* Slip: the tunnel's exit status is never looked at.
MonitorScanBlind ==
    /\ Booted /\ act["mon"].pc = "idle" /\ todo["mon"] = {}
    /\ ~Locked
    /\ procs' = Reaped
    /\ todo' = [todo EXCEPT !["mon"] =
                  {cfgOf[streams[a]] : a \in {b \in Apps :
                      /\ streams[b] # None
                      /\ procs[streams[b]]["cage"] # "alive" \/ AppDead(streams[b])}}]
    /\ UNCHANGED <<streams, cfgOf, tasks, rundir, socks, registry, act, used>>

\* Under the lock: reap, and collect the dead streams with their configs.
MonitorScan ==
    /\ Booted /\ act["mon"].pc = "idle" /\ todo["mon"] = {}
    /\ ~Locked
    /\ procs' = Reaped
    /\ todo' = [todo EXCEPT !["mon"] =
                  {cfgOf[streams[a]] : a \in {b \in Apps : /\ streams[b] # None
                                                           /\ Dead(streams[b])}}]
    /\ UNCHANGED <<streams, cfgOf, tasks, rundir, socks, registry, act, used>>

\* The next dead stream: stop it by name, whatever runs under it by now.
MonitorRestart ==
    /\ act["mon"].pc = "idle"
    /\ \E cfg \in todo["mon"] :
          /\ act' = [act EXCEPT !["mon"] = Op("remove", AppOf[cfg], cfg)]
          /\ todo' = [todo EXCEPT !["mon"] = @ \ {cfg}]
    /\ UNCHANGED <<streams, cfgOf, procs, tasks, rundir, socks, registry, used>>

-----------------------------------------------------------------------------
(* start_stream, run by task x. *)

\* The duplicate check takes the lock and releases it again.
StartCheck(x) ==
    /\ act[x].pc = "check"
    /\ ~Locked
    /\ act' = [act EXCEPT ![x] =
                 IF streams[act[x].app] # None
                 THEN Idle                          \* AlreadyRunning
                 ELSE Op("spawn", @.app, @.cfg)]
    /\ UNCHANGED <<streams, cfgOf, procs, tasks, rundir, socks, registry, todo, used>>

\* mkdir of the runtime directory, then the compositor.
SpawnCage(x) ==
    /\ act[x].pc = "spawn"
    /\ \E i \in Inst :
          /\ Free(i)
          /\ procs' = [procs EXCEPT ![i]["cage"] = "alive"]
          /\ cfgOf' = [cfgOf EXCEPT ![i] = act[x].cfg]
          /\ act' = [act EXCEPT ![x] = OpWith("waitCage", @.app, @.cfg, i)]
    /\ rundir' = rundir \cup {act[x].app}
    /\ UNCHANGED <<streams, tasks, socks, registry, todo, used>>

\* mkdir, chmod or the spawn fails.
CageSpawnFails(x) ==
    /\ act[x].pc = "spawn"
    /\ rundir' \in {rundir, rundir \cup {act[x].app}}
    /\ act' = [act EXCEPT ![x] = Idle]
    /\ UNCHANGED <<streams, cfgOf, procs, tasks, socks, registry, todo, used>>

\* wayland-0 exists: the tunnel is spawned.
CageReady(x) ==
    /\ act[x].pc = "waitCage"
    /\ <<act[x].app, "wl">> \in socks
    /\ procs' = [procs EXCEPT ![act[x].inst]["tunnel"] = "alive"]
    /\ act' = [act EXCEPT ![x] = OpWith("waitTunnel", @.app, @.cfg, @.inst)]
    /\ UNCHANGED <<streams, cfgOf, tasks, rundir, socks, registry, todo, used>>

\* The tunnel cannot be spawned: the compositor is killed, not waited for.
TunnelSpawnFails(x) ==
    /\ act[x].pc = "waitCage"
    /\ <<act[x].app, "wl">> \in socks
    /\ procs' = [procs EXCEPT ![act[x].inst]["cage"] = "zombie"]
    /\ act' = [act EXCEPT ![x] = Idle]
    /\ UNCHANGED <<streams, cfgOf, tasks, rundir, socks, registry, todo, used>>

\* Slip: an error return that forgets the compositor.
CageTimeoutNoKill(x) ==
    /\ act[x].pc = "waitCage"
    /\ <<act[x].app, "wl">> \notin socks
    /\ act' = [act EXCEPT ![x] = Idle]
    /\ UNCHANGED <<streams, cfgOf, procs, tasks, rundir, socks, registry, todo, used>>

\* Slip: the poll has no limit.
CageTimeoutNever(x) == FALSE /\ act[x].pc = "waitCage" /\ UNCHANGED vars

CageTimeout(x) ==
    /\ act[x].pc = "waitCage"
    /\ <<act[x].app, "wl">> \notin socks
    /\ procs' = Killed(act[x].inst, {"cage"})
    /\ act' = [act EXCEPT ![x] = Idle]                        \* SocketTimeout
    /\ UNCHANGED <<streams, cfgOf, tasks, rundir, socks, registry, todo, used>>

\* wayland-stream.sock exists: the application and the three tasks start.
TunnelReady(x) ==
    /\ act[x].pc = "waitTunnel"
    /\ <<act[x].app, "st">> \in socks
    /\ procs' = [procs EXCEPT ![act[x].inst]["app"] = "alive"]
    /\ tasks' = tasks \cup {act[x].inst}
    /\ act' = [act EXCEPT ![x] = OpWith("insert", @.app, @.cfg, @.inst)]
    /\ UNCHANGED <<streams, cfgOf, rundir, socks, registry, todo, used>>

\* An application that cannot be spawned takes cage and tunnel with it.
AppSpawnFails(x) ==
    /\ act[x].pc = "waitTunnel"
    /\ <<act[x].app, "st">> \in socks
    /\ procs' = Killed(act[x].inst, {"cage", "tunnel"})
    /\ act' = [act EXCEPT ![x] = Idle]
    /\ UNCHANGED <<streams, cfgOf, tasks, rundir, socks, registry, todo, used>>

TunnelTimeout(x) ==
    /\ act[x].pc = "waitTunnel"
    /\ <<act[x].app, "st">> \notin socks
    /\ procs' = Killed(act[x].inst, {"cage", "tunnel"})
    /\ act' = [act EXCEPT ![x] = Idle]                        \* SocketTimeout
    /\ UNCHANGED <<streams, cfgOf, tasks, rundir, socks, registry, todo, used>>

\* Lock, HashMap::insert with no second look, load the registry.
Insert(x) ==
    /\ act[x].pc = "insert"
    /\ ~Locked
    /\ streams' = [streams EXCEPT ![act[x].app] = act[x].inst]
    /\ act' = [act EXCEPT ![x] = [Op("persist", @.app, @.cfg) EXCEPT !.reg = registry]]
    /\ UNCHANGED <<cfgOf, procs, tasks, rundir, socks, registry, todo, used>>

\* Save the registry (an error is ignored), unlock and return.
Persist(x) ==
    /\ act[x].pc = "persist"
    /\ registry' \in {Upsert(act[x].reg, act[x].cfg), registry}
    /\ act' = [act EXCEPT ![x] = Idle]
    /\ UNCHANGED <<streams, cfgOf, procs, tasks, rundir, socks, todo, used>>

-----------------------------------------------------------------------------
(* stop_stream, run by task x. *)

\* Slip: the entry is looked up but stays in the map.
StopGet(x) ==
    /\ act[x].pc = "remove"
    /\ ~Locked
    /\ streams[act[x].app] # None
    /\ act' = [act EXCEPT ![x] = OpWith("reap", @.app, @.cfg, streams[@.app])]
    /\ UNCHANGED <<streams, cfgOf, procs, tasks, rundir, socks, registry, todo, used>>

\* Under the lock the entry is taken out of the map; the rest is unlocked.
StopRemove(x) ==
    /\ act[x].pc = "remove"
    /\ ~Locked
    /\ streams[act[x].app] # None
    /\ streams' = [streams EXCEPT ![act[x].app] = None]
    /\ act' = [act EXCEPT ![x] =
                 OpWith("reap", @.app, @.cfg, streams[act[x].app])]
    /\ UNCHANGED <<cfgOf, procs, tasks, rundir, socks, registry, todo, used>>

\* Slip: an unknown stream is torn down like a known one.
StopUnchecked(x) ==
    /\ act[x].pc = "remove"
    /\ ~Locked
    /\ streams[act[x].app] = None
    /\ act' = [act EXCEPT ![x] = Op("reap", @.app, @.cfg)]
    /\ UNCHANGED <<streams, cfgOf, procs, tasks, rundir, socks, registry, todo, used>>

StopNotFound(x) ==
    /\ act[x].pc = "remove"
    /\ ~Locked
    /\ streams[act[x].app] = None
    /\ act' = [act EXCEPT ![x] = AfterStop(x)]
    /\ UNCHANGED <<streams, cfgOf, procs, tasks, rundir, socks, registry, todo, used>>

\* Kill and wait for the children, abort the tasks, remove the rundir.
StopReap(x) ==
    /\ act[x].pc = "reap"
    /\ procs' = Killed(act[x].inst, Comp)
    /\ tasks' = tasks \ {act[x].inst}
    /\ rundir' = rundir \ {act[x].app}
    /\ socks' = socks \ ({act[x].app} \X {"wl", "st"})
    /\ act' = [act EXCEPT ![x] = Op("loadReg", @.app, @.cfg)]
    /\ UNCHANGED <<streams, cfgOf, registry, todo, used>>

\* remove_from_registry: load the file.
LoadRegistry(x) ==
    /\ act[x].pc = "loadReg"
    /\ Without(registry, act[x].app) # registry
    /\ act' = [act EXCEPT ![x] = [Op("saveReg", @.app, @.cfg) EXCEPT !.reg = registry]]
    /\ UNCHANGED <<streams, cfgOf, procs, tasks, rundir, socks, registry, todo, used>>

\* The stream is not in the registry, an error that stop_stream ignores.
NotInRegistry(x) ==
    /\ act[x].pc = "loadReg"
    /\ Without(registry, act[x].app) = registry
    /\ act' = [act EXCEPT ![x] = AfterStop(x)]
    /\ UNCHANGED <<streams, cfgOf, procs, tasks, rundir, socks, registry, todo, used>>

\* Write the copy without the stream back (an error is ignored) and return.
SaveRegistry(x) ==
    /\ act[x].pc = "saveReg"
    /\ registry' \in {Without(act[x].reg, act[x].app), registry}
    /\ act' = [act EXCEPT ![x] = AfterStop(x)]
    /\ UNCHANGED <<streams, cfgOf, procs, tasks, rundir, socks, todo, used>>

-----------------------------------------------------------------------------
(* The environment: children bind sockets and die, the daemon crashes. *)

BindWayland(i) ==
    /\ Running(procs[i]["cage"])
    /\ AppOf[cfgOf[i]] \in rundir
    /\ socks' = socks \cup {<<AppOf[cfgOf[i]], "wl">>}
    /\ UNCHANGED <<streams, cfgOf, procs, tasks, rundir, registry, act, todo, used>>

BindStream(i) ==
    /\ Running(procs[i]["tunnel"])
    /\ AppOf[cfgOf[i]] \in rundir
    /\ socks' = socks \cup {<<AppOf[cfgOf[i]], "st">>}
    /\ UNCHANGED <<streams, cfgOf, procs, tasks, rundir, registry, act, todo, used>>

\* Nobody awaits the three tasks.  The forwarder returns when its publisher
\* cannot be declared, the input task when its subscription fails, the resize
\* task when its subscriber closes: the entry stays in the map.
TasksEnd(i) ==
    /\ i \in tasks
    /\ used.deaths < MaxDeaths
    /\ used' = [used EXCEPT !.deaths = @ + 1]
    /\ tasks' = tasks \ {i}
    /\ UNCHANGED <<streams, cfgOf, procs, rundir, socks, registry, act, todo>>

\* The browser of a chrome stream is no child of the daemon: init reaps it.
ProcessDies(i, c) ==
    /\ Running(procs[i][c])
    /\ used.deaths < MaxDeaths
    /\ used' = [used EXCEPT !.deaths = @ + 1]
    /\ procs' = [procs EXCEPT ![i][c] =
                   IF @ = "adopted" \/ (c = "app" /\ IsChrome(i))
                   THEN "none" ELSE "zombie"]
    /\ UNCHANGED <<streams, cfgOf, tasks, rundir, socks, registry, act, todo>>

\* The daemon dies and is started again.  Its children live on under init,
\* its tasks do not; the registry and the runtime directories stay.
Crash ==
    /\ used.crashes < MaxCrashes
    /\ used' = [used EXCEPT !.crashes = @ + 1]
    /\ streams' = [a \in Apps |-> None]
    /\ tasks' = {}
    /\ procs' = [i \in Inst |-> [c \in Comp |->
                   IF Running(procs[i][c]) THEN "adopted" ELSE "none"]]
    /\ act' = [x \in Actors |-> IF x = "main" THEN Op("boot", None, None) ELSE Idle]
    /\ todo' = [x \in Actors |-> {}]
    /\ UNCHANGED <<cfgOf, rundir, socks, registry>>

-----------------------------------------------------------------------------
StartStream(x) ==
    \/ StartCheck(x) \/ SpawnCage(x) \/ CageSpawnFails(x)
    \/ CageReady(x) \/ CageTimeout(x) \/ TunnelSpawnFails(x)
    \/ TunnelReady(x) \/ TunnelTimeout(x) \/ AppSpawnFails(x)
    \/ Insert(x) \/ Persist(x)

StopStream(x) ==
    \/ StopRemove(x) \/ StopNotFound(x) \/ StopReap(x)
    \/ LoadRegistry(x) \/ NotInRegistry(x) \/ SaveRegistry(x)

MainTask == Resolve \/ StartNext \/ Ready

Next ==
    \/ OpenSession \/ MainTask \/ HealthSnapshot \/ AutostartTimeout
    \/ \E cfg \in Configs : CtlStart(cfg)
    \/ \E a \in Apps : CtlStop(a)
    \/ MonitorScan \/ MonitorRestart
    \/ \E x \in Actors : StartStream(x) \/ StopStream(x)
    \/ \E i \in Inst : BindWayland(i) \/ BindStream(i) \/ TasksEnd(i)
    \/ \E i \in Inst, c \in Comp : ProcessDies(i, c)
    \/ Crash

Spec == Init /\ [][Next]_vars

\* The runtime keeps polling every task.  Nothing is assumed of the children,
\* of the control client, of crashes or of the Zenoh session.
Fairness ==
    /\ WF_vars(MainTask)
    /\ WF_vars(MonitorScan)
    /\ WF_vars(MonitorRestart)
    /\ \A x \in Actors : WF_vars(StartStream(x) \/ StopStream(x))

FairSpec == Spec /\ Fairness

-----------------------------------------------------------------------------
(* Properties. *)

\* The phases of an operation that own a process group.
Owning == {"waitCage", "waitTunnel", "insert", "reap"}

\* Every variable has its type, and an operation carries a process group in
\* exactly the phases in which start_stream or stop_stream own the children.
TypeOK ==
    /\ streams \in [Apps -> Inst \cup {None}]
    /\ cfgOf \in [Inst -> Configs \cup {None}]
    /\ procs \in [Inst -> [Comp -> Status]]
    /\ tasks \subseteq Inst
    /\ rundir \subseteq Apps
    /\ socks \subseteq Apps \X {"wl", "st"}
    /\ registry \subseteq Configs
    /\ act \in [Actors -> [pc : PCs, app : Apps \cup {None},
                           cfg : Configs \cup {None}, inst : Inst \cup {None},
                           reg : SUBSET Configs]]
    /\ todo \in [Actors -> SUBSET Configs]
    /\ used \in [starts : 0..MaxStarts, stops : 0..MaxStops,
                  deaths : 0..MaxDeaths, crashes : 0..MaxCrashes]
    /\ \A x \in Actors : act[x].inst # None <=> act[x].pc \in Owning

\* The children of a stream have one owner: one entry of the map, or one
\* start or stop in progress.  Two tasks never kill and reap the same group,
\* and no entry points at a group that a stop is tearing down.
SoleOwner ==
    /\ \A a, b \in Apps : streams[a] # None /\ streams[a] = streams[b] => a = b
    /\ \A x, y \in Actors : act[x].inst # None /\ act[x].inst = act[y].inst => x = y
    /\ \A x \in Actors : act[x].inst # None => ~Supervised(act[x].inst)

StartPhases == {"check", "spawn", "waitCage", "waitTunnel", "insert", "persist"}
StopPhases == {"remove", "reap", "loadReg", "saveReg"}

\* An operation keeps its context across every await: a start carries children
\* of its own config, and none and no task that its error path would leave
\* behind; a stop by the monitor still has the config the restart needs.
OpContext ==
    \A x \in Actors :
        LET o == act[x]
        IN  /\ o.pc \in StartPhases => o.cfg \in Configs /\ o.app = AppOf[o.cfg]
            /\ o.pc \in StopPhases => o.app \in Apps
            /\ o.pc \in StopPhases /\ x = "mon" =>
                   o.cfg \in Configs /\ o.app = AppOf[o.cfg]
            /\ o.pc \in {"waitCage", "waitTunnel", "insert"} =>
                   /\ cfgOf[o.inst] = o.cfg
                   /\ \A c \in Comp : procs[o.inst][c] # "adopted"
            /\ o.pc = "waitCage" => procs[o.inst]["tunnel"] = "none"
            /\ o.pc \in {"waitCage", "waitTunnel"} =>
                   procs[o.inst]["app"] = "none" /\ o.inst \notin tasks

UniqueApps(reg) == \A c, d \in reg : AppOf[c] = AppOf[d] => c = d

\* The registry, and every copy that an unlocked stop or a start is about to
\* write back, has at most one entry per stream: a restart never starts a
\* stream twice (the entry CHANGELOG.md lists as fixed).
RegistryUnique == UniqueApps(registry) /\ \A x \in Actors : UniqueApps(act[x].reg)

\* A step that lets go of a process group with a process or a task running.
LetsGo(i) ==
    /\ Held(i) /\ ~Held(i)'
    /\ i \in tasks' \/ \E c \in Comp : procs'[i][c] = "alive"

\* The entry that pointed at i is replaced by another one.
Overwritten(i) == \E a \in Apps : streams[a] = i /\ streams'[a] \notin {i, None}

LeakStep == \A i \in Inst : LetsGo(i) => AutostartTimeout \/ Overwritten(i)

\* No error path of start_stream or stop_stream lets go of a process group
\* with a process or a tokio task running.  It happens only when the daemon
\* dies, when the autostart timeout drops the future, or when a second start of
\* the same stream overwrites the entry.
NoSilentLeak == [][LeakStep]_vars

\* A running process ends by itself or by the hand of the task that owns its
\* group: stopping one stream never touches the children of another, nor
\* those of a newer group with the same id.  Browsers are the exception:
\* stopping a chrome stream takes every browser of the user with it.
KillStep ==
    \A i \in Inst, c \in Comp :
        (Running(procs[i][c]) /\ ~Running(procs'[i][c])) =>
            \/ used'.deaths # used.deaths
            \/ \E x \in Actors :
                  /\ act'[x] # act[x]
                  /\ \/ act[x].inst = i
                     \/ /\ act[x].pc = "reap" /\ c = "app"
                        /\ IsChrome(i) /\ IsChrome(act[x].inst)

\* No step kills the children of another owner (KillStep).
OnlyOwnerKills == [][KillStep]_vars

\* Every start and stop returns: no lock, poll or retry keeps a task forever.
OpsFinish ==
    \A x \in Actors : act[x].pc \notin {"boot", "idle", "ready"} ~>
                       act[x].pc \in {"boot", "idle", "ready"}

\* However the autostarts end, main reaches its readiness write.
MainReady == act["main"].pc = "resolve" ~> act["main"].pc \in {"ready", "boot"}

\* A stream with a dead component does not stay in the map: the monitor finds
\* it or somebody else stops it, unless a browser of another stream makes it
\* look alive again.
DeadNoticed ==
    \A a \in Apps, i \in Inst :
        (streams[a] = i /\ Dead(i)) ~> (streams[a] # i \/ ~Dead(i))

\* start_stream's duplicate guard: an entry of the map is removed before
\* another takes its place.
DuplicateGuard ==
    [][\A a \in Apps : streams[a] # None => streams'[a] \in {streams[a], None}]_vars
=============================================================================
