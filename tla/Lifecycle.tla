----------------------------- MODULE Lifecycle -----------------------------
(***************************************************************************)
(* The jail lifecycle daemon (lifecycled/src/main.rs, memory_monitor.rs    *)
(* and zenoh_bridge.rs).                                                   *)
(*                                                                         *)
(* Every connection to the Unix socket is a task of the multi-threaded     *)
(* runtime that runs one command; the Zenoh bridge is one more task, the   *)
(* memory monitor another.  They share a map of jail states behind a mutex *)
(* that is never held across a signal or a zfs command, so a command is a  *)
(* sequence of steps (signal the processes, run zfs, write the state) that *)
(* interleaves with the commands of the other tasks.  op[x] is the command *)
(* that task x is executing.                                               *)
(*                                                                         *)
(* Simplifications:                                                        *)
(*  - the processes of a jail are slots, each empty, running or stopped; a *)
(*    new process may take any empty slot (a PID is used again), but never *)
(*    one that belonged to another jail;                                   *)
(*  - one signal is one step and takes effect at once;                     *)
(*  - the contents of a jail's dataset are a version number, the newest    *)
(*    hibernate snapshot is the version it holds;                          *)
(*  - timestamps matter through the eviction order and the idle window     *)
(*    alone: last_active is never, past the window, or recent.             *)
(* Nothing keeps other programs from starting processes in a jail while    *)
(* the daemon works on it: fork, jexec and jail starts happen at any time. *)
(***************************************************************************)
EXTENDS Naturals, Sequences, FiniteSets

CONSTANTS
    Jails,        \* jail names
    Pids,         \* the process slots of a jail
    Conns,        \* connections to the Unix socket open at the same time
    Flaky,        \* jails whose process table may fail to be read
    Prio0,        \* priorities from the .jpk descriptors (None: no descriptor)
    Prios,        \* priorities SET_PRIORITY may give
    FreePcts,     \* readings of the free memory, in tenths of a percent
    Aggressive,   \* LifecyclePolicy::aggressive_freeze
    None,         \* absent value
    MaxCmds,      \* bound on commands
    MaxWrites,    \* bound on versions of a dataset
    MaxStarts,    \* bound on processes started
    MaxRestarts   \* bound on restarts of the daemon

Actors == Conns \cup {"bridge", "mon"}

ASSUME LifecycleAssumption ==
    /\ {"bridge", "mon"} \cap Conns = {}
    /\ IsFiniteSet(Jails)
    /\ Flaky \subseteq Jails
    /\ None \notin Nat \cup Jails
    /\ Prio0 \in [Jails -> Nat \cup {None}]
    /\ Prios \subseteq Nat
    /\ FreePcts \subseteq Nat
    /\ Aggressive \in BOOLEAN

ASSUME BoundsAssumption ==
    {MaxCmds, MaxWrites, MaxStarts, MaxRestarts} \subseteq Nat

VARIABLES
    state,      \* StateMap: jail -> AppState, or "untracked"
    proc,       \* proc[j][p]: "run", "stop" or "none" (the slot is empty)
    data,       \* version of the jail's dataset
    snap,       \* version held by its newest hibernate snapshot
    prio,       \* PriorityMap: priority (None: not in the map)
    last,       \* last_active: 0 never, 1 past the idle window, 2 recent
    guardOff,   \* MEM_GUARD_DISABLED
    timers,     \* MEM_GUARD off commands whose timer is pending
    op,         \* op[x]: the command task x is executing
    plan,       \* candidates the monitor has still to look at in this tick
    freePct,    \* free memory the monitor read in this tick, 1000 after it
    used,       \* how much of each bound has been spent
    late,       \* history: processes of a jail not called Running that started
                \* after the command that wrote its state had listed them
    mixed       \* history: jails whose state was last written by a command
                \* that another command on the jail overlapped

mapVars == <<state, prio, last>>
jailVars == <<proc, data, snap>>
guardVars == <<guardOff, timers>>
monVars == <<plan, freePct>>
history == <<late, mixed>>
vars == <<mapVars, jailVars, guardVars, op, monVars, used, history>>

-----------------------------------------------------------------------------
AppState == {"untracked", "Running", "Frozen", "Hibernated", "Dead"}

\* What the map says of a jail whose processes nothing is claimed of.
Silent == {"untracked", "Running"}

Commands == {"freeze", "thaw", "hibernate", "restore", "kill"}

\* The phases that signal the processes of the jail.
Signals == {"freeze", "thaw", "hibernate", "cont", "kill"}

PCs == Signals \cup {"idle", "setHibernated", "restore", "list", "rollback",
                     "setRunning", "setDead"}

\* listed: signal_jail_pids has read the process table, pids are those it has
\* still to signal, hit says whether RESTORE has reached one.  ver: the snapshot a
\* rollback has chosen.  evict: the monitor's hibernate-then-kill, in which the
\* kill follows whatever the hibernate did.  History, which no guard reads:
\* fresh are the processes that started since the table was read, alone says
\* that no other command on the jail was in progress at any time so far.
OpRec(pc, j, evict, alone) ==
    [pc |-> pc, jail |-> j, listed |-> FALSE, pids |-> {}, hit |-> FALSE,
     ver |-> None, evict |-> evict, fresh |-> {}, alone |-> alone]
Idle == OpRec("idle", None, FALSE, FALSE)

Goto(x, pc) == op' = [op EXCEPT ![x].pc = pc]
Return(x) == op' = [op EXCEPT ![x] = Idle]

Quiet(j) == \A x \in Actors : op[x].jail # j

\* Task x begins command pc on jail j.
Begin(x, pc, j, evict) ==
    op' = [y \in Actors |->
              IF y = x THEN OpRec(pc, j, evict, Quiet(j))
              ELSE IF op[y].jail = j THEN [op[y] EXCEPT !.alone = FALSE]
              ELSE op[y]]

\* hibernate_application has returned.
AfterHibernate(x) ==
    op' = [op EXCEPT ![x] = IF @.evict THEN OpRec("kill", @.jail, FALSE, @.alone)
                                       ELSE Idle]

\* The processes a jail's slots hold, and those that are not stopped.
AliveIn(ps) == {p \in Pids : ps[p] # "none"}
RunsIn(ps) == {p \in Pids : ps[p] = "run"}
Alive(j) == AliveIn(proc[j])
Runs(j) == RunsIn(proc[j])

-----------------------------------------------------------------------------
Init ==
    /\ state = [j \in Jails |-> "untracked"]
    /\ proc \in [Jails -> [Pids -> {"run", "none"}]]
    /\ data = [j \in Jails |-> 0]
    /\ snap = [j \in Jails |-> None]
    /\ prio = Prio0
    /\ last = [j \in Jails |-> 0]
    /\ guardOff = FALSE
    /\ timers = {}
    /\ op = [x \in Actors |-> Idle]
    /\ plan = <<>>
    /\ freePct = 1000
    /\ used = [cmds |-> 0, starts |-> 0, restarts |-> 0]
    /\ late = [j \in Jails |-> {}]
    /\ mixed = {}

-----------------------------------------------------------------------------
(* Commands arrive: dispatch_cmd on a connection, dispatch_zenoh_cmd on the *)
(* bridge, which knows FREEZE and THAW only and takes them one at a time.   *)

SpendCmd ==
    /\ used.cmds < MaxCmds
    /\ used' = [used EXCEPT !.cmds = @ + 1]

Dispatch(x) ==
    /\ x \in Conns
    /\ op[x].pc = "idle"
    /\ SpendCmd
    /\ \E j \in Jails, pc \in Commands : Begin(x, pc, j, FALSE)
    /\ UNCHANGED <<mapVars, jailVars, guardVars, monVars, history>>

DispatchZenoh ==
    /\ op["bridge"].pc = "idle"
    /\ SpendCmd
    /\ \E j \in Jails, pc \in {"freeze", "thaw"} : Begin("bridge", pc, j, FALSE)
    /\ UNCHANGED <<mapVars, jailVars, guardVars, monVars, history>>

SetPriority(j, p) ==
    /\ SpendCmd
    /\ prio' = [prio EXCEPT ![j] = p]
    /\ last' = [last EXCEPT ![j] = 2]
    /\ UNCHANGED <<state, jailVars, guardVars, op, monVars, history>>

GuardOn ==
    /\ SpendCmd
    /\ guardOff' = FALSE
    /\ UNCHANGED <<mapVars, jailVars, timers, op, monVars, history>>

GuardOffNoTimer ==      \* slip: nobody turns the guard on again
    /\ SpendCmd
    /\ guardOff' = TRUE
    /\ UNCHANGED <<mapVars, jailVars, timers, op, monVars, history>>

\* Each MEM_GUARD off starts a timer of its own; used.cmds is its name.
GuardOff ==
    /\ SpendCmd
    /\ guardOff' = TRUE
    /\ timers' = timers \cup {used.cmds}
    /\ UNCHANGED <<mapVars, jailVars, op, monVars, history>>

\* All timers last 300 s, so they end in the order in which they began.
TimerFires(t) ==
    /\ t \in timers /\ \A u \in timers : t <= u
    /\ timers' = timers \ {t}
    /\ guardOff' = FALSE
    /\ UNCHANGED <<mapVars, jailVars, op, monVars, used, history>>

-----------------------------------------------------------------------------
(* signal_jail_pids: read the process table, then signal what it held, one  *)
(* process at a time.  A process that is gone by then is passed over; one   *)
(* that has started since is not signalled.                                 *)

ListRunning(x) ==      \* slip: stopped processes are not listed
    /\ op[x].pc \in Signals /\ ~op[x].listed
    /\ op' = [op EXCEPT ![x].listed = TRUE, ![x].pids = Runs(op[x].jail)]
    /\ UNCHANGED <<mapVars, jailVars, guardVars, monVars, used, history>>

ListPids(x) ==
    /\ op[x].pc \in Signals /\ ~op[x].listed
    /\ op' = [op EXCEPT ![x].listed = TRUE, ![x].pids = Alive(op[x].jail)]
    /\ UNCHANGED <<mapVars, jailVars, guardVars, monVars, used, history>>

\* The state a signal leaves a process in.
Signalled(pc, p) ==
    IF p = "none" \/ pc = "kill" THEN "none"
    ELSE IF pc \in {"freeze", "hibernate"} THEN "stop" ELSE "run"

Signal(x) ==
    LET j == op[x].jail
    IN  \E p \in op[x].pids :
          /\ proc' = [proc EXCEPT ![j][p] = Signalled(op[x].pc, @)]
          /\ op' = [op EXCEPT ![x].pids = @ \ {p},
                             ![x].hit = op[x].pc = "cont" /\ (@ \/ proc[j][p] # "none")]
          /\ UNCHANGED <<mapVars, data, snap, guardVars, monVars, used, history>>

\* Every process on the list has been signalled.
AllSignalled(x, pc) == op[x].pc = pc /\ op[x].listed /\ op[x].pids = {}

\* The jail does not exist, or the process table cannot be read.
SignalError(x) ==
    /\ ~op[x].listed
    /\ Alive(op[x].jail) = {} \/ op[x].jail \in Flaky

\* HIBERNATE, RESTORE and KILL take an error for zero processes.
SignalErrorIgnored(x) ==
    /\ op[x].pc \in {"hibernate", "cont", "kill"}
    /\ SignalError(x)
    /\ op' = [op EXCEPT ![x].listed = TRUE]
    /\ UNCHANGED <<mapVars, jailVars, guardVars, monVars, used, history>>

SetState(x, s) ==
    LET j == op[x].jail
    IN  /\ state' = [state EXCEPT ![j] = s]
        /\ late' = [late EXCEPT ![j] = IF s \in Silent THEN {} ELSE op[x].fresh]
        /\ mixed' = IF op[x].alone THEN mixed \ {j} ELSE mixed \cup {j}
        /\ UNCHANGED <<jailVars, prio, last, guardVars, monVars, used>>

-----------------------------------------------------------------------------
(* freeze_application and thaw_application. *)

FreezeAnyway(x) ==      \* slip: an error taken for zero processes
    /\ op[x].pc = "freeze"
    /\ SignalError(x)
    /\ op' = [op EXCEPT ![x].listed = TRUE]
    /\ UNCHANGED <<mapVars, jailVars, guardVars, monVars, used, history>>

FreezeError(x) ==
    /\ op[x].pc = "freeze"
    /\ SignalError(x)
    /\ Return(x)
    /\ UNCHANGED <<mapVars, jailVars, guardVars, monVars, used, history>>

SetFrozen(x) ==
    /\ AllSignalled(x, "freeze")
    /\ SetState(x, "Frozen")
    /\ Return(x)

ThawError(x) ==
    /\ op[x].pc = "thaw"
    /\ SignalError(x)
    /\ Return(x)
    /\ UNCHANGED <<mapVars, jailVars, guardVars, monVars, used, history>>

\* THAW, and RESTORE that has reached a process or has rolled back.
SetRunning(x) ==
    /\ \/ AllSignalled(x, "thaw")
       \/ AllSignalled(x, "cont") /\ op[x].hit
       \/ op[x].pc = "setRunning"
    /\ SetState(x, "Running")
    /\ Return(x)

-----------------------------------------------------------------------------
(* hibernate_application. *)

Snapshot(x) ==
    /\ AllSignalled(x, "hibernate")
    /\ snap' = [snap EXCEPT ![op[x].jail] = data[op[x].jail]]
    /\ Goto(x, "setHibernated")
    /\ UNCHANGED <<mapVars, proc, data, guardVars, monVars, used, history>>

SnapshotErrorIgnored(x) ==      \* slip: hibernated without a snapshot
    /\ AllSignalled(x, "hibernate")
    /\ Goto(x, "setHibernated")
    /\ UNCHANGED <<mapVars, jailVars, guardVars, monVars, used, history>>

\* zfs snapshot fails: the processes stay stopped, the state is left alone.
SnapshotFails(x) ==
    /\ AllSignalled(x, "hibernate")
    /\ AfterHibernate(x)
    /\ UNCHANGED <<mapVars, jailVars, guardVars, monVars, used, history>>

SetHibernated(x) ==
    /\ op[x].pc = "setHibernated"
    /\ SetState(x, "Hibernated")
    /\ AfterHibernate(x)

-----------------------------------------------------------------------------
(* restore_application and rollback_and_restart. *)

\* A jail that is not in the map counts as Dead here.
RestoreLook(x) ==
    /\ op[x].pc = "restore"
    /\ IF state[op[x].jail] \in {"Frozen", "Hibernated"}
       THEN Goto(x, "cont")
       ELSE Return(x)          \* cannot restore from state
    /\ UNCHANGED <<mapVars, jailVars, guardVars, monVars, used, history>>

NoneReachedUnchecked(x) ==      \* slip: the number of signals is not looked at
    AllSignalled(x, "cont")

\* No process was signalled.
NoneReached(x) == AllSignalled(x, "cont") /\ ~op[x].hit

RestoreNoProcs(x) ==
    /\ NoneReached(x)
    /\ Goto(x, "list")
    /\ UNCHANGED <<mapVars, jailVars, guardVars, monVars, used, history>>

ListSnapshots(x) ==
    /\ op[x].pc = "list"
    /\ snap[op[x].jail] # None
    /\ op' = [op EXCEPT ![x].pc = "rollback", ![x].ver = snap[op[x].jail]]
    /\ UNCHANGED <<mapVars, jailVars, guardVars, monVars, used, history>>

\* zfs rollback refuses when a newer snapshot has appeared.
Rollback(x) ==
    /\ op[x].pc = "rollback"
    /\ snap[op[x].jail] = op[x].ver
    /\ data' = [data EXCEPT ![op[x].jail] = op[x].ver]
    /\ Goto(x, "setRunning")
    /\ UNCHANGED <<mapVars, proc, snap, guardVars, monVars, used, history>>

\* No snapshot, or zfs list or zfs rollback fails.
RollbackError(x) ==
    /\ op[x].pc \in {"list", "rollback"}
    /\ Return(x)
    /\ UNCHANGED <<mapVars, jailVars, guardVars, monVars, used, history>>

-----------------------------------------------------------------------------
(* kill_application.  After the signals, the removal of the Wayland socket; *)
(* then zfs list, destroy and create of the /tmp dataset, their errors      *)
(* ignored.                                                                 *)

RecycleTmp(x) ==
    /\ AllSignalled(x, "kill")
    /\ Goto(x, "setDead")
    /\ UNCHANGED <<mapVars, jailVars, guardVars, monVars, used, history>>

SetDead(x) ==
    /\ op[x].pc = "setDead"
    /\ SetState(x, "Dead")
    /\ Return(x)

-----------------------------------------------------------------------------
(* run_monitor. *)

\* The percentage is truncated to an integer before it is classified.
FromStats(t) ==
    LET pct == t \div 10
    IN  CASE pct \in 51..100 -> "Normal"
          [] pct \in 21..50 -> "Warn"
          [] pct \in 6..20 -> "Critical"
          [] OTHER -> "Oom"

Candidates == {j \in Jails : prio[j] # None}

\* Higher priority number first, then the one active longest ago.
Outranks(a, b) ==
    \/ prio[a] > prio[b]
    \/ prio[a] = prio[b] /\ last[a] < last[b]

\* The orders sort_by may produce: the map's iteration order breaks ties.
EvictionOrders ==
    LET n == Cardinality(Candidates)
    IN  {s \in [1..n -> Candidates] :
            \A i, k \in 1..n : i < k => s[i] # s[k] /\ ~Outranks(s[k], s[i])}

\* How many candidates the tick looks at.
Reach(lvl) ==
    CASE lvl = "Warn" -> IF Aggressive THEN 2 ELSE 0
      [] lvl = "Critical" -> IF guardOff THEN 0 ELSE 1
      [] lvl = "Oom" -> IF guardOff THEN 0 ELSE Cardinality(Candidates)
      [] OTHER -> 0

Prefix(s, n) == SubSeq(s, 1, IF n < Len(s) THEN n ELSE Len(s))

MonitorTickAll ==      \* slip: every jail is a candidate, listed or not
    /\ op["mon"].pc = "idle" /\ plan = <<>>
    /\ \E t \in FreePcts, s \in [1..Cardinality(Jails) -> Jails] :
          /\ plan' = s
          /\ freePct' = t
    /\ UNCHANGED <<mapVars, jailVars, guardVars, op, used, history>>

\* Once per tick: read the pressure, sort the candidates, read the guard.
MonitorTick ==
    /\ op["mon"].pc = "idle" /\ plan = <<>>
    /\ \E t \in FreePcts, s \in EvictionOrders :
          /\ plan' = Prefix(s, Reach(FromStats(t)))
          /\ freePct' = IF plan' = <<>> THEN 1000 ELSE t
    /\ UNCHANGED <<mapVars, jailVars, guardVars, op, used, history>>

\* Slip: an OOM tick leaves alone the jails no command has touched.
MonitorActTracked(j) ==
    IF FromStats(freePct) = "Oom" /\ prio[j] # 0 /\ state[j] # "untracked"
    THEN "kill" ELSE "idle"

\* What the monitor does with a candidate it looks at.
MonitorAct(j) ==
    CASE FromStats(freePct) = "Warn" /\ last[j] < 2 /\ state[j] = "Running" -> "freeze"
      [] FromStats(freePct) = "Critical" /\ state[j] \in {"Running", "Frozen"} ->
             "hibernate"
      [] FromStats(freePct) = "Oom" /\ prio[j] # 0 -> "kill"
      [] OTHER -> "idle"

\* Its hibernate is followed by a kill.
MonitorNext ==
    /\ op["mon"].pc = "idle" /\ plan # <<>>
    /\ LET act == MonitorAct(Head(plan))
       IN  IF act = "idle" THEN UNCHANGED op
           ELSE Begin("mon", act, Head(plan), act = "hibernate")
    /\ plan' = Tail(plan)
    /\ freePct' = IF plan' = <<>> THEN 1000 ELSE freePct
    /\ UNCHANGED <<mapVars, jailVars, guardVars, used, history>>

-----------------------------------------------------------------------------
(* The environment. *)

ProcessEnds(j, p) ==
    /\ proc[j][p] # "none"
    /\ proc' = [proc EXCEPT ![j][p] = "none"]
    /\ UNCHANGED <<mapVars, data, snap, guardVars, op, monVars, used, history>>

AppWrites(j) ==
    /\ Runs(j) # {}
    /\ data[j] < MaxWrites
    /\ data' = [data EXCEPT ![j] = @ + 1]
    /\ UNCHANGED <<mapVars, proc, snap, guardVars, op, monVars, used, history>>

\* A fork, a jexec or a jail start: whatever the daemon is doing with the jail
\* and whatever it says of it.
ProcessStarts(j, p) ==
    /\ proc[j][p] = "none"
    /\ used.starts < MaxStarts
    /\ used' = [used EXCEPT !.starts = @ + 1]
    /\ proc' = [proc EXCEPT ![j][p] = "run"]
    /\ late' = [late EXCEPT ![j] = IF state[j] \in Silent THEN {} ELSE @ \cup {p}]
    /\ op' = [x \in Actors |-> IF op[x].jail = j /\ op[x].listed
                               THEN [op[x] EXCEPT !.fresh = @ \cup {p}] ELSE op[x]]
    /\ UNCHANGED <<mapVars, data, snap, guardVars, monVars, mixed>>

IdleWindowPasses(j) ==
    /\ last[j] = 2
    /\ last' = [last EXCEPT ![j] = 1]
    /\ UNCHANGED <<state, prio, jailVars, guardVars, op, monVars, used, history>>

\* The daemon is restarted: the maps are memory, the descriptors are read
\* again; processes it had stopped stay stopped.
DaemonRestart ==
    /\ used.restarts < MaxRestarts
    /\ used' = [used EXCEPT !.restarts = @ + 1]
    /\ state' = [j \in Jails |-> "untracked"]
    /\ prio' = Prio0
    /\ last' = [j \in Jails |-> 0]
    /\ guardOff' = FALSE
    /\ timers' = {}
    /\ op' = [x \in Actors |-> Idle]
    /\ plan' = <<>>
    /\ freePct' = 1000
    /\ late' = [j \in Jails |-> {}]
    /\ mixed' = {}
    /\ UNCHANGED jailVars

-----------------------------------------------------------------------------
SignalPids(x) == ListPids(x) \/ Signal(x) \/ SignalErrorIgnored(x)

FreezeThaw(x) == FreezeError(x) \/ SetFrozen(x) \/ ThawError(x) \/ SetRunning(x)

HibernateRestore(x) ==
    \/ Snapshot(x) \/ SnapshotFails(x) \/ SetHibernated(x)
    \/ RestoreLook(x) \/ RestoreNoProcs(x)
    \/ ListSnapshots(x) \/ Rollback(x) \/ RollbackError(x)

Kill(x) == RecycleTmp(x) \/ SetDead(x)

Step(x) == SignalPids(x) \/ FreezeThaw(x) \/ HibernateRestore(x) \/ Kill(x)

Next ==
    \/ \E x \in Actors : Step(x)
    \/ \E x \in Conns : Dispatch(x)
    \/ DispatchZenoh
    \/ \E j \in Jails, p \in Prios : SetPriority(j, p)
    \/ GuardOn \/ GuardOff
    \/ \E t \in timers : TimerFires(t)
    \/ MonitorTick \/ MonitorNext
    \/ \E j \in Jails, p \in Pids : ProcessEnds(j, p) \/ ProcessStarts(j, p)
    \/ \E j \in Jails : AppWrites(j) \/ IdleWindowPasses(j)
    \/ DaemonRestart

Spec == Init /\ [][Next]_vars

\* The runtime polls every task and the zfs commands return.
Fairness ==
    /\ \A x \in Actors : WF_vars(Step(x))
    /\ WF_vars(MonitorTick)
    /\ WF_vars(MonitorNext)
    /\ WF_vars(\E t \in timers : TimerFires(t))

FairSpec == Spec /\ Fairness

-----------------------------------------------------------------------------
(* Properties. *)

BoundsOK ==
    used \in [cmds : 0..MaxCmds, starts : 0..MaxStarts, restarts : 0..MaxRestarts]

\* Every variable has its type, a task that executes a command has a jail and
\* a rollback its target, and the monitor plans for jails of the priority map
\* alone.
TypeOK ==
    /\ state \in [Jails -> AppState]
    /\ proc \in [Jails -> [Pids -> {"run", "stop", "none"}]]
    /\ data \in [Jails -> Nat]
    /\ snap \in [Jails -> Nat \cup {None}]
    /\ prio \in [Jails -> Nat \cup {None}]
    /\ last \in [Jails -> 0..2]
    /\ guardOff \in BOOLEAN
    /\ timers \subseteq Nat
    /\ op \in [Actors -> [pc : PCs, jail : Jails \cup {None}, listed : BOOLEAN,
                          pids : SUBSET Pids, hit : BOOLEAN, ver : Nat \cup {None},
                          evict : BOOLEAN, fresh : SUBSET Pids, alone : BOOLEAN]]
    /\ plan \in Seq(Jails)
    /\ freePct \in Nat
    /\ late \in [Jails -> SUBSET Pids]
    /\ mixed \subseteq Jails
    /\ BoundsOK
    /\ \A x \in Actors : /\ op[x].pc # "idle" => op[x].jail \in Jails
                         /\ op[x].pc = "rollback" => op[x].ver # None
    /\ \A i \in 1..Len(plan) : plan[i] \in Candidates

\* Whatever commands race on a jail, one that the map calls Dead has no process
\* but those that started after the kill had listed the processes: what
\* kill_application lists it kills before it writes the state, and no other
\* command leaves the word Dead over processes it has revived.
DeadIsGone ==
    \A j \in Jails \ Flaky : state[j] = "Dead" => Alive(j) \subseteq late[j]

\* A jail that the map calls Hibernated has a hibernate snapshot to go back
\* to, also when other commands ran between the snapshot and the map update.
HibernatedHasSnapshot ==
    \A j \in Jails : state[j] = "Hibernated" => snap[j] # None

\* The application writes while it runs; a rollback meets no process but those
\* that started after its RESTORE had listed the processes.
RollbackStep ==
    \A j \in Jails \ Flaky : data'[j] # data[j] =>
        \/ data'[j] = data[j] + 1 /\ Runs(j) # {}
        \/ \E x \in Actors : /\ op[x].pc = "rollback" /\ op[x].jail = j
                            /\ Alive(j) \subseteq op[x].fresh

\* restore_application does not roll the dataset back under a process that was
\* there when it signalled the jail, whatever other commands do meanwhile.
RollbackOffline == [][RollbackStep]_vars

\* What main.rs says of RESTORE: a process that is still in RAM is continued,
\* the dataset is rolled back when the processes have been killed.
KilledStep ==
    \A j \in Jails \ Flaky : data'[j] # data[j] =>
        (data'[j] = data[j] + 1 /\ Runs(j) # {}) \/ Alive(j) = {}

\* A rollback meets no live process at all.  It can: nothing holds processes
\* back between the count of those signalled and zfs rollback.
RollbackOnlyKilled == [][KilledStep]_vars

\* What the map says of jail j is so, but for processes that started after the
\* command that wrote it had listed the processes.
Truth(j) ==
    /\ state[j] = "Frozen" => Runs(j) \subseteq late[j]
    /\ state[j] = "Hibernated" /\ j \notin Flaky =>
           /\ Runs(j) \subseteq late[j]
           /\ late[j] = {} => snap[j] = data[j]

\* With no command on a jail in progress the map tells the truth about it, if
\* the command that last wrote its state was not overlapped by another on the
\* jail: what it found does not run in a frozen jail, and neither runs nor has
\* written since the snapshot in a hibernated one, whatever later commands
\* have failed half-way.  (For a jail whose process table cannot be read only
\* FREEZE keeps this promise, because HIBERNATE ignores the error.)
StatusTruthful == \A j \in Jails \ mixed : Quiet(j) => Truth(j)

\* Under lasting OOM pressure every process of a background candidate goes,
\* tracked or not, unless the guard is lifted or the jail comes to the
\* foreground: the kill reaches it although others start all the while.
OomClears ==
    \A j \in Jails \ Flaky, p \in Pids :
        (prio[j] \notin {None, 0} /\ ~guardOff /\ proc[j][p] # "none") ~>
            (proc[j][p] = "none" \/ prio[j] \in {None, 0} \/ guardOff)

\* MEM_GUARD off ends by itself.
GuardReturns == guardOff ~> ~guardOff

\* Under lasting CRITICAL pressure background jails that run are evicted.
CriticalFreesRam ==
    \A j \in Jails :
        (state[j] = "Running" /\ prio[j] \notin {None, 0}) ~>
            (Alive(j) = {} \/ guardOff)
=============================================================================
