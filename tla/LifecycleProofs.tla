-------------------------- MODULE LifecycleProofs --------------------------
(***************************************************************************)
(* Proofs about Lifecycle, for every set of jails, processes and           *)
(* connections, with processes starting in a jail at any time.             *)
(*                                                                         *)
(* The invariant says what a command knows between its steps.  Whatever    *)
(* other commands do to the jail, the processes that KILL, or a RESTORE    *)
(* that has reached none, leaves behind are those on its list and those    *)
(* that started since (PhaseFacts): so Dead covers late processes alone    *)
(* and no other sees a rollback.  And what FREEZE and HIBERNATE know of    *)
(* running processes they know while they are alone on the jail            *)
(* (AloneFacts); the map is true of a jail whose state such a command has  *)
(* written, unless another has sent SIGCONT and not yet written (TruthKept).*)
(***************************************************************************)
EXTENDS Lifecycle, FiniteSetTheorems, SequenceTheorems, TLAPS

\* The variables the properties of jails depend on.
jailCore == <<state, proc, data, snap, op, late, mixed>>

\* The processes of x's jail are those it has still to signal and those that
\* started since it listed them.
Accounted(x, P) == P \subseteq op[x].pids \cup op[x].fresh

\* What command x knows between its steps, whatever the other tasks do.
Phase(x) ==
    LET j == op[x].jail
    IN  /\ op[x].pc = "restore" => ~op[x].listed
        /\ op[x].pc \in {"setHibernated", "list", "rollback", "setDead"} => op[x].listed
        /\ op[x].pc = "setHibernated" => snap[j] # None
        /\ /\ j \notin Flaky
           /\ \/ op[x].pc = "kill" /\ op[x].listed
              \/ op[x].pc = "cont" /\ op[x].listed /\ ~op[x].hit
              \/ op[x].pc \in {"list", "rollback", "setDead"}
           => Accounted(x, Alive(j))

PhaseFacts == \A x \in Actors : Phase(x)

\* What the map may say under every interleaving.
SafeStates == DeadIsGone /\ HibernatedHasSnapshot

Safe(j) ==
    /\ state[j] = "Hibernated" => snap[j] # None
    /\ state[j] = "Dead" /\ j \notin Flaky => Alive(j) \subseteq late[j]

\* What command x knows that no other overlaps.
Alone(x) ==
    LET j == op[x].jail
    IN  /\ op[x].pc # "idle"
        /\ \A y \in Actors : y # x => op[y].jail # j
        /\ op[x].pc = "freeze" /\ op[x].listed => Accounted(x, Runs(j))
        /\ /\ j \notin Flaky
           /\ \/ op[x].pc = "hibernate" /\ op[x].listed
              \/ op[x].pc = "setHibernated"
           => Accounted(x, Runs(j))
        /\ op[x].pc = "setHibernated" /\ j \notin Flaky /\ op[x].fresh = {} =>
               snap[j] = data[j]

AloneFacts == \A x \in Actors : op[x].alone => Alone(x)

\* A SIGCONT may have been delivered, or the dataset rolled back, and the map
\* not yet updated.
Resuming(j) ==
    \E x \in Actors : /\ op[x].jail = j
                      /\ \/ op[x].pc = "thaw" /\ op[x].listed
                         \/ op[x].pc = "cont" /\ op[x].hit
                         \/ op[x].pc = "setRunning"

\* The map is truthful unless a jail is being resumed.
Held(j) == j \in mixed \/ Truth(j) \/ Resuming(j)

TruthKept == \A j \in Jails : Held(j)

OpType == [pc : PCs, jail : Jails \cup {None}, listed : BOOLEAN,
           pids : SUBSET Pids, hit : BOOLEAN, ver : Nat \cup {None},
           evict : BOOLEAN, fresh : SUBSET Pids, alone : BOOLEAN]

\* A task begins a command, from whichever source.
Begins(x, pc, j, evict) ==
    /\ op[x].pc = "idle"
    /\ Begin(x, pc, j, evict)
    /\ UNCHANGED <<state, proc, data, snap, late, mixed>>

\* Every step is a step of a command on a jail, a step of the environment, or
\* leaves the jails alone.
LEMMA NextCases ==
    TypeOK /\ [Next]_vars =>
        \/ \E x \in Actors : Step(x)
        \/ \E x \in Actors, pc \in PCs, j \in Jails, e \in BOOLEAN :
              pc \in Commands /\ Begins(x, pc, j, e)
        \/ \E j \in Jails, p \in Pids : ProcessEnds(j, p)
        \/ \E j \in Jails, p \in Pids : ProcessStarts(j, p)
        \/ \E j \in Jails : AppWrites(j)
        \/ DaemonRestart
        \/ UNCHANGED jailCore
<1> SUFFICES ASSUME TypeOK, [Next]_vars
             PROVE  \/ \E x \in Actors : Step(x)
                    \/ \E x \in Actors, pc \in PCs, j \in Jails, e \in BOOLEAN :
                          pc \in Commands /\ Begins(x, pc, j, e)
                    \/ \E j \in Jails, p \in Pids : ProcessEnds(j, p)
                    \/ \E j \in Jails, p \in Pids : ProcessStarts(j, p)
                    \/ \E j \in Jails : AppWrites(j)
                    \/ DaemonRestart
                    \/ UNCHANGED jailCore
  OBVIOUS
<1> USE DEF mapVars, jailVars, guardVars, monVars, history
<1>1. ASSUME NEW x \in Conns, Dispatch(x)
      PROVE  \E pc \in PCs, j \in Jails, e \in BOOLEAN :
                pc \in Commands /\ Begins(x, pc, j, e)
  BY <1>1 DEF Dispatch, Begins, Commands, PCs, Signals
<1>2. ASSUME DispatchZenoh
      PROVE  \E pc \in PCs, j \in Jails, e \in BOOLEAN :
                pc \in Commands /\ Begins("bridge", pc, j, e)
  <2>1. PICK j \in Jails, pc \in {"freeze", "thaw"} : Begin("bridge", pc, j, FALSE)
    BY <1>2 DEF DispatchZenoh
  <2>2. Begins("bridge", pc, j, FALSE) /\ pc \in PCs /\ pc \in Commands
    BY <1>2, <2>1 DEF DispatchZenoh, Begins, Commands, PCs, Signals
  <2>3. QED
    BY <2>2
<1>3. ASSUME MonitorNext, op' # op
      PROVE  \E pc \in PCs, j \in Jails, e \in BOOLEAN :
                pc \in Commands /\ Begins("mon", pc, j, e)
  <2> DEFINE j == Head(plan)
             pc == MonitorAct(j)
  <2>1. j \in Jails
    BY <1>3 DEF MonitorNext, TypeOK
  <2>2. pc \in {"freeze", "hibernate", "kill", "idle"}
    BY DEF MonitorAct
  <2>3. pc # "idle" /\ Begin("mon", pc, j, pc = "hibernate")
    BY <1>3 DEF MonitorNext
  <2>4. Begins("mon", pc, j, pc = "hibernate")
    BY <1>3, <2>3 DEF MonitorNext, Begins
  <2>5. pc \in PCs /\ pc \in Commands
    BY <2>2, <2>3 DEF PCs, Commands, Signals
  <2> HIDE DEF pc, j
  <2>6. QED
    BY <2>1, <2>4, <2>5
<1>4. CASE MonitorNext /\ op' = op
  BY <1>4 DEF MonitorNext, jailCore
<1>5. CASE \/ GuardOn \/ GuardOff \/ MonitorTick
           \/ \E t \in timers : TimerFires(t)
           \/ \E j \in Jails, p \in Prios : SetPriority(j, p)
           \/ \E j \in Jails : IdleWindowPasses(j)
  BY <1>5 DEF GuardOn, GuardOff, MonitorTick, TimerFires, SetPriority,
      IdleWindowPasses, jailCore
<1>6. CASE UNCHANGED vars
  BY <1>6 DEF vars, jailCore
<1>7. Conns \subseteq Actors /\ "bridge" \in Actors /\ "mon" \in Actors
  BY DEF Actors
<1>8. CASE \E x \in Conns : Dispatch(x)
  BY <1>8, <1>1, <1>7
<1>9. CASE DispatchZenoh
  BY <1>9, <1>2, <1>7
<1>10. CASE MonitorNext /\ op' # op
  BY <1>10, <1>3, <1>7
<1>11. QED
  BY <1>4, <1>5, <1>6, <1>8, <1>9, <1>10 DEF Next

\* Every step stays within the bounds.
LEMMA StepBounds == BoundsOK /\ [Next]_vars => BoundsOK'
<1> SUFFICES ASSUME BoundsOK, [Next]_vars PROVE BoundsOK'
  OBVIOUS
<1>1. CASE SpendCmd
  BY <1>1, BoundsAssumption DEF BoundsOK, SpendCmd
<1>2. CASE DaemonRestart
  BY <1>2, BoundsAssumption DEF BoundsOK, DaemonRestart
<1>3. CASE \E j \in Jails, p \in Pids : ProcessStarts(j, p)
  BY <1>3, BoundsAssumption DEF BoundsOK, ProcessStarts
<1>4. CASE UNCHANGED used
  BY <1>4 DEF BoundsOK
<1>5. ASSUME NEW x \in Actors, Step(x) PROVE UNCHANGED used
  BY <1>5
  DEF Step, SignalPids, FreezeThaw, HibernateRestore, Kill, SetState, ListPids,
      Signal, SignalErrorIgnored, FreezeError, SetFrozen, ThawError, SetRunning,
      Snapshot, SnapshotFails, SetHibernated, RestoreLook, RestoreNoProcs,
      ListSnapshots, Rollback, RollbackError, RecycleTmp, SetDead
<1>6. QED
  BY <1>1, <1>2, <1>3, <1>4, <1>5
  DEF Next, Dispatch, DispatchZenoh, SetPriority, GuardOn, GuardOff, TimerFires,
      MonitorTick, MonitorNext, ProcessEnds, AppWrites, IdleWindowPasses, vars

\* The part of TypeOK about jails and commands.
JailTypes ==
    /\ state \in [Jails -> AppState]
    /\ proc \in [Jails -> [Pids -> {"run", "stop", "none"}]]
    /\ data \in [Jails -> Nat]
    /\ snap \in [Jails -> Nat \cup {None}]
    /\ op \in [Actors -> OpType]
    /\ late \in [Jails -> SUBSET Pids]
    /\ mixed \subseteq Jails
    /\ \A x \in Actors : /\ op[x].pc # "idle" => op[x].jail \in Jails
                         /\ op[x].pc = "rollback" => op[x].ver # None
                         /\ op[x].pids # {} => op[x].pc \in Signals /\ op[x].listed

\* A command in a phase has a jail, and a rollback a version.
LEMMA PhaseJail ==
    ASSUME JailTypes, NEW x \in Actors
    PROVE  /\ op[x].pc # "idle" => op[x].jail \in Jails
           /\ op[x].pc = "rollback" => op[x].ver \in Nat
           /\ op[x].pids # {} => op[x].pc \in Signals /\ op[x].listed
BY DEF JailTypes, OpType

\* What changes of the commands when one goes on to phase q.
OpMoved(x, q) ==
    /\ op' \in [Actors -> OpType]
    /\ op'[x].pc = q /\ op'[x].jail = op[x].jail /\ op'[x].listed = op[x].listed
    /\ op'[x].pids = op[x].pids /\ op'[x].hit = op[x].hit
    /\ op'[x].ver = op[x].ver /\ op'[x].fresh = op[x].fresh
    /\ op'[x].alone = op[x].alone
    /\ \A y \in Actors : y # x => op'[y] = op[y]

LEMMA GotoOp ==
    ASSUME JailTypes, NEW x \in Actors, NEW q \in PCs, Goto(x, q)
    PROVE  OpMoved(x, q)
<1> USE DEF OpMoved
<1> DEFINE r == [op[x] EXCEPT !.pc = q]
<1>1. op[x] \in OpType /\ op \in [Actors -> OpType]
  BY DEF JailTypes
<1>2. op' = [op EXCEPT ![x] = r]
  BY DEF Goto
<1>3. /\ r \in OpType /\ r.pc = q /\ r.jail = op[x].jail /\ r.listed = op[x].listed
      /\ r.pids = op[x].pids /\ r.hit = op[x].hit /\ r.ver = op[x].ver
      /\ r.fresh = op[x].fresh /\ r.alone = op[x].alone
  BY <1>1 DEF OpType
<1> HIDE DEF r
<1>4. op' \in [Actors -> OpType] /\ op'[x] = r /\ \A y \in Actors : y # x => op'[y] = op[y]
  BY <1>1, <1>2, <1>3
<1>5. QED
  BY <1>3, <1>4

\* When a command has listed the processes, or takes an error for none.
OpListed(x) ==
    /\ op' \in [Actors -> OpType]
    /\ op'[x].pc = op[x].pc /\ op'[x].jail = op[x].jail /\ op'[x].listed
    /\ op'[x].hit = op[x].hit /\ op'[x].ver = op[x].ver
    /\ op'[x].fresh = op[x].fresh /\ op'[x].alone = op[x].alone
    /\ ListPids(x) => op'[x].pids = Alive(op[x].jail)
    /\ SignalErrorIgnored(x) => op'[x].pids = op[x].pids \/ ListPids(x)
    /\ \A y \in Actors : y # x => op'[y] = op[y]

LEMMA ListOp ==
    ASSUME JailTypes, NEW x \in Actors, ListPids(x) \/ SignalErrorIgnored(x)
    PROVE  OpListed(x)
<1> USE DEF OpListed
<1>1. op[x] \in OpType /\ op \in [Actors -> OpType]
  BY DEF JailTypes
<1>2. CASE ListPids(x)
  <2> DEFINE r == [op[x] EXCEPT !.listed = TRUE, !.pids = Alive(op[x].jail)]
  <2>1. op' = [op EXCEPT ![x] = r]
    BY <1>2, <1>1 DEF ListPids, OpType
  <2>0. Alive(op[x].jail) \in SUBSET Pids
    BY DEF Alive, AliveIn
  <2>2. /\ r \in OpType /\ r.pc = op[x].pc /\ r.jail = op[x].jail /\ r.listed
        /\ r.pids = Alive(op[x].jail) /\ r.hit = op[x].hit /\ r.ver = op[x].ver
        /\ r.fresh = op[x].fresh /\ r.alone = op[x].alone
    BY <1>1, <2>0 DEF OpType
  <2> HIDE DEF r
  <2>3. op' \in [Actors -> OpType] /\ op'[x] = r /\ \A y \in Actors : y # x => op'[y] = op[y]
    BY <1>1, <2>1, <2>2
  <2>4. QED
    BY <1>2, <2>2, <2>3
<1>3. CASE SignalErrorIgnored(x) /\ ~ListPids(x)
  <2> DEFINE r == [op[x] EXCEPT !.listed = TRUE]
  <2>1. op' = [op EXCEPT ![x] = r]
    BY <1>3 DEF SignalErrorIgnored
  <2>2. /\ r \in OpType /\ r.pc = op[x].pc /\ r.jail = op[x].jail /\ r.listed
        /\ r.pids = op[x].pids /\ r.hit = op[x].hit /\ r.ver = op[x].ver
        /\ r.fresh = op[x].fresh /\ r.alone = op[x].alone
    BY <1>1 DEF OpType
  <2> HIDE DEF r
  <2>3. op' \in [Actors -> OpType] /\ op'[x] = r /\ \A y \in Actors : y # x => op'[y] = op[y]
    BY <1>1, <2>1, <2>2
  <2>4. QED
    BY <1>3, <2>2, <2>3
<1>4. QED
  BY <1>2, <1>3

\* When it has signalled process p.
OpSignalled(x) ==
    /\ op' \in [Actors -> OpType]
    /\ op'[x].pc = op[x].pc /\ op'[x].jail = op[x].jail
    /\ op'[x].listed = op[x].listed /\ op'[x].ver = op[x].ver
    /\ op'[x].fresh = op[x].fresh /\ op'[x].alone = op[x].alone
    /\ \A y \in Actors : y # x => op'[y] = op[y]
    /\ op[x].jail \in Jails /\ op[x].pc \in Signals /\ op[x].listed
    /\ proc' \in [Jails -> [Pids -> {"run", "stop", "none"}]]
    /\ \A k \in Jails : k # op[x].jail => proc'[k] = proc[k]
    /\ \E p \in op[x].pids :
          /\ p \in Pids
          /\ \A q \in Pids : q # p => proc'[op[x].jail][q] = proc[op[x].jail][q]
          /\ proc'[op[x].jail][p] = Signalled(op[x].pc, proc[op[x].jail][p])
          /\ op'[x].pids = op[x].pids \ {p}
          /\ op[x].pc = "cont" =>
                op'[x].hit = (op[x].hit \/ proc[op[x].jail][p] # "none")

LEMMA SignalOp ==
    ASSUME JailTypes, NEW x \in Actors, Signal(x)
    PROVE  OpSignalled(x)
<1> USE DEF OpSignalled
<1>1. op[x] \in OpType /\ op \in [Actors -> OpType]
  BY DEF JailTypes
<1>2. PICK p \in op[x].pids :
         /\ proc' = [proc EXCEPT ![op[x].jail][p] = Signalled(op[x].pc, @)]
         /\ op' = [op EXCEPT ![x].pids = @ \ {p},
                             ![x].hit = op[x].pc = "cont" /\ (@ \/ proc[op[x].jail][p] # "none")]
  BY DEF Signal
<1> DEFINE h == op[x].pc = "cont" /\ (op[x].hit \/ proc[op[x].jail][p] # "none")
           r == [op[x] EXCEPT !.pids = op[x].pids \ {p}, !.hit = h]
<1>3. h \in BOOLEAN
  OBVIOUS
<1> HIDE DEF h
<1>4. op' = [op EXCEPT ![x] = r]
  BY <1>1, <1>2 DEF OpType, h
<1>5. /\ r \in OpType /\ r.pc = op[x].pc /\ r.jail = op[x].jail /\ r.listed = op[x].listed
      /\ r.pids = op[x].pids \ {p} /\ r.hit = h /\ r.ver = op[x].ver
      /\ r.fresh = op[x].fresh /\ r.alone = op[x].alone
  BY <1>1, <1>3 DEF OpType
<1> HIDE DEF r
<1>6. op' \in [Actors -> OpType] /\ op'[x] = r /\ \A y \in Actors : y # x => op'[y] = op[y]
  BY <1>1, <1>4, <1>5
<1>7. op[x].pc = "cont" => h = (op[x].hit \/ proc[op[x].jail][p] # "none")
  BY <1>1 DEF OpType, h
<1>8. op[x].jail \in Jails /\ op[x].pc \in Signals /\ op[x].listed /\ p \in Pids
  BY <1>1, <1>2, PhaseJail DEF OpType, Signals
<1> DEFINE k == op[x].jail
           v == Signalled(op[x].pc, proc[k][p])
<1>9. v \in {"run", "stop", "none"}
  BY <1>8 DEF Signalled, JailTypes
<1>10. /\ proc \in [Jails -> [Pids -> {"run", "stop", "none"}]]
       /\ proc' = [proc EXCEPT ![k] = [proc[k] EXCEPT ![p] = v]]
  BY <1>2, <1>8 DEF JailTypes
<1> HIDE DEF v, k
<1>11. /\ proc' \in [Jails -> [Pids -> {"run", "stop", "none"}]]
       /\ \A l \in Jails : l # k => proc'[l] = proc[l]
       /\ \A q \in Pids : q # p => proc'[k][q] = proc[k][q]
       /\ proc'[k][p] = v
  BY <1>8, <1>9, <1>10 DEF k
<1>12. /\ p \in op[x].pids
       /\ op'[x].pids = op[x].pids \ {p}
       /\ op[x].pc = "cont" => op'[x].hit = (op[x].hit \/ proc[op[x].jail][p] # "none")
  BY <1>2, <1>5, <1>6, <1>7
<1>13. QED
  BY <1>5, <1>6, <1>8, <1>11, <1>12 DEF k, v

\* When it has chosen the snapshot to roll back to.
OpChosen(x) ==
    /\ op' \in [Actors -> OpType]
    /\ op'[x].pc = "rollback" /\ op'[x].jail = op[x].jail
    /\ op'[x].listed = op[x].listed /\ op'[x].pids = op[x].pids
    /\ op'[x].hit = op[x].hit /\ op'[x].ver = snap[op[x].jail]
    /\ op'[x].fresh = op[x].fresh /\ op'[x].alone = op[x].alone
    /\ \A y \in Actors : y # x => op'[y] = op[y]

LEMMA ChooseOp ==
    ASSUME JailTypes, NEW x \in Actors, ListSnapshots(x)
    PROVE  OpChosen(x)
<1> USE DEF OpChosen
<1> DEFINE r == [op[x] EXCEPT !.pc = "rollback", !.ver = snap[op[x].jail]]
<1>1. op[x] \in OpType /\ op \in [Actors -> OpType] /\ op[x].jail \in Jails
  BY DEF JailTypes, ListSnapshots
<1>2. op' = [op EXCEPT ![x] = r]
  BY <1>1 DEF ListSnapshots, OpType
<1>3. snap[op[x].jail] \in Nat \cup {None}
  BY <1>1 DEF JailTypes
<1>4. /\ r \in OpType /\ r.pc = "rollback" /\ r.jail = op[x].jail
      /\ r.listed = op[x].listed /\ r.pids = op[x].pids /\ r.hit = op[x].hit
      /\ r.ver = snap[op[x].jail] /\ r.fresh = op[x].fresh /\ r.alone = op[x].alone
  BY <1>1, <1>3 DEF OpType, PCs, Signals
<1> HIDE DEF r
<1>5. op' \in [Actors -> OpType] /\ op'[x] = r /\ \A y \in Actors : y # x => op'[y] = op[y]
  BY <1>1, <1>2, <1>4
<1>6. QED
  BY <1>4, <1>5

\* When a command begins.
OpBegun(x, pc, j, e) ==
    /\ op' \in [Actors -> OpType]
    /\ op'[x] = OpRec(pc, j, e, Quiet(j))
    /\ \A y \in Actors : y # x =>
          /\ op'[y].pc = op[y].pc /\ op'[y].jail = op[y].jail
          /\ op'[y].listed = op[y].listed /\ op'[y].pids = op[y].pids
          /\ op'[y].hit = op[y].hit /\ op'[y].ver = op[y].ver
          /\ op'[y].fresh = op[y].fresh
          /\ op'[y].alone => op[y].alone /\ op[y].jail # j

LEMMA BeginOp ==
    ASSUME JailTypes, NEW x \in Actors, NEW pc \in PCs, NEW j \in Jails,
           NEW e \in BOOLEAN, Begin(x, pc, j, e)
    PROVE  OpBegun(x, pc, j, e)
<1> USE DEF OpBegun
<1>1. op \in [Actors -> OpType]
  BY DEF JailTypes
<1>2. OpRec(pc, j, e, Quiet(j)) \in OpType
  BY DEF OpType, OpRec, Quiet
<1>3. \A y \in Actors : LET r == [op[y] EXCEPT !.alone = FALSE]
                        IN  /\ r \in OpType /\ r.pc = op[y].pc /\ r.jail = op[y].jail
                            /\ r.listed = op[y].listed /\ r.pids = op[y].pids
                            /\ r.hit = op[y].hit /\ r.ver = op[y].ver
                            /\ r.fresh = op[y].fresh /\ ~r.alone
  BY <1>1 DEF OpType
<1>4. op'[x] = OpRec(pc, j, e, Quiet(j))
  BY DEF Begin
<1>5. \A y \in Actors : y # x =>
         op'[y] = IF op[y].jail = j THEN [op[y] EXCEPT !.alone = FALSE] ELSE op[y]
  BY DEF Begin
<1>6. op' \in [Actors -> OpType]
  <2> SUFFICES ASSUME NEW y \in Actors
               PROVE  (IF y = x THEN OpRec(pc, j, e, Quiet(j))
                       ELSE IF op[y].jail = j THEN [op[y] EXCEPT !.alone = FALSE]
                       ELSE op[y]) \in OpType
    BY DEF Begin
  <2>1. QED
    BY <1>1, <1>2, <1>3
<1>7. QED
  BY <1>1, <1>3, <1>4, <1>5, <1>6

\* When a process starts.
OpStarted(j, p) ==
    /\ op' \in [Actors -> OpType]
    /\ \A y \in Actors :
          /\ op'[y].pc = op[y].pc /\ op'[y].jail = op[y].jail
          /\ op'[y].listed = op[y].listed /\ op'[y].pids = op[y].pids
          /\ op'[y].hit = op[y].hit /\ op'[y].ver = op[y].ver
          /\ op'[y].alone = op[y].alone
          /\ op'[y].fresh = IF op[y].jail = j /\ op[y].listed
                            THEN op[y].fresh \cup {p} ELSE op[y].fresh

LEMMA StartOp ==
    ASSUME JailTypes, NEW j \in Jails, NEW p \in Pids, ProcessStarts(j, p)
    PROVE  OpStarted(j, p)
<1> USE DEF OpStarted
<1>1. op \in [Actors -> OpType]
  BY DEF JailTypes
<1>2. \A y \in Actors : LET r == [op[y] EXCEPT !.fresh = @ \cup {p}]
                        IN  /\ r \in OpType /\ r.pc = op[y].pc /\ r.jail = op[y].jail
                            /\ r.listed = op[y].listed /\ r.pids = op[y].pids
                            /\ r.hit = op[y].hit /\ r.ver = op[y].ver
                            /\ r.alone = op[y].alone /\ r.fresh = op[y].fresh \cup {p}
  BY <1>1 DEF OpType
<1>3. op' = [y \in Actors |-> IF op[y].jail = j /\ op[y].listed
                              THEN [op[y] EXCEPT !.fresh = @ \cup {p}] ELSE op[y]]
  BY DEF ProcessStarts
<1>4. op' \in [Actors -> OpType]
  <2> SUFFICES ASSUME NEW y \in Actors
               PROVE  (IF op[y].jail = j /\ op[y].listed
                       THEN [op[y] EXCEPT !.fresh = @ \cup {p}] ELSE op[y]) \in OpType
    BY <1>3
  <2>1. QED
    BY <1>1, <1>2
<1>5. QED
  BY <1>1, <1>2, <1>3, <1>4

\* When it returns.
OpReturned(x) ==
    /\ op' \in [Actors -> OpType]
    /\ op'[x].pc = "idle" /\ op'[x].jail = None /\ ~op'[x].alone
    /\ op'[x].pids = {}
    /\ \A y \in Actors : y # x => op'[y] = op[y]

LEMMA ReturnOp ==
    ASSUME JailTypes, NEW x \in Actors, Return(x)
    PROVE  OpReturned(x)
<1>1. op \in [Actors -> OpType]
  BY DEF JailTypes
<1>2. /\ Idle \in OpType /\ Idle.pc = "idle" /\ Idle.jail = None /\ ~Idle.alone
      /\ Idle.pids = {}
  BY DEF Idle, OpRec, OpType, PCs
<1>3. op' = [op EXCEPT ![x] = Idle]
  BY DEF Return
<1>4. QED
  BY <1>1, <1>2, <1>3 DEF OpReturned

\* When its HIBERNATE is over: the monitor's goes on to the kill.
OpEvicts(x) ==
    /\ op' \in [Actors -> OpType]
    /\ op'[x].pc = "kill" /\ op'[x].jail = op[x].jail /\ ~op'[x].listed
    /\ op'[x].pids = {} /\ op'[x].alone = op[x].alone
    /\ \A y \in Actors : y # x => op'[y] = op[y]

LEMMA AfterOp ==
    ASSUME JailTypes, NEW x \in Actors, AfterHibernate(x)
    PROVE  OpReturned(x) \/ OpEvicts(x)
<1>1. op \in [Actors -> OpType]
  BY DEF JailTypes
<1>2. CASE op[x].evict
  <2> DEFINE r == OpRec("kill", op[x].jail, FALSE, op[x].alone)
  <2>1. /\ r \in OpType /\ r.pc = "kill" /\ r.jail = op[x].jail /\ ~r.listed
        /\ r.pids = {} /\ r.alone = op[x].alone
    BY <1>1 DEF OpRec, OpType, PCs, Signals
  <2>2. op' = [op EXCEPT ![x] = r]
    BY <1>1, <1>2 DEF AfterHibernate
  <2> HIDE DEF r
  <2>3. QED
    BY <1>1, <2>1, <2>2 DEF OpEvicts
<1>3. CASE ~op[x].evict
  <2>1. Return(x)
    BY <1>1, <1>3 DEF AfterHibernate, Return
  <2>2. QED
    BY <2>1, ReturnOp
<1>4. QED
  BY <1>2, <1>3

\* What changes of the map when command x writes state s.
Wrote(x, s) ==
    LET j == op[x].jail
    IN  /\ state' \in [Jails -> AppState] /\ late' \in [Jails -> SUBSET Pids]
        /\ mixed' \subseteq Jails
        /\ state'[j] = s
        /\ late'[j] = IF s \in Silent THEN {} ELSE op[x].fresh
        /\ j \in mixed' <=> ~op[x].alone
        /\ \A k \in Jails : k # j => /\ state'[k] = state[k]
                                     /\ late'[k] = late[k]
                                     /\ k \in mixed' <=> k \in mixed
        /\ UNCHANGED <<proc, data, snap>>

LEMMA WriteState ==
    ASSUME JailTypes, NEW x \in Actors, NEW s \in AppState, SetState(x, s),
           op[x].jail \in Jails
    PROVE  Wrote(x, s)
<1> DEFINE j == op[x].jail
           l == IF s \in Silent THEN {} ELSE op[x].fresh
<1>1. op[x] \in OpType
  BY DEF JailTypes
<1>2. l \in SUBSET Pids
  BY <1>1 DEF OpType
<1>3. /\ state' = [state EXCEPT ![j] = s]
      /\ late' = [late EXCEPT ![j] = l]
      /\ mixed' = IF op[x].alone THEN mixed \ {j} ELSE mixed \cup {j}
      /\ UNCHANGED <<proc, data, snap>>
  BY DEF SetState, jailVars
<1>4. state \in [Jails -> AppState] /\ late \in [Jails -> SUBSET Pids] /\ mixed \subseteq Jails
  BY DEF JailTypes
<1> HIDE DEF l
<1>5. state' \in [Jails -> AppState] /\ state'[j] = s /\ late'[j] = l
      /\ late' \in [Jails -> SUBSET Pids]
      /\ \A k \in Jails : k # j => state'[k] = state[k] /\ late'[k] = late[k]
  BY <1>2, <1>3, <1>4
<1>6. /\ mixed' \subseteq Jails
      /\ j \in mixed' <=> ~op[x].alone
      /\ \A k \in Jails : k # j => (k \in mixed' <=> k \in mixed)
  BY <1>1, <1>3, <1>4 DEF OpType
<1>7. QED
  BY <1>3, <1>5, <1>6 DEF Wrote, l

\* What a signal does to a process.
LEMMA SignalledState ==
    ASSUME NEW c \in Signals, NEW v \in {"run", "stop", "none"}
    PROVE  /\ v = "none" => Signalled(c, v) = "none"
           /\ c = "kill" => Signalled(c, v) = "none"
           /\ c \in {"freeze", "hibernate"} => Signalled(c, v) # "run"
BY DEF Signalled, Signals

\* What a signal does to the processes of the jail.
SignalDone(x) ==
    LET j == op[x].jail
    IN  /\ \A k \in Jails : k # j => proc'[k] = proc[k]
        /\ AliveIn(proc'[j]) \subseteq AliveIn(proc[j])
        /\ \E p \in op[x].pids :
              /\ op'[x].pids = op[x].pids \ {p}
              /\ op[x].pc = "kill" =>
                    AliveIn(proc'[j]) \subseteq AliveIn(proc[j]) \ {p}
              /\ op[x].pc = "cont" /\ ~op'[x].hit =>
                    /\ ~op[x].hit
                    /\ AliveIn(proc'[j]) \subseteq AliveIn(proc[j]) \ {p}
                    /\ RunsIn(proc'[j]) \subseteq RunsIn(proc[j])
              /\ op[x].pc = "cont" /\ op[x].hit => op'[x].hit
              /\ op[x].pc \in {"freeze", "hibernate", "kill"} =>
                    RunsIn(proc'[j]) \subseteq RunsIn(proc[j]) \ {p}

LEMMA SignalEffect ==
    ASSUME JailTypes, NEW x \in Actors, Signal(x)
    PROVE  SignalDone(x)
<1> DEFINE j == op[x].jail
<1>1. OpSignalled(x)
  BY SignalOp
<1>2. PICK p \in op[x].pids :
          /\ p \in Pids
          /\ \A q \in Pids : q # p => proc'[j][q] = proc[j][q]
          /\ proc'[j][p] = Signalled(op[x].pc, proc[j][p])
          /\ op'[x].pids = op[x].pids \ {p}
          /\ op[x].pc = "cont" => op'[x].hit = (op[x].hit \/ proc[j][p] # "none")
  BY <1>1 DEF OpSignalled
<1>3. /\ proc[j][p] = "none" => proc'[j][p] = "none"
      /\ op[x].pc = "kill" => proc'[j][p] = "none"
      /\ op[x].pc \in {"freeze", "hibernate"} => proc'[j][p] # "run"
  <2>1. op[x].pc \in Signals /\ proc[j][p] \in {"run", "stop", "none"}
    BY <1>1, <1>2 DEF OpSignalled, JailTypes
  <2>2. QED
    BY <1>2, <2>1, SignalledState
<1>4. AliveIn(proc'[j]) \subseteq AliveIn(proc[j])
  BY <1>2, <1>3 DEF AliveIn
<1>5. proc'[j][p] = "none" => AliveIn(proc'[j]) \subseteq AliveIn(proc[j]) \ {p}
  BY <1>2 DEF AliveIn
<1>6. proc'[j][p] # "run" => RunsIn(proc'[j]) \subseteq RunsIn(proc[j]) \ {p}
  BY <1>2 DEF RunsIn
<1>7. op[x].pc = "cont" /\ ~op'[x].hit => ~op[x].hit /\ proc'[j][p] = "none"
  BY <1>2, <1>3
<1>8. op[x].pc = "cont" /\ op[x].hit => op'[x].hit
  BY <1>2
<1>9. op[x].pc \in {"freeze", "hibernate", "kill"} => proc'[j][p] # "run"
  BY <1>3
<1>10. "none" # "run" /\ \A k \in Jails : k # j => proc'[k] = proc[k]
  BY <1>1 DEF OpSignalled
<1> HIDE DEF j
<1>11. QED
  BY <1>2, <1>3, <1>4, <1>5, <1>6, <1>7, <1>8, <1>9, <1>10 DEF SignalDone, j

\* What a start and an end of a process do.
Grown(j, p) ==
    /\ proc' \in [Jails -> [Pids -> {"run", "stop", "none"}]]
    /\ late' \in [Jails -> SUBSET Pids]
    /\ \A k \in Jails : k # j => proc'[k] = proc[k] /\ late'[k] = late[k]
    /\ AliveIn(proc'[j]) \subseteq AliveIn(proc[j]) \cup {p}
    /\ RunsIn(proc'[j]) \subseteq RunsIn(proc[j]) \cup {p}
    /\ late'[j] = IF state[j] \in Silent THEN {} ELSE late[j] \cup {p}
    /\ UNCHANGED <<state, data, snap, mixed>>

LEMMA StartEffect ==
    ASSUME JailTypes, NEW j \in Jails, NEW p \in Pids, ProcessStarts(j, p)
    PROVE  Grown(j, p)
<1> DEFINE l == IF state[j] \in Silent THEN {} ELSE late[j] \cup {p}
<1>1. /\ proc' = [proc EXCEPT ![j][p] = "run"]
      /\ late' = [late EXCEPT ![j] = l]
      /\ UNCHANGED <<state, data, snap, mixed>>
  BY DEF ProcessStarts, mapVars
<1>2. /\ proc \in [Jails -> [Pids -> {"run", "stop", "none"}]]
      /\ late \in [Jails -> SUBSET Pids]
  BY DEF JailTypes
<1>3. l \in SUBSET Pids
  BY <1>2
<1> HIDE DEF l
<1>4. /\ late' \in [Jails -> SUBSET Pids] /\ late'[j] = l
      /\ \A k \in Jails : k # j => late'[k] = late[k]
  BY <1>1, <1>2, <1>3
<1>5. /\ proc' \in [Jails -> [Pids -> {"run", "stop", "none"}]]
      /\ \A k \in Jails : k # j => proc'[k] = proc[k]
      /\ \A q \in Pids : q # p => proc'[j][q] = proc[j][q]
  BY <1>1, <1>2
<1>6. /\ AliveIn(proc'[j]) \subseteq AliveIn(proc[j]) \cup {p}
      /\ RunsIn(proc'[j]) \subseteq RunsIn(proc[j]) \cup {p}
  BY <1>5 DEF AliveIn, RunsIn
<1>7. QED
  BY <1>1, <1>4, <1>5, <1>6 DEF Grown, l

Shrunk(j) ==
    /\ proc' \in [Jails -> [Pids -> {"run", "stop", "none"}]]
    /\ \A k \in Jails : /\ AliveIn(proc'[k]) \subseteq AliveIn(proc[k])
                        /\ RunsIn(proc'[k]) \subseteq RunsIn(proc[k])
    /\ UNCHANGED <<state, data, snap, op, late, mixed>>

LEMMA EndEffect ==
    ASSUME JailTypes, NEW j \in Jails, NEW p \in Pids, ProcessEnds(j, p)
    PROVE  Shrunk(j)
<1>1. /\ proc' = [proc EXCEPT ![j][p] = "none"]
      /\ UNCHANGED <<state, data, snap, op, late, mixed>>
  BY DEF ProcessEnds, mapVars, history
<1>2. proc \in [Jails -> [Pids -> {"run", "stop", "none"}]]
  BY DEF JailTypes
<1>3. /\ proc' \in [Jails -> [Pids -> {"run", "stop", "none"}]]
      /\ \A k \in Jails, q \in Pids : proc'[k][q] = proc[k][q] \/ proc'[k][q] = "none"
  BY <1>1, <1>2
<1>4. \A k \in Jails : /\ AliveIn(proc'[k]) \subseteq AliveIn(proc[k])
                       /\ RunsIn(proc'[k]) \subseteq RunsIn(proc[k])
  BY <1>3 DEF AliveIn, RunsIn
<1>5. QED
  BY <1>1, <1>3, <1>4 DEF Shrunk

\* Every step keeps the types of jails and commands.
LEMMA StepJailTypes ==
    TypeOK /\ JailTypes /\ [Next]_vars => JailTypes'
<1> SUFFICES ASSUME TypeOK, JailTypes, [Next]_vars PROVE JailTypes'
  OBVIOUS
<1>0. None \notin Jails /\ None \notin Nat
  BY LifecycleAssumption
<1>1. ASSUME NEW x \in Actors, ListPids(x) PROVE JailTypes'
  <2>1. OpListed(x)
    BY <1>1, ListOp
  <2>2. /\ op[x].pc \in Signals /\ ~op[x].listed
        /\ UNCHANGED <<state, proc, data, snap, late, mixed>>
    BY <1>1 DEF ListPids, mapVars, jailVars, history
  <2>3. op[x].jail \in Jails /\ op'[x].pids = AliveIn(proc[op[x].jail])
    BY <1>1, <2>1, <2>2, PhaseJail DEF OpListed, Signals, Alive
  <2>4. QED
    BY <1>0, <2>1, <2>2, <2>3
    DEF OpListed, JailTypes, AppState, Signals
<1>2. ASSUME NEW x \in Actors, Signal(x) PROVE JailTypes'
  <2>1. OpSignalled(x) /\ SignalDone(x)
    BY <1>2, SignalOp, SignalEffect
  <2>2. UNCHANGED <<state, data, snap, late, mixed>>
    BY <1>2 DEF Signal, mapVars, jailVars, history
  <2>3. op[x].jail \in Jails /\ op[x].pc \in Signals /\ op[x].listed
    BY <2>1 DEF OpSignalled
  <2>4. /\ op' \in [Actors -> OpType]
        /\ \A y \in Actors :
              /\ op'[y].pc = op[y].pc /\ op'[y].jail = op[y].jail
              /\ op'[y].ver = op[y].ver /\ op'[y].listed = op[y].listed
              /\ op'[y].pids # {} => op[y].pids # {}
    BY <2>1 DEF OpSignalled
  <2>5. proc' \in [Jails -> [Pids -> {"run", "stop", "none"}]]
    BY <2>1 DEF OpSignalled
  <2>6. QED
    BY <2>2, <2>4, <2>5 DEF JailTypes
<1>3. ASSUME NEW x \in Actors, SignalErrorIgnored(x) PROVE JailTypes'
  <2>1. OpListed(x)
    BY <1>3, ListOp
  <2>2. /\ op[x].pc \in {"hibernate", "cont", "kill"} /\ ~op[x].listed
        /\ AliveIn(proc[op[x].jail]) = {} \/ op[x].jail \in Flaky
        /\ op' = [op EXCEPT ![x].listed = TRUE]
        /\ UNCHANGED <<state, proc, data, snap, late, mixed>>
    BY <1>3
    DEF SignalErrorIgnored, SignalError, Alive, mapVars, jailVars, history
  <2>3. op[x].jail \in Jails /\ op[x].pids = {} /\ op'[x].pids = {}
    BY <2>2, PhaseJail DEF JailTypes, OpType
  <2>4. QED
    BY <1>0, <2>1, <2>2, <2>3
    DEF OpListed, JailTypes, AppState, Signals
<1>4. ASSUME NEW x \in Actors, FreezeError(x) PROVE JailTypes'
  <2>1. OpReturned(x)
    BY <1>4, ReturnOp DEF FreezeError
  <2>2. op[x].pc = "freeze" /\ ~op[x].listed /\ UNCHANGED <<state, proc, data, snap, late, mixed>>
    BY <1>4 DEF FreezeError, SignalError, mapVars, jailVars, history
  <2>3. QED
    BY <1>0, <2>1, <2>2 DEF OpReturned, JailTypes, AppState, Signals
<1>5. ASSUME NEW x \in Actors, SetFrozen(x) PROVE JailTypes'
  <2>1. op[x].pc = "freeze" /\ op[x].listed /\ op[x].pids = {}
    BY <1>5 DEF SetFrozen, AllSignalled
  <2>2. op[x].jail \in Jails
    BY <2>1, PhaseJail
  <2>3. OpReturned(x) /\ Wrote(x, "Frozen")
    BY <1>5, <2>2, ReturnOp, WriteState DEF SetFrozen, AppState
  <2>4. QED
    BY <1>0, <2>1, <2>2, <2>3
    DEF OpReturned, Wrote, JailTypes, AppState, Signals
<1>6. ASSUME NEW x \in Actors, ThawError(x) PROVE JailTypes'
  <2>1. OpReturned(x)
    BY <1>6, ReturnOp DEF ThawError
  <2>2. op[x].pc = "thaw" /\ ~op[x].listed /\ UNCHANGED <<state, proc, data, snap, late, mixed>>
    BY <1>6 DEF ThawError, SignalError, mapVars, jailVars, history
  <2>3. QED
    BY <1>0, <2>1, <2>2 DEF OpReturned, JailTypes, AppState, Signals
<1>7. ASSUME NEW x \in Actors, SetRunning(x) PROVE JailTypes'
  <2>1. /\ op[x].pc \in {"thaw", "cont", "setRunning"}
        /\ op[x].pc = "thaw" => op[x].listed
        /\ op[x].pc = "cont" => op[x].listed /\ op[x].hit
    BY <1>7 DEF SetRunning, AllSignalled
  <2>2. op[x].jail \in Jails
    BY <2>1, PhaseJail
  <2>3. OpReturned(x) /\ Wrote(x, "Running")
    BY <1>7, <2>2, ReturnOp, WriteState DEF SetRunning, AppState
  <2>4. QED
    BY <1>0, <2>2, <2>3 DEF OpReturned, Wrote, JailTypes
<1>8. ASSUME NEW x \in Actors, Snapshot(x) PROVE JailTypes'
  <2>1. OpMoved(x, "setHibernated")
    BY <1>8, GotoOp DEF Snapshot, PCs, Signals
  <2>2. /\ op[x].pc = "hibernate" /\ op[x].listed /\ op[x].pids = {}
        /\ snap' = [snap EXCEPT ![op[x].jail] = data[op[x].jail]]
        /\ UNCHANGED <<state, proc, data, late, mixed>>
    BY <1>8 DEF Snapshot, AllSignalled, mapVars, jailVars, history
  <2>3. op[x].jail \in Jails
    BY <2>2, PhaseJail
  <2>4. /\ snap' \in [Jails -> Nat \cup {None}] /\ snap'[op[x].jail] # None
        /\ snap'[op[x].jail] = data[op[x].jail]
        /\ \A k \in Jails : k # op[x].jail => snap'[k] = snap[k]
    BY <2>2, <2>3, LifecycleAssumption DEF JailTypes
  <2>5. QED
    BY <1>0, <2>1, <2>2, <2>3, <2>4
    DEF OpMoved, JailTypes, AppState, Signals
<1>9. ASSUME NEW x \in Actors, SnapshotFails(x) PROVE JailTypes'
  <2>1. OpReturned(x) \/ OpEvicts(x)
    BY <1>9, AfterOp DEF SnapshotFails
  <2>2. op[x].pc = "hibernate" /\ UNCHANGED <<state, proc, data, snap, late, mixed>>
    BY <1>9
    DEF SnapshotFails, AllSignalled, mapVars, jailVars, history
  <2>3. op[x].jail \in Jails
    BY <2>2, PhaseJail
  <2>4. QED
    BY <1>0, <2>1, <2>2, <2>3
    DEF OpReturned, OpEvicts, JailTypes, AppState, Signals
<1>10. ASSUME NEW x \in Actors, SetHibernated(x) PROVE JailTypes'
  <2>1. op[x].pc = "setHibernated"
    BY <1>10 DEF SetHibernated
  <2>2. op[x].jail \in Jails /\ op[x].pids = {}
    BY <2>1, PhaseJail DEF Signals
  <2>3. (OpReturned(x) \/ OpEvicts(x)) /\ Wrote(x, "Hibernated")
    BY <1>10, <2>2, AfterOp, WriteState DEF SetHibernated, AppState
  <2>4. QED
    BY <1>0, <2>1, <2>2, <2>3
    DEF OpReturned, OpEvicts, Wrote, JailTypes, AppState, Signals
<1>11. ASSUME NEW x \in Actors, RestoreLook(x) PROVE JailTypes'
  <2>1. op[x].pc = "restore" /\ UNCHANGED <<state, proc, data, snap, late, mixed>>
    BY <1>11 DEF RestoreLook, mapVars, jailVars, history
  <2>2. op[x].jail \in Jails /\ op[x].pids = {}
    BY <2>1, PhaseJail DEF Signals
  <2>3. OpMoved(x, "cont") \/ OpReturned(x)
    BY <1>11, GotoOp, ReturnOp DEF RestoreLook, PCs, Signals
  <2>4. QED
    BY <1>0, <2>1, <2>2, <2>3
    DEF OpMoved, OpReturned, JailTypes, AppState, Signals
<1>12. ASSUME NEW x \in Actors, RestoreNoProcs(x) PROVE JailTypes'
  <2>1. OpMoved(x, "list")
    BY <1>12, GotoOp DEF RestoreNoProcs, PCs, Signals
  <2>2. /\ op[x].pc = "cont" /\ op[x].listed /\ op[x].pids = {} /\ ~op[x].hit
        /\ UNCHANGED <<state, proc, data, snap, late, mixed>>
    BY <1>12
    DEF RestoreNoProcs, NoneReached, AllSignalled, mapVars, jailVars, history
  <2>3. op[x].jail \in Jails
    BY <2>2, PhaseJail
  <2>4. QED
    BY <1>0, <2>1, <2>2, <2>3
    DEF OpMoved, JailTypes, AppState, Signals
<1>13. ASSUME NEW x \in Actors, ListSnapshots(x) PROVE JailTypes'
  <2>1. OpChosen(x)
    BY <1>13, ChooseOp
  <2>2. /\ op[x].pc = "list" /\ snap[op[x].jail] # None
        /\ UNCHANGED <<state, proc, data, snap, late, mixed>>
    BY <1>13 DEF ListSnapshots, mapVars, jailVars, history
  <2>3. op[x].jail \in Jails /\ op[x].pids = {}
    BY <2>2, PhaseJail DEF Signals
  <2>4. QED
    BY <1>0, <2>1, <2>2, <2>3
    DEF OpChosen, JailTypes, AppState, Signals
<1>14. ASSUME NEW x \in Actors, Rollback(x) PROVE JailTypes'
  <2>1. OpMoved(x, "setRunning")
    BY <1>14, GotoOp DEF Rollback, PCs, Signals
  <2>2. /\ op[x].pc = "rollback"
        /\ data' = [data EXCEPT ![op[x].jail] = op[x].ver]
        /\ UNCHANGED <<state, proc, snap, late, mixed>>
    BY <1>14 DEF Rollback, mapVars, jailVars, history
  <2>3. op[x].jail \in Jails /\ op[x].ver \in Nat /\ op[x].pids = {}
    BY <2>2, PhaseJail DEF Signals
  <2>4. /\ data' \in [Jails -> Nat]
        /\ \A k \in Jails : k # op[x].jail => data'[k] = data[k]
    BY <2>2, <2>3 DEF JailTypes
  <2>5. QED
    BY <2>1, <2>2, <2>3, <2>4 DEF OpMoved, JailTypes
<1>15. ASSUME NEW x \in Actors, RollbackError(x) PROVE JailTypes'
  <2>1. OpReturned(x)
    BY <1>15, ReturnOp DEF RollbackError
  <2>2. op[x].pc \in {"list", "rollback"} /\ UNCHANGED <<state, proc, data, snap, late, mixed>>
    BY <1>15 DEF RollbackError, mapVars, jailVars, history
  <2>3. QED
    BY <1>0, <2>1, <2>2 DEF OpReturned, JailTypes, AppState, Signals
<1>16. ASSUME NEW x \in Actors, RecycleTmp(x) PROVE JailTypes'
  <2>1. OpMoved(x, "setDead")
    BY <1>16, GotoOp DEF RecycleTmp, PCs, Signals
  <2>2. /\ op[x].pc = "kill" /\ op[x].listed /\ op[x].pids = {}
        /\ UNCHANGED <<state, proc, data, snap, late, mixed>>
    BY <1>16 DEF RecycleTmp, AllSignalled, mapVars, jailVars, history
  <2>3. op[x].jail \in Jails
    BY <2>2, PhaseJail
  <2>4. QED
    BY <1>0, <2>1, <2>2, <2>3
    DEF OpMoved, JailTypes, AppState, Signals
<1>17. ASSUME NEW x \in Actors, SetDead(x) PROVE JailTypes'
  <2>1. op[x].pc = "setDead"
    BY <1>17 DEF SetDead
  <2>2. op[x].jail \in Jails /\ op[x].pids = {}
    BY <2>1, PhaseJail DEF Signals
  <2>3. OpReturned(x) /\ Wrote(x, "Dead")
    BY <1>17, <2>2, ReturnOp, WriteState DEF SetDead, AppState
  <2>4. QED
    BY <1>0, <2>1, <2>2, <2>3
    DEF OpReturned, Wrote, JailTypes, AppState, Signals
<1>18. ASSUME NEW x \in Actors, NEW pc \in PCs, NEW j \in Jails, NEW e \in BOOLEAN,
             pc \in Commands, Begins(x, pc, j, e)
      PROVE  JailTypes'
  <2>1. OpBegun(x, pc, j, e)
    BY <1>18, BeginOp DEF Begins
  <2>2. op[x].pc = "idle" /\ UNCHANGED <<state, proc, data, snap, late, mixed>>
    BY <1>18 DEF Begins
  <2>3. QED
    BY <1>0, <1>18, <2>1, <2>2
    DEF OpBegun, OpRec, Commands, JailTypes, AppState, Signals
<1>19. ASSUME NEW j \in Jails, NEW p \in Pids, ProcessEnds(j, p) PROVE JailTypes'
  <2>1. Shrunk(j)
    BY <1>19, EndEffect
  <2>2. QED
    BY <1>0, <2>1, PhaseJail DEF Shrunk, JailTypes, AppState, Signals
<1>20. ASSUME NEW j \in Jails, NEW p \in Pids, ProcessStarts(j, p) PROVE JailTypes'
  <2>1. OpStarted(j, p) /\ Grown(j, p)
    BY <1>20, StartOp, StartEffect
  <2>2. /\ op' \in [Actors -> OpType]
        /\ \A y \in Actors :
              /\ op'[y].pc = op[y].pc /\ op'[y].jail = op[y].jail
              /\ op'[y].ver = op[y].ver /\ op'[y].listed = op[y].listed
              /\ op'[y].pids = op[y].pids
    BY <2>1 DEF OpStarted
  <2>3. /\ proc' \in [Jails -> [Pids -> {"run", "stop", "none"}]]
        /\ late' \in [Jails -> SUBSET Pids]
        /\ UNCHANGED <<state, data, snap, mixed>>
    BY <2>1 DEF Grown
  <2>4. QED
    BY <2>2, <2>3 DEF JailTypes
<1>21. ASSUME NEW j \in Jails, AppWrites(j) PROVE JailTypes'
  <2>1. /\ RunsIn(proc[j]) # {} /\ data' = [data EXCEPT ![j] = data[j] + 1]
        /\ UNCHANGED <<state, proc, snap, op, late, mixed>>
    BY <1>21 DEF AppWrites, Runs, mapVars, jailVars, history
  <2>2. /\ data' \in [Jails -> Nat] /\ data'[j] = data[j] + 1
        /\ \A k \in Jails : k # j => data'[k] = data[k]
    BY <2>1 DEF JailTypes
  <2>3. QED
    BY <1>0, <2>1, <2>2, PhaseJail DEF JailTypes, AppState, Signals
<1>22. CASE DaemonRestart
  <2>1. /\ state' = [j \in Jails |-> "untracked"]
        /\ op' = [x \in Actors |-> Idle]
        /\ late' = [j \in Jails |-> {}]
        /\ mixed' = {}
        /\ UNCHANGED <<proc, data, snap>>
    BY <1>22 DEF DaemonRestart, jailVars
  <2>2. /\ Idle \in OpType /\ Idle.pc = "idle" /\ Idle.pids = {}
        /\ Idle.jail = None /\ ~Idle.alone
    BY LifecycleAssumption DEF Idle, OpRec, OpType, PCs
  <2>3. QED
    BY <1>0, <2>1, <2>2 DEF JailTypes, AppState, Signals
<1>23. CASE UNCHANGED jailCore
  BY <1>23 DEF jailCore, JailTypes, AppState, Signals
<1>24. QED
  BY <1>1, <1>2, <1>3, <1>4, <1>5, <1>6, <1>7, <1>8, <1>9, <1>10, <1>11,
      <1>12, <1>13, <1>14, <1>15, <1>16, <1>17, <1>18, <1>19, <1>20, <1>21,
      <1>22, <1>23, NextCases
  DEF Step, SignalPids, FreezeThaw, HibernateRestore, Kill

\* What a command has done to the processes and the snapshot stays so until
\* its next step, whatever the other tasks do.
LEMMA StepPhaseFacts ==
    TypeOK /\ JailTypes /\ PhaseFacts /\ [Next]_vars => PhaseFacts'
<1> SUFFICES ASSUME TypeOK, JailTypes, PhaseFacts, [Next]_vars, NEW z \in Actors
             PROVE  Phase(z)'
  BY DEF PhaseFacts
<1>0. None \notin Jails /\ None \notin Nat
  BY LifecycleAssumption
<1>a. Phase(z) /\ (op[z].pc # "idle" => op[z].jail \in Jails)
  BY PhaseJail DEF PhaseFacts
<1>1. ASSUME NEW x \in Actors, ListPids(x) PROVE Phase(z)'
  <2>1. OpListed(x)
    BY <1>1, ListOp
  <2>2. /\ op[x].pc \in Signals /\ ~op[x].listed
        /\ UNCHANGED <<state, proc, data, snap, late, mixed>>
    BY <1>1 DEF ListPids, mapVars, jailVars, history
  <2>3. op[x].jail \in Jails /\ op'[x].pids = AliveIn(proc[op[x].jail])
    BY <1>1, <2>1, <2>2, PhaseJail DEF OpListed, Signals, Alive
  <2>4. CASE z = x
    BY <1>a, <2>1, <2>2, <2>3, <2>4 DEF OpListed, Signals, Phase, Accounted, Alive
  <2>5. CASE z # x
    BY <1>a, <2>1, <2>2, <2>5 DEF OpListed, Phase, Accounted, Alive
  <2>6. QED
    BY <2>4, <2>5
<1>2. ASSUME NEW x \in Actors, Signal(x) PROVE Phase(z)'
  <2>1. OpSignalled(x) /\ SignalDone(x)
    BY <1>2, SignalOp, SignalEffect
  <2>2. UNCHANGED <<state, data, snap, late, mixed>>
    BY <1>2 DEF Signal, mapVars, jailVars, history
  <2>3. op[x].jail \in Jails /\ op[x].pc \in Signals /\ op[x].listed
    BY <2>1 DEF OpSignalled
  <2>4. CASE z = x
    <3>1. /\ op'[z].pc = op[z].pc /\ op'[z].jail = op[z].jail
          /\ op'[z].listed = op[z].listed /\ op'[z].fresh = op[z].fresh
      BY <2>1, <2>4 DEF OpSignalled
    <3>2. PICK p \in op[z].pids :
             /\ op'[z].pids = op[z].pids \ {p}
             /\ op[z].pc = "kill" =>
                  AliveIn(proc'[op[z].jail]) \subseteq AliveIn(proc[op[z].jail]) \ {p}
             /\ op[z].pc = "cont" /\ ~op'[z].hit =>
                  /\ ~op[z].hit
                  /\ AliveIn(proc'[op[z].jail]) \subseteq AliveIn(proc[op[z].jail]) \ {p}
      BY <2>1, <2>4 DEF SignalDone
    <3>3. QED
      BY <1>a, <2>2, <2>3, <2>4, <3>1, <3>2 DEF Phase, Accounted, Alive, Signals
  <2>5. CASE z # x
    <3>1. op'[z] = op[z]
      BY <2>1, <2>5 DEF OpSignalled
    <3>2. op[z].jail \in Jails =>
             AliveIn(proc'[op[z].jail]) \subseteq AliveIn(proc[op[z].jail])
      BY <2>1 DEF SignalDone
    <3>3. QED
      BY <1>a, <2>2, <3>1, <3>2 DEF Phase, Accounted, Alive
  <2>6. QED
    BY <2>4, <2>5
<1>3. ASSUME NEW x \in Actors, SignalErrorIgnored(x) PROVE Phase(z)'
  <2>1. OpListed(x)
    BY <1>3, ListOp
  <2>2. /\ op[x].pc \in {"hibernate", "cont", "kill"} /\ ~op[x].listed
        /\ AliveIn(proc[op[x].jail]) = {} \/ op[x].jail \in Flaky
        /\ op' = [op EXCEPT ![x].listed = TRUE]
        /\ UNCHANGED <<state, proc, data, snap, late, mixed>>
    BY <1>3
    DEF SignalErrorIgnored, SignalError, Alive, mapVars, jailVars, history
  <2>3. op[x].jail \in Jails /\ op[x].pids = {} /\ op'[x].pids = {}
    BY <2>2, PhaseJail DEF JailTypes, OpType
  <2>4. QED
    BY <1>0, <2>1, <2>2, <2>3, <1>a
    DEF OpListed, Phase, Accounted, Alive
<1>4. ASSUME NEW x \in Actors, FreezeError(x) PROVE Phase(z)'
  <2>1. OpReturned(x)
    BY <1>4, ReturnOp DEF FreezeError
  <2>2. op[x].pc = "freeze" /\ ~op[x].listed /\ UNCHANGED <<state, proc, data, snap, late, mixed>>
    BY <1>4 DEF FreezeError, SignalError, mapVars, jailVars, history
  <2>3. QED
    BY <1>0, <2>1, <2>2, <1>a DEF OpReturned, Phase, Accounted, Alive
<1>5. ASSUME NEW x \in Actors, SetFrozen(x) PROVE Phase(z)'
  <2>1. op[x].pc = "freeze" /\ op[x].listed /\ op[x].pids = {}
    BY <1>5 DEF SetFrozen, AllSignalled
  <2>2. op[x].jail \in Jails
    BY <2>1, PhaseJail
  <2>3. OpReturned(x) /\ Wrote(x, "Frozen")
    BY <1>5, <2>2, ReturnOp, WriteState DEF SetFrozen, AppState
  <2>4. QED
    BY <1>0, <2>1, <2>2, <2>3, <1>a
    DEF OpReturned, Wrote, Phase, Accounted, Alive
<1>6. ASSUME NEW x \in Actors, ThawError(x) PROVE Phase(z)'
  <2>1. OpReturned(x)
    BY <1>6, ReturnOp DEF ThawError
  <2>2. op[x].pc = "thaw" /\ ~op[x].listed /\ UNCHANGED <<state, proc, data, snap, late, mixed>>
    BY <1>6 DEF ThawError, SignalError, mapVars, jailVars, history
  <2>3. QED
    BY <1>0, <2>1, <2>2, <1>a DEF OpReturned, Phase, Accounted, Alive
<1>7. ASSUME NEW x \in Actors, SetRunning(x) PROVE Phase(z)'
  <2>1. /\ op[x].pc \in {"thaw", "cont", "setRunning"}
        /\ op[x].pc = "thaw" => op[x].listed
        /\ op[x].pc = "cont" => op[x].listed /\ op[x].hit
    BY <1>7 DEF SetRunning, AllSignalled
  <2>2. op[x].jail \in Jails
    BY <2>1, PhaseJail
  <2>3. OpReturned(x) /\ Wrote(x, "Running")
    BY <1>7, <2>2, ReturnOp, WriteState DEF SetRunning, AppState
  <2>4. QED
    BY <1>0, <2>1, <2>2, <2>3, <1>a
    DEF OpReturned, Wrote, Phase, Accounted, Alive
<1>8. ASSUME NEW x \in Actors, Snapshot(x) PROVE Phase(z)'
  <2>1. OpMoved(x, "setHibernated")
    BY <1>8, GotoOp DEF Snapshot, PCs, Signals
  <2>2. /\ op[x].pc = "hibernate" /\ op[x].listed /\ op[x].pids = {}
        /\ snap' = [snap EXCEPT ![op[x].jail] = data[op[x].jail]]
        /\ UNCHANGED <<state, proc, data, late, mixed>>
    BY <1>8 DEF Snapshot, AllSignalled, mapVars, jailVars, history
  <2>3. op[x].jail \in Jails
    BY <2>2, PhaseJail
  <2>4. /\ snap' \in [Jails -> Nat \cup {None}] /\ snap'[op[x].jail] # None
        /\ snap'[op[x].jail] = data[op[x].jail]
        /\ \A k \in Jails : k # op[x].jail => snap'[k] = snap[k]
    BY <2>2, <2>3, LifecycleAssumption DEF JailTypes
  <2>5. QED
    BY <1>0, <2>1, <2>2, <2>3, <2>4, <1>a
    DEF OpMoved, Phase, Accounted, Alive
<1>9. ASSUME NEW x \in Actors, SnapshotFails(x) PROVE Phase(z)'
  <2>1. OpReturned(x) \/ OpEvicts(x)
    BY <1>9, AfterOp DEF SnapshotFails
  <2>2. op[x].pc = "hibernate" /\ UNCHANGED <<state, proc, data, snap, late, mixed>>
    BY <1>9
    DEF SnapshotFails, AllSignalled, mapVars, jailVars, history
  <2>3. op[x].jail \in Jails
    BY <2>2, PhaseJail
  <2>4. QED
    BY <1>0, <2>1, <2>2, <2>3, <1>a
    DEF OpReturned, OpEvicts, Phase, Accounted, Alive
<1>10. ASSUME NEW x \in Actors, SetHibernated(x) PROVE Phase(z)'
  <2>1. op[x].pc = "setHibernated"
    BY <1>10 DEF SetHibernated
  <2>2. op[x].jail \in Jails /\ op[x].pids = {}
    BY <2>1, PhaseJail DEF Signals
  <2>3. (OpReturned(x) \/ OpEvicts(x)) /\ Wrote(x, "Hibernated")
    BY <1>10, <2>2, AfterOp, WriteState DEF SetHibernated, AppState
  <2>4. QED
    BY <1>0, <2>1, <2>2, <2>3, <1>a
    DEF OpReturned, OpEvicts, Wrote, Phase, Accounted, Alive
<1>11. ASSUME NEW x \in Actors, RestoreLook(x) PROVE Phase(z)'
  <2>1. op[x].pc = "restore" /\ UNCHANGED <<state, proc, data, snap, late, mixed>>
    BY <1>11 DEF RestoreLook, mapVars, jailVars, history
  <2>2. op[x].jail \in Jails /\ op[x].pids = {}
    BY <2>1, PhaseJail DEF Signals
  <2>3. OpMoved(x, "cont") \/ OpReturned(x)
    BY <1>11, GotoOp, ReturnOp DEF RestoreLook, PCs, Signals
  <2>4. QED
    BY <1>0, <2>1, <2>2, <2>3, <1>a
    DEF OpMoved, OpReturned, Phase, Accounted, Alive
<1>12. ASSUME NEW x \in Actors, RestoreNoProcs(x) PROVE Phase(z)'
  <2>1. OpMoved(x, "list")
    BY <1>12, GotoOp DEF RestoreNoProcs, PCs, Signals
  <2>2. /\ op[x].pc = "cont" /\ op[x].listed /\ op[x].pids = {} /\ ~op[x].hit
        /\ UNCHANGED <<state, proc, data, snap, late, mixed>>
    BY <1>12
    DEF RestoreNoProcs, NoneReached, AllSignalled, mapVars, jailVars, history
  <2>3. op[x].jail \in Jails
    BY <2>2, PhaseJail
  <2>4. QED
    BY <1>0, <2>1, <2>2, <2>3, <1>a
    DEF OpMoved, Phase, Accounted, Alive
<1>13. ASSUME NEW x \in Actors, ListSnapshots(x) PROVE Phase(z)'
  <2>1. OpChosen(x)
    BY <1>13, ChooseOp
  <2>2. /\ op[x].pc = "list" /\ snap[op[x].jail] # None
        /\ UNCHANGED <<state, proc, data, snap, late, mixed>>
    BY <1>13 DEF ListSnapshots, mapVars, jailVars, history
  <2>3. op[x].jail \in Jails /\ op[x].pids = {}
    BY <2>2, PhaseJail DEF Signals
  <2>4. QED
    BY <1>0, <2>1, <2>2, <2>3, <1>a
    DEF OpChosen, Phase, Accounted, Alive
<1>14. ASSUME NEW x \in Actors, Rollback(x) PROVE Phase(z)'
  <2>1. OpMoved(x, "setRunning")
    BY <1>14, GotoOp DEF Rollback, PCs, Signals
  <2>2. /\ op[x].pc = "rollback"
        /\ data' = [data EXCEPT ![op[x].jail] = op[x].ver]
        /\ UNCHANGED <<state, proc, snap, late, mixed>>
    BY <1>14 DEF Rollback, mapVars, jailVars, history
  <2>3. op[x].jail \in Jails /\ op[x].ver \in Nat /\ op[x].pids = {}
    BY <2>2, PhaseJail DEF Signals
  <2>4. /\ data' \in [Jails -> Nat]
        /\ \A k \in Jails : k # op[x].jail => data'[k] = data[k]
    BY <2>2, <2>3 DEF JailTypes
  <2>5. QED
    BY <1>0, <2>1, <2>2, <2>3, <2>4, <1>a
    DEF OpMoved, Phase, Accounted, Alive
<1>15. ASSUME NEW x \in Actors, RollbackError(x) PROVE Phase(z)'
  <2>1. OpReturned(x)
    BY <1>15, ReturnOp DEF RollbackError
  <2>2. op[x].pc \in {"list", "rollback"} /\ UNCHANGED <<state, proc, data, snap, late, mixed>>
    BY <1>15 DEF RollbackError, mapVars, jailVars, history
  <2>3. QED
    BY <1>0, <2>1, <2>2, <1>a DEF OpReturned, Phase, Accounted, Alive
<1>16. ASSUME NEW x \in Actors, RecycleTmp(x) PROVE Phase(z)'
  <2>1. OpMoved(x, "setDead")
    BY <1>16, GotoOp DEF RecycleTmp, PCs, Signals
  <2>2. /\ op[x].pc = "kill" /\ op[x].listed /\ op[x].pids = {}
        /\ UNCHANGED <<state, proc, data, snap, late, mixed>>
    BY <1>16 DEF RecycleTmp, AllSignalled, mapVars, jailVars, history
  <2>3. op[x].jail \in Jails
    BY <2>2, PhaseJail
  <2>4. QED
    BY <1>0, <2>1, <2>2, <2>3, <1>a
    DEF OpMoved, Phase, Accounted, Alive
<1>17. ASSUME NEW x \in Actors, SetDead(x) PROVE Phase(z)'
  <2>1. op[x].pc = "setDead"
    BY <1>17 DEF SetDead
  <2>2. op[x].jail \in Jails /\ op[x].pids = {}
    BY <2>1, PhaseJail DEF Signals
  <2>3. OpReturned(x) /\ Wrote(x, "Dead")
    BY <1>17, <2>2, ReturnOp, WriteState DEF SetDead, AppState
  <2>4. QED
    BY <1>0, <2>1, <2>2, <2>3, <1>a
    DEF OpReturned, Wrote, Phase, Accounted, Alive
<1>18. ASSUME NEW x \in Actors, NEW pc \in PCs, NEW j \in Jails, NEW e \in BOOLEAN,
             pc \in Commands, Begins(x, pc, j, e)
      PROVE  Phase(z)'
  <2>1. OpBegun(x, pc, j, e)
    BY <1>18, BeginOp DEF Begins
  <2>2. op[x].pc = "idle" /\ UNCHANGED <<state, proc, data, snap, late, mixed>>
    BY <1>18 DEF Begins
  <2>3. QED
    BY <1>0, <1>18, <2>1, <2>2, <1>a
    DEF OpBegun, OpRec, Commands, Phase, Accounted, Alive
<1>19. ASSUME NEW j \in Jails, NEW p \in Pids, ProcessEnds(j, p) PROVE Phase(z)'
  <2>1. Shrunk(j)
    BY <1>19, EndEffect
  <2>2. QED
    BY <1>0, <2>1, PhaseJail, <1>a DEF Shrunk, Phase, Accounted, Alive
<1>20. ASSUME NEW j \in Jails, NEW p \in Pids, ProcessStarts(j, p) PROVE Phase(z)'
  <2>1. OpStarted(j, p) /\ Grown(j, p)
    BY <1>20, StartOp, StartEffect
  <2>2. /\ op'[z].pc = op[z].pc /\ op'[z].jail = op[z].jail
        /\ op'[z].listed = op[z].listed /\ op'[z].pids = op[z].pids
        /\ op'[z].hit = op[z].hit
        /\ op'[z].fresh = IF op[z].jail = j /\ op[z].listed
                           THEN op[z].fresh \cup {p} ELSE op[z].fresh
    BY <2>1 DEF OpStarted
  <2>3. op[z].jail \in Jails =>
           AliveIn(proc'[op[z].jail]) \subseteq
               AliveIn(proc[op[z].jail]) \cup (IF op[z].jail = j THEN {p} ELSE {})
    BY <2>1 DEF Grown
  <2>4. UNCHANGED snap
    BY <2>1 DEF Grown
  <2>5. QED
    BY <1>a, <2>2, <2>3, <2>4 DEF Phase, Accounted, Alive
<1>21. ASSUME NEW j \in Jails, AppWrites(j) PROVE Phase(z)'
  <2>1. /\ RunsIn(proc[j]) # {} /\ data' = [data EXCEPT ![j] = data[j] + 1]
        /\ UNCHANGED <<state, proc, snap, op, late, mixed>>
    BY <1>21 DEF AppWrites, Runs, mapVars, jailVars, history
  <2>2. /\ data' \in [Jails -> Nat] /\ data'[j] = data[j] + 1
        /\ \A k \in Jails : k # j => data'[k] = data[k]
    BY <2>1 DEF JailTypes
  <2>3. QED
    BY <1>0, <2>1, <2>2, PhaseJail, <1>a DEF Phase, Accounted, Alive
<1>22. CASE DaemonRestart
  <2>1. /\ state' = [j \in Jails |-> "untracked"]
        /\ op' = [x \in Actors |-> Idle]
        /\ late' = [j \in Jails |-> {}]
        /\ mixed' = {}
        /\ UNCHANGED <<proc, data, snap>>
    BY <1>22 DEF DaemonRestart, jailVars
  <2>2. /\ Idle \in OpType /\ Idle.pc = "idle" /\ Idle.pids = {}
        /\ Idle.jail = None /\ ~Idle.alone
    BY LifecycleAssumption DEF Idle, OpRec, OpType, PCs
  <2>3. QED
    BY <1>0, <2>1, <2>2, <1>a DEF Phase, Accounted, Alive
<1>23. CASE UNCHANGED jailCore
  BY <1>23, <1>a DEF jailCore, Phase, Accounted, Alive
<1>24. QED
  BY <1>1, <1>2, <1>3, <1>4, <1>5, <1>6, <1>7, <1>8, <1>9, <1>10, <1>11,
      <1>12, <1>13, <1>14, <1>15, <1>16, <1>17, <1>18, <1>19, <1>20, <1>21,
      <1>22, <1>23, NextCases
  DEF Step, SignalPids, FreezeThaw, HibernateRestore, Kill

\* The state map is written when the processes or the snapshot bear it out.
LEMMA StepSafeStates ==
    TypeOK /\ JailTypes /\ PhaseFacts /\ SafeStates /\ [Next]_vars => SafeStates'
<1> SUFFICES ASSUME TypeOK, JailTypes, PhaseFacts, SafeStates, [Next]_vars, NEW m \in Jails
             PROVE  Safe(m)'
  BY DEF SafeStates, Safe, DeadIsGone, HibernatedHasSnapshot
<1>0. None \notin Jails /\ None \notin Nat
  BY LifecycleAssumption
<1>a. Safe(m) /\ \A x \in Actors : Phase(x)
  BY DEF SafeStates, Safe, DeadIsGone, HibernatedHasSnapshot, PhaseFacts
<1>1. ASSUME NEW x \in Actors, ListPids(x) PROVE Safe(m)'
  <2>1. OpListed(x)
    BY <1>1, ListOp
  <2>2. /\ op[x].pc \in Signals /\ ~op[x].listed
        /\ UNCHANGED <<state, proc, data, snap, late, mixed>>
    BY <1>1 DEF ListPids, mapVars, jailVars, history
  <2>3. op[x].jail \in Jails /\ op'[x].pids = AliveIn(proc[op[x].jail])
    BY <1>1, <2>1, <2>2, PhaseJail DEF OpListed, Signals, Alive
  <2>4. QED
    BY <1>0, <2>1, <2>2, <2>3, <1>a
    DEF OpListed, Safe, Phase, Accounted, Alive, Silent
<1>2. ASSUME NEW x \in Actors, Signal(x) PROVE Safe(m)'
  <2>1. OpSignalled(x) /\ SignalDone(x)
    BY <1>2, SignalOp, SignalEffect
  <2>2. UNCHANGED <<state, data, snap, late, mixed>>
    BY <1>2 DEF Signal, mapVars, jailVars, history
  <2>3. op[x].jail \in Jails /\ op[x].pc \in Signals /\ op[x].listed
    BY <2>1 DEF OpSignalled
  <2>4. QED
    BY <1>0, <2>1, <2>2, <2>3, <1>a
    DEF OpSignalled, SignalDone, Safe, Phase, Accounted, Alive, Silent
<1>3. ASSUME NEW x \in Actors, SignalErrorIgnored(x) PROVE Safe(m)'
  <2>1. OpListed(x)
    BY <1>3, ListOp
  <2>2. /\ op[x].pc \in {"hibernate", "cont", "kill"} /\ ~op[x].listed
        /\ AliveIn(proc[op[x].jail]) = {} \/ op[x].jail \in Flaky
        /\ op' = [op EXCEPT ![x].listed = TRUE]
        /\ UNCHANGED <<state, proc, data, snap, late, mixed>>
    BY <1>3
    DEF SignalErrorIgnored, SignalError, Alive, mapVars, jailVars, history
  <2>3. op[x].jail \in Jails /\ op[x].pids = {} /\ op'[x].pids = {}
    BY <2>2, PhaseJail DEF JailTypes, OpType
  <2>4. QED
    BY <1>0, <2>1, <2>2, <2>3, <1>a
    DEF OpListed, Safe, Phase, Accounted, Alive, Silent
<1>4. ASSUME NEW x \in Actors, FreezeError(x) PROVE Safe(m)'
  <2>1. OpReturned(x)
    BY <1>4, ReturnOp DEF FreezeError
  <2>2. op[x].pc = "freeze" /\ ~op[x].listed /\ UNCHANGED <<state, proc, data, snap, late, mixed>>
    BY <1>4 DEF FreezeError, SignalError, mapVars, jailVars, history
  <2>3. QED
    BY <1>0, <2>1, <2>2, <1>a
    DEF OpReturned, Safe, Phase, Accounted, Alive, Silent
<1>5. ASSUME NEW x \in Actors, SetFrozen(x) PROVE Safe(m)'
  <2>1. op[x].pc = "freeze" /\ op[x].listed /\ op[x].pids = {}
    BY <1>5 DEF SetFrozen, AllSignalled
  <2>2. op[x].jail \in Jails
    BY <2>1, PhaseJail
  <2>3. OpReturned(x) /\ Wrote(x, "Frozen")
    BY <1>5, <2>2, ReturnOp, WriteState DEF SetFrozen, AppState
  <2>4. QED
    BY <1>0, <2>1, <2>2, <2>3, <1>a
    DEF OpReturned, Wrote, Safe, Phase, Accounted, Alive, Silent
<1>6. ASSUME NEW x \in Actors, ThawError(x) PROVE Safe(m)'
  <2>1. OpReturned(x)
    BY <1>6, ReturnOp DEF ThawError
  <2>2. op[x].pc = "thaw" /\ ~op[x].listed /\ UNCHANGED <<state, proc, data, snap, late, mixed>>
    BY <1>6 DEF ThawError, SignalError, mapVars, jailVars, history
  <2>3. QED
    BY <1>0, <2>1, <2>2, <1>a
    DEF OpReturned, Safe, Phase, Accounted, Alive, Silent
<1>7. ASSUME NEW x \in Actors, SetRunning(x) PROVE Safe(m)'
  <2>1. /\ op[x].pc \in {"thaw", "cont", "setRunning"}
        /\ op[x].pc = "thaw" => op[x].listed
        /\ op[x].pc = "cont" => op[x].listed /\ op[x].hit
    BY <1>7 DEF SetRunning, AllSignalled
  <2>2. op[x].jail \in Jails
    BY <2>1, PhaseJail
  <2>3. OpReturned(x) /\ Wrote(x, "Running")
    BY <1>7, <2>2, ReturnOp, WriteState DEF SetRunning, AppState
  <2>4. QED
    BY <1>0, <2>1, <2>2, <2>3, <1>a
    DEF OpReturned, Wrote, Safe, Phase, Accounted, Alive, Silent
<1>8. ASSUME NEW x \in Actors, Snapshot(x) PROVE Safe(m)'
  <2>1. OpMoved(x, "setHibernated")
    BY <1>8, GotoOp DEF Snapshot, PCs, Signals
  <2>2. /\ op[x].pc = "hibernate" /\ op[x].listed /\ op[x].pids = {}
        /\ snap' = [snap EXCEPT ![op[x].jail] = data[op[x].jail]]
        /\ UNCHANGED <<state, proc, data, late, mixed>>
    BY <1>8 DEF Snapshot, AllSignalled, mapVars, jailVars, history
  <2>3. op[x].jail \in Jails
    BY <2>2, PhaseJail
  <2>4. /\ snap' \in [Jails -> Nat \cup {None}] /\ snap'[op[x].jail] # None
        /\ snap'[op[x].jail] = data[op[x].jail]
        /\ \A k \in Jails : k # op[x].jail => snap'[k] = snap[k]
    BY <2>2, <2>3, LifecycleAssumption DEF JailTypes
  <2>5. QED
    BY <1>0, <2>1, <2>2, <2>3, <2>4, <1>a
    DEF OpMoved, Safe, Phase, Accounted, Alive, Silent
<1>9. ASSUME NEW x \in Actors, SnapshotFails(x) PROVE Safe(m)'
  <2>1. OpReturned(x) \/ OpEvicts(x)
    BY <1>9, AfterOp DEF SnapshotFails
  <2>2. op[x].pc = "hibernate" /\ UNCHANGED <<state, proc, data, snap, late, mixed>>
    BY <1>9
    DEF SnapshotFails, AllSignalled, mapVars, jailVars, history
  <2>3. op[x].jail \in Jails
    BY <2>2, PhaseJail
  <2>4. QED
    BY <1>0, <2>1, <2>2, <2>3, <1>a
    DEF OpReturned, OpEvicts, Safe, Phase, Accounted, Alive, Silent
<1>10. ASSUME NEW x \in Actors, SetHibernated(x) PROVE Safe(m)'
  <2>1. op[x].pc = "setHibernated"
    BY <1>10 DEF SetHibernated
  <2>2. op[x].jail \in Jails /\ op[x].pids = {}
    BY <2>1, PhaseJail DEF Signals
  <2>3. (OpReturned(x) \/ OpEvicts(x)) /\ Wrote(x, "Hibernated")
    BY <1>10, <2>2, AfterOp, WriteState DEF SetHibernated, AppState
  <2>4. QED
    BY <1>0, <2>1, <2>2, <2>3, <1>a
    DEF OpReturned, OpEvicts, Wrote, Safe, Phase, Accounted, Alive, Silent
<1>11. ASSUME NEW x \in Actors, RestoreLook(x) PROVE Safe(m)'
  <2>1. op[x].pc = "restore" /\ UNCHANGED <<state, proc, data, snap, late, mixed>>
    BY <1>11 DEF RestoreLook, mapVars, jailVars, history
  <2>2. op[x].jail \in Jails /\ op[x].pids = {}
    BY <2>1, PhaseJail DEF Signals
  <2>3. OpMoved(x, "cont") \/ OpReturned(x)
    BY <1>11, GotoOp, ReturnOp DEF RestoreLook, PCs, Signals
  <2>4. QED
    BY <1>0, <2>1, <2>2, <2>3, <1>a
    DEF OpMoved, OpReturned, Safe, Phase, Accounted, Alive, Silent
<1>12. ASSUME NEW x \in Actors, RestoreNoProcs(x) PROVE Safe(m)'
  <2>1. OpMoved(x, "list")
    BY <1>12, GotoOp DEF RestoreNoProcs, PCs, Signals
  <2>2. /\ op[x].pc = "cont" /\ op[x].listed /\ op[x].pids = {} /\ ~op[x].hit
        /\ UNCHANGED <<state, proc, data, snap, late, mixed>>
    BY <1>12
    DEF RestoreNoProcs, NoneReached, AllSignalled, mapVars, jailVars, history
  <2>3. op[x].jail \in Jails
    BY <2>2, PhaseJail
  <2>4. QED
    BY <1>0, <2>1, <2>2, <2>3, <1>a
    DEF OpMoved, Safe, Phase, Accounted, Alive, Silent
<1>13. ASSUME NEW x \in Actors, ListSnapshots(x) PROVE Safe(m)'
  <2>1. OpChosen(x)
    BY <1>13, ChooseOp
  <2>2. /\ op[x].pc = "list" /\ snap[op[x].jail] # None
        /\ UNCHANGED <<state, proc, data, snap, late, mixed>>
    BY <1>13 DEF ListSnapshots, mapVars, jailVars, history
  <2>3. op[x].jail \in Jails /\ op[x].pids = {}
    BY <2>2, PhaseJail DEF Signals
  <2>4. QED
    BY <1>0, <2>1, <2>2, <2>3, <1>a
    DEF OpChosen, Safe, Phase, Accounted, Alive, Silent
<1>14. ASSUME NEW x \in Actors, Rollback(x) PROVE Safe(m)'
  <2>1. OpMoved(x, "setRunning")
    BY <1>14, GotoOp DEF Rollback, PCs, Signals
  <2>2. /\ op[x].pc = "rollback"
        /\ data' = [data EXCEPT ![op[x].jail] = op[x].ver]
        /\ UNCHANGED <<state, proc, snap, late, mixed>>
    BY <1>14 DEF Rollback, mapVars, jailVars, history
  <2>3. op[x].jail \in Jails /\ op[x].ver \in Nat /\ op[x].pids = {}
    BY <2>2, PhaseJail DEF Signals
  <2>4. /\ data' \in [Jails -> Nat]
        /\ \A k \in Jails : k # op[x].jail => data'[k] = data[k]
    BY <2>2, <2>3 DEF JailTypes
  <2>5. QED
    BY <1>0, <2>1, <2>2, <2>3, <2>4, <1>a
    DEF OpMoved, Safe, Phase, Accounted, Alive, Silent
<1>15. ASSUME NEW x \in Actors, RollbackError(x) PROVE Safe(m)'
  <2>1. OpReturned(x)
    BY <1>15, ReturnOp DEF RollbackError
  <2>2. op[x].pc \in {"list", "rollback"} /\ UNCHANGED <<state, proc, data, snap, late, mixed>>
    BY <1>15 DEF RollbackError, mapVars, jailVars, history
  <2>3. QED
    BY <1>0, <2>1, <2>2, <1>a
    DEF OpReturned, Safe, Phase, Accounted, Alive, Silent
<1>16. ASSUME NEW x \in Actors, RecycleTmp(x) PROVE Safe(m)'
  <2>1. OpMoved(x, "setDead")
    BY <1>16, GotoOp DEF RecycleTmp, PCs, Signals
  <2>2. /\ op[x].pc = "kill" /\ op[x].listed /\ op[x].pids = {}
        /\ UNCHANGED <<state, proc, data, snap, late, mixed>>
    BY <1>16 DEF RecycleTmp, AllSignalled, mapVars, jailVars, history
  <2>3. op[x].jail \in Jails
    BY <2>2, PhaseJail
  <2>4. QED
    BY <1>0, <2>1, <2>2, <2>3, <1>a
    DEF OpMoved, Safe, Phase, Accounted, Alive, Silent
<1>17. ASSUME NEW x \in Actors, SetDead(x) PROVE Safe(m)'
  <2>1. op[x].pc = "setDead"
    BY <1>17 DEF SetDead
  <2>2. op[x].jail \in Jails /\ op[x].pids = {}
    BY <2>1, PhaseJail DEF Signals
  <2>3. OpReturned(x) /\ Wrote(x, "Dead")
    BY <1>17, <2>2, ReturnOp, WriteState DEF SetDead, AppState
  <2>4. QED
    BY <1>0, <2>1, <2>2, <2>3, <1>a
    DEF OpReturned, Wrote, Safe, Phase, Accounted, Alive, Silent
<1>18. ASSUME NEW x \in Actors, NEW pc \in PCs, NEW j \in Jails, NEW e \in BOOLEAN,
             pc \in Commands, Begins(x, pc, j, e)
      PROVE  Safe(m)'
  <2>1. OpBegun(x, pc, j, e)
    BY <1>18, BeginOp DEF Begins
  <2>2. op[x].pc = "idle" /\ UNCHANGED <<state, proc, data, snap, late, mixed>>
    BY <1>18 DEF Begins
  <2>3. QED
    BY <1>0, <1>18, <2>1, <2>2, <1>a
    DEF OpBegun, OpRec, Commands, Safe, Phase, Accounted, Alive, Silent
<1>19. ASSUME NEW j \in Jails, NEW p \in Pids, ProcessEnds(j, p) PROVE Safe(m)'
  <2>1. Shrunk(j)
    BY <1>19, EndEffect
  <2>2. QED
    BY <1>0, <2>1, PhaseJail, <1>a
    DEF Shrunk, Safe, Phase, Accounted, Alive, Silent
<1>20. ASSUME NEW j \in Jails, NEW p \in Pids, ProcessStarts(j, p) PROVE Safe(m)'
  <2>1. OpStarted(j, p) /\ Grown(j, p)
    BY <1>20, StartOp, StartEffect
  <2>2. QED
    BY <1>0, <2>1, PhaseJail, <1>a
    DEF OpStarted, Grown, Safe, Phase, Accounted, Alive, Silent
<1>21. ASSUME NEW j \in Jails, AppWrites(j) PROVE Safe(m)'
  <2>1. /\ RunsIn(proc[j]) # {} /\ data' = [data EXCEPT ![j] = data[j] + 1]
        /\ UNCHANGED <<state, proc, snap, op, late, mixed>>
    BY <1>21 DEF AppWrites, Runs, mapVars, jailVars, history
  <2>2. /\ data' \in [Jails -> Nat] /\ data'[j] = data[j] + 1
        /\ \A k \in Jails : k # j => data'[k] = data[k]
    BY <2>1 DEF JailTypes
  <2>3. QED
    BY <1>0, <2>1, <2>2, PhaseJail, <1>a
    DEF Safe, Phase, Accounted, Alive, Silent
<1>22. CASE DaemonRestart
  <2>1. /\ state' = [j \in Jails |-> "untracked"]
        /\ op' = [x \in Actors |-> Idle]
        /\ late' = [j \in Jails |-> {}]
        /\ mixed' = {}
        /\ UNCHANGED <<proc, data, snap>>
    BY <1>22 DEF DaemonRestart, jailVars
  <2>2. /\ Idle \in OpType /\ Idle.pc = "idle" /\ Idle.pids = {}
        /\ Idle.jail = None /\ ~Idle.alone
    BY LifecycleAssumption DEF Idle, OpRec, OpType, PCs
  <2>3. QED
    BY <1>0, <2>1, <2>2, <1>a
    DEF Safe, Phase, Accounted, Alive, Silent
<1>23. CASE UNCHANGED jailCore
  BY <1>23, <1>a DEF jailCore, Safe, Phase, Accounted, Alive, Silent
<1>24. QED
  BY <1>1, <1>2, <1>3, <1>4, <1>5, <1>6, <1>7, <1>8, <1>9, <1>10, <1>11,
      <1>12, <1>13, <1>14, <1>15, <1>16, <1>17, <1>18, <1>19, <1>20, <1>21,
      <1>22, <1>23, NextCases
  DEF Step, SignalPids, FreezeThaw, HibernateRestore, Kill

\* Only a rollback and the application itself change the dataset.
LEMMA StepRollback ==
    TypeOK /\ JailTypes /\ PhaseFacts /\ [Next]_vars => RollbackStep
<1> SUFFICES ASSUME TypeOK, JailTypes, PhaseFacts, [Next]_vars PROVE RollbackStep
  OBVIOUS
<1>0. None \notin Jails /\ None \notin Nat
  BY LifecycleAssumption
<1>a. \A x \in Actors : Phase(x)
  BY DEF PhaseFacts
<1>1. ASSUME NEW x \in Actors, ListPids(x) PROVE RollbackStep
  <2>1. OpListed(x)
    BY <1>1, ListOp
  <2>2. /\ op[x].pc \in Signals /\ ~op[x].listed
        /\ UNCHANGED <<state, proc, data, snap, late, mixed>>
    BY <1>1 DEF ListPids, mapVars, jailVars, history
  <2>3. op[x].jail \in Jails /\ op'[x].pids = AliveIn(proc[op[x].jail])
    BY <1>1, <2>1, <2>2, PhaseJail DEF OpListed, Signals, Alive
  <2>4. QED
    BY <1>0, <2>1, <2>2, <2>3, <1>a
    DEF OpListed, RollbackStep, Phase, Accounted, Alive, Runs
<1>2. ASSUME NEW x \in Actors, Signal(x) PROVE RollbackStep
  <2>1. OpSignalled(x) /\ SignalDone(x)
    BY <1>2, SignalOp, SignalEffect
  <2>2. UNCHANGED <<state, data, snap, late, mixed>>
    BY <1>2 DEF Signal, mapVars, jailVars, history
  <2>3. op[x].jail \in Jails /\ op[x].pc \in Signals /\ op[x].listed
    BY <2>1 DEF OpSignalled
  <2>4. QED
    BY <1>0, <2>1, <2>2, <2>3, <1>a
    DEF OpSignalled, SignalDone, RollbackStep, Phase, Accounted, Alive, Runs
<1>3. ASSUME NEW x \in Actors, SignalErrorIgnored(x) PROVE RollbackStep
  <2>1. OpListed(x)
    BY <1>3, ListOp
  <2>2. /\ op[x].pc \in {"hibernate", "cont", "kill"} /\ ~op[x].listed
        /\ AliveIn(proc[op[x].jail]) = {} \/ op[x].jail \in Flaky
        /\ op' = [op EXCEPT ![x].listed = TRUE]
        /\ UNCHANGED <<state, proc, data, snap, late, mixed>>
    BY <1>3
    DEF SignalErrorIgnored, SignalError, Alive, mapVars, jailVars, history
  <2>3. op[x].jail \in Jails /\ op[x].pids = {} /\ op'[x].pids = {}
    BY <2>2, PhaseJail DEF JailTypes, OpType
  <2>4. QED
    BY <1>0, <2>1, <2>2, <2>3, <1>a
    DEF OpListed, RollbackStep, Phase, Accounted, Alive, Runs
<1>4. ASSUME NEW x \in Actors, FreezeError(x) PROVE RollbackStep
  <2>1. OpReturned(x)
    BY <1>4, ReturnOp DEF FreezeError
  <2>2. op[x].pc = "freeze" /\ ~op[x].listed /\ UNCHANGED <<state, proc, data, snap, late, mixed>>
    BY <1>4 DEF FreezeError, SignalError, mapVars, jailVars, history
  <2>3. QED
    BY <1>0, <2>1, <2>2, <1>a
    DEF OpReturned, RollbackStep, Phase, Accounted, Alive, Runs
<1>5. ASSUME NEW x \in Actors, SetFrozen(x) PROVE RollbackStep
  <2>1. op[x].pc = "freeze" /\ op[x].listed /\ op[x].pids = {}
    BY <1>5 DEF SetFrozen, AllSignalled
  <2>2. op[x].jail \in Jails
    BY <2>1, PhaseJail
  <2>3. OpReturned(x) /\ Wrote(x, "Frozen")
    BY <1>5, <2>2, ReturnOp, WriteState DEF SetFrozen, AppState
  <2>4. QED
    BY <1>0, <2>1, <2>2, <2>3, <1>a
    DEF OpReturned, Wrote, RollbackStep, Phase, Accounted, Alive, Runs
<1>6. ASSUME NEW x \in Actors, ThawError(x) PROVE RollbackStep
  <2>1. OpReturned(x)
    BY <1>6, ReturnOp DEF ThawError
  <2>2. op[x].pc = "thaw" /\ ~op[x].listed /\ UNCHANGED <<state, proc, data, snap, late, mixed>>
    BY <1>6 DEF ThawError, SignalError, mapVars, jailVars, history
  <2>3. QED
    BY <1>0, <2>1, <2>2, <1>a
    DEF OpReturned, RollbackStep, Phase, Accounted, Alive, Runs
<1>7. ASSUME NEW x \in Actors, SetRunning(x) PROVE RollbackStep
  <2>1. /\ op[x].pc \in {"thaw", "cont", "setRunning"}
        /\ op[x].pc = "thaw" => op[x].listed
        /\ op[x].pc = "cont" => op[x].listed /\ op[x].hit
    BY <1>7 DEF SetRunning, AllSignalled
  <2>2. op[x].jail \in Jails
    BY <2>1, PhaseJail
  <2>3. OpReturned(x) /\ Wrote(x, "Running")
    BY <1>7, <2>2, ReturnOp, WriteState DEF SetRunning, AppState
  <2>4. QED
    BY <1>0, <2>1, <2>2, <2>3, <1>a
    DEF OpReturned, Wrote, RollbackStep, Phase, Accounted, Alive, Runs
<1>8. ASSUME NEW x \in Actors, Snapshot(x) PROVE RollbackStep
  <2>1. OpMoved(x, "setHibernated")
    BY <1>8, GotoOp DEF Snapshot, PCs, Signals
  <2>2. /\ op[x].pc = "hibernate" /\ op[x].listed /\ op[x].pids = {}
        /\ snap' = [snap EXCEPT ![op[x].jail] = data[op[x].jail]]
        /\ UNCHANGED <<state, proc, data, late, mixed>>
    BY <1>8 DEF Snapshot, AllSignalled, mapVars, jailVars, history
  <2>3. op[x].jail \in Jails
    BY <2>2, PhaseJail
  <2>4. /\ snap' \in [Jails -> Nat \cup {None}] /\ snap'[op[x].jail] # None
        /\ snap'[op[x].jail] = data[op[x].jail]
        /\ \A k \in Jails : k # op[x].jail => snap'[k] = snap[k]
    BY <2>2, <2>3, LifecycleAssumption DEF JailTypes
  <2>5. QED
    BY <1>0, <2>1, <2>2, <2>3, <2>4, <1>a
    DEF OpMoved, RollbackStep, Phase, Accounted, Alive, Runs
<1>9. ASSUME NEW x \in Actors, SnapshotFails(x) PROVE RollbackStep
  <2>1. OpReturned(x) \/ OpEvicts(x)
    BY <1>9, AfterOp DEF SnapshotFails
  <2>2. op[x].pc = "hibernate" /\ UNCHANGED <<state, proc, data, snap, late, mixed>>
    BY <1>9
    DEF SnapshotFails, AllSignalled, mapVars, jailVars, history
  <2>3. op[x].jail \in Jails
    BY <2>2, PhaseJail
  <2>4. QED
    BY <1>0, <2>1, <2>2, <2>3, <1>a
    DEF OpReturned, OpEvicts, RollbackStep, Phase, Accounted, Alive, Runs
<1>10. ASSUME NEW x \in Actors, SetHibernated(x) PROVE RollbackStep
  <2>1. op[x].pc = "setHibernated"
    BY <1>10 DEF SetHibernated
  <2>2. op[x].jail \in Jails /\ op[x].pids = {}
    BY <2>1, PhaseJail DEF Signals
  <2>3. (OpReturned(x) \/ OpEvicts(x)) /\ Wrote(x, "Hibernated")
    BY <1>10, <2>2, AfterOp, WriteState DEF SetHibernated, AppState
  <2>4. QED
    BY <1>0, <2>1, <2>2, <2>3, <1>a
    DEF OpReturned, OpEvicts, Wrote, RollbackStep, Phase, Accounted, Alive,
        Runs
<1>11. ASSUME NEW x \in Actors, RestoreLook(x) PROVE RollbackStep
  <2>1. op[x].pc = "restore" /\ UNCHANGED <<state, proc, data, snap, late, mixed>>
    BY <1>11 DEF RestoreLook, mapVars, jailVars, history
  <2>2. op[x].jail \in Jails /\ op[x].pids = {}
    BY <2>1, PhaseJail DEF Signals
  <2>3. OpMoved(x, "cont") \/ OpReturned(x)
    BY <1>11, GotoOp, ReturnOp DEF RestoreLook, PCs, Signals
  <2>4. QED
    BY <1>0, <2>1, <2>2, <2>3, <1>a
    DEF OpMoved, OpReturned, RollbackStep, Phase, Accounted, Alive, Runs
<1>12. ASSUME NEW x \in Actors, RestoreNoProcs(x) PROVE RollbackStep
  <2>1. OpMoved(x, "list")
    BY <1>12, GotoOp DEF RestoreNoProcs, PCs, Signals
  <2>2. /\ op[x].pc = "cont" /\ op[x].listed /\ op[x].pids = {} /\ ~op[x].hit
        /\ UNCHANGED <<state, proc, data, snap, late, mixed>>
    BY <1>12
    DEF RestoreNoProcs, NoneReached, AllSignalled, mapVars, jailVars, history
  <2>3. op[x].jail \in Jails
    BY <2>2, PhaseJail
  <2>4. QED
    BY <1>0, <2>1, <2>2, <2>3, <1>a
    DEF OpMoved, RollbackStep, Phase, Accounted, Alive, Runs
<1>13. ASSUME NEW x \in Actors, ListSnapshots(x) PROVE RollbackStep
  <2>1. OpChosen(x)
    BY <1>13, ChooseOp
  <2>2. /\ op[x].pc = "list" /\ snap[op[x].jail] # None
        /\ UNCHANGED <<state, proc, data, snap, late, mixed>>
    BY <1>13 DEF ListSnapshots, mapVars, jailVars, history
  <2>3. op[x].jail \in Jails /\ op[x].pids = {}
    BY <2>2, PhaseJail DEF Signals
  <2>4. QED
    BY <1>0, <2>1, <2>2, <2>3, <1>a
    DEF OpChosen, RollbackStep, Phase, Accounted, Alive, Runs
<1>14. ASSUME NEW x \in Actors, Rollback(x) PROVE RollbackStep
  <2>1. OpMoved(x, "setRunning")
    BY <1>14, GotoOp DEF Rollback, PCs, Signals
  <2>2. /\ op[x].pc = "rollback"
        /\ data' = [data EXCEPT ![op[x].jail] = op[x].ver]
        /\ UNCHANGED <<state, proc, snap, late, mixed>>
    BY <1>14 DEF Rollback, mapVars, jailVars, history
  <2>3. op[x].jail \in Jails /\ op[x].ver \in Nat /\ op[x].pids = {}
    BY <2>2, PhaseJail DEF Signals
  <2>4. /\ data' \in [Jails -> Nat]
        /\ \A k \in Jails : k # op[x].jail => data'[k] = data[k]
    BY <2>2, <2>3 DEF JailTypes
  <2>5. QED
    BY <1>0, <2>1, <2>2, <2>3, <2>4, <1>a
    DEF OpMoved, RollbackStep, Phase, Accounted, Alive, Runs
<1>15. ASSUME NEW x \in Actors, RollbackError(x) PROVE RollbackStep
  <2>1. OpReturned(x)
    BY <1>15, ReturnOp DEF RollbackError
  <2>2. op[x].pc \in {"list", "rollback"} /\ UNCHANGED <<state, proc, data, snap, late, mixed>>
    BY <1>15 DEF RollbackError, mapVars, jailVars, history
  <2>3. QED
    BY <1>0, <2>1, <2>2, <1>a
    DEF OpReturned, RollbackStep, Phase, Accounted, Alive, Runs
<1>16. ASSUME NEW x \in Actors, RecycleTmp(x) PROVE RollbackStep
  <2>1. OpMoved(x, "setDead")
    BY <1>16, GotoOp DEF RecycleTmp, PCs, Signals
  <2>2. /\ op[x].pc = "kill" /\ op[x].listed /\ op[x].pids = {}
        /\ UNCHANGED <<state, proc, data, snap, late, mixed>>
    BY <1>16 DEF RecycleTmp, AllSignalled, mapVars, jailVars, history
  <2>3. op[x].jail \in Jails
    BY <2>2, PhaseJail
  <2>4. QED
    BY <1>0, <2>1, <2>2, <2>3, <1>a
    DEF OpMoved, RollbackStep, Phase, Accounted, Alive, Runs
<1>17. ASSUME NEW x \in Actors, SetDead(x) PROVE RollbackStep
  <2>1. op[x].pc = "setDead"
    BY <1>17 DEF SetDead
  <2>2. op[x].jail \in Jails /\ op[x].pids = {}
    BY <2>1, PhaseJail DEF Signals
  <2>3. OpReturned(x) /\ Wrote(x, "Dead")
    BY <1>17, <2>2, ReturnOp, WriteState DEF SetDead, AppState
  <2>4. QED
    BY <1>0, <2>1, <2>2, <2>3, <1>a
    DEF OpReturned, Wrote, RollbackStep, Phase, Accounted, Alive, Runs
<1>18. ASSUME NEW x \in Actors, NEW pc \in PCs, NEW j \in Jails, NEW e \in BOOLEAN,
             pc \in Commands, Begins(x, pc, j, e)
      PROVE  RollbackStep
  <2>1. OpBegun(x, pc, j, e)
    BY <1>18, BeginOp DEF Begins
  <2>2. op[x].pc = "idle" /\ UNCHANGED <<state, proc, data, snap, late, mixed>>
    BY <1>18 DEF Begins
  <2>3. QED
    BY <1>0, <1>18, <2>1, <2>2, <1>a
    DEF OpBegun, OpRec, Commands, RollbackStep, Phase, Accounted, Alive, Runs
<1>19. ASSUME NEW j \in Jails, NEW p \in Pids, ProcessEnds(j, p) PROVE RollbackStep
  <2>1. Shrunk(j)
    BY <1>19, EndEffect
  <2>2. QED
    BY <1>0, <2>1, PhaseJail, <1>a
    DEF Shrunk, RollbackStep, Phase, Accounted, Alive, Runs
<1>20. ASSUME NEW j \in Jails, NEW p \in Pids, ProcessStarts(j, p) PROVE RollbackStep
  <2>1. OpStarted(j, p) /\ Grown(j, p)
    BY <1>20, StartOp, StartEffect
  <2>2. QED
    BY <1>0, <2>1, PhaseJail, <1>a
    DEF OpStarted, Grown, RollbackStep, Phase, Accounted, Alive, Runs
<1>21. ASSUME NEW j \in Jails, AppWrites(j) PROVE RollbackStep
  <2>1. /\ RunsIn(proc[j]) # {} /\ data' = [data EXCEPT ![j] = data[j] + 1]
        /\ UNCHANGED <<state, proc, snap, op, late, mixed>>
    BY <1>21 DEF AppWrites, Runs, mapVars, jailVars, history
  <2>2. /\ data' \in [Jails -> Nat] /\ data'[j] = data[j] + 1
        /\ \A k \in Jails : k # j => data'[k] = data[k]
    BY <2>1 DEF JailTypes
  <2>3. QED
    BY <1>0, <2>1, <2>2, PhaseJail, <1>a
    DEF RollbackStep, Phase, Accounted, Alive, Runs
<1>22. CASE DaemonRestart
  <2>1. /\ state' = [j \in Jails |-> "untracked"]
        /\ op' = [x \in Actors |-> Idle]
        /\ late' = [j \in Jails |-> {}]
        /\ mixed' = {}
        /\ UNCHANGED <<proc, data, snap>>
    BY <1>22 DEF DaemonRestart, jailVars
  <2>2. /\ Idle \in OpType /\ Idle.pc = "idle" /\ Idle.pids = {}
        /\ Idle.jail = None /\ ~Idle.alone
    BY LifecycleAssumption DEF Idle, OpRec, OpType, PCs
  <2>3. QED
    BY <1>0, <2>1, <2>2, <1>a
    DEF RollbackStep, Phase, Accounted, Alive, Runs
<1>23. CASE UNCHANGED jailCore
  BY <1>23, <1>a
  DEF jailCore, RollbackStep, Phase, Accounted, Alive, Runs
<1>24. QED
  BY <1>1, <1>2, <1>3, <1>4, <1>5, <1>6, <1>7, <1>8, <1>9, <1>10, <1>11,
      <1>12, <1>13, <1>14, <1>15, <1>16, <1>17, <1>18, <1>19, <1>20, <1>21,
      <1>22, <1>23, NextCases
  DEF Step, SignalPids, FreezeThaw, HibernateRestore, Kill

\* No other command touches a jail that a command is alone on.
LEMMA StepAloneFacts ==
    TypeOK /\ JailTypes /\ PhaseFacts /\ AloneFacts /\ [Next]_vars => AloneFacts'
<1> SUFFICES ASSUME TypeOK, JailTypes, PhaseFacts, AloneFacts, [Next]_vars, NEW z \in Actors, op'[z].alone
             PROVE  Alone(z)'
  BY DEF AloneFacts
<1>0. None \notin Jails /\ None \notin Nat
  BY LifecycleAssumption
<1>a. /\ op[z].alone => Alone(z)
      /\ op[z].pc # "idle" => op[z].jail \in Jails
      /\ op[z].pids # {} => op[z].pc \in Signals /\ op[z].listed
  BY PhaseJail DEF AloneFacts
<1>b. \A f : RunsIn(f) \subseteq AliveIn(f)
  BY DEF RunsIn, AliveIn
<1>1. ASSUME NEW x \in Actors, ListPids(x) PROVE Alone(z)'
  <2>1. OpListed(x)
    BY <1>1, ListOp
  <2>2. /\ op[x].pc \in Signals /\ ~op[x].listed
        /\ UNCHANGED <<state, proc, data, snap, late, mixed>>
    BY <1>1 DEF ListPids, mapVars, jailVars, history
  <2>3. op[x].jail \in Jails /\ op'[x].pids = AliveIn(proc[op[x].jail])
    BY <1>1, <2>1, <2>2, PhaseJail DEF OpListed, Signals, Alive
  <2>4. CASE z = x
    BY <1>a, <1>b, <2>1, <2>2, <2>3, <2>4
    DEF OpListed, Signals, Alone, Accounted, Runs
  <2>5. CASE z # x
    BY <1>a, <2>1, <2>2, <2>5 DEF OpListed, Alone, Accounted, Runs
  <2>6. QED
    BY <2>4, <2>5
<1>2. ASSUME NEW x \in Actors, Signal(x) PROVE Alone(z)'
  <2>1. OpSignalled(x) /\ SignalDone(x)
    BY <1>2, SignalOp, SignalEffect
  <2>2. UNCHANGED <<state, data, snap, late, mixed>>
    BY <1>2 DEF Signal, mapVars, jailVars, history
  <2>3. op[x].jail \in Jails /\ op[x].pc \in Signals /\ op[x].listed
    BY <2>1 DEF OpSignalled
  <2>4. CASE z = x
    <3>1. /\ op'[z].pc = op[z].pc /\ op'[z].jail = op[z].jail
          /\ op'[z].listed = op[z].listed /\ op'[z].fresh = op[z].fresh
          /\ op[z].alone
          /\ \A y \in Actors : y # z => op'[y] = op[y]
      BY <2>1, <2>4 DEF OpSignalled
    <3>2. PICK p \in op[z].pids :
             /\ op'[z].pids = op[z].pids \ {p}
             /\ op[z].pc \in {"freeze", "hibernate", "kill"} =>
                  RunsIn(proc'[op[z].jail]) \subseteq RunsIn(proc[op[z].jail]) \ {p}
      BY <2>1, <2>4 DEF SignalDone
    <3>3. QED
      BY <1>a, <2>2, <2>3, <2>4, <3>1, <3>2 DEF Alone, Accounted, Runs, Signals
  <2>5. CASE z # x
    <3>1. /\ op'[z] = op[z]
          /\ \A y \in Actors : op'[y].jail = op[y].jail
      BY <2>1, <2>5 DEF OpSignalled
    <3>2. op[z].alone => op[z].jail # op[x].jail
      BY <1>a, <2>5 DEF Alone
    <3>3. op[z].alone => proc'[op[z].jail] = proc[op[z].jail]
      BY <1>a, <2>1, <3>2 DEF Alone, SignalDone
    <3>4. QED
      BY <1>a, <2>2, <3>1, <3>3 DEF Alone, Accounted, Runs
  <2>6. QED
    BY <2>4, <2>5
<1>3. ASSUME NEW x \in Actors, SignalErrorIgnored(x) PROVE Alone(z)'
  <2>1. OpListed(x)
    BY <1>3, ListOp
  <2>2. /\ op[x].pc \in {"hibernate", "cont", "kill"} /\ ~op[x].listed
        /\ AliveIn(proc[op[x].jail]) = {} \/ op[x].jail \in Flaky
        /\ op' = [op EXCEPT ![x].listed = TRUE]
        /\ UNCHANGED <<state, proc, data, snap, late, mixed>>
    BY <1>3
    DEF SignalErrorIgnored, SignalError, Alive, mapVars, jailVars, history
  <2>3. op[x].jail \in Jails /\ op[x].pids = {} /\ op'[x].pids = {}
    BY <2>2, PhaseJail DEF JailTypes, OpType
  <2>4. CASE z = x
    BY <1>a, <1>b, <2>1, <2>2, <2>3, <2>4 DEF OpListed, Alone, Accounted, Runs
  <2>5. CASE z # x
    BY <1>a, <2>1, <2>2, <2>5 DEF OpListed, Alone, Accounted, Runs
  <2>6. QED
    BY <2>4, <2>5
<1>4. ASSUME NEW x \in Actors, FreezeError(x) PROVE Alone(z)'
  <2>1. OpReturned(x)
    BY <1>4, ReturnOp DEF FreezeError
  <2>2. op[x].pc = "freeze" /\ ~op[x].listed /\ UNCHANGED <<state, proc, data, snap, late, mixed>>
    BY <1>4 DEF FreezeError, SignalError, mapVars, jailVars, history
  <2>3. QED
    BY <1>0, <2>1, <2>2, <1>a DEF OpReturned, Alone, Accounted, Runs
<1>5. ASSUME NEW x \in Actors, SetFrozen(x) PROVE Alone(z)'
  <2>1. op[x].pc = "freeze" /\ op[x].listed /\ op[x].pids = {}
    BY <1>5 DEF SetFrozen, AllSignalled
  <2>2. op[x].jail \in Jails
    BY <2>1, PhaseJail
  <2>3. OpReturned(x) /\ Wrote(x, "Frozen")
    BY <1>5, <2>2, ReturnOp, WriteState DEF SetFrozen, AppState
  <2>4. QED
    BY <1>0, <2>1, <2>2, <2>3, <1>a
    DEF OpReturned, Wrote, Alone, Accounted, Runs
<1>6. ASSUME NEW x \in Actors, ThawError(x) PROVE Alone(z)'
  <2>1. OpReturned(x)
    BY <1>6, ReturnOp DEF ThawError
  <2>2. op[x].pc = "thaw" /\ ~op[x].listed /\ UNCHANGED <<state, proc, data, snap, late, mixed>>
    BY <1>6 DEF ThawError, SignalError, mapVars, jailVars, history
  <2>3. QED
    BY <1>0, <2>1, <2>2, <1>a DEF OpReturned, Alone, Accounted, Runs
<1>7. ASSUME NEW x \in Actors, SetRunning(x) PROVE Alone(z)'
  <2>1. /\ op[x].pc \in {"thaw", "cont", "setRunning"}
        /\ op[x].pc = "thaw" => op[x].listed
        /\ op[x].pc = "cont" => op[x].listed /\ op[x].hit
    BY <1>7 DEF SetRunning, AllSignalled
  <2>2. op[x].jail \in Jails
    BY <2>1, PhaseJail
  <2>3. OpReturned(x) /\ Wrote(x, "Running")
    BY <1>7, <2>2, ReturnOp, WriteState DEF SetRunning, AppState
  <2>4. QED
    BY <1>0, <2>1, <2>2, <2>3, <1>a
    DEF OpReturned, Wrote, Alone, Accounted, Runs
<1>8. ASSUME NEW x \in Actors, Snapshot(x) PROVE Alone(z)'
  <2>1. OpMoved(x, "setHibernated")
    BY <1>8, GotoOp DEF Snapshot, PCs, Signals
  <2>2. /\ op[x].pc = "hibernate" /\ op[x].listed /\ op[x].pids = {}
        /\ snap' = [snap EXCEPT ![op[x].jail] = data[op[x].jail]]
        /\ UNCHANGED <<state, proc, data, late, mixed>>
    BY <1>8 DEF Snapshot, AllSignalled, mapVars, jailVars, history
  <2>3. op[x].jail \in Jails
    BY <2>2, PhaseJail
  <2>4. /\ snap' \in [Jails -> Nat \cup {None}] /\ snap'[op[x].jail] # None
        /\ snap'[op[x].jail] = data[op[x].jail]
        /\ \A k \in Jails : k # op[x].jail => snap'[k] = snap[k]
    BY <2>2, <2>3, LifecycleAssumption DEF JailTypes
  <2>5. QED
    BY <1>0, <2>1, <2>2, <2>3, <2>4, <1>a
    DEF OpMoved, Alone, Accounted, Runs
<1>9. ASSUME NEW x \in Actors, SnapshotFails(x) PROVE Alone(z)'
  <2>1. OpReturned(x) \/ OpEvicts(x)
    BY <1>9, AfterOp DEF SnapshotFails
  <2>2. op[x].pc = "hibernate" /\ UNCHANGED <<state, proc, data, snap, late, mixed>>
    BY <1>9
    DEF SnapshotFails, AllSignalled, mapVars, jailVars, history
  <2>3. op[x].jail \in Jails
    BY <2>2, PhaseJail
  <2>4. QED
    BY <1>0, <2>1, <2>2, <2>3, <1>a
    DEF OpReturned, OpEvicts, Alone, Accounted, Runs
<1>10. ASSUME NEW x \in Actors, SetHibernated(x) PROVE Alone(z)'
  <2>1. op[x].pc = "setHibernated"
    BY <1>10 DEF SetHibernated
  <2>2. op[x].jail \in Jails /\ op[x].pids = {}
    BY <2>1, PhaseJail DEF Signals
  <2>3. (OpReturned(x) \/ OpEvicts(x)) /\ Wrote(x, "Hibernated")
    BY <1>10, <2>2, AfterOp, WriteState DEF SetHibernated, AppState
  <2>4. QED
    BY <1>0, <2>1, <2>2, <2>3, <1>a
    DEF OpReturned, OpEvicts, Wrote, Alone, Accounted, Runs
<1>11. ASSUME NEW x \in Actors, RestoreLook(x) PROVE Alone(z)'
  <2>1. op[x].pc = "restore" /\ UNCHANGED <<state, proc, data, snap, late, mixed>>
    BY <1>11 DEF RestoreLook, mapVars, jailVars, history
  <2>2. op[x].jail \in Jails /\ op[x].pids = {}
    BY <2>1, PhaseJail DEF Signals
  <2>3. OpMoved(x, "cont") \/ OpReturned(x)
    BY <1>11, GotoOp, ReturnOp DEF RestoreLook, PCs, Signals
  <2>4. QED
    BY <1>0, <2>1, <2>2, <2>3, <1>a
    DEF OpMoved, OpReturned, Alone, Accounted, Runs
<1>12. ASSUME NEW x \in Actors, RestoreNoProcs(x) PROVE Alone(z)'
  <2>1. OpMoved(x, "list")
    BY <1>12, GotoOp DEF RestoreNoProcs, PCs, Signals
  <2>2. /\ op[x].pc = "cont" /\ op[x].listed /\ op[x].pids = {} /\ ~op[x].hit
        /\ UNCHANGED <<state, proc, data, snap, late, mixed>>
    BY <1>12
    DEF RestoreNoProcs, NoneReached, AllSignalled, mapVars, jailVars, history
  <2>3. op[x].jail \in Jails
    BY <2>2, PhaseJail
  <2>4. QED
    BY <1>0, <2>1, <2>2, <2>3, <1>a
    DEF OpMoved, Alone, Accounted, Runs
<1>13. ASSUME NEW x \in Actors, ListSnapshots(x) PROVE Alone(z)'
  <2>1. OpChosen(x)
    BY <1>13, ChooseOp
  <2>2. /\ op[x].pc = "list" /\ snap[op[x].jail] # None
        /\ UNCHANGED <<state, proc, data, snap, late, mixed>>
    BY <1>13 DEF ListSnapshots, mapVars, jailVars, history
  <2>3. op[x].jail \in Jails /\ op[x].pids = {}
    BY <2>2, PhaseJail DEF Signals
  <2>4. QED
    BY <1>0, <2>1, <2>2, <2>3, <1>a
    DEF OpChosen, Alone, Accounted, Runs
<1>14. ASSUME NEW x \in Actors, Rollback(x) PROVE Alone(z)'
  <2>1. OpMoved(x, "setRunning")
    BY <1>14, GotoOp DEF Rollback, PCs, Signals
  <2>2. /\ op[x].pc = "rollback"
        /\ data' = [data EXCEPT ![op[x].jail] = op[x].ver]
        /\ UNCHANGED <<state, proc, snap, late, mixed>>
    BY <1>14 DEF Rollback, mapVars, jailVars, history
  <2>3. op[x].jail \in Jails /\ op[x].ver \in Nat /\ op[x].pids = {}
    BY <2>2, PhaseJail DEF Signals
  <2>4. /\ data' \in [Jails -> Nat]
        /\ \A k \in Jails : k # op[x].jail => data'[k] = data[k]
    BY <2>2, <2>3 DEF JailTypes
  <2>5. QED
    BY <1>0, <2>1, <2>2, <2>3, <2>4, <1>a
    DEF OpMoved, Alone, Accounted, Runs
<1>15. ASSUME NEW x \in Actors, RollbackError(x) PROVE Alone(z)'
  <2>1. OpReturned(x)
    BY <1>15, ReturnOp DEF RollbackError
  <2>2. op[x].pc \in {"list", "rollback"} /\ UNCHANGED <<state, proc, data, snap, late, mixed>>
    BY <1>15 DEF RollbackError, mapVars, jailVars, history
  <2>3. QED
    BY <1>0, <2>1, <2>2, <1>a DEF OpReturned, Alone, Accounted, Runs
<1>16. ASSUME NEW x \in Actors, RecycleTmp(x) PROVE Alone(z)'
  <2>1. OpMoved(x, "setDead")
    BY <1>16, GotoOp DEF RecycleTmp, PCs, Signals
  <2>2. /\ op[x].pc = "kill" /\ op[x].listed /\ op[x].pids = {}
        /\ UNCHANGED <<state, proc, data, snap, late, mixed>>
    BY <1>16 DEF RecycleTmp, AllSignalled, mapVars, jailVars, history
  <2>3. op[x].jail \in Jails
    BY <2>2, PhaseJail
  <2>4. QED
    BY <1>0, <2>1, <2>2, <2>3, <1>a
    DEF OpMoved, Alone, Accounted, Runs
<1>17. ASSUME NEW x \in Actors, SetDead(x) PROVE Alone(z)'
  <2>1. op[x].pc = "setDead"
    BY <1>17 DEF SetDead
  <2>2. op[x].jail \in Jails /\ op[x].pids = {}
    BY <2>1, PhaseJail DEF Signals
  <2>3. OpReturned(x) /\ Wrote(x, "Dead")
    BY <1>17, <2>2, ReturnOp, WriteState DEF SetDead, AppState
  <2>4. QED
    BY <1>0, <2>1, <2>2, <2>3, <1>a
    DEF OpReturned, Wrote, Alone, Accounted, Runs
<1>18. ASSUME NEW x \in Actors, NEW pc \in PCs, NEW j \in Jails, NEW e \in BOOLEAN,
             pc \in Commands, Begins(x, pc, j, e)
      PROVE  Alone(z)'
  <2>1. OpBegun(x, pc, j, e)
    BY <1>18, BeginOp DEF Begins
  <2>2. op[x].pc = "idle" /\ UNCHANGED <<state, proc, data, snap, late, mixed>>
    BY <1>18 DEF Begins
  <2>3. op'[x].jail = j
    BY <2>1 DEF OpBegun, OpRec
  <2>4. CASE z = x
    <3>1. /\ op'[z].pc \in Commands /\ ~op'[z].listed
          /\ op'[z].alone = Quiet(j)
      <4>1. op'[z] = OpRec(pc, j, e, Quiet(j))
        BY <2>1, <2>4 DEF OpBegun
      <4>2. pc \in Commands
        BY <1>18
      <4>3. QED
        BY <4>1, <4>2 DEF OpRec
    <3>2. \A y \in Actors : y # z => op'[y].jail # j
      BY <2>1, <2>4, <3>1 DEF OpBegun, Quiet
    <3>3. QED
      BY <2>3, <2>4, <3>1, <3>2 DEF Commands, Alone
  <2>5. CASE z # x
    <3>1. /\ op[z].alone /\ op[z].jail # j
          /\ op'[z].pc = op[z].pc /\ op'[z].jail = op[z].jail
          /\ op'[z].listed = op[z].listed /\ op'[z].pids = op[z].pids
          /\ op'[z].fresh = op[z].fresh
          /\ \A y \in Actors : y # x => op'[y].jail = op[y].jail
      BY <2>1, <2>5 DEF OpBegun
    <3>2. \A y \in Actors : y # z => op'[y].jail # op[z].jail
      BY <1>a, <2>3, <3>1 DEF Alone
    <3>3. QED
      BY <1>a, <2>2, <3>1, <3>2 DEF Alone, Accounted, Runs
  <2>6. QED
    BY <2>4, <2>5
<1>19. ASSUME NEW j \in Jails, NEW p \in Pids, ProcessEnds(j, p) PROVE Alone(z)'
  <2>1. Shrunk(j)
    BY <1>19, EndEffect
  <2>2. QED
    BY <1>0, <2>1, PhaseJail, <1>a DEF Shrunk, Alone, Accounted, Runs
<1>20. ASSUME NEW j \in Jails, NEW p \in Pids, ProcessStarts(j, p) PROVE Alone(z)'
  <2>1. OpStarted(j, p) /\ Grown(j, p)
    BY <1>20, StartOp, StartEffect
  <2>2. /\ op'[z].pc = op[z].pc /\ op'[z].listed = op[z].listed
        /\ op'[z].pids = op[z].pids /\ op'[z].alone = op[z].alone
        /\ op'[z].fresh = IF op[z].jail = j /\ op[z].listed
                           THEN op[z].fresh \cup {p} ELSE op[z].fresh
        /\ \A y \in Actors : op'[y].jail = op[y].jail
    BY <2>1 DEF OpStarted
  <2>3. op[z].jail \in Jails =>
           RunsIn(proc'[op[z].jail]) \subseteq
               RunsIn(proc[op[z].jail]) \cup (IF op[z].jail = j THEN {p} ELSE {})
    BY <2>1 DEF Grown
  <2>4. UNCHANGED <<data, snap>>
    BY <2>1 DEF Grown
  <2>5. op[z].pc = "setHibernated" => op[z].listed
    BY DEF PhaseFacts, Phase
  <2>6. QED
    BY <1>a, <2>2, <2>3, <2>4, <2>5 DEF Alone, Accounted, Runs
<1>21. ASSUME NEW j \in Jails, AppWrites(j) PROVE Alone(z)'
  <2>1. /\ RunsIn(proc[j]) # {} /\ data' = [data EXCEPT ![j] = data[j] + 1]
        /\ UNCHANGED <<state, proc, snap, op, late, mixed>>
    BY <1>21 DEF AppWrites, Runs, mapVars, jailVars, history
  <2>2. /\ data' \in [Jails -> Nat] /\ data'[j] = data[j] + 1
        /\ \A k \in Jails : k # j => data'[k] = data[k]
    BY <2>1 DEF JailTypes
  <2>3. op[z].pc = "setHibernated" => op[z].pids = {}
    BY <1>a DEF Signals
  <2>4. QED
    BY <1>0, <1>a, <2>1, <2>2, <2>3 DEF Alone, Accounted, Runs
<1>22. CASE DaemonRestart
  <2>1. /\ state' = [j \in Jails |-> "untracked"]
        /\ op' = [x \in Actors |-> Idle]
        /\ late' = [j \in Jails |-> {}]
        /\ mixed' = {}
        /\ UNCHANGED <<proc, data, snap>>
    BY <1>22 DEF DaemonRestart, jailVars
  <2>2. /\ Idle \in OpType /\ Idle.pc = "idle" /\ Idle.pids = {}
        /\ Idle.jail = None /\ ~Idle.alone
    BY LifecycleAssumption DEF Idle, OpRec, OpType, PCs
  <2>3. QED
    BY <1>0, <2>1, <2>2, <1>a DEF Alone, Accounted, Runs
<1>23. CASE UNCHANGED jailCore
  BY <1>23, <1>a DEF jailCore, Alone, Accounted, Runs
<1>24. QED
  BY <1>1, <1>2, <1>3, <1>4, <1>5, <1>6, <1>7, <1>8, <1>9, <1>10, <1>11,
      <1>12, <1>13, <1>14, <1>15, <1>16, <1>17, <1>18, <1>19, <1>20, <1>21,
      <1>22, <1>23, NextCases
  DEF Step, SignalPids, FreezeThaw, HibernateRestore, Kill

\* A command writes what it has made true, or has been overlapped.
LEMMA StepTruthKept ==
    TypeOK /\ JailTypes /\ PhaseFacts /\ AloneFacts /\ TruthKept /\ [Next]_vars => TruthKept'
<1> SUFFICES ASSUME TypeOK, JailTypes, PhaseFacts, AloneFacts, TruthKept, [Next]_vars, NEW m \in Jails
             PROVE  Held(m)'
  BY DEF TruthKept
<1>0. None \notin Jails /\ None \notin Nat
  BY LifecycleAssumption
<1>a. Held(m) /\ \A x \in Actors : op[x].alone => Alone(x)
  BY DEF TruthKept, AloneFacts
<1>1. ASSUME NEW x \in Actors, ListPids(x) PROVE Held(m)'
  <2>1. OpListed(x)
    BY <1>1, ListOp
  <2>2. /\ op[x].pc \in Signals /\ ~op[x].listed
        /\ UNCHANGED <<state, proc, data, snap, late, mixed>>
    BY <1>1 DEF ListPids, mapVars, jailVars, history
  <2>3. op[x].jail \in Jails /\ op'[x].pids = AliveIn(proc[op[x].jail])
    BY <1>1, <2>1, <2>2, PhaseJail DEF OpListed, Signals, Alive
  <2>4. CASE Truth(m)
    BY <2>2, <2>4 DEF Held, Truth, Runs
  <2>5. CASE Resuming(m)
    <3>1. \A y \in Actors :
             /\ op'[y].pc = op[y].pc /\ op'[y].jail = op[y].jail
             /\ op'[y].hit = op[y].hit
             /\ op[y].listed => op'[y].listed
      BY <2>1 DEF OpListed
    <3>2. QED
      BY <2>5, <3>1 DEF Held, Resuming
  <2>6. CASE m \in mixed
    BY <2>2, <2>6 DEF Held
  <2>7. QED
    BY <1>a, <2>4, <2>5, <2>6 DEF Held
<1>2. ASSUME NEW x \in Actors, Signal(x) PROVE Held(m)'
  <2>1. OpSignalled(x) /\ SignalDone(x)
    BY <1>2, SignalOp, SignalEffect
  <2>2. UNCHANGED <<state, data, snap, late, mixed>>
    BY <1>2 DEF Signal, mapVars, jailVars, history
  <2>3. op[x].jail \in Jails /\ op[x].pc \in Signals /\ op[x].listed
    BY <2>1 DEF OpSignalled
  <2>4. CASE Resuming(m)
    <3>1. \A y \in Actors : y # x => op'[y] = op[y]
      BY <2>1 DEF OpSignalled
    <3>2. /\ op'[x].pc = op[x].pc /\ op'[x].jail = op[x].jail
          /\ op'[x].listed = op[x].listed
          /\ op[x].pc = "cont" /\ op[x].hit => op'[x].hit
      BY <2>1 DEF OpSignalled, SignalDone
    <3>3. QED
      BY <2>3, <2>4, <3>1, <3>2 DEF Held, Resuming, Signals
  <2>5. CASE Truth(m) /\ m # op[x].jail
    BY <2>1, <2>2, <2>5 DEF Held, Truth, Runs, SignalDone
  <2>6. CASE Truth(m) /\ m = op[x].jail
    <3>1. CASE \/ op[x].pc \in {"freeze", "hibernate", "kill"}
               \/ op[x].pc = "cont" /\ ~op'[x].hit
      <4>1. RunsIn(proc'[m]) \subseteq RunsIn(proc[m])
        BY <2>1, <2>6, <3>1 DEF SignalDone
      <4>2. QED
        BY <2>2, <2>6, <4>1 DEF Held, Truth, Runs
    <3>2. CASE \/ op[x].pc = "thaw"
               \/ op[x].pc = "cont" /\ op'[x].hit
      <4>1. /\ op'[x].pc = op[x].pc /\ op'[x].jail = op[x].jail
            /\ op'[x].listed = op[x].listed
        BY <2>1 DEF OpSignalled
      <4>2. QED
        BY <2>3, <2>6, <3>2, <4>1 DEF Held, Resuming
    <3>3. QED
      BY <2>3, <3>1, <3>2 DEF Signals
  <2>7. CASE m \in mixed
    BY <2>2, <2>7 DEF Held
  <2>8. QED
    BY <1>a, <2>4, <2>5, <2>6, <2>7 DEF Held
<1>3. ASSUME NEW x \in Actors, SignalErrorIgnored(x) PROVE Held(m)'
  <2>1. OpListed(x)
    BY <1>3, ListOp
  <2>2. /\ op[x].pc \in {"hibernate", "cont", "kill"} /\ ~op[x].listed
        /\ AliveIn(proc[op[x].jail]) = {} \/ op[x].jail \in Flaky
        /\ op' = [op EXCEPT ![x].listed = TRUE]
        /\ UNCHANGED <<state, proc, data, snap, late, mixed>>
    BY <1>3
    DEF SignalErrorIgnored, SignalError, Alive, mapVars, jailVars, history
  <2>3. op[x].jail \in Jails /\ op[x].pids = {} /\ op'[x].pids = {}
    BY <2>2, PhaseJail DEF JailTypes, OpType
  <2>4. QED
    BY <1>0, <2>1, <2>2, <2>3, <1>a
    DEF OpListed, Held, Truth, Resuming, Runs
<1>4. ASSUME NEW x \in Actors, FreezeError(x) PROVE Held(m)'
  <2>1. OpReturned(x)
    BY <1>4, ReturnOp DEF FreezeError
  <2>2. op[x].pc = "freeze" /\ ~op[x].listed /\ UNCHANGED <<state, proc, data, snap, late, mixed>>
    BY <1>4 DEF FreezeError, SignalError, mapVars, jailVars, history
  <2>3. QED
    BY <1>0, <2>1, <2>2, <1>a
    DEF OpReturned, Held, Truth, Resuming, Runs
<1>5. ASSUME NEW x \in Actors, SetFrozen(x) PROVE Held(m)'
  <2>1. op[x].pc = "freeze" /\ op[x].listed /\ op[x].pids = {}
    BY <1>5 DEF SetFrozen, AllSignalled
  <2>2. op[x].jail \in Jails
    BY <2>1, PhaseJail
  <2>3. OpReturned(x) /\ Wrote(x, "Frozen")
    BY <1>5, <2>2, ReturnOp, WriteState DEF SetFrozen, AppState
  <2>4. CASE m # op[x].jail
    BY <1>a, <2>1, <2>3, <2>4
    DEF OpReturned, Wrote, Held, Truth, Resuming, Runs
  <2>5. CASE m = op[x].jail /\ op[x].alone
    <3>1. Runs(m) \subseteq op[x].fresh
      BY <1>a, <2>1, <2>5 DEF Alone, Accounted
    <3>2. state'[m] = "Frozen" /\ late'[m] = op[x].fresh /\ UNCHANGED proc
      BY <2>3, <2>5 DEF Wrote, Silent
    <3>3. QED
      BY <3>1, <3>2 DEF Held, Truth, Runs
  <2>6. CASE m = op[x].jail /\ ~op[x].alone
    BY <2>3, <2>6 DEF Wrote, Held
  <2>7. QED
    BY <2>4, <2>5, <2>6
<1>6. ASSUME NEW x \in Actors, ThawError(x) PROVE Held(m)'
  <2>1. OpReturned(x)
    BY <1>6, ReturnOp DEF ThawError
  <2>2. op[x].pc = "thaw" /\ ~op[x].listed /\ UNCHANGED <<state, proc, data, snap, late, mixed>>
    BY <1>6 DEF ThawError, SignalError, mapVars, jailVars, history
  <2>3. QED
    BY <1>0, <2>1, <2>2, <1>a
    DEF OpReturned, Held, Truth, Resuming, Runs
<1>7. ASSUME NEW x \in Actors, SetRunning(x) PROVE Held(m)'
  <2>1. /\ op[x].pc \in {"thaw", "cont", "setRunning"}
        /\ op[x].pc = "thaw" => op[x].listed
        /\ op[x].pc = "cont" => op[x].listed /\ op[x].hit
    BY <1>7 DEF SetRunning, AllSignalled
  <2>2. op[x].jail \in Jails
    BY <2>1, PhaseJail
  <2>3. OpReturned(x) /\ Wrote(x, "Running")
    BY <1>7, <2>2, ReturnOp, WriteState DEF SetRunning, AppState
  <2>4. QED
    BY <1>0, <2>1, <2>2, <2>3, <1>a
    DEF OpReturned, Wrote, Held, Truth, Resuming, Runs
<1>8. ASSUME NEW x \in Actors, Snapshot(x) PROVE Held(m)'
  <2>1. OpMoved(x, "setHibernated")
    BY <1>8, GotoOp DEF Snapshot, PCs, Signals
  <2>2. /\ op[x].pc = "hibernate" /\ op[x].listed /\ op[x].pids = {}
        /\ snap' = [snap EXCEPT ![op[x].jail] = data[op[x].jail]]
        /\ UNCHANGED <<state, proc, data, late, mixed>>
    BY <1>8 DEF Snapshot, AllSignalled, mapVars, jailVars, history
  <2>3. op[x].jail \in Jails
    BY <2>2, PhaseJail
  <2>4. /\ snap' \in [Jails -> Nat \cup {None}] /\ snap'[op[x].jail] # None
        /\ snap'[op[x].jail] = data[op[x].jail]
        /\ \A k \in Jails : k # op[x].jail => snap'[k] = snap[k]
    BY <2>2, <2>3, LifecycleAssumption DEF JailTypes
  <2>5. QED
    BY <1>0, <2>1, <2>2, <2>3, <2>4, <1>a
    DEF OpMoved, Held, Truth, Resuming, Runs
<1>9. ASSUME NEW x \in Actors, SnapshotFails(x) PROVE Held(m)'
  <2>1. OpReturned(x) \/ OpEvicts(x)
    BY <1>9, AfterOp DEF SnapshotFails
  <2>2. op[x].pc = "hibernate" /\ UNCHANGED <<state, proc, data, snap, late, mixed>>
    BY <1>9
    DEF SnapshotFails, AllSignalled, mapVars, jailVars, history
  <2>3. op[x].jail \in Jails
    BY <2>2, PhaseJail
  <2>4. QED
    BY <1>0, <2>1, <2>2, <2>3, <1>a
    DEF OpReturned, OpEvicts, Held, Truth, Resuming, Runs
<1>10. ASSUME NEW x \in Actors, SetHibernated(x) PROVE Held(m)'
  <2>1. op[x].pc = "setHibernated"
    BY <1>10 DEF SetHibernated
  <2>2. op[x].jail \in Jails /\ op[x].pids = {}
    BY <2>1, PhaseJail DEF Signals
  <2>3. (OpReturned(x) \/ OpEvicts(x)) /\ Wrote(x, "Hibernated")
    BY <1>10, <2>2, AfterOp, WriteState DEF SetHibernated, AppState
  <2>4. CASE m # op[x].jail
    <3>1. \A y \in Actors : y # x => op'[y] = op[y]
      BY <2>3 DEF OpReturned, OpEvicts
    <3>2. CASE Resuming(m)
      BY <2>1, <3>1, <3>2 DEF Held, Resuming
    <3>3. CASE m \in mixed
      BY <2>3, <2>4, <3>3 DEF Held, Wrote
    <3>4. CASE Truth(m)
      BY <2>3, <2>4, <3>4 DEF Held, Wrote, Truth, Runs
    <3>5. QED
      BY <1>a, <3>2, <3>3, <3>4 DEF Held
  <2>5. CASE m = op[x].jail /\ op[x].alone
    <3>1. m \notin Flaky => Runs(m) \subseteq op[x].fresh
      BY <1>a, <2>1, <2>2, <2>5 DEF Alone, Accounted
    <3>7. m \notin Flaky /\ op[x].fresh = {} => snap[m] = data[m]
      BY <1>a, <2>1, <2>5 DEF Alone
    <3>2. /\ state'[m] = "Hibernated" /\ late'[m] = op[x].fresh
          /\ UNCHANGED <<proc, data, snap>>
      BY <2>3, <2>5 DEF Wrote, Silent
    <3>3. QED
      BY <3>1, <3>7, <3>2 DEF Held, Truth, Runs
  <2>6. CASE m = op[x].jail /\ ~op[x].alone
    BY <2>3, <2>6 DEF Wrote, Held
  <2>7. QED
    BY <2>4, <2>5, <2>6
<1>11. ASSUME NEW x \in Actors, RestoreLook(x) PROVE Held(m)'
  <2>1. op[x].pc = "restore" /\ UNCHANGED <<state, proc, data, snap, late, mixed>>
    BY <1>11 DEF RestoreLook, mapVars, jailVars, history
  <2>2. op[x].jail \in Jails /\ op[x].pids = {}
    BY <2>1, PhaseJail DEF Signals
  <2>3. OpMoved(x, "cont") \/ OpReturned(x)
    BY <1>11, GotoOp, ReturnOp DEF RestoreLook, PCs, Signals
  <2>4. QED
    BY <1>0, <2>1, <2>2, <2>3, <1>a
    DEF OpMoved, OpReturned, Held, Truth, Resuming, Runs
<1>12. ASSUME NEW x \in Actors, RestoreNoProcs(x) PROVE Held(m)'
  <2>1. OpMoved(x, "list")
    BY <1>12, GotoOp DEF RestoreNoProcs, PCs, Signals
  <2>2. /\ op[x].pc = "cont" /\ op[x].listed /\ op[x].pids = {} /\ ~op[x].hit
        /\ UNCHANGED <<state, proc, data, snap, late, mixed>>
    BY <1>12
    DEF RestoreNoProcs, NoneReached, AllSignalled, mapVars, jailVars, history
  <2>3. op[x].jail \in Jails
    BY <2>2, PhaseJail
  <2>4. QED
    BY <1>0, <2>1, <2>2, <2>3, <1>a
    DEF OpMoved, Held, Truth, Resuming, Runs
<1>13. ASSUME NEW x \in Actors, ListSnapshots(x) PROVE Held(m)'
  <2>1. OpChosen(x)
    BY <1>13, ChooseOp
  <2>2. /\ op[x].pc = "list" /\ snap[op[x].jail] # None
        /\ UNCHANGED <<state, proc, data, snap, late, mixed>>
    BY <1>13 DEF ListSnapshots, mapVars, jailVars, history
  <2>3. op[x].jail \in Jails /\ op[x].pids = {}
    BY <2>2, PhaseJail DEF Signals
  <2>4. QED
    BY <1>0, <2>1, <2>2, <2>3, <1>a
    DEF OpChosen, Held, Truth, Resuming, Runs
<1>14. ASSUME NEW x \in Actors, Rollback(x) PROVE Held(m)'
  <2>1. OpMoved(x, "setRunning")
    BY <1>14, GotoOp DEF Rollback, PCs, Signals
  <2>2. /\ op[x].pc = "rollback"
        /\ data' = [data EXCEPT ![op[x].jail] = op[x].ver]
        /\ UNCHANGED <<state, proc, snap, late, mixed>>
    BY <1>14 DEF Rollback, mapVars, jailVars, history
  <2>3. op[x].jail \in Jails /\ op[x].ver \in Nat /\ op[x].pids = {}
    BY <2>2, PhaseJail DEF Signals
  <2>4. /\ data' \in [Jails -> Nat]
        /\ \A k \in Jails : k # op[x].jail => data'[k] = data[k]
    BY <2>2, <2>3 DEF JailTypes
  <2>5. QED
    BY <1>0, <2>1, <2>2, <2>3, <2>4, <1>a
    DEF OpMoved, Held, Truth, Resuming, Runs
<1>15. ASSUME NEW x \in Actors, RollbackError(x) PROVE Held(m)'
  <2>1. OpReturned(x)
    BY <1>15, ReturnOp DEF RollbackError
  <2>2. op[x].pc \in {"list", "rollback"} /\ UNCHANGED <<state, proc, data, snap, late, mixed>>
    BY <1>15 DEF RollbackError, mapVars, jailVars, history
  <2>3. QED
    BY <1>0, <2>1, <2>2, <1>a
    DEF OpReturned, Held, Truth, Resuming, Runs
<1>16. ASSUME NEW x \in Actors, RecycleTmp(x) PROVE Held(m)'
  <2>1. OpMoved(x, "setDead")
    BY <1>16, GotoOp DEF RecycleTmp, PCs, Signals
  <2>2. /\ op[x].pc = "kill" /\ op[x].listed /\ op[x].pids = {}
        /\ UNCHANGED <<state, proc, data, snap, late, mixed>>
    BY <1>16 DEF RecycleTmp, AllSignalled, mapVars, jailVars, history
  <2>3. op[x].jail \in Jails
    BY <2>2, PhaseJail
  <2>4. QED
    BY <1>0, <2>1, <2>2, <2>3, <1>a
    DEF OpMoved, Held, Truth, Resuming, Runs
<1>17. ASSUME NEW x \in Actors, SetDead(x) PROVE Held(m)'
  <2>1. op[x].pc = "setDead"
    BY <1>17 DEF SetDead
  <2>2. op[x].jail \in Jails /\ op[x].pids = {}
    BY <2>1, PhaseJail DEF Signals
  <2>3. OpReturned(x) /\ Wrote(x, "Dead")
    BY <1>17, <2>2, ReturnOp, WriteState DEF SetDead, AppState
  <2>4. QED
    BY <1>0, <2>1, <2>2, <2>3, <1>a
    DEF OpReturned, Wrote, Held, Truth, Resuming, Runs
<1>18. ASSUME NEW x \in Actors, NEW pc \in PCs, NEW j \in Jails, NEW e \in BOOLEAN,
             pc \in Commands, Begins(x, pc, j, e)
      PROVE  Held(m)'
  <2>1. OpBegun(x, pc, j, e)
    BY <1>18, BeginOp DEF Begins
  <2>2. op[x].pc = "idle" /\ UNCHANGED <<state, proc, data, snap, late, mixed>>
    BY <1>18 DEF Begins
  <2>3. QED
    BY <1>0, <1>18, <2>1, <2>2, <1>a
    DEF OpBegun, OpRec, Commands, Held, Truth, Resuming, Runs
<1>19. ASSUME NEW j \in Jails, NEW p \in Pids, ProcessEnds(j, p) PROVE Held(m)'
  <2>1. Shrunk(j)
    BY <1>19, EndEffect
  <2>2. QED
    BY <1>0, <2>1, PhaseJail, <1>a
    DEF Shrunk, Held, Truth, Resuming, Runs
<1>20. ASSUME NEW j \in Jails, NEW p \in Pids, ProcessStarts(j, p) PROVE Held(m)'
  <2>1. OpStarted(j, p) /\ Grown(j, p)
    BY <1>20, StartOp, StartEffect
  <2>2. CASE Resuming(m)
    BY <2>1, <2>2 DEF OpStarted, Held, Resuming
  <2>3. CASE m \in mixed
    BY <2>1, <2>3 DEF Grown, Held
  <2>4. CASE Truth(m) /\ m # j
    BY <2>1, <2>4 DEF Grown, Held, Truth, Runs
  <2>5. CASE Truth(m) /\ m = j
    <3>1. state[m] \in {"Frozen", "Hibernated"} => late'[m] = late[m] \cup {p}
      BY <2>1, <2>5 DEF Grown, Silent
    <3>2. /\ RunsIn(proc'[m]) \subseteq RunsIn(proc[m]) \cup {p}
          /\ UNCHANGED <<state, data, snap>>
      BY <2>1, <2>5 DEF Grown
    <3>3. QED
      BY <2>5, <3>1, <3>2 DEF Held, Truth, Runs
  <2>6. QED
    BY <1>a, <2>2, <2>3, <2>4, <2>5 DEF Held
<1>21. ASSUME NEW j \in Jails, AppWrites(j) PROVE Held(m)'
  <2>1. /\ RunsIn(proc[j]) # {} /\ data' = [data EXCEPT ![j] = data[j] + 1]
        /\ UNCHANGED <<state, proc, snap, op, late, mixed>>
    BY <1>21 DEF AppWrites, Runs, mapVars, jailVars, history
  <2>2. /\ data' \in [Jails -> Nat] /\ data'[j] = data[j] + 1
        /\ \A k \in Jails : k # j => data'[k] = data[k]
    BY <2>1 DEF JailTypes
  <2>3. QED
    BY <1>0, <2>1, <2>2, PhaseJail, <1>a
    DEF Held, Truth, Resuming, Runs
<1>22. CASE DaemonRestart
  <2>1. /\ state' = [j \in Jails |-> "untracked"]
        /\ op' = [x \in Actors |-> Idle]
        /\ late' = [j \in Jails |-> {}]
        /\ mixed' = {}
        /\ UNCHANGED <<proc, data, snap>>
    BY <1>22 DEF DaemonRestart, jailVars
  <2>2. /\ Idle \in OpType /\ Idle.pc = "idle" /\ Idle.pids = {}
        /\ Idle.jail = None /\ ~Idle.alone
    BY LifecycleAssumption DEF Idle, OpRec, OpType, PCs
  <2>3. QED
    BY <1>0, <2>1, <2>2, <1>a DEF Held, Truth, Resuming, Runs
<1>23. CASE UNCHANGED jailCore
  BY <1>23, <1>a DEF jailCore, Held, Truth, Resuming, Runs
<1>24. QED
  BY <1>1, <1>2, <1>3, <1>4, <1>5, <1>6, <1>7, <1>8, <1>9, <1>10, <1>11,
      <1>12, <1>13, <1>14, <1>15, <1>16, <1>17, <1>18, <1>19, <1>20, <1>21,
      <1>22, <1>23, NextCases
  DEF Step, SignalPids, FreezeThaw, HibernateRestore, Kill

\* The part of TypeOK about priorities, guard and monitor.
MonitorTypes ==
    /\ prio \in [Jails -> Nat \cup {None}]
    /\ last \in [Jails -> 0..2]
    /\ guardOff \in BOOLEAN
    /\ timers \subseteq Nat
    /\ plan \in Seq(Jails)
    /\ freePct \in Nat
    /\ \A i \in 1..Len(plan) : plan[i] \in Candidates

\* TypeOK with the types of the jails and of the commands apart.
LEMMA TypeParts ==
    TypeOK <=> /\ BoundsOK /\ MonitorTypes
               /\ state \in [Jails -> AppState]
               /\ proc \in [Jails -> [Pids -> {"run", "stop", "none"}]]
               /\ data \in [Jails -> Nat]
               /\ snap \in [Jails -> Nat \cup {None}]
               /\ op \in [Actors -> OpType]
               /\ late \in [Jails -> SUBSET Pids]
               /\ mixed \subseteq Jails
               /\ \A x \in Actors : /\ op[x].pc # "idle" => op[x].jail \in Jails
                                    /\ op[x].pc = "rollback" => op[x].ver # None
BY DEF TypeOK, MonitorTypes, OpType

\* The monitor plans for candidates, and SET_PRIORITY makes no candidate less.
LEMMA StepMonitorTypes == TypeOK /\ [Next]_vars => MonitorTypes'
<1> SUFFICES ASSUME TypeOK, MonitorTypes, [Next]_vars PROVE MonitorTypes'
  BY TypeParts
<1>1. CASE UNCHANGED <<prio, last, guardVars, monVars>>
  BY <1>1 DEF MonitorTypes, Candidates, guardVars, monVars
<1>2. ASSUME NEW x \in Actors, Step(x)
      PROVE  UNCHANGED <<prio, last, guardVars, monVars>>
  BY <1>2
  DEF Step, SignalPids, FreezeThaw, HibernateRestore, Kill, SetState, ListPids,
      Signal, SignalErrorIgnored, FreezeError, SetFrozen, ThawError, SetRunning,
      Snapshot, SnapshotFails, SetHibernated, RestoreLook, RestoreNoProcs,
      ListSnapshots, Rollback, RollbackError, RecycleTmp, SetDead, mapVars
<1>3. ASSUME NEW j \in Jails, NEW p \in Prios, SetPriority(j, p)
      PROVE  MonitorTypes'
  <2>1. p \in Nat /\ p # None
    BY LifecycleAssumption
  <2>2. /\ prio' = [prio EXCEPT ![j] = p]
        /\ last' = [last EXCEPT ![j] = 2]
        /\ UNCHANGED <<guardOff, timers, plan, freePct>>
    BY <1>3 DEF SetPriority, guardVars, monVars
  <2>3. \A k \in Candidates : k \in Candidates'
    BY <2>1, <2>2 DEF MonitorTypes, Candidates
  <2>4. QED
    BY <2>1, <2>2, <2>3 DEF MonitorTypes
<1>4. CASE GuardOn
  BY <1>4 DEF GuardOn, MonitorTypes, Candidates, mapVars, monVars
<1>5. CASE GuardOff
  <2>1. used.cmds \in Nat
    BY BoundsAssumption DEF TypeOK, BoundsOK
  <2>2. QED
    BY <1>5, <2>1 DEF GuardOff, MonitorTypes, Candidates, mapVars, monVars
<1>6. ASSUME NEW t \in timers, TimerFires(t) PROVE MonitorTypes'
  BY <1>6 DEF TimerFires, MonitorTypes, Candidates, mapVars, monVars
<1>7. CASE MonitorTick
  <2>1. PICK t \in FreePcts, s \in EvictionOrders :
           /\ plan' = Prefix(s, Reach(FromStats(t)))
           /\ freePct' = IF plan' = <<>> THEN 1000 ELSE t
    BY <1>7 DEF MonitorTick
  <2>2. UNCHANGED <<prio, last, guardOff, timers>>
    BY <1>7 DEF MonitorTick, mapVars, guardVars
  <2>3. Candidates \subseteq Jails /\ IsFiniteSet(Candidates)
    BY LifecycleAssumption, FS_Subset DEF Candidates
  <2>4. Cardinality(Candidates) \in Nat
    BY <2>3, FS_CardinalityType
  <2>5. Reach(FromStats(t)) \in Nat
    BY <2>4 DEF Reach
  <2>6. s \in Seq(Candidates)
    BY <2>4 DEF EvictionOrders
  <2> DEFINE k == IF Reach(FromStats(t)) < Len(s) THEN Reach(FromStats(t)) ELSE Len(s)
  <2>7. k \in Int /\ k <= Len(s)
    BY <2>5, <2>6
  <2>8. \A i \in 1..k : s[i] \in Candidates
    BY <2>6, <2>7
  <2> HIDE DEF k
  <2>9. SubSeq(s, 1, k) \in Seq(Candidates)
    BY <2>7, <2>8, 1 \in Int, SubSeqProperties, Zenon
  <2>10. plan' \in Seq(Candidates)
    BY <2>1, <2>9 DEF Prefix, k
  <2>11. /\ plan' \in Seq(Jails)
         /\ \A i \in 1..Len(plan') : plan'[i] \in Candidates
    BY <2>3, <2>10
  <2>12. freePct' \in Nat
    BY <2>1, LifecycleAssumption
  <2>13. QED
    BY <2>2, <2>11, <2>12 DEF MonitorTypes, Candidates
<1>8. CASE MonitorNext
  <2>1. /\ plan # <<>> /\ plan' = Tail(plan)
        /\ freePct' \in {1000, freePct}
        /\ UNCHANGED <<prio, last, guardOff, timers>>
    BY <1>8 DEF MonitorNext, mapVars, guardVars
  <2>2. /\ plan' \in Seq(Jails)
        /\ \A i \in 1..Len(plan') : plan'[i] \in Candidates
    BY <2>1 DEF MonitorTypes
  <2>3. QED
    BY <2>1, <2>2 DEF MonitorTypes, Candidates
<1>9. ASSUME NEW j \in Jails, IdleWindowPasses(j) PROVE MonitorTypes'
  BY <1>9 DEF IdleWindowPasses, MonitorTypes, Candidates, guardVars, monVars
<1>10. CASE DaemonRestart
  <2>1. /\ prio' = Prio0 /\ last' = [j \in Jails |-> 0] /\ guardOff' = FALSE
        /\ timers' = {} /\ freePct' = 1000 /\ plan' = <<>>
    BY <1>10 DEF DaemonRestart
  <2>2. Prio0 \in [Jails -> Nat \cup {None}]
    BY LifecycleAssumption
  <2>3. plan' \in Seq(Jails) /\ 1..Len(plan') = {}
    BY <2>1, EmptySeq
  <2>4. prio' \in [Jails -> Nat \cup {None}]
    BY <2>1, <2>2
  <2>5. last' \in [Jails -> 0..2] /\ timers' \subseteq Nat /\ freePct' \in Nat
    BY <2>1
  <2>6. guardOff' \in BOOLEAN
    BY <2>1
  <2>7. QED
    BY <2>3, <2>4, <2>5, <2>6 DEF MonitorTypes
<1>11. QED
  BY <1>1, <1>2, <1>3, <1>4, <1>5, <1>6, <1>7, <1>8, <1>9, <1>10
  DEF Next, Dispatch, DispatchZenoh, ProcessEnds, ProcessStarts, AppWrites, vars,
      mapVars

\* The inductive invariant.
IInv ==
    /\ TypeOK /\ JailTypes
    /\ PhaseFacts /\ SafeStates /\ AloneFacts /\ TruthKept

\* The daemon starts with an empty map and no command in progress.
LEMMA InitIInv == Init => IInv
<1> SUFFICES ASSUME Init PROVE IInv
  OBVIOUS
<1>0. None \notin Jails
  BY LifecycleAssumption
<1>1. /\ Idle \in OpType /\ Idle.pc = "idle" /\ Idle.jail = None
      /\ Idle.pids = {} /\ ~Idle.alone
  BY DEF Idle, OpRec, OpType, PCs
<1>2. /\ state = [j \in Jails |-> "untracked"]
      /\ op = [x \in Actors |-> Idle]
      /\ late = [j \in Jails |-> {}]
  BY DEF Init
<1>3. JailTypes
  <2>1. /\ proc \in [Jails -> [Pids -> {"run", "stop", "none"}]]
        /\ data \in [Jails -> Nat] /\ snap \in [Jails -> Nat \cup {None}]
        /\ mixed \subseteq Jails
    BY DEF Init
  <2>2. QED
    BY <1>1, <1>2, <2>1 DEF JailTypes, AppState
<1>4. MonitorTypes
  <2>1. /\ prio = Prio0 /\ last = [j \in Jails |-> 0] /\ guardOff = FALSE
        /\ timers = {} /\ freePct = 1000 /\ plan = <<>>
    BY DEF Init
  <2>2. Prio0 \in [Jails -> Nat \cup {None}]
    BY LifecycleAssumption
  <2>3. plan \in Seq(Jails) /\ 1..Len(plan) = {}
    BY <2>1, EmptySeq
  <2>4. prio \in [Jails -> Nat \cup {None}]
    BY <2>1, <2>2
  <2>5. last \in [Jails -> 0..2] /\ timers \subseteq Nat /\ freePct \in Nat
    BY <2>1
  <2>6. guardOff \in BOOLEAN
    BY <2>1
  <2>7. QED
    BY <2>3, <2>4, <2>5, <2>6 DEF MonitorTypes
<1>5. BoundsOK
  BY BoundsAssumption DEF Init, BoundsOK
<1>6. TypeOK
  BY <1>3, <1>4, <1>5, TypeParts DEF JailTypes
<1>7. PhaseFacts /\ AloneFacts
  BY <1>1, <1>2 DEF PhaseFacts, Phase, AloneFacts
<1>8. SafeStates /\ TruthKept
  BY <1>2 DEF SafeStates, DeadIsGone, HibernatedHasSnapshot, TruthKept, Held, Truth
<1>9. QED
  BY <1>3, <1>6, <1>7, <1>8 DEF IInv

\* Every step keeps it.
LEMMA StepIInv == IInv /\ [Next]_vars => IInv'
<1> SUFFICES ASSUME IInv, [Next]_vars PROVE IInv'
  OBVIOUS
<1>1. JailTypes'
  BY StepJailTypes DEF IInv
<1>2. BoundsOK' /\ MonitorTypes'
  BY StepBounds, StepMonitorTypes DEF IInv, TypeOK
<1>3. TypeOK'
  <2>1. TypeOK' <=> /\ BoundsOK' /\ MonitorTypes'
                    /\ state' \in [Jails -> AppState]
                    /\ proc' \in [Jails -> [Pids -> {"run", "stop", "none"}]]
                    /\ data' \in [Jails -> Nat]
                    /\ snap' \in [Jails -> Nat \cup {None}]
                    /\ op' \in [Actors -> OpType]
                    /\ late' \in [Jails -> SUBSET Pids]
                    /\ mixed' \subseteq Jails
                    /\ \A x \in Actors : /\ op'[x].pc # "idle" => op'[x].jail \in Jails
                                         /\ op'[x].pc = "rollback" => op'[x].ver # None
    BY DEF TypeOK, MonitorTypes, OpType
  <2>2. QED
    BY <1>1, <1>2, <2>1 DEF JailTypes
<1>4. PhaseFacts' /\ SafeStates' /\ AloneFacts' /\ TruthKept'
  BY StepPhaseFacts, StepSafeStates, StepAloneFacts, StepTruthKept DEF IInv
<1>5. QED
  BY <1>1, <1>3, <1>4 DEF IInv

LEMMA Inductive == Spec => []IInv
BY InitIInv, StepIInv, PTL DEF Spec

\* Type correctness; a command in progress has a jail, a rollback its target,
\* and the monitor plans for jails that have a priority.
THEOREM TypeCorrect == Spec => []TypeOK
<1>1. IInv => TypeOK
  BY DEF IInv
<1>2. QED
  BY <1>1, Inductive, PTL

\* Whatever connections, bridge and monitor interleave, and whenever processes
\* start, a jail that the map calls Dead has no process left but those that
\* started after its KILL had listed the processes.
THEOREM DeadStaysGone == Spec => []DeadIsGone
<1>1. IInv => DeadIsGone
  BY DEF IInv, SafeStates
<1>2. QED
  BY <1>1, Inductive, PTL

\* Whatever connections, bridge and monitor interleave, a jail that the map
\* calls Hibernated has a snapshot.
THEOREM HibernationBacked == Spec => []HibernatedHasSnapshot
<1>1. IInv => HibernatedHasSnapshot
  BY DEF IInv, SafeStates
<1>2. QED
  BY <1>1, Inductive, PTL

\* No interleaving rolls a dataset back under a process that was there when the
\* RESTORE signalled the jail.
THEOREM NoRollbackUnderProcess == Spec => RollbackOffline
<1>1. IInv /\ [Next]_vars => [RollbackStep]_vars
  BY StepRollback DEF IInv
<1>2. QED
  BY <1>1, Inductive, PTL DEF Spec, RollbackOffline

\* All tasks may act on all jails: about a jail whose state was last written by
\* a command that no other overlapped, the map tells the truth whenever no
\* command on it is in progress.
THEOREM MapTruthful == Spec => []StatusTruthful
<1>1. TruthKept => StatusTruthful
  BY DEF TruthKept, Held, Truth, Resuming, StatusTruthful, Quiet
<1>2. QED
  BY <1>1, Inductive, PTL DEF IInv
=============================================================================
