------------------------ MODULE StreamManagerProofs ------------------------
(***************************************************************************)
(* Proofs about StreamManager, for every set of streams, configs and slots *)
(* and every bound: no operation of main, ctl or the monitor, interleaved  *)
(* in any way and with crashes, breaks the ownership of the children.      *)
(*                                                                         *)
(* SoleOwner is not inductive by itself: which group an operation carries  *)
(* depends on its phase (TypeOK), an entry leads to a group of its own id  *)
(* (EntriesOwn), and what Insert puts in the map is what the start carried *)
(* through its awaits (OpContext).  Together they are.                     *)
(***************************************************************************)
EXTENDS StreamManager, TLAPS

\* An entry of the map leads to a group of that id whose children this daemon
\* has spawned, never to one that a crashed daemon left.
EntriesOwn ==
    \A a \in Apps : streams[a] # None =>
        LET i == streams[a]
        IN  /\ cfgOf[i] # None /\ AppOf[cfgOf[i]] = a
            /\ \A c \in Comp : procs[i][c] # "adopted"

\* The inductive invariant.
IInv == TypeOK /\ SoleOwner /\ EntriesOwn /\ OpContext

\* The daemon boots with an empty map and no operation in progress.
LEMMA InitIInv == Init => IInv
<1> SUFFICES ASSUME Init PROVE IInv
  OBVIOUS
<1>1. TypeOK
  BY ConstantsAssumption
  DEF Init, TypeOK, Op, OpWith, Idle, NoProcs, Owning, Actors, PCs, Comp, Status
<1>2. SoleOwner /\ EntriesOwn
  BY DEF Init, SoleOwner, EntriesOwn, Op, OpWith, Idle
<1>3. OpContext
  BY DEF Init, OpContext, Op, OpWith, Idle, StartPhases, StopPhases
<1>4. QED
  BY <1>1, <1>2, <1>3 DEF IInv

\* Every step keeps the types and the phases that own a process group.
LEMMA StepTypeOK == IInv /\ [Next]_vars => TypeOK'
<1> SUFFICES ASSUME IInv, [Next]_vars PROVE TypeOK'
  OBVIOUS
<1> USE ConstantsAssumption DEF IInv
<1>1. ASSUME OpenSession PROVE TypeOK'
  BY <1>1 DEF OpenSession, TypeOK, PCs, Owning, Op, OpWith, Idle, Actors
<1>2. ASSUME Resolve PROVE TypeOK'
  BY <1>2 DEF Resolve, TypeOK, PCs, Owning, Op, OpWith, Idle, Actors
<1>3. ASSUME StartNext PROVE TypeOK'
  BY <1>3 DEF StartNext, TypeOK, PCs, Owning, Op, OpWith, Idle, Actors
<1>4. ASSUME Ready PROVE TypeOK'
  BY <1>4 DEF Ready, TypeOK, PCs, Owning, Op, OpWith, Idle, Actors
<1>5. ASSUME HealthSnapshot PROVE TypeOK'
  BY <1>5 DEF HealthSnapshot, TypeOK, Reaped, Comp, Status
<1>6. ASSUME AutostartTimeout PROVE TypeOK'
  BY <1>6 DEF AutostartTimeout, TypeOK, PCs, Owning, Op, OpWith, Idle, Actors
<1>7. ASSUME NEW cfg \in Configs, CtlStart(cfg) PROVE TypeOK'
  BY <1>7 DEF CtlStart, TypeOK, PCs, Owning, Op, OpWith, Idle, Actors
<1>8. ASSUME NEW a \in Apps, CtlStop(a) PROVE TypeOK'
  BY <1>8 DEF CtlStop, TypeOK, PCs, Owning, Op, OpWith, Idle, Actors
<1>9. ASSUME MonitorScan PROVE TypeOK'
  BY <1>9 DEF MonitorScan, TypeOK, EntriesOwn, Reaped, Actors, Comp,
      Status
<1>10. ASSUME MonitorRestart PROVE TypeOK'
  BY <1>10 DEF MonitorRestart, TypeOK, PCs, Owning, Op, OpWith, Idle, Actors
<1>11. ASSUME NEW x \in Actors, StartCheck(x) PROVE TypeOK'
  BY <1>11 DEF StartCheck, TypeOK, PCs, Owning, Op, OpWith, Idle, Actors,
      OpContext, StartPhases, StopPhases
<1>12. ASSUME NEW x \in Actors, SpawnCage(x) PROVE TypeOK'
  BY <1>12 DEF SpawnCage, TypeOK, PCs, Owning, Op, OpWith, Idle, Actors,
      OpContext, StartPhases, StopPhases, Comp, Status
<1>13. ASSUME NEW x \in Actors, CageSpawnFails(x) PROVE TypeOK'
  BY <1>13 DEF CageSpawnFails, TypeOK, PCs, Owning, Op, OpWith, Idle, Actors,
      OpContext, StartPhases, StopPhases
<1>14. ASSUME NEW x \in Actors, CageReady(x) PROVE TypeOK'
  BY <1>14 DEF CageReady, TypeOK, PCs, Owning, Op, OpWith, Idle, Actors, Comp,
      Status
<1>15. ASSUME NEW x \in Actors, CageTimeout(x) PROVE TypeOK'
  BY <1>15 DEF CageTimeout, TypeOK, PCs, Owning, Op, OpWith, Idle, Actors,
      Killed, Comp, Status
<1>16. ASSUME NEW x \in Actors, TunnelSpawnFails(x) PROVE TypeOK'
  BY <1>16 DEF TunnelSpawnFails, TypeOK, PCs, Owning, Op, OpWith, Idle,
      Actors, Comp, Status
<1>17. ASSUME NEW x \in Actors, TunnelReady(x) PROVE TypeOK'
  BY <1>17 DEF TunnelReady, TypeOK, PCs, Owning, Op, OpWith, Idle, Actors,
      Comp, Status
<1>18. ASSUME NEW x \in Actors, TunnelTimeout(x) PROVE TypeOK'
  BY <1>18 DEF TunnelTimeout, TypeOK, PCs, Owning, Op, OpWith, Idle, Actors,
      Killed, Comp, Status
<1>19. ASSUME NEW x \in Actors, AppSpawnFails(x) PROVE TypeOK'
  BY <1>19 DEF AppSpawnFails, TypeOK, PCs, Owning, Op, OpWith, Idle, Actors,
      Killed, Comp, Status
<1>20. ASSUME NEW x \in Actors, Insert(x) PROVE TypeOK'
  BY <1>20 DEF Insert, TypeOK, PCs, Owning, Op, OpWith, Idle, Actors,
      OpContext, StartPhases, StopPhases
<1>21. ASSUME NEW x \in Actors, Persist(x) PROVE TypeOK'
  BY <1>21 DEF Persist, TypeOK, PCs, Owning, Op, OpWith, Idle, Actors,
      OpContext, StartPhases, StopPhases, Upsert, Without
<1>22. ASSUME NEW x \in Actors, StopRemove(x) PROVE TypeOK'
  BY <1>22 DEF StopRemove, TypeOK, PCs, Owning, Op, OpWith, Idle, Actors,
      OpContext, StartPhases, StopPhases
<1>23. ASSUME NEW x \in Actors, StopNotFound(x) PROVE TypeOK'
  BY <1>23 DEF StopNotFound, TypeOK, PCs, Owning, Op, OpWith, Idle, Actors,
      OpContext, StartPhases, StopPhases, AfterStop
<1>24. ASSUME NEW x \in Actors, StopReap(x) PROVE TypeOK'
  BY <1>24 DEF StopReap, TypeOK, PCs, Owning, Op, OpWith, Idle, Actors,
      OpContext, StartPhases, StopPhases, Killed, Comp, Status
<1>25. ASSUME NEW x \in Actors, LoadRegistry(x) PROVE TypeOK'
  BY <1>25 DEF LoadRegistry, TypeOK, PCs, Owning, Op, OpWith, Idle, Actors,
      OpContext, StartPhases, StopPhases
<1>26. ASSUME NEW x \in Actors, NotInRegistry(x) PROVE TypeOK'
  BY <1>26 DEF NotInRegistry, TypeOK, PCs, Owning, Op, OpWith, Idle, Actors,
      OpContext, StartPhases, StopPhases, AfterStop
<1>27. ASSUME NEW x \in Actors, SaveRegistry(x) PROVE TypeOK'
  BY <1>27 DEF SaveRegistry, TypeOK, PCs, Owning, Op, OpWith, Idle, Actors,
      OpContext, StartPhases, StopPhases, AfterStop, Without
<1>28. ASSUME NEW i \in Inst, BindWayland(i) PROVE TypeOK'
  BY <1>28 DEF BindWayland, TypeOK, PCs, Owning, Op, OpWith, Idle, Actors
<1>29. ASSUME NEW i \in Inst, BindStream(i) PROVE TypeOK'
  BY <1>29 DEF BindStream, TypeOK, PCs, Owning, Op, OpWith, Idle, Actors
<1>29a. ASSUME NEW i \in Inst, TasksEnd(i) PROVE TypeOK'
  BY <1>29a DEF TasksEnd, TypeOK
<1>30. ASSUME NEW i \in Inst, NEW c \in Comp, ProcessDies(i, c) PROVE TypeOK'
  BY <1>30 DEF ProcessDies, TypeOK, Comp, Status
<1>31. ASSUME Crash PROVE TypeOK'
  <2>1. procs' \in [Inst -> [Comp -> Status]]
    BY <1>31 DEF Crash, TypeOK, Status
  <2>2. /\ act' \in [Actors -> [pc : PCs, app : Apps \cup {None},
                               cfg : Configs \cup {None}, inst : Inst \cup {None},
                               reg : SUBSET Configs]]
        /\ \A x \in Actors : act'[x].inst = None /\ act'[x].pc \notin Owning
    BY <1>31 DEF Crash, PCs, Owning, Op, OpWith, Idle
  <2>3. /\ streams' \in [Apps -> Inst \cup {None}]
        /\ tasks' \subseteq Inst
        /\ todo' \in [Actors -> SUBSET Configs]
    BY <1>31 DEF Crash
  <2>4. used' \in [starts : 0..MaxStarts, stops : 0..MaxStops,
                   deaths : 0..MaxDeaths, crashes : 0..MaxCrashes]
    BY <1>31 DEF Crash, TypeOK
  <2>5. QED
    BY <1>31, <2>1, <2>2, <2>3, <2>4 DEF Crash, TypeOK
<1>32. CASE UNCHANGED vars
  BY <1>32 DEF vars, TypeOK
<1>33. QED
  BY <1>1, <1>2, <1>3, <1>4, <1>5, <1>6, <1>7, <1>8, <1>9, <1>10, <1>11,
      <1>12, <1>13, <1>14, <1>15, <1>16, <1>17, <1>18, <1>19, <1>20, <1>21,
      <1>22, <1>23, <1>24, <1>25, <1>26, <1>27, <1>28, <1>29, <1>30, <1>31,
      <1>32, <1>29a DEF Next, MainTask, StartStream, StopStream

\* Every step keeps one owner per process group.
LEMMA StepSoleOwner == IInv /\ [Next]_vars => SoleOwner'
<1> SUFFICES ASSUME IInv, [Next]_vars PROVE SoleOwner'
  OBVIOUS
<1> USE ConstantsAssumption DEF IInv
<1>1. ASSUME OpenSession PROVE SoleOwner'
  BY <1>1 DEF OpenSession, SoleOwner, Supervised, TypeOK, Op, OpWith, Idle,
      Actors
<1>2. ASSUME Resolve PROVE SoleOwner'
  BY <1>2 DEF Resolve, SoleOwner, Supervised, TypeOK, Op, OpWith, Idle, Actors
<1>3. ASSUME StartNext PROVE SoleOwner'
  BY <1>3 DEF StartNext, SoleOwner, Supervised, TypeOK, Op, OpWith, Idle,
      Actors
<1>4. ASSUME Ready PROVE SoleOwner'
  BY <1>4 DEF Ready, SoleOwner, Supervised, TypeOK, Op, OpWith, Idle, Actors
<1>5. ASSUME HealthSnapshot PROVE SoleOwner'
  BY <1>5 DEF HealthSnapshot, SoleOwner, Supervised
<1>6. ASSUME AutostartTimeout PROVE SoleOwner'
  BY <1>6 DEF AutostartTimeout, SoleOwner, Supervised, TypeOK, Op, OpWith,
      Idle, Actors
<1>7. ASSUME NEW cfg \in Configs, CtlStart(cfg) PROVE SoleOwner'
  BY <1>7 DEF CtlStart, SoleOwner, Supervised, TypeOK, Op, OpWith, Idle,
      Actors
<1>8. ASSUME NEW a \in Apps, CtlStop(a) PROVE SoleOwner'
  BY <1>8 DEF CtlStop, SoleOwner, Supervised, TypeOK, Op, OpWith, Idle, Actors
<1>9. ASSUME MonitorScan PROVE SoleOwner'
  BY <1>9 DEF MonitorScan, SoleOwner, Supervised
<1>10. ASSUME MonitorRestart PROVE SoleOwner'
  BY <1>10 DEF MonitorRestart, SoleOwner, Supervised, TypeOK, Op, OpWith,
      Idle, Actors
<1>11. ASSUME NEW x \in Actors, StartCheck(x) PROVE SoleOwner'
  BY <1>11 DEF StartCheck, SoleOwner, Supervised, TypeOK, Op, OpWith, Idle,
      Actors
<1>12. ASSUME NEW x \in Actors, SpawnCage(x) PROVE SoleOwner'
  BY <1>12 DEF SpawnCage, SoleOwner, Supervised, TypeOK, Op, OpWith, Idle,
      Actors, Free, Held
<1>13. ASSUME NEW x \in Actors, CageSpawnFails(x) PROVE SoleOwner'
  BY <1>13 DEF CageSpawnFails, SoleOwner, Supervised, TypeOK, Op, OpWith,
      Idle, Actors
<1>14. ASSUME NEW x \in Actors, CageReady(x) PROVE SoleOwner'
  BY <1>14 DEF CageReady, SoleOwner, Supervised, TypeOK, Op, OpWith, Idle,
      Actors
<1>15. ASSUME NEW x \in Actors, CageTimeout(x) PROVE SoleOwner'
  BY <1>15 DEF CageTimeout, SoleOwner, Supervised, TypeOK, Op, OpWith, Idle,
      Actors
<1>16. ASSUME NEW x \in Actors, TunnelSpawnFails(x) PROVE SoleOwner'
  BY <1>16 DEF TunnelSpawnFails, SoleOwner, Supervised, TypeOK, Op, OpWith,
      Idle, Actors
<1>17. ASSUME NEW x \in Actors, TunnelReady(x) PROVE SoleOwner'
  BY <1>17 DEF TunnelReady, SoleOwner, Supervised, TypeOK, Op, OpWith, Idle,
      Actors
<1>18. ASSUME NEW x \in Actors, TunnelTimeout(x) PROVE SoleOwner'
  BY <1>18 DEF TunnelTimeout, SoleOwner, Supervised, TypeOK, Op, OpWith, Idle,
      Actors
<1>19. ASSUME NEW x \in Actors, AppSpawnFails(x) PROVE SoleOwner'
  BY <1>19 DEF AppSpawnFails, SoleOwner, Supervised, TypeOK, Op, OpWith, Idle,
      Actors
<1>20. ASSUME NEW x \in Actors, Insert(x) PROVE SoleOwner'
  BY <1>20 DEF Insert, SoleOwner, Supervised, TypeOK, Op, OpWith, Idle,
      Actors, Owning, OpContext, StartPhases, StopPhases
<1>21. ASSUME NEW x \in Actors, Persist(x) PROVE SoleOwner'
  BY <1>21 DEF Persist, SoleOwner, Supervised, TypeOK, Op, OpWith, Idle,
      Actors
<1>22. ASSUME NEW x \in Actors, StopRemove(x) PROVE SoleOwner'
  BY <1>22 DEF StopRemove, SoleOwner, Supervised, TypeOK, Op, OpWith, Idle,
      Actors, Owning, OpContext, StartPhases, StopPhases
<1>23. ASSUME NEW x \in Actors, StopNotFound(x) PROVE SoleOwner'
  BY <1>23 DEF StopNotFound, SoleOwner, Supervised, TypeOK, Op, OpWith, Idle,
      Actors, AfterStop
<1>24. ASSUME NEW x \in Actors, StopReap(x) PROVE SoleOwner'
  BY <1>24 DEF StopReap, SoleOwner, Supervised, TypeOK, Op, OpWith, Idle,
      Actors
<1>25. ASSUME NEW x \in Actors, LoadRegistry(x) PROVE SoleOwner'
  BY <1>25 DEF LoadRegistry, SoleOwner, Supervised, TypeOK, Op, OpWith, Idle,
      Actors
<1>26. ASSUME NEW x \in Actors, NotInRegistry(x) PROVE SoleOwner'
  BY <1>26 DEF NotInRegistry, SoleOwner, Supervised, TypeOK, Op, OpWith, Idle,
      Actors, AfterStop
<1>27. ASSUME NEW x \in Actors, SaveRegistry(x) PROVE SoleOwner'
  BY <1>27 DEF SaveRegistry, SoleOwner, Supervised, TypeOK, Op, OpWith, Idle,
      Actors, AfterStop
<1>28. ASSUME NEW i \in Inst, BindWayland(i) PROVE SoleOwner'
  BY <1>28 DEF BindWayland, SoleOwner, Supervised
<1>29. ASSUME NEW i \in Inst, BindStream(i) PROVE SoleOwner'
  BY <1>29 DEF BindStream, SoleOwner, Supervised
<1>29a. ASSUME NEW i \in Inst, TasksEnd(i) PROVE SoleOwner'
  BY <1>29a DEF TasksEnd, SoleOwner, Supervised
<1>30. ASSUME NEW i \in Inst, NEW c \in Comp, ProcessDies(i, c) PROVE SoleOwner'
  BY <1>30 DEF ProcessDies, SoleOwner, Supervised
<1>31. ASSUME Crash PROVE SoleOwner'
  BY <1>31 DEF Crash, SoleOwner, Supervised, TypeOK, Op, OpWith, Idle, Actors
<1>32. CASE UNCHANGED vars
  BY <1>32 DEF vars, SoleOwner, Supervised
<1>33. QED
  BY <1>1, <1>2, <1>3, <1>4, <1>5, <1>6, <1>7, <1>8, <1>9, <1>10, <1>11,
      <1>12, <1>13, <1>14, <1>15, <1>16, <1>17, <1>18, <1>19, <1>20, <1>21,
      <1>22, <1>23, <1>24, <1>25, <1>26, <1>27, <1>28, <1>29, <1>30, <1>31,
      <1>32, <1>29a DEF Next, MainTask, StartStream, StopStream

\* Every step keeps the entries of the map pointing at live groups of their id.
LEMMA StepEntriesOwn == IInv /\ [Next]_vars => EntriesOwn'
<1> SUFFICES ASSUME IInv, [Next]_vars PROVE EntriesOwn'
  OBVIOUS
<1> USE ConstantsAssumption DEF IInv
<1>1. ASSUME OpenSession PROVE EntriesOwn'
  BY <1>1 DEF OpenSession, EntriesOwn
<1>2. ASSUME Resolve PROVE EntriesOwn'
  BY <1>2 DEF Resolve, EntriesOwn
<1>3. ASSUME StartNext PROVE EntriesOwn'
  BY <1>3 DEF StartNext, EntriesOwn
<1>4. ASSUME Ready PROVE EntriesOwn'
  BY <1>4 DEF Ready, EntriesOwn
<1>5. ASSUME HealthSnapshot PROVE EntriesOwn'
  BY <1>5 DEF HealthSnapshot, EntriesOwn, TypeOK, Reaped, Comp, Status
<1>6. ASSUME AutostartTimeout PROVE EntriesOwn'
  BY <1>6 DEF AutostartTimeout, EntriesOwn
<1>7. ASSUME NEW cfg \in Configs, CtlStart(cfg) PROVE EntriesOwn'
  BY <1>7 DEF CtlStart, EntriesOwn
<1>8. ASSUME NEW a \in Apps, CtlStop(a) PROVE EntriesOwn'
  BY <1>8 DEF CtlStop, EntriesOwn
<1>9. ASSUME MonitorScan PROVE EntriesOwn'
  BY <1>9 DEF MonitorScan, EntriesOwn, TypeOK, Reaped, Comp, Status
<1>10. ASSUME MonitorRestart PROVE EntriesOwn'
  BY <1>10 DEF MonitorRestart, EntriesOwn
<1>11. ASSUME NEW x \in Actors, StartCheck(x) PROVE EntriesOwn'
  BY <1>11 DEF StartCheck, EntriesOwn
<1>12. ASSUME NEW x \in Actors, SpawnCage(x) PROVE EntriesOwn'
  BY <1>12 DEF SpawnCage, EntriesOwn, TypeOK, Free, Held, Supervised,
      Comp, Status
<1>13. ASSUME NEW x \in Actors, CageSpawnFails(x) PROVE EntriesOwn'
  BY <1>13 DEF CageSpawnFails, EntriesOwn
<1>14. ASSUME NEW x \in Actors, CageReady(x) PROVE EntriesOwn'
  BY <1>14 DEF CageReady, EntriesOwn, TypeOK, SoleOwner, Supervised,
      Owning, Actors, Comp, Status
<1>15. ASSUME NEW x \in Actors, CageTimeout(x) PROVE EntriesOwn'
  BY <1>15 DEF CageTimeout, EntriesOwn, TypeOK, Killed, Comp, Status
<1>16. ASSUME NEW x \in Actors, TunnelSpawnFails(x) PROVE EntriesOwn'
  BY <1>16 DEF TunnelSpawnFails, EntriesOwn, TypeOK, SoleOwner,
      Supervised, Owning, Actors, Comp, Status
<1>17. ASSUME NEW x \in Actors, TunnelReady(x) PROVE EntriesOwn'
  BY <1>17 DEF TunnelReady, EntriesOwn, TypeOK, SoleOwner, Supervised,
      Owning, Actors, Comp, Status
<1>18. ASSUME NEW x \in Actors, TunnelTimeout(x) PROVE EntriesOwn'
  BY <1>18 DEF TunnelTimeout, EntriesOwn, TypeOK, Killed, Comp, Status
<1>19. ASSUME NEW x \in Actors, AppSpawnFails(x) PROVE EntriesOwn'
  BY <1>19 DEF AppSpawnFails, EntriesOwn, TypeOK, Killed, Comp, Status
<1>20. ASSUME NEW x \in Actors, Insert(x) PROVE EntriesOwn'
  BY <1>20 DEF Insert, EntriesOwn, TypeOK, Owning, Op, OpWith, Actors,
      OpContext, StartPhases, StopPhases
<1>21. ASSUME NEW x \in Actors, Persist(x) PROVE EntriesOwn'
  BY <1>21 DEF Persist, EntriesOwn
<1>22. ASSUME NEW x \in Actors, StopRemove(x) PROVE EntriesOwn'
  BY <1>22 DEF StopRemove, EntriesOwn, TypeOK
<1>23. ASSUME NEW x \in Actors, StopNotFound(x) PROVE EntriesOwn'
  BY <1>23 DEF StopNotFound, EntriesOwn
<1>24. ASSUME NEW x \in Actors, StopReap(x) PROVE EntriesOwn'
  BY <1>24 DEF StopReap, EntriesOwn, TypeOK, SoleOwner, Supervised,
      Owning, Actors, Killed, Comp, Status
<1>25. ASSUME NEW x \in Actors, LoadRegistry(x) PROVE EntriesOwn'
  BY <1>25 DEF LoadRegistry, EntriesOwn
<1>26. ASSUME NEW x \in Actors, NotInRegistry(x) PROVE EntriesOwn'
  BY <1>26 DEF NotInRegistry, EntriesOwn
<1>27. ASSUME NEW x \in Actors, SaveRegistry(x) PROVE EntriesOwn'
  BY <1>27 DEF SaveRegistry, EntriesOwn
<1>28. ASSUME NEW i \in Inst, BindWayland(i) PROVE EntriesOwn'
  BY <1>28 DEF BindWayland, EntriesOwn
<1>29. ASSUME NEW i \in Inst, BindStream(i) PROVE EntriesOwn'
  BY <1>29 DEF BindStream, EntriesOwn
<1>29a. ASSUME NEW i \in Inst, TasksEnd(i) PROVE EntriesOwn'
  BY <1>29a DEF TasksEnd, EntriesOwn
<1>30. ASSUME NEW i \in Inst, NEW c \in Comp, ProcessDies(i, c) PROVE EntriesOwn'
  BY <1>30 DEF ProcessDies, EntriesOwn, TypeOK, Running, Comp, Status
<1>31. ASSUME Crash PROVE EntriesOwn'
  BY <1>31 DEF Crash, EntriesOwn
<1>32. CASE UNCHANGED vars
  BY <1>32 DEF vars, EntriesOwn
<1>33. QED
  BY <1>1, <1>2, <1>3, <1>4, <1>5, <1>6, <1>7, <1>8, <1>9, <1>10, <1>11,
      <1>12, <1>13, <1>14, <1>15, <1>16, <1>17, <1>18, <1>19, <1>20, <1>21,
      <1>22, <1>23, <1>24, <1>25, <1>26, <1>27, <1>28, <1>29, <1>30, <1>31,
      <1>32, <1>29a DEF Next, MainTask, StartStream, StopStream

\* Every step keeps the context of the operations in progress.
LEMMA StepOpContext == IInv /\ [Next]_vars => OpContext'
<1> SUFFICES ASSUME IInv, [Next]_vars PROVE OpContext'
  OBVIOUS
<1> USE ConstantsAssumption DEF IInv
<1>1. ASSUME OpenSession PROVE OpContext'
  BY <1>1 DEF OpenSession, OpContext, StartPhases, StopPhases, TypeOK, Op,
      OpWith, Idle, Actors
<1>2. ASSUME Resolve PROVE OpContext'
  BY <1>2 DEF Resolve, OpContext, StartPhases, StopPhases, TypeOK, Op, OpWith,
      Idle, Actors
<1>3. ASSUME StartNext PROVE OpContext'
  BY <1>3 DEF StartNext, OpContext, StartPhases, StopPhases, TypeOK, Op,
      OpWith, Idle, Actors
<1>4. ASSUME Ready PROVE OpContext'
  BY <1>4 DEF Ready, OpContext, StartPhases, StopPhases, TypeOK, Op, OpWith,
      Idle, Actors
<1>5. ASSUME HealthSnapshot PROVE OpContext'
  BY <1>5 DEF HealthSnapshot, OpContext, StartPhases, StopPhases, TypeOK, Op,
      OpWith, Idle, Actors, Owning, Reaped, Comp, Status
<1>6. ASSUME AutostartTimeout PROVE OpContext'
  BY <1>6 DEF AutostartTimeout, OpContext, StartPhases, StopPhases, TypeOK,
      Op, OpWith, Idle, Actors
<1>7. ASSUME NEW cfg \in Configs, CtlStart(cfg) PROVE OpContext'
  BY <1>7 DEF CtlStart, OpContext, StartPhases, StopPhases, TypeOK, Op,
      OpWith, Idle, Actors
<1>8. ASSUME NEW a \in Apps, CtlStop(a) PROVE OpContext'
  BY <1>8 DEF CtlStop, OpContext, StartPhases, StopPhases, TypeOK, Op, OpWith,
      Idle, Actors
<1>9. ASSUME MonitorScan PROVE OpContext'
  BY <1>9 DEF MonitorScan, OpContext, StartPhases, StopPhases, TypeOK, Op,
      OpWith, Idle, Actors, Owning, Reaped, Comp, Status
<1>10. ASSUME MonitorRestart PROVE OpContext'
  BY <1>10 DEF MonitorRestart, OpContext, StartPhases, StopPhases, TypeOK, Op,
      OpWith, Idle, Actors
<1>11. ASSUME NEW x \in Actors, StartCheck(x) PROVE OpContext'
  BY <1>11 DEF StartCheck, OpContext, StartPhases, StopPhases, TypeOK, Op,
      OpWith, Idle, Actors
<1>12. ASSUME NEW x \in Actors, SpawnCage(x) PROVE OpContext'
  BY <1>12 DEF SpawnCage, OpContext, StartPhases, StopPhases, TypeOK, Op,
      OpWith, Idle, Actors, Free, Held, NoProcs, Owning, Comp, Status
<1>13. ASSUME NEW x \in Actors, CageSpawnFails(x) PROVE OpContext'
  BY <1>13 DEF CageSpawnFails, OpContext, StartPhases, StopPhases, TypeOK, Op,
      OpWith, Idle, Actors
<1>14. ASSUME NEW x \in Actors, CageReady(x) PROVE OpContext'
  BY <1>14, SMTT(30) DEF CageReady, OpContext, StartPhases, StopPhases, TypeOK, Op,
      OpWith, Idle, Actors, SoleOwner, Owning, Comp, Status
<1>15. ASSUME NEW x \in Actors, CageTimeout(x) PROVE OpContext'
  BY <1>15, SMTT(30) DEF CageTimeout, OpContext, StartPhases, StopPhases, TypeOK, Op,
      OpWith, Idle, Actors, Killed, Owning, Comp, Status
<1>16. ASSUME NEW x \in Actors, TunnelSpawnFails(x) PROVE OpContext'
  BY <1>16, SMTT(30) DEF TunnelSpawnFails, OpContext, StartPhases, StopPhases, TypeOK,
      Op, OpWith, Idle, Actors, SoleOwner, Owning, Comp, Status
<1>17. ASSUME NEW x \in Actors, TunnelReady(x) PROVE OpContext'
  BY <1>17, SMTT(30) DEF TunnelReady, OpContext, StartPhases, StopPhases, TypeOK, Op,
      OpWith, Idle, Actors, SoleOwner, Owning, Comp, Status
<1>18. ASSUME NEW x \in Actors, TunnelTimeout(x) PROVE OpContext'
  BY <1>18, SMTT(30) DEF TunnelTimeout, OpContext, StartPhases, StopPhases, TypeOK, Op,
      OpWith, Idle, Actors, Killed, Owning, Comp, Status
<1>19. ASSUME NEW x \in Actors, AppSpawnFails(x) PROVE OpContext'
  BY <1>19, SMTT(30) DEF AppSpawnFails, OpContext, StartPhases, StopPhases, TypeOK, Op,
      OpWith, Idle, Actors, Killed, Owning, Comp, Status
<1>20. ASSUME NEW x \in Actors, Insert(x) PROVE OpContext'
  BY <1>20 DEF Insert, OpContext, StartPhases, StopPhases, TypeOK, Op, OpWith,
      Idle, Actors
<1>21. ASSUME NEW x \in Actors, Persist(x) PROVE OpContext'
  BY <1>21 DEF Persist, OpContext, StartPhases, StopPhases, TypeOK, Op,
      OpWith, Idle, Actors
<1>22. ASSUME NEW x \in Actors, StopRemove(x) PROVE OpContext'
  BY <1>22 DEF StopRemove, OpContext, StartPhases, StopPhases, TypeOK, Op,
      OpWith, Idle, Actors
<1>23. ASSUME NEW x \in Actors, StopNotFound(x) PROVE OpContext'
  BY <1>23 DEF StopNotFound, OpContext, StartPhases, StopPhases, TypeOK, Op,
      OpWith, Idle, Actors, AfterStop
<1>24. ASSUME NEW x \in Actors, StopReap(x) PROVE OpContext'
  BY <1>24, SMTT(30) DEF StopReap, OpContext, StartPhases, StopPhases, TypeOK, Op,
      OpWith, Idle, Actors, SoleOwner, Owning, Killed, Comp, Status
<1>25. ASSUME NEW x \in Actors, LoadRegistry(x) PROVE OpContext'
  BY <1>25 DEF LoadRegistry, OpContext, StartPhases, StopPhases, TypeOK, Op,
      OpWith, Idle, Actors
<1>26. ASSUME NEW x \in Actors, NotInRegistry(x) PROVE OpContext'
  BY <1>26 DEF NotInRegistry, OpContext, StartPhases, StopPhases, TypeOK, Op,
      OpWith, Idle, Actors, AfterStop
<1>27. ASSUME NEW x \in Actors, SaveRegistry(x) PROVE OpContext'
  BY <1>27 DEF SaveRegistry, OpContext, StartPhases, StopPhases, TypeOK, Op,
      OpWith, Idle, Actors, AfterStop
<1>28. ASSUME NEW i \in Inst, BindWayland(i) PROVE OpContext'
  BY <1>28 DEF BindWayland, OpContext, StartPhases, StopPhases, TypeOK, Op,
      OpWith, Idle, Actors
<1>29. ASSUME NEW i \in Inst, BindStream(i) PROVE OpContext'
  BY <1>29 DEF BindStream, OpContext, StartPhases, StopPhases, TypeOK, Op,
      OpWith, Idle, Actors
<1>29a. ASSUME NEW i \in Inst, TasksEnd(i) PROVE OpContext'
  BY <1>29a DEF TasksEnd, OpContext
<1>30. ASSUME NEW i \in Inst, NEW c \in Comp, ProcessDies(i, c) PROVE OpContext'
  BY <1>30 DEF ProcessDies, OpContext, StartPhases, StopPhases, TypeOK, Op,
      OpWith, Idle, Actors, Running, Owning, Comp, Status
<1>31. ASSUME Crash PROVE OpContext'
  BY <1>31 DEF Crash, OpContext, StartPhases, StopPhases, TypeOK, Op, OpWith,
      Idle, Actors
<1>32. CASE UNCHANGED vars
  BY <1>32 DEF vars, OpContext
<1>33. QED
  BY <1>1, <1>2, <1>3, <1>4, <1>5, <1>6, <1>7, <1>8, <1>9, <1>10, <1>11,
      <1>12, <1>13, <1>14, <1>15, <1>16, <1>17, <1>18, <1>19, <1>20, <1>21,
      <1>22, <1>23, <1>24, <1>25, <1>26, <1>27, <1>28, <1>29, <1>30, <1>31,
      <1>32, <1>29a DEF Next, MainTask, StartStream, StopStream

\* Every load, upsert, removal and write-back keeps one entry per stream.
LEMMA StepRegistryUnique == IInv /\ RegistryUnique /\ [Next]_vars => RegistryUnique'
<1> SUFFICES ASSUME IInv, RegistryUnique, [Next]_vars PROVE RegistryUnique'
  OBVIOUS
<1> USE ConstantsAssumption DEF IInv
<1>1. ASSUME OpenSession PROVE RegistryUnique'
  BY <1>1 DEF OpenSession, RegistryUnique, UniqueApps, TypeOK, Op, OpWith,
      Idle
<1>2. ASSUME Resolve PROVE RegistryUnique'
  BY <1>2 DEF Resolve, RegistryUnique, UniqueApps, TypeOK, Op, OpWith, Idle
<1>3. ASSUME StartNext PROVE RegistryUnique'
  BY <1>3 DEF StartNext, RegistryUnique, UniqueApps, TypeOK, Op, OpWith, Idle
<1>4. ASSUME Ready PROVE RegistryUnique'
  BY <1>4 DEF Ready, RegistryUnique, UniqueApps, TypeOK, Op, OpWith, Idle
<1>5. ASSUME HealthSnapshot PROVE RegistryUnique'
  BY <1>5 DEF HealthSnapshot, RegistryUnique, UniqueApps
<1>6. ASSUME AutostartTimeout PROVE RegistryUnique'
  BY <1>6 DEF AutostartTimeout, RegistryUnique, UniqueApps, TypeOK, Op,
      OpWith, Idle
<1>7. ASSUME NEW cfg \in Configs, CtlStart(cfg) PROVE RegistryUnique'
  BY <1>7 DEF CtlStart, RegistryUnique, UniqueApps, TypeOK, Op, OpWith, Idle
<1>8. ASSUME NEW a \in Apps, CtlStop(a) PROVE RegistryUnique'
  BY <1>8 DEF CtlStop, RegistryUnique, UniqueApps, TypeOK, Op, OpWith, Idle
<1>9. ASSUME MonitorScan PROVE RegistryUnique'
  BY <1>9 DEF MonitorScan, RegistryUnique, UniqueApps
<1>10. ASSUME MonitorRestart PROVE RegistryUnique'
  BY <1>10 DEF MonitorRestart, RegistryUnique, UniqueApps, TypeOK, Op, OpWith,
      Idle
<1>11. ASSUME NEW x \in Actors, StartCheck(x) PROVE RegistryUnique'
  BY <1>11 DEF StartCheck, RegistryUnique, UniqueApps, TypeOK, Op, OpWith,
      Idle
<1>12. ASSUME NEW x \in Actors, SpawnCage(x) PROVE RegistryUnique'
  BY <1>12 DEF SpawnCage, RegistryUnique, UniqueApps, TypeOK, Op, OpWith, Idle
<1>13. ASSUME NEW x \in Actors, CageSpawnFails(x) PROVE RegistryUnique'
  BY <1>13 DEF CageSpawnFails, RegistryUnique, UniqueApps, TypeOK, Op, OpWith,
      Idle
<1>14. ASSUME NEW x \in Actors, CageReady(x) PROVE RegistryUnique'
  BY <1>14 DEF CageReady, RegistryUnique, UniqueApps, TypeOK, Op, OpWith, Idle
<1>15. ASSUME NEW x \in Actors, CageTimeout(x) PROVE RegistryUnique'
  BY <1>15 DEF CageTimeout, RegistryUnique, UniqueApps, TypeOK, Op, OpWith,
      Idle
<1>16. ASSUME NEW x \in Actors, TunnelSpawnFails(x) PROVE RegistryUnique'
  BY <1>16 DEF TunnelSpawnFails, RegistryUnique, UniqueApps, TypeOK, Op,
      OpWith, Idle
<1>17. ASSUME NEW x \in Actors, TunnelReady(x) PROVE RegistryUnique'
  BY <1>17 DEF TunnelReady, RegistryUnique, UniqueApps, TypeOK, Op, OpWith,
      Idle
<1>18. ASSUME NEW x \in Actors, TunnelTimeout(x) PROVE RegistryUnique'
  BY <1>18 DEF TunnelTimeout, RegistryUnique, UniqueApps, TypeOK, Op, OpWith,
      Idle
<1>19. ASSUME NEW x \in Actors, AppSpawnFails(x) PROVE RegistryUnique'
  BY <1>19 DEF AppSpawnFails, RegistryUnique, UniqueApps, TypeOK, Op, OpWith,
      Idle
<1>20. ASSUME NEW x \in Actors, Insert(x) PROVE RegistryUnique'
  BY <1>20 DEF Insert, RegistryUnique, UniqueApps, TypeOK, Op, OpWith, Idle
<1>21. ASSUME NEW x \in Actors, Persist(x) PROVE RegistryUnique'
  BY <1>21 DEF Persist, RegistryUnique, UniqueApps, TypeOK, Op, OpWith, Idle,
      Upsert, Without, OpContext, StartPhases
<1>22. ASSUME NEW x \in Actors, StopRemove(x) PROVE RegistryUnique'
  BY <1>22 DEF StopRemove, RegistryUnique, UniqueApps, TypeOK, Op, OpWith,
      Idle
<1>23. ASSUME NEW x \in Actors, StopNotFound(x) PROVE RegistryUnique'
  BY <1>23 DEF StopNotFound, RegistryUnique, UniqueApps, TypeOK, Op, OpWith,
      Idle, AfterStop, Without
<1>24. ASSUME NEW x \in Actors, StopReap(x) PROVE RegistryUnique'
  BY <1>24 DEF StopReap, RegistryUnique, UniqueApps, TypeOK, Op, OpWith, Idle
<1>25. ASSUME NEW x \in Actors, LoadRegistry(x) PROVE RegistryUnique'
  BY <1>25 DEF LoadRegistry, RegistryUnique, UniqueApps, TypeOK, Op, OpWith,
      Idle
<1>26. ASSUME NEW x \in Actors, NotInRegistry(x) PROVE RegistryUnique'
  BY <1>26 DEF NotInRegistry, RegistryUnique, UniqueApps, TypeOK, Op, OpWith,
      Idle, AfterStop, Without
<1>27. ASSUME NEW x \in Actors, SaveRegistry(x) PROVE RegistryUnique'
  BY <1>27 DEF SaveRegistry, RegistryUnique, UniqueApps, TypeOK, Op, OpWith,
      Idle, AfterStop, Without
<1>28. ASSUME NEW i \in Inst, BindWayland(i) PROVE RegistryUnique'
  BY <1>28 DEF BindWayland, RegistryUnique, UniqueApps
<1>29. ASSUME NEW i \in Inst, BindStream(i) PROVE RegistryUnique'
  BY <1>29 DEF BindStream, RegistryUnique, UniqueApps
<1>29a. ASSUME NEW i \in Inst, TasksEnd(i) PROVE RegistryUnique'
  BY <1>29a DEF TasksEnd, RegistryUnique, UniqueApps
<1>30. ASSUME NEW i \in Inst, NEW c \in Comp, ProcessDies(i, c) PROVE RegistryUnique'
  BY <1>30 DEF ProcessDies, RegistryUnique, UniqueApps
<1>31. ASSUME Crash PROVE RegistryUnique'
  BY <1>31 DEF Crash, RegistryUnique, UniqueApps, TypeOK, Op, OpWith, Idle
<1>32. CASE UNCHANGED vars
  BY <1>32 DEF vars, RegistryUnique, UniqueApps
<1>33. QED
  BY <1>1, <1>2, <1>3, <1>4, <1>5, <1>6, <1>7, <1>8, <1>9, <1>10, <1>11,
      <1>12, <1>13, <1>14, <1>15, <1>16, <1>17, <1>18, <1>19, <1>20, <1>21,
      <1>22, <1>23, <1>24, <1>25, <1>26, <1>27, <1>28, <1>29, <1>30, <1>31,
      <1>32, <1>29a DEF Next, MainTask, StartStream, StopStream

\* No step lets go of running children but the three known ones.
LEMMA StepLeakStep == IInv /\ [Next]_vars => LeakStep
<1> SUFFICES ASSUME IInv, [Next]_vars PROVE LeakStep
  OBVIOUS
<1> USE ConstantsAssumption DEF IInv
<1>1. ASSUME OpenSession PROVE LeakStep
  BY <1>1 DEF OpenSession, LeakStep, LetsGo, Held, Supervised, TypeOK, Actors,
      Owning
<1>2. ASSUME Resolve PROVE LeakStep
  BY <1>2 DEF Resolve, LeakStep, LetsGo, Held, Supervised, TypeOK, Actors,
      Owning
<1>3. ASSUME StartNext PROVE LeakStep
  BY <1>3 DEF StartNext, LeakStep, LetsGo, Held, Supervised, TypeOK, Actors,
      Owning
<1>4. ASSUME Ready PROVE LeakStep
  BY <1>4 DEF Ready, LeakStep, LetsGo, Held, Supervised, TypeOK, Actors,
      Owning
<1>5. ASSUME HealthSnapshot PROVE LeakStep
  BY <1>5 DEF HealthSnapshot, LeakStep, LetsGo, Held, Supervised
<1>6. ASSUME AutostartTimeout PROVE LeakStep
  BY <1>6 DEF AutostartTimeout, LeakStep
<1>7. ASSUME NEW cfg \in Configs, CtlStart(cfg) PROVE LeakStep
  BY <1>7 DEF CtlStart, LeakStep, LetsGo, Held, Supervised, TypeOK, Actors,
      Owning
<1>8. ASSUME NEW a \in Apps, CtlStop(a) PROVE LeakStep
  BY <1>8 DEF CtlStop, LeakStep, LetsGo, Held, Supervised, TypeOK, Actors,
      Owning
<1>9. ASSUME MonitorScan PROVE LeakStep
  BY <1>9 DEF MonitorScan, LeakStep, LetsGo, Held, Supervised
<1>10. ASSUME MonitorRestart PROVE LeakStep
  BY <1>10 DEF MonitorRestart, LeakStep, LetsGo, Held, Supervised, TypeOK,
      Actors, Owning
<1>11. ASSUME NEW x \in Actors, StartCheck(x) PROVE LeakStep
  BY <1>11 DEF StartCheck, LeakStep, LetsGo, Held, Supervised, TypeOK, Actors,
      Owning
<1>12. ASSUME NEW x \in Actors, SpawnCage(x) PROVE LeakStep
  BY <1>12 DEF SpawnCage, LeakStep, LetsGo, Held, Supervised, TypeOK, Actors,
      Owning, Op, OpWith
<1>13. ASSUME NEW x \in Actors, CageSpawnFails(x) PROVE LeakStep
  BY <1>13 DEF CageSpawnFails, LeakStep, LetsGo, Held, Supervised, TypeOK,
      Actors, Owning
<1>14. ASSUME NEW x \in Actors, CageReady(x) PROVE LeakStep
  BY <1>14 DEF CageReady, LeakStep, LetsGo, Held, Supervised, TypeOK, Op,
      OpWith
<1>15. ASSUME NEW x \in Actors, CageTimeout(x) PROVE LeakStep
  BY <1>15 DEF CageTimeout, LeakStep, LetsGo, Held, Supervised, TypeOK,
      Actors, Owning, OpContext, Killed, Comp
<1>16. ASSUME NEW x \in Actors, TunnelSpawnFails(x) PROVE LeakStep
  BY <1>16 DEF TunnelSpawnFails, LeakStep, LetsGo, Held, Supervised, TypeOK,
      Actors, Owning, OpContext, Comp, Status
<1>17. ASSUME NEW x \in Actors, TunnelReady(x) PROVE LeakStep
  BY <1>17 DEF TunnelReady, LeakStep, LetsGo, Held, Supervised, TypeOK, Op,
      OpWith
<1>18. ASSUME NEW x \in Actors, TunnelTimeout(x) PROVE LeakStep
  BY <1>18 DEF TunnelTimeout, LeakStep, LetsGo, Held, Supervised, TypeOK,
      Actors, Owning, OpContext, Killed, Comp
<1>19. ASSUME NEW x \in Actors, AppSpawnFails(x) PROVE LeakStep
  BY <1>19 DEF AppSpawnFails, LeakStep, LetsGo, Held, Supervised, TypeOK,
      Actors, Owning, OpContext, Killed, Comp
<1>20. ASSUME NEW x \in Actors, Insert(x) PROVE LeakStep
  BY <1>20 DEF Insert, LeakStep, LetsGo, Held, Supervised, Overwritten,
      TypeOK, Actors, Owning, OpContext, StartPhases, Op, OpWith
<1>21. ASSUME NEW x \in Actors, Persist(x) PROVE LeakStep
  BY <1>21 DEF Persist, LeakStep, LetsGo, Held, Supervised, TypeOK, Actors,
      Owning
<1>22. ASSUME NEW x \in Actors, StopRemove(x) PROVE LeakStep
  BY <1>22 DEF StopRemove, LeakStep, LetsGo, Held, Supervised, TypeOK, Owning,
      Actors, Op, OpWith, OpContext, StopPhases
<1>23. ASSUME NEW x \in Actors, StopNotFound(x) PROVE LeakStep
  BY <1>23 DEF StopNotFound, LeakStep, LetsGo, Held, Supervised, TypeOK,
      Actors, Owning
<1>24. ASSUME NEW x \in Actors, StopReap(x) PROVE LeakStep
  BY <1>24 DEF StopReap, LeakStep, LetsGo, Held, Supervised, TypeOK, Actors,
      Owning, Killed
<1>25. ASSUME NEW x \in Actors, LoadRegistry(x) PROVE LeakStep
  BY <1>25 DEF LoadRegistry, LeakStep, LetsGo, Held, Supervised, TypeOK,
      Actors, Owning
<1>26. ASSUME NEW x \in Actors, NotInRegistry(x) PROVE LeakStep
  BY <1>26 DEF NotInRegistry, LeakStep, LetsGo, Held, Supervised, TypeOK,
      Actors, Owning
<1>27. ASSUME NEW x \in Actors, SaveRegistry(x) PROVE LeakStep
  BY <1>27 DEF SaveRegistry, LeakStep, LetsGo, Held, Supervised, TypeOK,
      Actors, Owning
<1>28. ASSUME NEW i \in Inst, BindWayland(i) PROVE LeakStep
  BY <1>28 DEF BindWayland, LeakStep, LetsGo, Held, Supervised
<1>29. ASSUME NEW i \in Inst, BindStream(i) PROVE LeakStep
  BY <1>29 DEF BindStream, LeakStep, LetsGo, Held, Supervised
<1>29a. ASSUME NEW i \in Inst, TasksEnd(i) PROVE LeakStep
  BY <1>29a DEF TasksEnd, LeakStep, LetsGo, Held, Supervised
<1>30. ASSUME NEW i \in Inst, NEW c \in Comp, ProcessDies(i, c) PROVE LeakStep
  BY <1>30 DEF ProcessDies, LeakStep, LetsGo, Held, Supervised
<1>31. ASSUME Crash PROVE LeakStep
  BY <1>31 DEF Crash, LeakStep, LetsGo, Held, Supervised, Running, Comp
<1>32. CASE UNCHANGED vars
  BY <1>32 DEF vars, LeakStep, LetsGo, Held, Supervised
<1>33. QED
  BY <1>1, <1>2, <1>3, <1>4, <1>5, <1>6, <1>7, <1>8, <1>9, <1>10, <1>11,
      <1>12, <1>13, <1>14, <1>15, <1>16, <1>17, <1>18, <1>19, <1>20, <1>21,
      <1>22, <1>23, <1>24, <1>25, <1>26, <1>27, <1>28, <1>29, <1>30, <1>31,
      <1>32, <1>29a DEF Next, MainTask, StartStream, StopStream

\* The invariant holds in every reachable state.
LEMMA Invariance == Spec => []IInv
<1>1. IInv /\ [Next]_vars => IInv'
  BY StepTypeOK, StepSoleOwner, StepEntriesOwn, StepOpContext DEF IInv
<1>2. QED
  BY InitIInv, <1>1, PTL DEF Spec

\* Type correctness, with the phases of start_stream and stop_stream that
\* own children.
THEOREM TypeCorrect == Spec => []TypeOK
<1>1. IInv => TypeOK
  BY DEF IInv
<1>2. QED
  BY Invariance, <1>1, PTL

\* Whatever main, ctl and the monitor interleave, and wherever the daemon
\* crashes, the children of a stream have one owner.
THEOREM OneOwner == Spec => []SoleOwner
<1>1. IInv => SoleOwner
  BY DEF IInv
<1>2. QED
  BY Invariance, <1>1, PTL

\* A start or stop keeps its config and its children across every await.
THEOREM ContextKept == Spec => []OpContext
<1>1. IInv => OpContext
  BY DEF IInv
<1>2. QED
  BY Invariance, <1>1, PTL

\* The registry file never has two entries for a stream, although a stop
\* rewrites it without holding the lock.
THEOREM OneRegistryEntry == Spec => []RegistryUnique
<1>1. Init => RegistryUnique
  BY ConstantsAssumption DEF Init, RegistryUnique, UniqueApps, Op, OpWith, Idle
<1>2. QED
  BY Invariance, <1>1, StepRegistryUnique, PTL DEF Spec

\* No path through start_stream or stop_stream abandons running children,
\* except a crash, the autostart timeout and a racing second start.
THEOREM NoLeakOnErrorPaths == Spec => NoSilentLeak
<1>1. IInv /\ [Next]_vars => [LeakStep]_vars
  BY StepLeakStep
<1>2. QED
  BY Invariance, <1>1, PTL DEF Spec, NoSilentLeak

-----------------------------------------------------------------------------
(* Who may end a process. *)

\* A kill of the children S of a group that operation x owns is x's doing.
LEMMA OwnKill ==
    ASSUME TypeOK, NEW x \in Actors, NEW S \in SUBSET Comp,
           act[x].inst \in Inst, act'[x] # act[x],
           "app" \in S => act[x].pc = "reap",
           procs' = Killed(act[x].inst, S)
    PROVE  KillStep
  BY DEF TypeOK, Killed, KillStep, Running

LEMMA StepKillStep == IInv /\ [Next]_vars => KillStep
<1> SUFFICES ASSUME IInv, [Next]_vars PROVE KillStep
  OBVIOUS
<1> USE ConstantsAssumption DEF IInv
<1>1. ASSUME NEW x \in Actors, SpawnCage(x) PROVE KillStep
  BY <1>1 DEF SpawnCage, KillStep, Running, TypeOK
<1>2. ASSUME NEW x \in Actors, CageReady(x) PROVE KillStep
  BY <1>2 DEF CageReady, KillStep, Running, TypeOK, Owning
<1>3. ASSUME NEW x \in Actors, CageTimeout(x) PROVE KillStep
  <2>1. /\ act[x].inst \in Inst /\ act'[x] # act[x]
        /\ "app" \in {"cage"} => act[x].pc = "reap"
        /\ procs' = Killed(act[x].inst, {"cage"}) /\ {"cage"} \in SUBSET Comp
    BY <1>3 DEF CageTimeout, TypeOK, Owning, Op, OpWith, Idle, Comp
  <2>2. QED
    BY <2>1, OwnKill
<1>4. ASSUME NEW x \in Actors, TunnelSpawnFails(x) PROVE KillStep
  <2>1. act[x].inst \in Inst /\ act'[x] # act[x]
    BY <1>4 DEF TunnelSpawnFails, TypeOK, Owning, Op, OpWith, Idle
  <2>2. QED
    BY <1>4, <2>1 DEF TunnelSpawnFails, KillStep, Running, TypeOK, Comp
<1>5. ASSUME NEW x \in Actors, TunnelReady(x) PROVE KillStep
  BY <1>5 DEF TunnelReady, KillStep, Running, TypeOK, Owning
<1>6. ASSUME NEW x \in Actors, TunnelTimeout(x) PROVE KillStep
  <2>1. /\ act[x].inst \in Inst /\ act'[x] # act[x]
        /\ "app" \in {"cage", "tunnel"} => act[x].pc = "reap"
        /\ procs' = Killed(act[x].inst, {"cage", "tunnel"}) /\ {"cage", "tunnel"} \in SUBSET Comp
    BY <1>6 DEF TunnelTimeout, TypeOK, Owning, Op, OpWith, Idle, Comp
  <2>2. QED
    BY <2>1, OwnKill
<1>7. ASSUME NEW x \in Actors, AppSpawnFails(x) PROVE KillStep
  <2>1. /\ act[x].inst \in Inst /\ act'[x] # act[x]
        /\ "app" \in {"cage", "tunnel"} => act[x].pc = "reap"
        /\ procs' = Killed(act[x].inst, {"cage", "tunnel"}) /\ {"cage", "tunnel"} \in SUBSET Comp
    BY <1>7 DEF AppSpawnFails, TypeOK, Owning, Op, OpWith, Idle, Comp
  <2>2. QED
    BY <2>1, OwnKill
<1>8. ASSUME NEW x \in Actors, StopReap(x) PROVE KillStep
  <2>1. /\ act[x].inst \in Inst /\ act'[x] # act[x]
        /\ "app" \in Comp => act[x].pc = "reap"
        /\ procs' = Killed(act[x].inst, Comp) /\ Comp \in SUBSET Comp
    BY <1>8 DEF StopReap, TypeOK, Owning, Op, OpWith, Idle, Comp
  <2>2. QED
    BY <2>1, OwnKill
<1>9. ASSUME NEW i \in Inst, NEW c \in Comp, ProcessDies(i, c) PROVE KillStep
  <2>1. used'.deaths = used.deaths + 1 /\ used.deaths \in Nat
    BY <1>9 DEF ProcessDies, TypeOK
  <2>2. QED
    BY <2>1 DEF KillStep
<1>10. ASSUME Crash PROVE KillStep
  BY <1>10 DEF Crash, KillStep, Running
<1>11. ASSUME procs' = Reaped PROVE KillStep
  BY <1>11 DEF Reaped, KillStep, Running
<1>12. CASE UNCHANGED procs
  BY <1>12 DEF KillStep
<1>13. QED
  BY <1>1, <1>2, <1>3, <1>4, <1>5, <1>6, <1>7, <1>8, <1>9, <1>10, <1>11, <1>12
  DEF Next, vars, MainTask, StartStream, StopStream, OpenSession, Resolve, StartNext,
      Ready, HealthSnapshot, AutostartTimeout, CtlStart, CtlStop, MonitorScan,
      MonitorRestart, StartCheck, CageSpawnFails, Insert, Persist, StopRemove,
      StopNotFound, LoadRegistry, NotInRegistry, SaveRegistry, BindWayland, BindStream,
      TasksEnd

\* Stopping a stream, a failed start or a timeout ends no process of another
\* owner, whatever else is in progress; browsers of one user are the exception.
THEOREM KillsOwnOnly == Spec => OnlyOwnerKills
<1>1. IInv /\ [Next]_vars => [KillStep]_vars
  BY StepKillStep
<1>2. QED
  BY Invariance, <1>1, PTL DEF Spec, OnlyOwnerKills
=============================================================================
