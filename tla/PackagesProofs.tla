--------------------------- MODULE PackagesProofs ---------------------------
(***************************************************************************)
(* Proofs about Packages, for every set of processes, releases and files.  *)
(*                                                                         *)
(* Base says what each command knows at the point it has reached (a build, *)
(* an install before and while it unpacks, a removal).  On it rests Held:  *)
(* a command that had its root to itself finds there what it has put       *)
(* there, since whoever touches a root tells the commands beside it.  The  *)
(* five steps that touch a root are the hard ones; StepEffect puts all     *)
(* others into a few classes.                                              *)
(*                                                                         *)
(* ConfMeansFiles is not inductive.  The invariant it needs says that two  *)
(* commands that have both touched a root both know of the overlap         *)
(* (OverlapKnown), that a first install which is alone and a removal which *)
(* is past jail.conf have none (NoConf), and that a jail.conf without its  *)
(* files always has a command at work that will repair it or report it as  *)
(* torn (Guarded).                                                         *)
(***************************************************************************)
EXTENDS Packages, TLAPS

\* A manifest that nobody has rewritten lists what a build tracks, and fits only
\* as long as none of it is replaced.
Honest(a) ==
    "manifest.json" \notin a.changed =>
        a.listed = Tracked /\ (a.fits => a.changed \cap Tracked = {})

\* A complete archive holds a payload of some release.
ArchiveOK == jpk.whole => Honest(jpk) /\ jpk.payload \in Releases

\* What a build, an install of either tool and an uninstall know at each point.
Building(c) ==
    /\ c.cmd = "build" /\ c.tool = "pkgd" /\ c.app = {}
    /\ c.seen.toml \in Releases
    /\ c.seen.changed = {} /\ c.seen.listed = Tracked
    /\ \/ c.pc \in {"descriptor", "payload"}
       \/ c.pc \in {"create", "finish"} /\ c.seen.payload \in Releases

\* The verification vouches for the members an install uses.
Vouched(a) ==
    {"jpk.toml", "payload.tar"} \cap a.changed # {} => "manifest.json" \in a.changed

Reading(c) ==
    /\ c.cmd = "install" /\ c.app = {} /\ c.pc \in {"verify", "read"}
    /\ c.tool = "pkgd" /\ c.pc = "read" =>
         c.seen.whole /\ c.seen.payload \in Releases /\ Vouched(c.seen)
    /\ c.tool = "manager" =>
         /\ c.pc = "read" /\ c.seen.changed = {}
         /\ c.seen.toml \in Releases /\ c.seen.payload = c.seen.toml

Unpacking(c) ==
    /\ c.cmd = "install" \/ (c.cmd = "orphan" /\ c.tool = "manager")
    /\ c.pc = "unpack"
    /\ c.seen.toml \in Releases /\ c.seen.payload \in Releases
    /\ c.app = {AppOf(c.seen.toml)}
    /\ c.left \subseteq FilesOf[c.seen.payload]
    /\ c.tool = "pkgd" => /\ c.seen.whole /\ Accepted(DocOf[c.seen.toml])
                          /\ c.swapped \/ Vouched(c.seen)
    /\ c.tool = "manager" => c.seen.changed = {} /\ c.seen.payload = c.seen.toml

Removing(c) ==
    /\ c.cmd = "uninstall" /\ c.tool = "manager" /\ c.upgrade
    /\ c.pc \in {"destroy", "conf", "remove"}
    /\ \E a \in Apps : c.app = {a}

Shape(c) == c = Idle \/ Building(c) \/ Reading(c) \/ Unpacking(c) \/ Removing(c)
ShapeOK == \A p \in Procs : Shape(proc[p])

\* Types and shapes: what the other invariants build on.
Base == TypeOK /\ ArchiveOK /\ ShapeOK

\* As long as no other command is at work on its root, the files p has
\* unpacked are there, and the jail.conf it has removed stays away.
Held(p) ==
    LET c == proc[p] IN
    ~c.over =>
        /\ Unpacking(c) => \A f \in FilesOf[c.seen.payload] \ c.left :
                              root[c.tool][App(p)][f] = Contents(c)
        /\ c.pc = "remove" => conf[App(p)] = NoRel

HeldOK == \A p \in Procs : Held(p)

-----------------------------------------------------------------------------
(* The operators. *)

LEMMA ValueOfOne == ASSUME NEW a PROVE Value({a}) = a
  BY DEF Value

\* Applications and files of a release are known.
LEMMA KnownRelease ==
    \A r \in Releases : AppOf(r) \in Apps /\ FilesOf[r] \subseteq Files
  BY DEF Apps, Files

LEMMA IdleType == Idle \in Commands /\ Idle.app = {} /\ ~Idle.over /\ Idle.pc = "idle"
  BY DEF Idle, Running, Commands, NoArchive, Archive, Archives, Rel, Tools

LEMMA RunningType ==
    ASSUME NEW cmd \in {"build", "install", "uninstall"}, NEW tool \in Tools,
           NEW pc \in {"descriptor", "verify", "read", "destroy"}
    PROVE  /\ Running(cmd, tool, pc) \in Commands
           /\ Running(cmd, tool, pc).cmd = cmd /\ Running(cmd, tool, pc).tool = tool
           /\ Running(cmd, tool, pc).pc = pc /\ Running(cmd, tool, pc).app = {}
           /\ Running(cmd, tool, pc).seen = NoArchive
  BY DEF Running, Commands, NoArchive, Archive, Archives, Rel

\* What Touch does to the commands.
LEMMA TouchEffect ==
    ASSUME proc \in [Procs -> Commands], NEW p \in Procs, NEW next \in Commands, Touch(p, next)
    PROVE  /\ proc' \in [Procs -> Commands]
           /\ proc'[p] = [next EXCEPT !.over = next # Idle /\ (@ \/ Beside(p) # {})]
           /\ \A q \in Beside(p) : q \in Procs /\ q # p /\ proc'[q] = [proc[q] EXCEPT !.over = TRUE]
           /\ \A q \in Procs \ {p} : q \notin Beside(p) => proc'[q] = proc[q]
  BY ZenonT(60) DEF Touch, Beside, Commands

\* The shape of a command does not depend on over.
LEMMA ShapeOver ==
    ASSUME NEW c \in Commands, c # Idle, Shape(c), NEW b \in BOOLEAN
    PROVE  /\ [c EXCEPT !.over = b] # Idle
           /\ Shape([c EXCEPT !.over = b])
           /\ Unpacking([c EXCEPT !.over = b]) <=> Unpacking(c)
           /\ Removing([c EXCEPT !.over = b]) <=> Removing(c)
  BY DEF Commands, Shape, Building, Reading, Unpacking, Removing, Idle, Running

\* A step that changes only the command of p.
LEMMA MoveKeeps ==
    ASSUME TypeOK, ShapeOK, NEW p \in Procs, NEW n \in Commands, Shape(n),
           proc' = [proc EXCEPT ![p] = n]
    PROVE  proc' \in [Procs -> Commands] /\ ShapeOK'
  BY DEF TypeOK, ShapeOK

\* A step in which p touches what it works on: the commands beside it are
\* not idle.
LEMMA TouchKeeps ==
    ASSUME TypeOK, ShapeOK, NEW p \in Procs, NEW n \in Commands, Shape(n),
           proc[p].app # {} \/ proc[p].cmd = "build", Touch(p, n)
    PROVE  /\ proc' \in [Procs -> Commands] /\ ShapeOK'
           /\ \A q \in Beside(p) : proc[q] # Idle
<1> USE DEF TypeOK
<1>1. \A q \in Beside(p) : q \in Procs /\ q # p /\ proc[q] # Idle
  BY DEF Beside, Idle, Running
<1>2. ASSUME NEW q \in Procs PROVE Shape(proc[q])'
  <2>1. CASE q = p
    <3>1. proc'[q] = [n EXCEPT !.over = n # Idle /\ (@ \/ Beside(p) # {})]
      BY <2>1, TouchEffect
    <3>2. CASE n = Idle
      BY <3>1, <3>2 DEF Shape, Idle, Running
    <3>3. CASE n # Idle
      BY <3>1, <3>3, ShapeOver, ZenonT(60) DEF Commands
    <3>4. QED
      BY <3>2, <3>3
  <2>2. CASE q \in Beside(p)
    <3>1. proc[q] \in Commands /\ proc[q] # Idle /\ Shape(proc[q])
      BY <1>1, <2>2 DEF ShapeOK
    <3>2. proc'[q] = [proc[q] EXCEPT !.over = TRUE]
      BY <2>2, TouchEffect
    <3>3. QED
      BY <3>1, <3>2, ShapeOver
  <2>3. CASE q # p /\ q \notin Beside(p)
    <3>1. proc'[q] = proc[q]
      BY <2>3, TouchEffect
    <3>2. QED
      BY <3>1 DEF ShapeOK
  <2>4. QED
    BY <2>1, <2>2, <2>3
<1>3. QED
  BY <1>1, <1>2, TouchEffect DEF ShapeOK

\* Each step keeps the types, the archive and the shapes of the commands.
LEMMA StepBase == Base /\ [Next]_vars => Base'
<1> SUFFICES ASSUME Base, [Next]_vars PROVE Base'
  OBVIOUS
<1> USE PackagesAssumption DEF Base, TypeOK, ArchiveOK
<1>1. ASSUME NEW p \in Procs, NEW r \in Releases, BuildStart(p, r)
      PROVE  Base'
  <2> DEFINE c == proc[p]
  <2> DEFINE n == [Running("build", "pkgd", "descriptor") EXCEPT !.seen.toml = r]
  <2>1. c \in Commands /\ Shape(c)
    BY DEF ShapeOK
  <2>3. n \in Commands /\ Shape(n)
    <3>1. n \in Commands
      BY PackagesAssumption DEF Running, Commands, Archives, NoArchive, Archive, Rel, Tools
    <3>2. Building(n)
      BY DEF Running, Building, NoArchive, Archive
    <3>3. QED
      BY <3>1, <3>2 DEF Shape
  <2>4. proc' \in [Procs -> Commands] /\ ShapeOK'
    <3>1. proc' = [proc EXCEPT ![p] = n]
      BY <1>1 DEF BuildStart, Start, Command
    <3>2. QED
      BY <2>3, <3>1, MoveKeeps
  <2>6. QED
    BY <1>1, <2>4 DEF BuildStart, Start, Command, disk
<1>2. ASSUME NEW p \in Procs, NEW r \in Releases, BuildPayload(p, r)
      PROVE  Base'
  <2> DEFINE c == proc[p]
  <2> DEFINE n == [c EXCEPT !.pc = "create", !.seen.payload = r]
  <2>1. c \in Commands /\ Shape(c)
    BY DEF ShapeOK
  <2>2. Building(c)
    BY <1>2, <2>1 DEF BuildPayload, Shape, Building, Reading, Unpacking, Removing, Idle, Running
  <2>3. n \in Commands /\ Shape(n)
    <3>1. n \in Commands
      BY <2>1, <2>2 DEF Commands, Archives, Rel
    <3>2. Building(n)
      BY <1>2, <2>1, <2>2 DEF BuildPayload, Commands, Archives, Building
    <3>3. QED
      BY <3>1, <3>2 DEF Shape
  <2>4. proc' \in [Procs -> Commands] /\ ShapeOK'
    <3>1. proc' = [proc EXCEPT ![p] = n]
      BY <1>2 DEF BuildPayload, Continue, Spend
    <3>2. QED
      BY <2>3, <3>1, MoveKeeps
  <2>6. QED
    BY <1>2, <2>4 DEF BuildPayload, Continue, Spend, disk
<1>3. ASSUME NEW p \in Procs, BuildDescriptor(p)
      PROVE  Base'
  <2> DEFINE c == proc[p]
  <2> DEFINE n == IF Accepted(DocOf[c.seen.toml]) THEN [c EXCEPT !.pc = "payload"] ELSE Idle
  <2>1. c \in Commands /\ Shape(c)
    BY DEF ShapeOK
  <2>2. Building(c)
    BY <1>3, <2>1 DEF BuildDescriptor, Shape, Building, Reading, Unpacking, Removing, Idle, Running
  <2>3. n \in Commands /\ Shape(n)
    <3>1. CASE Accepted(DocOf[c.seen.toml])
      <4>1. n \in Commands
        BY <3>1, <2>1, <2>2, KnownRelease DEF Commands, Archives, Building
      <4>2. Building(n)
        BY <1>3, <3>1, <2>1, <2>2 DEF BuildDescriptor, Commands, Tools, Verifies, Tracked, Building
      <4>3. QED
        BY <4>1, <4>2 DEF Shape
    <3>2. CASE ~(Accepted(DocOf[c.seen.toml]))
      BY <3>2, IdleType DEF Shape
    <3>3. QED
      BY <3>1, <3>2
  <2>4. proc' \in [Procs -> Commands] /\ ShapeOK'
    <3>1. proc' = [proc EXCEPT ![p] = n]
      BY <1>3 DEF BuildDescriptor, Continue, Exit
    <3>2. QED
      BY <2>3, <3>1, MoveKeeps
  <2>5. UNCHANGED out \/ out' = [ok |-> FALSE, cmd |-> c.cmd]
    BY <1>3 DEF BuildDescriptor, Exit
  <2>6. out'.ok \in BOOLEAN
    <3>1. CASE UNCHANGED out
      BY <3>1
    <3>2. CASE out' = [ok |-> FALSE, cmd |-> c.cmd]
      BY <3>2
    <3>3. QED
      BY <2>5, <3>1, <3>2
  <2>7. QED
    BY <1>3, <2>4, <2>6 DEF BuildDescriptor, disk
<1>4. ASSUME NEW p \in Procs, BuildCreate(p)
      PROVE  Base'
  <2> DEFINE c == proc[p]
  <2> DEFINE n == [c EXCEPT !.pc = "finish"]
  <2>1. c \in Commands /\ Shape(c)
    BY DEF ShapeOK
  <2>2. Building(c)
    BY <1>4, <2>1 DEF BuildCreate, Shape, Building, Reading, Unpacking, Removing, Idle, Running
  <2>3. n \in Commands /\ Shape(n)
    <3>1. n \in Commands
      BY <2>1, <2>2 DEF Commands
    <3>2. Building(n)
      BY <1>4, <2>1, <2>2 DEF BuildCreate, Commands, Building
    <3>3. QED
      BY <3>1, <3>2 DEF Shape
  <2>4. proc' \in [Procs -> Commands] /\ ShapeOK'
    <3>1. Touch(p, n)
      BY <1>4 DEF BuildCreate
    <3>2. c.app # {} \/ c.cmd = "build"
      BY <2>2 DEF Building
    <3>3. QED
      BY <2>3, <3>1, <3>2, TouchKeeps
  <2>6. QED
    BY <1>4, <2>4 DEF BuildCreate, NoArchive, Archive, Archives, Rel, disk
<1>5. ASSUME NEW p \in Procs, NEW whole \in BOOLEAN, BuildFinish(p, whole)
      PROVE  Base'
  <2> DEFINE c == proc[p]
  <2> DEFINE n == Idle
  <2>1. c \in Commands /\ Shape(c)
    BY DEF ShapeOK
  <2>2. Building(c)
    BY <1>5, <2>1 DEF BuildFinish, Shape, Building, Reading, Unpacking, Removing, Idle, Running
  <2>3. n \in Commands /\ Shape(n)
    BY IdleType DEF Shape
  <2>4. proc' \in [Procs -> Commands] /\ ShapeOK'
    <3>1. proc' = [proc EXCEPT ![p] = n]
      BY <1>5 DEF BuildFinish, Exit
    <3>2. QED
      BY <2>3, <3>1, MoveKeeps
  <2>6. QED
    <3>1. jpk' = [c.seen EXCEPT !.whole = whole] /\ c.seen \in Archives
      BY <1>5, <2>1 DEF BuildFinish, Commands
    <3>2. /\ jpk' \in Archives /\ jpk'.payload = c.seen.payload
          /\ jpk'.changed = {} /\ jpk'.listed = Tracked
      BY <2>2, <3>1 DEF Archives, Building
    <3>3. ArchiveOK'
      BY <1>5, <2>2, <3>2 DEF BuildFinish, Building, Honest
    <3>4. QED
      BY <1>5, <2>4, <3>2, <3>3 DEF BuildFinish, Exit, disk
<1>6. ASSUME NEW p \in Procs, Inspect(p)
      PROVE  Base'
  <2>1. out'.ok \in BOOLEAN
    BY <1>6 DEF Inspect
  <2>2. used' \in [ops : 0..MaxOps, events : 0..MaxEvents]
    BY <1>6 DEF Inspect, Command
  <2>3. QED
    BY <1>6, <2>1, <2>2 DEF Inspect, disk, ShapeOK
<1>7. ASSUME NEW p \in Procs, Verify(p)
      PROVE  Base'
  BY <1>7 DEF Verify, Command, disk, ShapeOK, Verifies
<1>8. ASSUME NEW p \in Procs, InstallStart(p)
      PROVE  Base'
  <2> DEFINE c == proc[p]
  <2> DEFINE n == Running("install", "pkgd", "verify")
  <2>1. c \in Commands /\ Shape(c)
    BY DEF ShapeOK
  <2>3. n \in Commands /\ Shape(n)
    <3>1. n \in Commands
      BY PackagesAssumption DEF Running, Commands, Archives, NoArchive, Archive, Rel, Tools
    <3>2. Reading(n)
      BY DEF Running, Reading, NoArchive, Archive
    <3>3. QED
      BY <3>1, <3>2 DEF Shape
  <2>4. proc' \in [Procs -> Commands] /\ ShapeOK'
    <3>1. proc' = [proc EXCEPT ![p] = n]
      BY <1>8 DEF InstallStart, Start, Command
    <3>2. QED
      BY <2>3, <3>1, MoveKeeps
  <2>6. QED
    <3>1. used' \in [ops : 0..MaxOps, events : 0..MaxEvents]
      BY <1>8 DEF InstallStart, Start, Command
    <3>2. UNCHANGED <<jpk, root, conf, out, limits, torn>>
      BY <1>8 DEF InstallStart, Start, disk
    <3>3. QED
      BY <2>4, <3>1, <3>2
<1>9. ASSUME NEW p \in Procs, InstallVerify(p)
      PROVE  Base'
  <2> DEFINE c == proc[p]
  <2> DEFINE n == IF Verifies(jpk) THEN [c EXCEPT !.pc = "read", !.seen = jpk] ELSE Idle
  <2>1. c \in Commands /\ Shape(c)
    BY DEF ShapeOK
  <2>2. Reading(c)
    BY <1>9, <2>1 DEF InstallVerify, Shape, Building, Reading, Unpacking, Removing, Idle, Running
  <2>3. n \in Commands /\ Shape(n)
    <3>1. CASE Verifies(jpk)
      <4>1. n \in Commands
        BY <3>1, <2>1, <2>2, KnownRelease DEF Commands, Archives, Reading
      <4>2. Reading(n)
        BY <1>9, <3>1, <2>1, <2>2 DEF InstallVerify, Commands, Tools, Verifies, Tracked, Reading, Honest, Vouched
      <4>3. QED
        BY <4>1, <4>2 DEF Shape
    <3>2. CASE ~(Verifies(jpk))
      BY <3>2, IdleType DEF Shape
    <3>3. QED
      BY <3>1, <3>2
  <2>4. proc' \in [Procs -> Commands] /\ ShapeOK'
    <3>1. proc' = [proc EXCEPT ![p] = n]
      BY <1>9 DEF InstallVerify, Continue, Exit
    <3>2. QED
      BY <2>3, <3>1, MoveKeeps
  <2>5. UNCHANGED out \/ out' = [ok |-> FALSE, cmd |-> c.cmd]
    BY <1>9 DEF InstallVerify, Exit
  <2>6. out'.ok \in BOOLEAN
    <3>1. CASE UNCHANGED out
      BY <3>1
    <3>2. CASE out' = [ok |-> FALSE, cmd |-> c.cmd]
      BY <3>2
    <3>3. QED
      BY <2>5, <3>1, <3>2
  <2>7. QED
    BY <1>9, <2>4, <2>6 DEF InstallVerify, disk
<1>10. ASSUME NEW p \in Procs, InstallRead(p)
      PROVE  Base'
  <2> DEFINE c == proc[p]
  <2> DEFINE n == IF jpk.whole /\ jpk.toml \in Releases /\ Accepted(DocOf[jpk.toml])
              THEN [c EXCEPT !.pc = "unpack", !.app = {AppOf(jpk.toml)}, !.seen = jpk,
                             !.swapped = jpk # c.seen, !.left = FilesOf[jpk.payload]]
              ELSE Idle
  <2>1. c \in Commands /\ Shape(c)
    BY DEF ShapeOK
  <2>2. Reading(c)
    BY <1>10, <2>1 DEF InstallRead, Shape, Building, Reading, Unpacking, Removing, Idle, Running
  <2>3. n \in Commands /\ Shape(n)
    <3>1. CASE jpk.whole /\ jpk.toml \in Releases /\ Accepted(DocOf[jpk.toml])
      <4>1. AppOf(jpk.toml) \in Apps /\ FilesOf[jpk.payload] \subseteq Files
        BY <3>1, KnownRelease
      <4>2. (jpk # c.seen) \in BOOLEAN
        OBVIOUS
      <4>3. n \in Commands
        BY <3>1, <2>1, <4>1, <4>2, ZenonT(60) DEF Commands
      <4>4. Unpacking(n)
        BY <1>10, <3>1, <2>1, <2>2 DEF InstallRead, Commands, Tools, Reading, Unpacking
      <4>5. QED
        BY <4>3, <4>4 DEF Shape
    <3>2. CASE ~(jpk.whole /\ jpk.toml \in Releases /\ Accepted(DocOf[jpk.toml]))
      BY <3>2, IdleType DEF Shape
    <3>3. QED
      BY <3>1, <3>2
  <2>4. proc' \in [Procs -> Commands] /\ ShapeOK'
    <3>1. proc' = [proc EXCEPT ![p] = n]
      BY <1>10 DEF InstallRead, Continue, Exit
    <3> HIDE DEF n
    <3>2. QED
      BY <2>3, <3>1, MoveKeeps
  <2>5. UNCHANGED out \/ out' = [ok |-> FALSE, cmd |-> c.cmd]
    BY <1>10 DEF InstallRead, Exit
  <2>6. out'.ok \in BOOLEAN
    <3>1. CASE UNCHANGED out
      BY <3>1
    <3>2. CASE out' = [ok |-> FALSE, cmd |-> c.cmd]
      BY <3>2
    <3>3. QED
      BY <2>5, <3>1, <3>2
  <2>7. QED
    BY <1>10, <2>4, <2>6 DEF InstallRead, disk
<1>11. ASSUME NEW p \in Procs, InstallDone(p)
      PROVE  Base'
  <2> DEFINE c == proc[p]
  <2> DEFINE n == Idle
  <2>1. c \in Commands /\ Shape(c)
    BY DEF ShapeOK
  <2>3. n \in Commands /\ Shape(n)
    BY IdleType DEF Shape
  <2>4. proc' \in [Procs -> Commands] /\ ShapeOK'
    <3>1. proc' = [proc EXCEPT ![p] = n]
      BY <1>11 DEF InstallDone, Exit
    <3>2. QED
      BY <2>3, <3>1, MoveKeeps
  <2>6. QED
    BY <1>11, <2>4 DEF InstallDone, Exit, disk
<1>12. ASSUME NEW p \in Procs, NEW r \in Releases, NEW whole \in BOOLEAN,
             ManagerInstall(p, r, whole)
      PROVE  Base'
  <2> DEFINE c == proc[p]
  <2> DEFINE n == [Running("install", "manager", "read") EXCEPT
                 !.seen = Archive(r, r, whole)]
  <2>1. c \in Commands /\ Shape(c)
    BY DEF ShapeOK
  <2>3. n \in Commands /\ Shape(n)
    <3>1. n \in Commands
      BY PackagesAssumption DEF Running, Commands, Archives, NoArchive, Archive, Rel, Tools
    <3>2. Reading(n)
      BY DEF Running, Reading, NoArchive, Archive
    <3>3. QED
      BY <3>1, <3>2 DEF Shape
  <2>4. proc' \in [Procs -> Commands] /\ ShapeOK'
    <3>1. proc' = [proc EXCEPT ![p] = n]
      BY <1>12 DEF ManagerInstall, Start, Command
    <3>2. QED
      BY <2>3, <3>1, MoveKeeps
  <2>6. QED
    BY <1>12, <2>4 DEF ManagerInstall, Start, Command, disk
<1>13. ASSUME NEW p \in Procs, ManagerRead(p)
      PROVE  Base'
  <2> DEFINE c == proc[p]
  <2> DEFINE n == IF validate_id(Value(DocOf[c.seen.toml].id))
              THEN [c EXCEPT !.pc = "unpack", !.app = {AppOf(c.seen.toml)},
                             !.left = FilesOf[c.seen.toml],
                             !.upgrade = conf[AppOf(c.seen.toml)] # NoRel]
              ELSE Idle
  <2>1. c \in Commands /\ Shape(c)
    BY DEF ShapeOK
  <2>2. Reading(c)
    BY <1>13, <2>1 DEF ManagerRead, Shape, Building, Reading, Unpacking, Removing, Idle, Running
  <2>3. n \in Commands /\ Shape(n)
    <3>1. CASE validate_id(Value(DocOf[c.seen.toml].id))
      <4>1. AppOf(c.seen.toml) \in Apps /\ FilesOf[c.seen.toml] \subseteq Files
        BY <1>13, <2>2, KnownRelease DEF ManagerRead, Reading
      <4>2. (conf[AppOf(c.seen.toml)] # NoRel) \in BOOLEAN
        OBVIOUS
      <4>3. n \in Commands
        BY <3>1, <2>1, <4>1, <4>2 DEF Commands
      <4>4. Unpacking(n)
        BY <1>13, <3>1, <2>1, <2>2 DEF ManagerRead, Commands, Tools, Reading, Unpacking
      <4>5. QED
        BY <4>3, <4>4 DEF Shape
    <3>2. CASE ~(validate_id(Value(DocOf[c.seen.toml].id)))
      BY <3>2, IdleType DEF Shape
    <3>3. QED
      BY <3>1, <3>2
  <2>4. proc' \in [Procs -> Commands] /\ ShapeOK'
    <3>1. proc' = [proc EXCEPT ![p] = n]
      BY <1>13 DEF ManagerRead, Continue, Exit
    <3>2. QED
      BY <2>3, <3>1, MoveKeeps
  <2>5. UNCHANGED out \/ out' = [ok |-> FALSE, cmd |-> c.cmd]
    BY <1>13 DEF ManagerRead, Exit
  <2>6. out'.ok \in BOOLEAN
    <3>1. CASE UNCHANGED out
      BY <3>1
    <3>2. CASE out' = [ok |-> FALSE, cmd |-> c.cmd]
      BY <3>2
    <3>3. QED
      BY <2>5, <3>1, <3>2
  <2>7. QED
    BY <1>13, <2>4, <2>6 DEF ManagerRead, disk
<1>14. ASSUME NEW p \in Procs, UnpackCut(p)
      PROVE  Base'
  <2> DEFINE c == proc[p]
  <2> DEFINE n == Idle
  <2>1. c \in Commands /\ Shape(c)
    BY DEF ShapeOK
  <2>3. n \in Commands /\ Shape(n)
    BY IdleType DEF Shape
  <2>4. proc' \in [Procs -> Commands] /\ ShapeOK'
    <3>1. proc' = [proc EXCEPT ![p] = n]
      BY <1>14 DEF UnpackCut, Exit
    <3>2. QED
      BY <2>3, <3>1, MoveKeeps
  <2>6. QED
    BY <1>14, <2>1, <2>4 DEF UnpackCut, Exit, Breaks, Commands, disk
<1>15. ASSUME NEW p \in Procs, WriteConf(p)
      PROVE  Base'
  <2> DEFINE c == proc[p]
  <2> DEFINE n == Idle
  <2>1. c \in Commands /\ Shape(c)
    BY DEF ShapeOK
  <2>2. Unpacking(c)
    BY <1>15, <2>1 DEF WriteConf, Shape, Building, Reading, Unpacking, Removing, Idle, Running
  <2>3. n \in Commands /\ Shape(n)
    BY IdleType DEF Shape
  <2>4. proc' \in [Procs -> Commands] /\ ShapeOK'
    <3>1. Touch(p, n)
      BY <1>15 DEF WriteConf
    <3>2. c.app # {} \/ c.cmd = "build"
      BY <2>2 DEF Unpacking
    <3>3. QED
      BY <2>3, <3>1, <3>2, TouchKeeps
  <2>5. App(p) \in Apps
    <3>1. c.app = {AppOf(c.seen.toml)} /\ AppOf(c.seen.toml) \in Apps
      BY <2>2, KnownRelease DEF Unpacking
    <3>2. QED
      BY <3>1, ValueOfOne DEF App
  <2>6. QED
    BY <1>15, <2>1, <2>2, <2>4, <2>5 DEF WriteConf, Commands, Archives, Rel, disk
<1>16. ASSUME NEW p \in Procs, NEW a \in Apps, ManagerUninstall(p, a)
      PROVE  Base'
  <2> DEFINE c == proc[p]
  <2> DEFINE n == [Running("uninstall", "manager", "destroy") EXCEPT
                 !.app = {a}, !.upgrade = TRUE]
  <2>1. c \in Commands /\ Shape(c)
    BY DEF ShapeOK
  <2>3. n \in Commands /\ Shape(n)
    <3>1. n \in Commands
      BY PackagesAssumption DEF Running, Commands, Archives, NoArchive, Archive, Rel, Tools
    <3>2. Removing(n)
      BY DEF Running, Removing, NoArchive, Archive
    <3>3. QED
      BY <3>1, <3>2 DEF Shape
  <2>4. proc' \in [Procs -> Commands] /\ ShapeOK'
    <3>1. proc' = [proc EXCEPT ![p] = n]
      BY <1>16 DEF ManagerUninstall, Start, Command
    <3>2. QED
      BY <2>3, <3>1, MoveKeeps
  <2>6. QED
    BY <1>16, <2>4 DEF ManagerUninstall, Start, Command, disk
<1>17. ASSUME NEW p \in Procs, NEW gone \in BOOLEAN, Destroy(p, gone)
      PROVE  Base'
  <2> DEFINE c == proc[p]
  <2> DEFINE n == [c EXCEPT !.pc = "conf"]
  <2>1. c \in Commands /\ Shape(c)
    BY DEF ShapeOK
  <2>2. Removing(c)
    BY <1>17, <2>1 DEF Destroy, Shape, Building, Reading, Unpacking, Removing, Idle, Running
  <2>3. n \in Commands /\ Shape(n)
    <3>1. n \in Commands
      BY <2>1, <2>2 DEF Commands
    <3>2. Removing(n)
      BY <1>17, <2>1, <2>2 DEF Destroy, Commands, Removing
    <3>3. QED
      BY <3>1, <3>2 DEF Shape
  <2>4. proc' \in [Procs -> Commands] /\ ShapeOK'
    <3>1. Touch(p, n)
      BY <1>17 DEF Destroy
    <3>2. c.app # {} \/ c.cmd = "build"
      BY <2>2 DEF Removing
    <3>3. QED
      BY <2>3, <3>1, <3>2, TouchKeeps
  <2>5. App(p) \in Apps
    BY <2>1, <2>2, ValueOfOne, KnownRelease DEF App, Removing
  <2>6. QED
    BY <1>17, <2>1, <2>2, <2>4, <2>5 DEF Destroy, Empty, Rel, Tools, disk
<1>18. ASSUME NEW p \in Procs, RemoveConf(p)
      PROVE  Base'
  <2> DEFINE c == proc[p]
  <2> DEFINE n == [c EXCEPT !.pc = "remove"]
  <2>1. c \in Commands /\ Shape(c)
    BY DEF ShapeOK
  <2>2. Removing(c)
    BY <1>18, <2>1 DEF RemoveConf, Shape, Building, Reading, Unpacking, Removing, Idle, Running
  <2>3. n \in Commands /\ Shape(n)
    <3>1. n \in Commands
      BY <2>1, <2>2 DEF Commands
    <3>2. Removing(n)
      BY <1>18, <2>1, <2>2 DEF RemoveConf, Commands, Removing
    <3>3. QED
      BY <3>1, <3>2 DEF Shape
  <2>4. proc' \in [Procs -> Commands] /\ ShapeOK'
    <3>1. Touch(p, n)
      BY <1>18 DEF RemoveConf
    <3>2. c.app # {} \/ c.cmd = "build"
      BY <2>2 DEF Removing
    <3>3. QED
      BY <2>3, <3>1, <3>2, TouchKeeps
  <2>5. App(p) \in Apps
    BY <2>1, <2>2, ValueOfOne, KnownRelease DEF App, Removing
  <2>6. QED
    BY <1>18, <2>1, <2>2, <2>4, <2>5 DEF RemoveConf, Rel, disk
<1>19. ASSUME NEW p \in Procs, UninstallDone(p)
      PROVE  Base'
  <2> DEFINE c == proc[p]
  <2> DEFINE n == Idle
  <2>1. c \in Commands /\ Shape(c)
    BY DEF ShapeOK
  <2>3. n \in Commands /\ Shape(n)
    BY IdleType DEF Shape
  <2>4. proc' \in [Procs -> Commands] /\ ShapeOK'
    <3>1. proc' = [proc EXCEPT ![p] = n]
      BY <1>19 DEF UninstallDone, Exit
    <3>2. QED
      BY <2>3, <3>1, MoveKeeps
  <2>6. QED
    BY <1>19, <2>4 DEF UninstallDone, Exit, disk
<1>20. ASSUME NEW p \in Procs, Fail(p)
      PROVE  Base'
  <2> DEFINE c == proc[p]
  <2> DEFINE n == Idle
  <2>1. c \in Commands /\ Shape(c)
    BY DEF ShapeOK
  <2>3. n \in Commands /\ Shape(n)
    BY IdleType DEF Shape
  <2>4. proc' \in [Procs -> Commands] /\ ShapeOK'
    <3>1. proc' = [proc EXCEPT ![p] = n]
      BY <1>20 DEF Fail, Exit, Spend
    <3>2. QED
      BY <2>3, <3>1, MoveKeeps
  <2>5. torn' \subseteq Apps
    BY <1>20, <2>1 DEF Fail, Breaks, Commands
  <2>6. used' \in [ops : 0..MaxOps, events : 0..MaxEvents] /\ out'.ok \in BOOLEAN
    BY <1>20 DEF Fail, Spend, Exit
  <2>7. jpk' \in Archives /\ ArchiveOK'
    BY <1>20 DEF Fail, NoArchive, Archive, Archives, Rel, disk
  <2>8. QED
    BY <1>20, <2>4, <2>5, <2>6, <2>7 DEF Fail, disk
<1>21. ASSUME NEW p \in Procs, Crash(p)
      PROVE  Base'
  <2> DEFINE c == proc[p]
  <2> DEFINE n == Idle
  <2>1. c \in Commands /\ Shape(c)
    BY DEF ShapeOK
  <2>3. n \in Commands /\ Shape(n)
    BY IdleType DEF Shape
  <2>4. proc' \in [Procs -> Commands] /\ ShapeOK'
    <3>1. proc' = [proc EXCEPT ![p] = n]
      BY <1>21 DEF Crash, Exit, Spend
    <3>2. QED
      BY <2>3, <3>1, MoveKeeps
  <2>5. torn' \subseteq Apps
    BY <1>21, <2>1 DEF Crash, Breaks, Commands
  <2>6. used' \in [ops : 0..MaxOps, events : 0..MaxEvents] /\ out'.ok \in BOOLEAN
    BY <1>21 DEF Crash, Spend, Exit
  <2>7. jpk' \in Archives /\ ArchiveOK'
    BY <1>21 DEF Crash, NoArchive, Archive, Archives, Rel, disk
  <2>8. QED
    BY <1>21, <2>4, <2>5, <2>6, <2>7 DEF Crash, disk
<1>22. ASSUME NEW p \in Procs, NEW f \in Files, Unpack(p, f)
      PROVE  Base'
  <2> DEFINE c == proc[p]
  <2> DEFINE n == [c EXCEPT !.left = @ \ {f}]
  <2>1. c \in Commands /\ Shape(c)
    BY DEF ShapeOK
  <2>2. Unpacking(c)
    BY <1>22, <2>1 DEF Unpack, Shape, Building, Reading, Unpacking, Removing, Idle, Running
  <2>3. n \in Commands /\ Shape(n)
    <3>1. n \in Commands
      BY <2>1, <2>2 DEF Commands
    <3>2. Unpacking(n)
      BY <1>22, <2>1, <2>2 DEF Unpack, Commands, Unpacking
    <3>3. QED
      BY <3>1, <3>2 DEF Shape
  <2>4. proc' \in [Procs -> Commands] /\ ShapeOK'
    <3>1. Touch(p, n)
      BY <1>22 DEF Unpack
    <3>2. c.app # {} \/ c.cmd = "build"
      BY <2>2 DEF Unpacking
    <3>3. QED
      BY <2>3, <3>1, <3>2, TouchKeeps
  <2>5. App(p) \in Apps
    <3>1. c.app = {AppOf(c.seen.toml)} /\ AppOf(c.seen.toml) \in Apps
      BY <2>2, KnownRelease DEF Unpacking
    <3>2. QED
      BY <3>1, ValueOfOne DEF App
  <2>6. QED
    BY <1>22, <2>1, <2>2, <2>4, <2>5 DEF Unpack, Put, Contents, Rel, Commands, Unpacking, disk
<1>23. ASSUME NEW p \in Procs, NEW f \in Files, RemoveFile(p, f)
      PROVE  Base'
  <2> DEFINE c == proc[p]
  <2> DEFINE n == c
  <2>1. c \in Commands /\ Shape(c)
    BY DEF ShapeOK
  <2>2. Removing(c)
    BY <1>23, <2>1 DEF RemoveFile, Shape, Building, Reading, Unpacking, Removing, Idle, Running
  <2>3. n \in Commands /\ Shape(n)
    BY <2>1
  <2>4. proc' \in [Procs -> Commands] /\ ShapeOK'
    <3>1. Touch(p, n)
      BY <1>23 DEF RemoveFile
    <3>2. c.app # {} \/ c.cmd = "build"
      BY <2>2 DEF Removing
    <3>3. QED
      BY <2>3, <3>1, <3>2, TouchKeeps
  <2>5. App(p) \in Apps
    BY <2>1, <2>2, ValueOfOne, KnownRelease DEF App, Removing
  <2>6. QED
    BY <1>23, <2>1, <2>2, <2>4, <2>5 DEF RemoveFile, Put, Rel, Commands, Removing, disk
<1>24. ASSUME NEW m \in Members \ {"manifest.json"}, NEW r \in Releases \cup {Bad}, Repack(m, r)
      PROVE  Base'
  <2>1. jpk' = [jpk EXCEPT !.changed = @ \cup {m}, !.toml = r, !.fits = @ /\ m \notin jpk.listed]
    BY <1>24 DEF Repack
  <2>2. /\ jpk'.changed = jpk.changed \cup {m} /\ jpk'.toml = r
        /\ jpk'.whole = jpk.whole /\ jpk'.payload = jpk.payload /\ jpk'.listed = jpk.listed
        /\ jpk'.fits <=> jpk.fits /\ m \notin jpk.listed
        /\ jpk' \in Archives
    BY <2>1 DEF Archives, Rel
  <2>3. Honest(jpk) => Honest(jpk')
    BY <2>2 DEF Honest
  <2>4. QED
    BY <1>24, <2>2, <2>3 DEF Repack, Spend, disk, ShapeOK
<1>25. ASSUME NEW listed \in SUBSET Tracked, NEW fits \in BOOLEAN, RepackManifest(listed, fits)
      PROVE  Base'
  <2>1. jpk' = [jpk EXCEPT !.changed = @ \cup {"manifest.json"}, !.listed = listed, !.fits = fits]
    BY <1>25 DEF RepackManifest
  <2>2. /\ "manifest.json" \in jpk'.changed
        /\ jpk'.whole = jpk.whole /\ jpk'.payload = jpk.payload
        /\ jpk' \in Archives
    BY <2>1 DEF Archives, Members
  <2>3. QED
    BY <1>25, <2>2 DEF RepackManifest, Spend, disk, ShapeOK, Honest
<1>26. ASSUME NEW rels \in SUBSET Releases, NEW read \in BOOLEAN, LoadDescriptors(rels, read)
      PROVE  Base'
  BY <1>26 DEF LoadDescriptors, disk, ShapeOK
<1>27. ASSUME NEW p \in Procs, Orphan(p)
      PROVE  Base'
  <2> DEFINE c == proc[p]
  <2> DEFINE n == [c EXCEPT !.cmd = "orphan"]
  <2>1. c \in Commands /\ Shape(c)
    BY DEF ShapeOK
  <2>2. Unpacking(c) /\ c.tool = "manager"
    BY <1>27, <2>1 DEF Orphan, Shape, Building, Reading, Unpacking, Removing, Idle, Running
  <2>3. n \in Commands /\ Shape(n)
    <3>1. n \in Commands
      BY <2>1 DEF Commands
    <3>2. Unpacking(n)
      BY <2>1, <2>2 DEF Commands, Unpacking
    <3>3. QED
      BY <3>1, <3>2 DEF Shape
  <2>4. proc' \in [Procs -> Commands] /\ ShapeOK'
    <3>1. proc' = [proc EXCEPT ![p] = n]
      BY <1>27 DEF Orphan, Continue, Spend
    <3>2. QED
      BY <2>3, <3>1, MoveKeeps
  <2>5. QED
    BY <1>27, <2>4 DEF Orphan, Spend, disk
<1>28. ASSUME NEW p \in Procs, OrphanEnds(p)
      PROVE  Base'
  <2>1. Idle \in Commands /\ Shape(Idle)
    BY IdleType DEF Shape
  <2>2. proc' \in [Procs -> Commands] /\ ShapeOK'
    <3>1. proc' = [proc EXCEPT ![p] = Idle]
      BY <1>28 DEF OrphanEnds, Continue
    <3>2. QED
      BY <2>1, <3>1, MoveKeeps
  <2>3. QED
    BY <1>28, <2>2 DEF OrphanEnds, Breaks, Commands, disk
<1>29. CASE UNCHANGED vars
  BY <1>29 DEF vars, disk, ShapeOK
<1>30. ASSUME NEW p \in Procs, Pkgd(p) PROVE Base'
  BY <1>1, <1>2, <1>3, <1>4, <1>5, <1>6, <1>7, <1>8, <1>9, <1>10, <1>11, <1>30 DEF Pkgd
<1>31. ASSUME NEW p \in Procs, Manager(p) PROVE Base'
  BY <1>12, <1>13, <1>14, <1>15, <1>16, <1>17, <1>18, <1>19, <1>27, <1>28, <1>31 DEF Manager
<1>32. CASE World
  <2>1. CASE \E m \in Members \ {"manifest.json"}, r \in Releases \cup {Bad} : Repack(m, r)
    BY ONLY <1>24, <2>1
  <2>2. CASE \E listed \in SUBSET Tracked, fits \in BOOLEAN : RepackManifest(listed, fits)
    BY ONLY <1>25, <2>2
  <2>3. CASE \E rels \in SUBSET Releases, read \in BOOLEAN : LoadDescriptors(rels, read)
    BY ONLY <1>26, <2>3
  <2>4. QED
    BY ONLY <1>32, <2>1, <2>2, <2>3 DEF World
<1>33. QED
  BY <1>20, <1>21, <1>22, <1>23, <1>29, <1>30, <1>31, <1>32 DEF Next

-----------------------------------------------------------------------------
(* The steps by their effect on the jail roots. *)

\* A command that works on no root, or is about to begin with one.
Fresh(c) ==
    \/ c.app = {}
    \/ /\ Unpacking(c) /\ c.left = FilesOf[c.seen.payload]
       /\ c.tool = "manager" => c.upgrade = (conf[AppOf(c.seen.toml)] # NoRel)
    \/ Removing(c) /\ c.pc = "destroy"

Alone(p) == \A q \in Procs \ {p} : proc'[q] = proc[q]

Begins(p) ==
    /\ proc[p].app = {} /\ Fresh(proc'[p]) /\ Alone(p)
    /\ UNCHANGED <<root, conf, torn>>

CutOff(p) ==
    /\ proc'[p] = Idle /\ Alone(p)
    /\ out'.ok = FALSE \/ proc[p].cmd = "orphan"
    /\ Breaks(p)
    /\ UNCHANGED <<root, conf>>

Effect ==
    \/ UNCHANGED <<root, conf, proc, torn>>
    \/ \E p \in Procs : Begins(p) \/ CutOff(p) \/ Orphan(p)
    \/ \E p \in Procs : BuildCreate(p) \/ InstallDone(p) \/ UninstallDone(p)
    \/ \E p \in Procs : WriteConf(p) \/ RemoveConf(p)
    \/ \E p \in Procs, gone \in BOOLEAN : Destroy(p, gone)
    \/ \E p \in Procs, f \in Files : Unpack(p, f) \/ RemoveFile(p, f)

\* Every step has one of these effects.
LEMMA StepEffect == Base /\ Base' /\ [Next]_vars => Effect
<1> SUFFICES ASSUME Base, Base', [Next]_vars PROVE Effect
  OBVIOUS
<1>0. proc \in [Procs -> Commands] /\ \A p \in Procs : proc[p] \in Commands /\ Shape(proc[p])
  BY DEF Base, TypeOK, ShapeOK
<1>a. proc' \in [Procs -> Commands] /\ \A p \in Procs : proc'[p] \in Commands /\ Shape(proc'[p])
  BY DEF Base, TypeOK, ShapeOK
<1>1. ASSUME NEW p \in Procs, NEW r \in Releases, BuildStart(p, r)
      PROVE  Effect
  <2>1. proc[p].app = {}
    BY <1>1, <1>0 DEF BuildStart, Start, Command, Shape, Building, Reading, Unpacking, Removing, Idle, Running
  <2>2. proc'[p].app = {} /\ Alone(p)
    BY <1>1, <1>0, <2>1 DEF BuildStart, Start, Command, Alone, Commands, Idle, Running
  <2>3. UNCHANGED <<root, conf, torn>>
    BY <1>1 DEF BuildStart, Start, Command, disk
  <2>4. QED
    BY <2>1, <2>2, <2>3 DEF Effect, Begins, Fresh
<1>2. ASSUME NEW p \in Procs, NEW r \in Releases, BuildPayload(p, r)
      PROVE  Effect
  <2>1. proc[p].app = {}
    BY <1>2, <1>0 DEF BuildPayload, Shape, Building, Reading, Unpacking, Removing, Idle, Running
  <2>2. proc'[p].app = {} /\ Alone(p)
    BY <1>2, <1>0, <2>1 DEF BuildPayload, Continue, Spend, Alone, Commands, Idle, Running
  <2>3. UNCHANGED <<root, conf, torn>>
    BY <1>2 DEF BuildPayload, Continue, Spend, disk
  <2>4. QED
    BY <2>1, <2>2, <2>3 DEF Effect, Begins, Fresh
<1>3. ASSUME NEW p \in Procs, BuildDescriptor(p)
      PROVE  Effect
  <2>1. proc[p].app = {}
    BY <1>3, <1>0 DEF BuildDescriptor, Shape, Building, Reading, Unpacking, Removing, Idle, Running
  <2>2. proc'[p].app = {} /\ Alone(p)
    BY <1>3, <1>0, <2>1 DEF BuildDescriptor, Continue, Exit, Alone, Commands, Idle, Running
  <2>3. UNCHANGED <<root, conf, torn>>
    BY <1>3 DEF BuildDescriptor, Continue, Exit, disk
  <2>4. QED
    BY <2>1, <2>2, <2>3 DEF Effect, Begins, Fresh
<1>4. ASSUME NEW p \in Procs, BuildCreate(p)
      PROVE  Effect
  BY <1>4 DEF Effect
<1>5. ASSUME NEW p \in Procs, NEW whole \in BOOLEAN, BuildFinish(p, whole)
      PROVE  Effect
  <2>1. proc[p].app = {}
    BY <1>5, <1>0 DEF BuildFinish, Shape, Building, Reading, Unpacking, Removing, Idle, Running
  <2>2. proc'[p].app = {} /\ Alone(p)
    BY <1>5, <1>0, <2>1 DEF BuildFinish, Exit, Alone, Commands, Idle, Running
  <2>3. UNCHANGED <<root, conf, torn>>
    BY <1>5 DEF BuildFinish, Exit, disk
  <2>4. QED
    BY <2>1, <2>2, <2>3 DEF Effect, Begins, Fresh
<1>6. ASSUME NEW p \in Procs, Inspect(p)
      PROVE  Effect
  BY <1>6 DEF Inspect, disk, Effect
<1>7. ASSUME NEW p \in Procs, Verify(p)
      PROVE  Effect
  BY <1>7 DEF Verify, disk, Effect
<1>8. ASSUME NEW p \in Procs, InstallStart(p)
      PROVE  Effect
  <2>1. proc[p].app = {}
    BY <1>8, <1>0 DEF InstallStart, Start, Command, Shape, Building, Reading, Unpacking, Removing, Idle, Running
  <2>2. proc'[p].app = {} /\ Alone(p)
    BY <1>8, <1>0, <2>1 DEF InstallStart, Start, Command, Alone, Commands, Idle, Running
  <2>3. UNCHANGED <<root, conf, torn>>
    BY <1>8 DEF InstallStart, Start, Command, disk
  <2>4. QED
    BY <2>1, <2>2, <2>3 DEF Effect, Begins, Fresh
<1>9. ASSUME NEW p \in Procs, InstallVerify(p)
      PROVE  Effect
  <2>1. proc[p].app = {}
    BY <1>9, <1>0 DEF InstallVerify, Shape, Building, Reading, Unpacking, Removing, Idle, Running
  <2>2. Alone(p) /\ UNCHANGED <<root, conf, torn>>
    BY <1>9, <1>0 DEF InstallVerify, Continue, Exit, Alone, disk
  <2>3. proc'[p] = [proc[p] EXCEPT !.pc = "read", !.seen = jpk] \/ proc'[p] = Idle
    BY <1>9, <1>0 DEF InstallVerify, Continue, Exit
  <2>4. proc'[p].app = {}
    BY <1>0, <2>1, <2>3, IdleType DEF Commands
  <2>5. QED
    BY <2>1, <2>2, <2>4 DEF Effect, Begins, Fresh
<1>10. ASSUME NEW p \in Procs, InstallRead(p)
      PROVE  Effect
  <2>1. Reading(proc[p]) /\ proc[p].app = {}
    BY <1>10, <1>0 DEF InstallRead, Shape, Building, Reading, Unpacking, Removing, Idle, Running
  <2>2. Alone(p) /\ UNCHANGED <<root, conf, torn>>
    BY <1>10, <1>0 DEF InstallRead, Continue, Exit, Alone, disk
  <2>3. Fresh(proc'[p])
    <3>1. CASE jpk.whole /\ jpk.toml \in Releases /\ Accepted(DocOf[jpk.toml])
      <4>0. proc'[p] = [proc[p] EXCEPT
                    !.pc = "unpack", !.app = {AppOf(jpk.toml)}, !.seen = jpk,
                    !.swapped = jpk # proc[p].seen, !.left = FilesOf[jpk.payload]]
        BY <1>10, <1>0, <3>1 DEF InstallRead, Continue
      <4>1. proc'[p].pc = "unpack" /\ proc'[p].left = FilesOf[proc'[p].seen.payload]
        BY <1>0, <1>10, <2>1, <4>0 DEF InstallRead, Commands, Reading
      <4>2. proc'[p].tool = "manager" => proc'[p].upgrade = (conf[AppOf(proc'[p].seen.toml)] # NoRel)
        BY <1>0, <1>10, <4>0 DEF InstallRead, Commands
      <4>3. Unpacking(proc'[p])
        BY <1>a, <4>1 DEF Shape, Building, Reading, Unpacking, Removing, Idle, Running
      <4>4. QED
        BY <4>1, <4>2, <4>3 DEF Fresh
    <3>2. CASE ~(jpk.whole /\ jpk.toml \in Releases /\ Accepted(DocOf[jpk.toml]))
      BY <1>10, <1>0, <3>2, IdleType DEF InstallRead, Exit, Fresh
    <3>3. QED
      BY <3>1, <3>2
  <2>4. QED
    BY <2>1, <2>2, <2>3 DEF Effect, Begins
<1>11. ASSUME NEW p \in Procs, InstallDone(p)
      PROVE  Effect
  BY <1>11 DEF Effect
<1>12. ASSUME NEW p \in Procs, NEW r \in Releases, NEW whole \in BOOLEAN,
             ManagerInstall(p, r, whole)
      PROVE  Effect
  <2>1. proc[p].app = {}
    BY <1>12, <1>0 DEF ManagerInstall, Start, Command, Shape, Building, Reading, Unpacking, Removing, Idle, Running
  <2>2. proc'[p].app = {} /\ Alone(p)
    BY <1>12, <1>0, <2>1 DEF ManagerInstall, Start, Command, Alone, Commands, Idle, Running
  <2>3. UNCHANGED <<root, conf, torn>>
    BY <1>12 DEF ManagerInstall, Start, Command, disk
  <2>4. QED
    BY <2>1, <2>2, <2>3 DEF Effect, Begins, Fresh
<1>13. ASSUME NEW p \in Procs, ManagerRead(p)
      PROVE  Effect
  <2>1. Reading(proc[p]) /\ proc[p].app = {}
    BY <1>13, <1>0 DEF ManagerRead, Shape, Building, Reading, Unpacking, Removing, Idle, Running
  <2>2. Alone(p) /\ UNCHANGED <<root, conf, torn>>
    BY <1>13, <1>0 DEF ManagerRead, Continue, Exit, Alone, disk
  <2>3. Fresh(proc'[p])
    <3>1. CASE validate_id(Value(DocOf[proc[p].seen.toml].id))
      <4>0. proc'[p] = [proc[p] EXCEPT
                    !.pc = "unpack", !.app = {AppOf(proc[p].seen.toml)},
                    !.left = FilesOf[proc[p].seen.toml],
                    !.upgrade = conf[AppOf(proc[p].seen.toml)] # NoRel]
        BY <1>13, <1>0, <3>1 DEF ManagerRead, Continue
      <4>1. proc'[p].pc = "unpack" /\ proc'[p].left = FilesOf[proc'[p].seen.payload]
        BY <1>0, <1>13, <2>1, <4>0 DEF ManagerRead, Commands, Reading
      <4>2. proc'[p].tool = "manager" => proc'[p].upgrade = (conf[AppOf(proc'[p].seen.toml)] # NoRel)
        BY <1>0, <1>13, <4>0 DEF ManagerRead, Commands
      <4>3. Unpacking(proc'[p])
        BY <1>a, <4>1 DEF Shape, Building, Reading, Unpacking, Removing, Idle, Running
      <4>4. QED
        BY <4>1, <4>2, <4>3 DEF Fresh
    <3>2. CASE ~(validate_id(Value(DocOf[proc[p].seen.toml].id)))
      BY <1>13, <1>0, <3>2, IdleType DEF ManagerRead, Exit, Fresh
    <3>3. QED
      BY <3>1, <3>2
  <2>4. QED
    BY <2>1, <2>2, <2>3 DEF Effect, Begins
<1>14. ASSUME NEW p \in Procs, UnpackCut(p)
      PROVE  Effect
  <2>1. CutOff(p)
    BY <1>14, <1>0 DEF UnpackCut, Exit, CutOff, Alone, disk
  <2>2. QED
    BY <2>1 DEF Effect
<1>15. ASSUME NEW p \in Procs, WriteConf(p)
      PROVE  Effect
  BY <1>15 DEF Effect
<1>16. ASSUME NEW p \in Procs, NEW a \in Apps, ManagerUninstall(p, a)
      PROVE  Effect
  <2>1. proc[p].app = {} /\ Alone(p) /\ proc'[p].pc = "destroy"
    BY <1>16, <1>0 DEF ManagerUninstall, Start, Command, Alone, Idle, Running
  <2>2. Removing(proc'[p])
    BY <1>a, <2>1 DEF Shape, Building, Reading, Unpacking, Removing, Idle, Running
  <2>3. UNCHANGED <<root, conf, torn>>
    BY <1>16 DEF ManagerUninstall, Start, disk
  <2>4. QED
    BY <2>1, <2>2, <2>3 DEF Effect, Begins, Fresh
<1>17. ASSUME NEW p \in Procs, NEW gone \in BOOLEAN, Destroy(p, gone)
      PROVE  Effect
  BY <1>17 DEF Effect
<1>18. ASSUME NEW p \in Procs, RemoveConf(p)
      PROVE  Effect
  BY <1>18 DEF Effect
<1>19. ASSUME NEW p \in Procs, UninstallDone(p)
      PROVE  Effect
  BY <1>19 DEF Effect
<1>20. ASSUME NEW p \in Procs, Fail(p)
      PROVE  Effect
  <2>1. CutOff(p)
    BY <1>20, <1>0 DEF Fail, Exit, CutOff, Alone, disk
  <2>2. QED
    BY <2>1 DEF Effect
<1>21. ASSUME NEW p \in Procs, Crash(p)
      PROVE  Effect
  <2>1. CutOff(p)
    BY <1>21, <1>0 DEF Crash, Exit, CutOff, Alone, disk
  <2>2. QED
    BY <2>1 DEF Effect
<1>22. ASSUME NEW p \in Procs, NEW f \in Files, Unpack(p, f)
      PROVE  Effect
  BY <1>22 DEF Effect
<1>23. ASSUME NEW p \in Procs, NEW f \in Files, RemoveFile(p, f)
      PROVE  Effect
  BY <1>23 DEF Effect
<1>24. ASSUME NEW m \in Members \ {"manifest.json"}, NEW r \in Releases \cup {Bad}, Repack(m, r)
      PROVE  Effect
  BY <1>24 DEF Repack, disk, Effect
<1>25. ASSUME NEW listed \in SUBSET Tracked, NEW fits \in BOOLEAN, RepackManifest(listed, fits)
      PROVE  Effect
  BY <1>25 DEF RepackManifest, disk, Effect
<1>26. ASSUME NEW rels \in SUBSET Releases, NEW read \in BOOLEAN, LoadDescriptors(rels, read)
      PROVE  Effect
  BY <1>26 DEF LoadDescriptors, disk, Effect
<1>27. ASSUME NEW p \in Procs, Orphan(p)
      PROVE  Effect
  BY <1>27 DEF Effect
<1>28. ASSUME NEW p \in Procs, OrphanEnds(p)
      PROVE  Effect
  <2>1. CutOff(p)
    BY <1>28, <1>0 DEF OrphanEnds, Continue, CutOff, Alone, disk
  <2>2. QED
    BY <2>1 DEF Effect
<1>29. CASE UNCHANGED vars
  BY <1>29 DEF vars, disk, Effect
<1>30. QED
  BY <1>1, <1>2, <1>3, <1>4, <1>5, <1>6, <1>7, <1>8, <1>9, <1>10, <1>11, <1>12, <1>13,
      <1>14, <1>15, <1>16, <1>17, <1>18, <1>19, <1>20, <1>21, <1>22, <1>23, <1>24,
      <1>25, <1>26, <1>27, <1>28, <1>29
  DEF Next, Pkgd, Manager, World

-----------------------------------------------------------------------------
(* What a command that ends with success has done. *)

\* A command at work on a root works on the root of one application.
LEMMA OneApp ==
    ASSUME NEW p \in Procs, Unpacking(proc[p]) \/ Removing(proc[p])
    PROVE  App(p) \in Apps /\ proc[p].app = {App(p)} /\ proc[p].cmd # "build"
<1>1. CASE Unpacking(proc[p])
  <2>1. proc[p].app = {AppOf(proc[p].seen.toml)} /\ AppOf(proc[p].seen.toml) \in Apps
    BY <1>1, KnownRelease DEF Unpacking
  <2>2. QED
    BY <1>1, <2>1, ValueOfOne DEF App, Unpacking
<1>2. CASE Removing(proc[p])
  <2>1. PICK a \in Apps : proc[p].app = {a}
    BY <1>2 DEF Removing
  <2>2. QED
    BY <1>2, <2>1, ValueOfOne DEF App, Removing
<1>3. QED
  BY <1>1, <1>2

\* The point a command has reached tells which command it is.
LEMMA PcShape ==
    ASSUME NEW c \in Commands, Shape(c)
    PROVE  /\ c.pc = "unpack" => Unpacking(c)
           /\ c.pc \in {"destroy", "conf", "remove"} => Removing(c)
           /\ c.app # {} => Unpacking(c) \/ Removing(c)
           /\ Unpacking(c) => c.pc = "unpack" /\ c.app # {} /\ ~Removing(c)
  BY DEF Shape, Building, Reading, Unpacking, Removing, Idle, Running

\* p touches its root: another command that is at work on one and is not
\* told that they overlap is as before, and works on another root.
LEMMA Elsewhere ==
    ASSUME Base, NEW p \in Procs, Unpacking(proc[p]) \/ Removing(proc[p]),
           NEW n \in Commands, Touch(p, n),
           NEW q \in Procs \ {p}, ~proc'[q].over
    PROVE  /\ proc'[q] = proc[q]
           /\ Unpacking(proc[q]) \/ Removing(proc[q]) =>
                proc[q].tool # proc[p].tool \/ App(q) # App(p)
<1>1. proc \in [Procs -> Commands]
  BY DEF Base, TypeOK
<1>2. q \notin Beside(p)
  <2>1. SUFFICES ASSUME q \in Beside(p) PROVE FALSE
    OBVIOUS
  <2>2. proc'[q] = [proc[q] EXCEPT !.over = TRUE]
    BY <1>1, <2>1, TouchEffect
  <2>3. QED
    BY <1>1, <2>2 DEF Commands
<1>3. proc'[q] = proc[q]
  BY <1>1, <1>2, TouchEffect
<1>4. ASSUME Unpacking(proc[q]) \/ Removing(proc[q]), proc[q].tool = proc[p].tool, App(q) = App(p)
      PROVE  FALSE
  <2>1. proc[q].app = proc[p].app /\ proc[q].cmd # "build" /\ proc[p].cmd # "build"
    BY <1>4, OneApp
  <2>2. QED
    BY <1>2, <1>4, <2>1 DEF Beside
<1>5. QED
  BY <1>3, <1>4

\* What others hold is kept by a step that changes one root at most.
LEMMA OthersHeld ==
    ASSUME Base, Base', HeldOK, NEW p \in Procs, Unpacking(proc[p]) \/ Removing(proc[p]),
           NEW n \in Commands, Touch(p, n),
           \A t \in Tools, a \in Apps : t # proc[p].tool \/ a # App(p) => root'[t][a] = root[t][a],
           \A a \in Apps : a # App(p) \/ proc[p].tool # "manager" => conf'[a] = conf[a],
           NEW q \in Procs \ {p}
    PROVE  Held(q)'
<1>1. CASE proc'[q].over
  BY <1>1 DEF Held
<1>2. CASE ~proc'[q].over
  <2>1. proc'[q] = proc[q] /\ App(q)' = App(q)
    BY <1>2, Elsewhere DEF App
  <2>2. proc[q] \in Commands /\ Shape(proc[q]) /\ proc[q].tool \in Tools
    BY DEF Base, TypeOK, ShapeOK, Commands
  <2>3. ASSUME Unpacking(proc[q]), NEW f \in FilesOf[proc[q].seen.payload] \ proc[q].left
        PROVE  root'[proc[q].tool][App(q)][f] = Contents(proc[q])
    <3>1. App(q) \in Apps /\ (proc[q].tool # proc[p].tool \/ App(q) # App(p))
      BY <1>2, <2>3, OneApp, Elsewhere
    <3>2. root[proc[q].tool][App(q)][f] = Contents(proc[q])
      BY <1>2, <2>1, <2>3 DEF HeldOK, Held
    <3>3. QED
      BY <2>2, <3>1, <3>2
  <2>4. ASSUME proc[q].pc = "remove"
        PROVE  conf'[App(q)] = NoRel
    <3>1. Removing(proc[q])
      BY <2>2, <2>4, PcShape
    <3>2. App(q) \in Apps /\ (proc[q].tool # proc[p].tool \/ App(q) # App(p))
      BY <1>2, <3>1, OneApp, Elsewhere
    <3>3. conf[App(q)] = NoRel
      BY <1>2, <2>1, <2>4 DEF HeldOK, Held
    <3>4. QED
      BY <3>1, <3>2, <3>3 DEF Removing
  <2>5. QED
    BY <2>1, <2>3, <2>4 DEF Held, Contents
<1>3. QED
  BY <1>1, <1>2

\* What a command holds is kept when the roots and the command are.
LEMMA HeldSame ==
    ASSUME HeldOK, NEW q \in Procs, proc'[q] = proc[q], UNCHANGED <<root, conf>>
    PROVE  Held(q)'
  BY DEF HeldOK, Held, App, Contents

\* What is left at work holds what the command held.
LEMMA OrphanHolds ==
    ASSUME Base, HeldOK, NEW p \in Procs, Orphan(p), NEW q \in Procs
    PROVE  Held(q)'
<1>0. proc \in [Procs -> Commands] /\ proc[p] \in Commands /\ Shape(proc[p])
  BY DEF Base, TypeOK, ShapeOK
<1>1. proc' = [proc EXCEPT ![p] = [proc[p] EXCEPT !.cmd = "orphan"]] /\ UNCHANGED <<root, conf>>
  BY DEF Orphan, Continue, disk
<1>2. CASE q # p
  BY <1>0, <1>1, <1>2, HeldSame
<1>3. CASE q = p
  <2>1. Unpacking(proc[p]) /\ proc[p].pc = "unpack"
    BY <1>0, PcShape DEF Orphan
  <2>2. /\ proc'[p].over = proc[p].over /\ proc'[p].seen = proc[p].seen
        /\ proc'[p].left = proc[p].left /\ proc'[p].tool = proc[p].tool
        /\ proc'[p].app = proc[p].app /\ proc'[p].pc = proc[p].pc
    BY <1>0, <1>1 DEF Commands
  <2>3. App(p)' = App(p) /\ Contents(proc'[p]) = Contents(proc[p])
    BY <2>2 DEF App, Contents
  <2>4. Held(p)
    BY DEF HeldOK
  <2>5. QED
    BY <1>1, <1>3, <2>1, <2>2, <2>3, <2>4 DEF Held
<1>4. QED
  BY <1>2, <1>3

LEMMA StepHeld == Base /\ Base' /\ HeldOK /\ [Next]_vars => HeldOK'
<1> SUFFICES ASSUME Base, Base', HeldOK, Effect, NEW q \in Procs PROVE Held(q)'
  BY StepEffect DEF HeldOK
<1>0. /\ proc \in [Procs -> Commands] /\ \A p \in Procs : proc[p] \in Commands /\ Shape(proc[p])
      /\ \A p \in Procs : proc'[p] \in Commands /\ Shape(proc'[p])
      /\ root \in [Tools -> [Apps -> [Files -> Rel]]] /\ conf \in [Apps -> Rel]
  BY DEF Base, TypeOK, ShapeOK
<1>1. CASE UNCHANGED <<root, conf, proc, torn>>
  BY <1>1, HeldSame
<1>2. ASSUME NEW p \in Procs, Begins(p) PROVE Held(q)'
  <2>1. CASE q = p
    <3>1. proc'[q].pc # "remove" /\ (Unpacking(proc'[q]) => proc'[q].left = FilesOf[proc'[q].seen.payload])
      <4>1. CASE proc'[q].app = {}
        BY <1>0, <4>1, PcShape, ZenonT(60) DEF Removing
      <4>2. CASE proc'[q].app # {}
        BY <1>0, <1>2, <2>1, <4>2, PcShape DEF Begins, Fresh
      <4>3. QED
        BY <4>1, <4>2
    <3>2. QED
      BY <3>1 DEF Held
  <2>2. CASE q # p
    BY <1>2, <2>2, HeldSame DEF Begins, Alone
  <2>3. QED
    BY <2>1, <2>2
<1>3. ASSUME NEW p \in Procs, CutOff(p) \/ InstallDone(p) \/ UninstallDone(p) PROVE Held(q)'
  <2>1. proc'[p] = Idle /\ Alone(p) /\ UNCHANGED <<root, conf>>
    BY <1>0, <1>3 DEF CutOff, InstallDone, UninstallDone, Exit, Alone, disk
  <2>2. CASE q = p
    BY <2>1, <2>2 DEF Held, Unpacking, Idle, Running
  <2>3. CASE q # p
    BY <2>1, <2>3, HeldSame DEF Alone
  <2>4. QED
    BY <2>2, <2>3
<1>4. ASSUME NEW p \in Procs, BuildCreate(p) PROVE Held(q)'
  <2> DEFINE n == [proc[p] EXCEPT !.pc = "finish"]
  <2>1. n \in Commands /\ Touch(p, n) /\ UNCHANGED <<root, conf>>
    BY <1>0, <1>4, ZenonT(60) DEF BuildCreate, Commands
  <2>2. CASE q = p
    <3>1. proc'[q].pc = "finish"
      <4>1. proc'[p] = [n EXCEPT !.over = n # Idle /\ (@ \/ Beside(p) # {})]
        BY <1>0, <2>1, TouchEffect
      <4>2. QED
        BY <1>0, <2>2, <4>1 DEF Commands
    <3>2. QED
      BY <3>1 DEF Held, Unpacking
  <2>3. CASE q # p /\ q \in Beside(p)
    <3>1. proc'[q] = [proc[q] EXCEPT !.over = TRUE]
      <4> HIDE DEF n
      <4>1. QED
        BY <1>0, <2>1, <2>3, TouchEffect
    <3>2. QED
      BY <1>0, <3>1 DEF Held, Commands
  <2>4. CASE q # p /\ q \notin Beside(p)
    BY <1>0, <2>1, <2>4, TouchEffect, HeldSame
  <2>5. QED
    BY <2>2, <2>3, <2>4
<1>5. ASSUME NEW p \in Procs, WriteConf(p) PROVE Held(q)'
  <2>1. Unpacking(proc[p])
    BY <1>0, <1>5, PcShape DEF WriteConf
  <2>2. App(p) \in Apps /\ Idle \in Commands /\ Touch(p, Idle) /\ proc[p].tool = "manager"
    BY <1>5, <2>1, OneApp, IdleType DEF WriteConf
  <2>3. CASE q = p
    <3>1. proc'[p].pc = "idle"
      <4>1. proc'[p] = [Idle EXCEPT !.over = Idle # Idle /\ (@ \/ Beside(p) # {})]
        BY <1>0, <2>2, TouchEffect
      <4>2. QED
        BY <4>1, IdleType DEF Commands
    <3>2. QED
      BY <2>3, <3>1 DEF Held, Unpacking
  <2>4. CASE q # p
    <3>1. root' = root /\ \A a \in Apps : a # App(p) => conf'[a] = conf[a]
      BY <1>0, <1>5, <2>2 DEF WriteConf
    <3>2. QED
      BY <2>1, <2>2, <2>4, <3>1, OthersHeld
  <2>5. QED
    BY <2>3, <2>4
<1>6. ASSUME NEW p \in Procs, RemoveConf(p) PROVE Held(q)'
  <2> DEFINE n == [proc[p] EXCEPT !.pc = "remove"]
  <2>1. Removing(proc[p])
    BY <1>0, <1>6, PcShape DEF RemoveConf
  <2>2. App(p) \in Apps /\ n \in Commands /\ Touch(p, n) /\ proc[p].tool = "manager"
    <3>1. Touch(p, n)
      BY <1>6 DEF RemoveConf
    <3>2. n \in Commands
      <4>1. proc[p] \in Commands
        BY <1>0
      <4>2. QED
        BY <4>1 DEF Commands
    <3> HIDE DEF n
    <3>3. QED
      BY <2>1, <3>1, <3>2, OneApp DEF Removing
  <2>3. CASE q = p
    <3>1. proc'[p].pc = "remove" /\ proc'[p].app = proc[p].app
      <4>1. proc'[p] = [n EXCEPT !.over = n # Idle /\ (@ \/ Beside(p) # {})]
        BY <1>0, <2>2, TouchEffect
      <4>2. QED
        BY <1>0, <4>1 DEF Commands
    <3>2. conf'[App(p)] = NoRel /\ App(p)' = App(p)
      BY <1>0, <1>6, <2>2, <3>1 DEF RemoveConf, App
    <3>3. QED
      BY <2>3, <3>1, <3>2 DEF Held, Unpacking
  <2>4. CASE q # p
    <3>1. root' = root /\ \A a \in Apps : a # App(p) => conf'[a] = conf[a]
      BY <1>0, <1>6, <2>2 DEF RemoveConf
    <3> HIDE DEF n
    <3>2. QED
      BY <2>1, <2>2, <2>4, <3>1, OthersHeld
  <2>5. QED
    BY <2>3, <2>4
<1>7. ASSUME NEW p \in Procs, NEW gone \in BOOLEAN, Destroy(p, gone) PROVE Held(q)'
  <2> DEFINE n == [proc[p] EXCEPT !.pc = "conf"]
  <2>1. Removing(proc[p])
    BY <1>0, <1>7, PcShape DEF Destroy
  <2>2. App(p) \in Apps /\ n \in Commands /\ Touch(p, n) /\ proc[p].tool = "manager"
    BY <1>0, <1>7, <2>1, OneApp, ZenonT(60) DEF Destroy, Removing, Commands
  <2>3. CASE q = p
    <3>1. proc'[p].pc = "conf"
      <4>1. proc'[p] = [n EXCEPT !.over = n # Idle /\ (@ \/ Beside(p) # {})]
        BY <1>0, <2>2, TouchEffect
      <4>2. QED
        BY <1>0, <4>1 DEF Commands
    <3>2. QED
      BY <2>3, <3>1 DEF Held, Unpacking
  <2>4. CASE q # p
    <3>1. \A t \in Tools, a \in Apps : t # proc[p].tool \/ a # App(p) => root'[t][a] = root[t][a]
      BY <1>0, <1>7, <2>2 DEF Destroy, Tools
    <3>2. conf' = conf
      BY <1>7 DEF Destroy
    <3> HIDE DEF n
    <3>3. QED
      BY <2>1, <2>2, <2>4, <3>1, <3>2, OthersHeld
  <2>5. QED
    BY <2>3, <2>4
<1>8. ASSUME NEW p \in Procs, NEW f \in Files, Unpack(p, f) PROVE Held(q)'
  <2> DEFINE n == [proc[p] EXCEPT !.left = @ \ {f}]
  <2>1. Unpacking(proc[p])
    BY <1>0, <1>8, PcShape DEF Unpack
  <2>2. App(p) \in Apps /\ n \in Commands /\ Touch(p, n) /\ proc[p].tool \in Tools
    BY <1>0, <1>8, <2>1, OneApp, ZenonT(60) DEF Unpack, Commands
  <2>3. root' = [root EXCEPT ![proc[p].tool][App(p)][f] = Contents(proc[p])] /\ conf' = conf
    BY <1>8 DEF Unpack, Put
  <2>4. CASE q = p
    <3>1. proc'[p] = [n EXCEPT !.over = n # Idle /\ (@ \/ Beside(p) # {})]
      BY <1>0, <2>2, TouchEffect
    <3>2. /\ proc'[p].pc = "unpack" /\ proc'[p].left = proc[p].left \ {f}
          /\ proc'[p].app = proc[p].app /\ proc'[p].seen = proc[p].seen
          /\ proc'[p].tool = proc[p].tool
      BY <1>0, <1>8, <3>1 DEF Commands, Unpack
    <3>3. ~proc'[p].over => ~proc[p].over
      <4>1. n # Idle
        BY <1>0, <1>8 DEF Commands, Unpack, Idle, Running
      <4>2. proc'[p].over = (proc[p].over \/ Beside(p) # {})
        BY <1>0, <3>1, <4>1 DEF Commands
      <4>3. QED
        BY <4>2
    <3>4. App(p)' = App(p) /\ Contents(proc'[p]) = Contents(proc[p])
      BY <3>2 DEF App, Contents
    <3>5. ASSUME ~proc'[p].over, NEW g \in FilesOf[proc[p].seen.payload] \ (proc[p].left \ {f})
          PROVE  root'[proc[p].tool][App(p)][g] = Contents(proc[p])
      <4>1. CASE g = f
        BY <1>0, <2>2, <2>3, <4>1
      <4>2. CASE g # f
        <5>1. root[proc[p].tool][App(p)][g] = Contents(proc[p])
          BY <2>1, <3>3, <3>5, <4>2 DEF HeldOK, Held
        <5>2. g \in Files
          BY <2>1, KnownRelease DEF Unpacking
        <5>3. QED
          BY <1>0, <2>2, <2>3, <4>2, <5>1, <5>2
      <4>3. QED
        BY <4>1, <4>2
    <3>6. QED
      BY <2>4, <3>2, <3>4, <3>5 DEF Held
  <2>5. CASE q # p
    <3>1. \A t \in Tools, a \in Apps : t # proc[p].tool \/ a # App(p) => root'[t][a] = root[t][a]
      BY <1>0, <2>2, <2>3
    <3> HIDE DEF n
    <3>2. QED
      BY <2>1, <2>2, <2>3, <2>5, <3>1, OthersHeld
  <2>6. QED
    BY <2>4, <2>5
<1>9. ASSUME NEW p \in Procs, NEW f \in Files, RemoveFile(p, f) PROVE Held(q)'
  <2>1. Removing(proc[p])
    BY <1>0, <1>9, PcShape DEF RemoveFile
  <2>2. App(p) \in Apps /\ proc[p] \in Commands /\ Touch(p, proc[p]) /\ proc[p].tool \in Tools
    <3>1. Touch(p, proc[p])
      BY <1>9 DEF RemoveFile
    <3>2. QED
      BY <1>0, <2>1, <3>1, OneApp DEF Commands
  <2>3. root' = [root EXCEPT ![proc[p].tool][App(p)][f] = NoRel] /\ conf' = conf
    BY <1>9 DEF RemoveFile, Put
  <2>4. CASE q = p
    <3>1. proc'[p] = [proc[p] EXCEPT !.over = proc[p] # Idle /\ (@ \/ Beside(p) # {})]
      BY <1>0, <2>2, TouchEffect
    <3>2. proc'[p].pc = "remove" /\ proc'[p].app = proc[p].app
      BY <1>0, <1>9, <3>1 DEF Commands, RemoveFile
    <3>3. ~proc'[p].over => ~proc[p].over
      BY <1>0, <1>9, <3>1 DEF Commands, RemoveFile, Idle, Running
    <3>4. App(p)' = App(p)
      BY <3>2 DEF App
    <3>5. ~proc[p].over => conf[App(p)] = NoRel
      BY <1>9 DEF HeldOK, Held, RemoveFile
    <3>6. QED
      BY <2>3, <2>4, <3>2, <3>3, <3>4, <3>5 DEF Held, Unpacking
  <2>5. CASE q # p
    <3>1. \A t \in Tools, a \in Apps : t # proc[p].tool \/ a # App(p) => root'[t][a] = root[t][a]
      BY <1>0, <2>2, <2>3
    <3>2. QED
      BY <2>1, <2>2, <2>3, <2>5, <3>1, OthersHeld
  <2>6. QED
    BY <2>4, <2>5
<1>10. ASSUME NEW p \in Procs, Orphan(p) PROVE Held(q)'
  BY <1>10, OrphanHolds
<1>11. QED
  BY <1>1, <1>2, <1>3, <1>4, <1>5, <1>6, <1>7, <1>8, <1>9, <1>10 DEF Effect

-----------------------------------------------------------------------------
(* The theorems on types, installs and removals. *)

IInv == Base /\ HeldOK

LEMMA InitIInv == Init => IInv
<1> SUFFICES ASSUME Init PROVE IInv
  OBVIOUS
<1>1. NoArchive \in Archives /\ ~NoArchive.whole
  BY DEF NoArchive, Archive, Archives, Rel
<1>2. TypeOK
  BY <1>1, IdleType, PackagesAssumption DEF Init, TypeOK, Empty, Rel
<1>3. ArchiveOK /\ ShapeOK
  BY <1>1 DEF Init, ArchiveOK, ShapeOK, Shape
<1>4. HeldOK
  BY DEF Init, HeldOK, Held, Unpacking, Idle, Running
<1>5. QED
  BY <1>2, <1>3, <1>4 DEF IInv, Base

LEMMA StepIInv == IInv /\ [Next]_vars => IInv'
  BY StepBase, StepHeld DEF IInv

LEMMA AlwaysIInv == Spec => []IInv
  BY InitIInv, StepIInv, PTL DEF Spec

\* Whatever the processes, releases and files are, and however the commands
\* of both tools overlap, fail and crash, the state keeps its types.
THEOREM TypeCorrect == Spec => []TypeOK
<1>1. IInv => TypeOK
  BY DEF IInv, Base
<1>2. QED
  BY <1>1, AlwaysIInv, PTL

\* An install of bsdos-pkgd unpacks only complete archives with an accepted
\* descriptor, and a descriptor or payload of no build only if the archive was
\* replaced between its two reads or its manifest was rewritten as well
\* (run_verify compares no more than the manifest lists).
THEOREM UnpacksVerified == Spec => []VerifiedPayload
<1>1. IInv => VerifiedPayload
  <2> SUFFICES ASSUME IInv, NEW p \in Procs, proc[p].tool = "pkgd", proc[p].pc = "unpack"
               PROVE  /\ proc[p].seen.whole /\ Accepted(DocOf[proc[p].seen.toml])
                      /\ {"jpk.toml", "payload.tar"} \cap proc[p].seen.changed # {} =>
                            proc[p].swapped \/ "manifest.json" \in proc[p].seen.changed
    BY DEF VerifiedPayload
  <2>1. Unpacking(proc[p])
    <3>1. proc[p] \in Commands /\ Shape(proc[p])
      BY DEF IInv, Base, TypeOK, ShapeOK
    <3>2. QED
      BY <3>1, PcShape
  <2>2. QED
    BY <2>1 DEF Unpacking, Vouched
<1>2. QED
  BY <1>1, AlwaysIInv, PTL

\* A command that reports success, on a root no other command was at work on,
\* has done its work: all files of the payload are there after an install,
\* none and no jail.conf after a removal.
THEOREM SuccessIsReal == Spec => SuccessMeansDone
<1>1. IInv /\ IInv' /\ [Next]_vars => [DoneStep]_vars
  <2> SUFFICES ASSUME IInv, IInv', Effect, NEW q \in Procs,
                      proc[q].app # {}, proc[q].cmd # "orphan",
                      proc'[q] = Idle, out'.ok, ~proc[q].over
               PROVE  IF proc[q].cmd = "install"
                      THEN \A f \in FilesOf[proc[q].seen.payload] :
                              root'[proc[q].tool][App(q)][f] = Contents(proc[q])
                      ELSE root'.manager[App(q)] = Empty /\ conf'[App(q)] = NoRel
    BY StepEffect DEF DoneStep, IInv
  <2>0. /\ proc \in [Procs -> Commands] /\ \A p \in Procs : proc[p] \in Commands /\ Shape(proc[p])
        /\ conf \in [Apps -> Rel] /\ Held(q)
    BY DEF IInv, Base, TypeOK, ShapeOK, HeldOK
  <2>1. Idle.app = {} /\ proc[q] # Idle
    BY IdleType
  <2>a. ASSUME NEW p \in Procs, NEW n \in Commands, Touch(p, n), p # q
        PROVE  FALSE
    <3>1. proc'[q] = proc[q] \/ proc'[q] = [proc[q] EXCEPT !.over = TRUE]
      BY <2>0, <2>a, TouchEffect, ZenonT(60)
    <3>2. proc'[q].app = proc[q].app
      BY <2>0, <3>1 DEF Commands
    <3>3. QED
      BY <2>1, <3>2
  <2>2. CASE UNCHANGED <<root, conf, proc, torn>>
    BY <2>1, <2>2
  <2>3. ASSUME NEW p \in Procs, Begins(p) \/ CutOff(p) PROVE FALSE
    BY <2>1, <2>3 DEF Begins, CutOff, Alone
  <2>4. ASSUME NEW p \in Procs, BuildCreate(p) PROVE FALSE
    <3> DEFINE n == [proc[p] EXCEPT !.pc = "finish"]
    <3>1. n \in Commands /\ Touch(p, n)
      BY <2>0, <2>4 DEF BuildCreate, Commands
    <3>2. CASE p # q
      <4> HIDE DEF n
      <4>1. QED
        BY <2>a, <3>1, <3>2
    <3>3. CASE p = q
      BY <2>0, <2>4, <3>3, PcShape DEF BuildCreate, Unpacking, Removing
    <3>4. QED
      BY <3>2, <3>3
  <2>5. ASSUME NEW p \in Procs, InstallDone(p) \/ WriteConf(p), p = q
        PROVE  proc[q].cmd = "install" /\ \A f \in FilesOf[proc[q].seen.payload] :
                              root'[proc[q].tool][App(q)][f] = Contents(proc[q])
    <3>1. proc[q].pc = "unpack" /\ proc[q].cmd = "install" /\ proc[q].left = {} /\ root' = root
      BY <2>5 DEF InstallDone, WriteConf, disk
    <3>2. Unpacking(proc[q])
      BY <2>0, <3>1, PcShape
    <3>3. QED
      BY <2>0, <3>1, <3>2 DEF Held
  <2>6. ASSUME NEW p \in Procs, UninstallDone(p), p = q
        PROVE  proc[q].cmd # "install" /\ root'.manager[App(q)] = Empty /\ conf'[App(q)] = NoRel
    <3>1. proc[q].pc = "remove" /\ root.manager[App(q)] = Empty /\ root' = root /\ conf' = conf
      BY <2>6 DEF UninstallDone, disk
    <3>2. Removing(proc[q])
      BY <2>0, <3>1, PcShape
    <3>3. QED
      BY <2>0, <3>1, <3>2 DEF Held, Removing
  <2>7. ASSUME NEW p \in Procs, InstallDone(p) \/ UninstallDone(p), p # q PROVE FALSE
    BY <2>0, <2>1, <2>7 DEF InstallDone, UninstallDone, Exit
  <2>8. ASSUME NEW p \in Procs, WriteConf(p), p # q PROVE FALSE
    BY <2>8, <2>a, IdleType DEF WriteConf
  <2>9. ASSUME NEW p \in Procs, RemoveConf(p) \/ \E gone \in BOOLEAN : Destroy(p, gone) PROVE FALSE
    <3>1. PICK n \in Commands : Touch(p, n) /\ n.pc # "idle"
      <4>1. [proc[p] EXCEPT !.pc = "conf"] \in Commands /\ [proc[p] EXCEPT !.pc = "remove"] \in Commands
        BY <2>0 DEF Commands
      <4>2. [proc[p] EXCEPT !.pc = "conf"].pc = "conf" /\ [proc[p] EXCEPT !.pc = "remove"].pc = "remove"
        BY <2>0 DEF Commands
      <4>3. Touch(p, [proc[p] EXCEPT !.pc = "conf"]) \/ Touch(p, [proc[p] EXCEPT !.pc = "remove"])
        BY <2>9 DEF RemoveConf, Destroy
      <4> DEFINE m == [proc[p] EXCEPT !.pc = "conf"]
      <4> DEFINE n == [proc[p] EXCEPT !.pc = "remove"]
      <4> HIDE DEF m, n
      <4>4. QED
        BY <4>1, <4>2, <4>3 DEF m, n
    <3>2. CASE p # q
      BY <2>a, <3>1, <3>2
    <3>3. CASE p = q
      <4>1. proc'[p] = [n EXCEPT !.over = n # Idle /\ (@ \/ Beside(p) # {})]
        BY <2>0, <3>1, TouchEffect
      <4>2. QED
        BY <3>1, <3>3, <4>1 DEF Commands, Idle, Running
    <3>4. QED
      BY <3>2, <3>3
  <2>10. ASSUME NEW p \in Procs, NEW f \in Files, Unpack(p, f) \/ RemoveFile(p, f) PROVE FALSE
    <3>1. PICK n \in Commands : Touch(p, n) /\ n.pc # "idle"
      <4>1. [proc[p] EXCEPT !.left = @ \ {f}] \in Commands
        BY <2>0 DEF Commands
      <4>2. [proc[p] EXCEPT !.left = @ \ {f}].pc = proc[p].pc
        BY <2>0 DEF Commands
      <4>3. QED
        BY <2>0, <2>10, <4>1, <4>2 DEF Unpack, RemoveFile
    <3>2. CASE p # q
      BY <2>a, <3>1, <3>2
    <3>3. CASE p = q
      <4>1. proc'[p] = [n EXCEPT !.over = n # Idle /\ (@ \/ Beside(p) # {})]
        BY <2>0, <3>1, TouchEffect
      <4>2. QED
        BY <3>1, <3>3, <4>1 DEF Commands, Idle, Running
    <3>4. QED
      BY <3>2, <3>3
  <2>11. ASSUME NEW p \in Procs, Orphan(p) PROVE FALSE
    <3>1. out'.ok = FALSE
      BY <2>11 DEF Orphan
    <3>2. QED
      BY <3>1
  <2>12. QED
    BY <2>2, <2>3, <2>4, <2>5, <2>6, <2>7, <2>8, <2>9, <2>10, <2>11 DEF Effect
<1>2. QED
  BY <1>1, AlwaysIInv, PTL DEF Spec, SuccessMeansDone

-----------------------------------------------------------------------------
(* A jail.conf without its files is never the work of one command alone. *)

\* The files of a jail are those of the release its jail.conf names.
Good(a) == conf[a] # NoRel => \A f \in FilesOf[conf[a]] : root.manager[a][f] = conf[a]

\* c is at work on the jail root of a, or has just begun.
At(c, a) == c.tool = "manager" /\ c.app = {a}

\* c has touched the root of its application at least once.
Touched(c) ==
    \/ Unpacking(c) /\ c.left # FilesOf[c.seen.payload]
    \/ Removing(c) /\ c.pc # "destroy"

\* Two commands that have both touched a root know of each other.
OverlapKnown ==
    \A p, q \in Procs, a \in Apps :
        p # q /\ At(proc[p], a) /\ At(proc[q], a) /\ Touched(proc[p]) /\ Touched(proc[q])
            => proc[p].over /\ proc[q].over

\* A first install that is alone has no jail.conf, and while a removal is at the
\* files there is none, unless one of overlapping commands has written it.
NoConf ==
    \A p \in Procs, a \in Apps : At(proc[p], a) =>
        /\ Unpacking(proc[p]) /\ ~proc[p].upgrade /\ ~proc[p].over => conf[a] = NoRel
        /\ proc[p].pc = "remove" /\ a \notin torn => conf[a] = NoRel

\* c will repair the root of a or report it as torn.
Breaker(c, a) ==
    At(c, a) /\ (Removing(c) \/ (Unpacking(c) /\ (c.upgrade \/ c.over)))

Guarded == \A a \in Apps \ torn : Good(a) \/ \E p \in Procs : Breaker(proc[p], a)

CInv == OverlapKnown /\ NoConf /\ Guarded

\* A command another one tells of an overlap is otherwise as before, and so is
\* what a jpk-manager that is gone has left at work.
Left(c, d) == Unpacking(c) /\ c.tool = "manager" /\ d = [c EXCEPT !.cmd = "orphan"]
Same(c, d) == d = c \/ d = [c EXCEPT !.over = TRUE] \/ Left(c, d)

LEMMA SameCommand ==
    ASSUME NEW c \in Commands, NEW d, Same(c, d)
    PROVE  /\ Unpacking(d) <=> Unpacking(c)
           /\ Removing(d) <=> Removing(c)
           /\ Touched(d) <=> Touched(c)
           /\ \A a : At(d, a) <=> At(c, a)
           /\ \A a : Breaker(c, a) => Breaker(d, a)
           /\ c.over => d.over
           /\ d.pc = c.pc /\ d.upgrade = c.upgrade
<1>1. CASE d = c
  BY <1>1
<1>2. CASE d = [c EXCEPT !.over = TRUE]
  BY <1>2 DEF Commands, Unpacking, Removing, Touched, At, Breaker
<1>3. CASE Left(c, d)
  <2>1. /\ d.tool = c.tool /\ d.app = c.app /\ d.pc = c.pc /\ d.upgrade = c.upgrade
        /\ d.over = c.over /\ d.seen = c.seen /\ d.left = c.left /\ d.cmd = "orphan"
        /\ d.swapped = c.swapped
    BY <1>3 DEF Left, Commands
  <2>2. Unpacking(c) /\ c.tool = "manager" /\ ~Removing(c)
    BY <1>3 DEF Left, Unpacking, Removing
  <2>3. Unpacking(d) /\ ~Removing(d)
    BY <2>1, <2>2 DEF Unpacking, Removing
  <2>4. QED
    BY <2>1, <2>2, <2>3 DEF Touched, At, Breaker
<1>4. QED
  BY <1>1, <1>2, <1>3 DEF Same

\* Leaving zstd and tar at work changes one command, and nothing about its work.
LEMMA OrphanSame ==
    ASSUME Base, NEW p \in Procs, Orphan(p)
    PROVE  (\A q \in Procs : Same(proc[q], proc'[q])) /\ UNCHANGED <<root, conf, torn>>
<1>0. proc \in [Procs -> Commands] /\ proc[p] \in Commands /\ Shape(proc[p])
  BY DEF Base, TypeOK, ShapeOK
<1>1. Unpacking(proc[p]) /\ proc[p].tool = "manager"
  BY <1>0, PcShape DEF Orphan
<1>2. proc' = [proc EXCEPT ![p] = [proc[p] EXCEPT !.cmd = "orphan"]] /\ UNCHANGED <<root, conf, torn>>
  BY DEF Orphan, Continue, disk
<1>3. proc'[p] = [proc[p] EXCEPT !.cmd = "orphan"] /\ \A q \in Procs \ {p} : proc'[q] = proc[q]
  BY <1>0, <1>2
<1>4. QED
  BY <1>1, <1>2, <1>3 DEF Same, Left

\* p tells the others at its root of the overlap.
Told(p) == \A q \in Procs \ {p} : Same(proc[q], proc'[q]) /\ (q \in Beside(p) => proc'[q].over)

\* p touches its root and has more to do.
GoesOn(p) ==
    /\ Told(p)
    /\ proc'[p].tool = proc[p].tool /\ proc'[p].app = proc[p].app
    /\ proc'[p].upgrade = proc[p].upgrade
    /\ proc'[p].over <=> (proc[p].over \/ Beside(p) # {})
    /\ Unpacking(proc'[p]) <=> Unpacking(proc[p])
    /\ Removing(proc'[p]) <=> Removing(proc[p])

LEMMA TouchTells ==
    ASSUME proc \in [Procs -> Commands], NEW p \in Procs, NEW n \in Commands, Touch(p, n)
    PROVE  Told(p)
<1> SUFFICES ASSUME NEW q \in Procs \ {p}
             PROVE  Same(proc[q], proc'[q]) /\ (q \in Beside(p) => proc'[q].over)
  BY DEF Told
<1>1. CASE q \in Beside(p)
  <2>1. proc'[q] = [proc[q] EXCEPT !.over = TRUE]
    BY <1>1, TouchEffect
  <2>2. QED
    BY <2>1 DEF Same, Commands
<1>2. CASE q \notin Beside(p)
  BY <1>2, TouchEffect DEF Same
<1>3. QED
  BY <1>1, <1>2

LEMMA TouchGoesOn ==
    ASSUME proc \in [Procs -> Commands], NEW p \in Procs,
           Unpacking(proc[p]) \/ Removing(proc[p]),
           NEW n \in Commands, Touch(p, n),
           n.tool = proc[p].tool, n.app = proc[p].app, n.upgrade = proc[p].upgrade,
           n.over = proc[p].over,
           Unpacking(n) <=> Unpacking(proc[p]), Removing(n) <=> Removing(proc[p])
    PROVE  GoesOn(p) /\ proc'[p].pc = n.pc
<1>1. proc'[p] = [n EXCEPT !.over = n # Idle /\ (@ \/ Beside(p) # {})]
  BY TouchEffect
<1>2. n # Idle
  BY DEF Unpacking, Removing, Idle, Running
<1>3. /\ proc'[p].tool = n.tool /\ proc'[p].app = n.app /\ proc'[p].upgrade = n.upgrade
      /\ proc'[p].pc = n.pc /\ proc'[p].cmd = n.cmd /\ proc'[p].seen = n.seen
      /\ proc'[p].left = n.left /\ proc'[p].swapped = n.swapped
  BY <1>1 DEF Commands
<1>4. proc'[p].over <=> (n.over \/ Beside(p) # {})
  BY <1>1, <1>2 DEF Commands
<1>5. (Unpacking(proc'[p]) <=> Unpacking(n)) /\ (Removing(proc'[p]) <=> Removing(n))
  BY <1>3 DEF Unpacking, Removing
<1>6. QED
  BY <1>3, <1>4, <1>5, TouchTells DEF GoesOn

\* The steps that touch a root, by what they do to the commands.
LEMMA RootSteps ==
    ASSUME Base, NEW p \in Procs
    PROVE  /\ WriteConf(p) => Told(p) /\ proc'[p] = Idle /\ Unpacking(proc[p])
           /\ RemoveConf(p) => GoesOn(p) /\ Removing(proc[p]) /\ proc'[p].pc = "remove"
           /\ \A gone \in BOOLEAN :
                 Destroy(p, gone) => GoesOn(p) /\ Removing(proc[p]) /\ proc'[p].pc = "conf"
           /\ \A f \in Files :
                 /\ Unpack(p, f) => GoesOn(p) /\ Unpacking(proc[p]) /\ proc'[p].pc = "unpack"
                 /\ RemoveFile(p, f) => /\ GoesOn(p) /\ Removing(proc[p])
                                        /\ proc[p].pc = "remove" /\ proc'[p].pc = "remove"
           /\ BuildCreate(p) => Told(p) /\ proc[p].app = {} /\ proc'[p].app = {}
<1>0. proc \in [Procs -> Commands] /\ proc[p] \in Commands /\ Shape(proc[p])
  BY DEF Base, TypeOK, ShapeOK
<1>1. ASSUME WriteConf(p) PROVE Told(p) /\ proc'[p] = Idle /\ Unpacking(proc[p])
  <2>1. Touch(p, Idle) /\ Idle \in Commands /\ Unpacking(proc[p])
    BY <1>0, <1>1, IdleType, PcShape DEF WriteConf
  <2>2. proc'[p] = [Idle EXCEPT !.over = Idle # Idle /\ (@ \/ Beside(p) # {})]
    BY <1>0, <2>1, TouchEffect
  <2>3. proc'[p] = Idle
    BY <2>2 DEF Idle, Running
  <2>4. QED
    BY <1>0, <2>1, <2>3, TouchTells
<1>2. ASSUME RemoveConf(p)
      PROVE  GoesOn(p) /\ Removing(proc[p]) /\ proc'[p].pc = "remove"
  <2> DEFINE n == [proc[p] EXCEPT !.pc = "remove"]
  <2>1. Removing(proc[p]) /\ ~Unpacking(proc[p])
    BY <1>0, <1>2, PcShape DEF RemoveConf
  <2>2. /\ n \in Commands /\ n.tool = proc[p].tool /\ n.app = proc[p].app
        /\ n.upgrade = proc[p].upgrade /\ n.over = proc[p].over /\ n.pc = "remove"
        /\ n.cmd = proc[p].cmd
    BY <1>0 DEF Commands
  <2>3. Touch(p, n)
    BY <1>2 DEF RemoveConf
  <2> HIDE DEF n
  <2>4. Removing(n) /\ ~Unpacking(n)
    BY <2>1, <2>2 DEF Removing, Unpacking
  <2>5. QED
    BY <1>0, <2>1, <2>2, <2>3, <2>4, TouchGoesOn
<1>3. ASSUME NEW gone \in BOOLEAN, Destroy(p, gone)
      PROVE  GoesOn(p) /\ Removing(proc[p]) /\ proc'[p].pc = "conf"
  <2> DEFINE n == [proc[p] EXCEPT !.pc = "conf"]
  <2>1. Removing(proc[p]) /\ ~Unpacking(proc[p])
    BY <1>0, <1>3, PcShape DEF Destroy
  <2>2. /\ n \in Commands /\ n.tool = proc[p].tool /\ n.app = proc[p].app
        /\ n.upgrade = proc[p].upgrade /\ n.over = proc[p].over /\ n.pc = "conf"
        /\ n.cmd = proc[p].cmd
    BY <1>0 DEF Commands
  <2>3. Touch(p, n)
    BY <1>3 DEF Destroy
  <2> HIDE DEF n
  <2>4. Removing(n) /\ ~Unpacking(n)
    BY <2>1, <2>2 DEF Removing, Unpacking
  <2>5. QED
    BY <1>0, <2>1, <2>2, <2>3, <2>4, TouchGoesOn
<1>4. ASSUME NEW f \in Files, Unpack(p, f)
      PROVE  GoesOn(p) /\ Unpacking(proc[p]) /\ proc'[p].pc = "unpack"
  <2> DEFINE n == [proc[p] EXCEPT !.left = @ \ {f}]
  <2>1. Unpacking(proc[p]) /\ ~Removing(proc[p]) /\ proc[p].pc = "unpack"
    BY <1>0, <1>4, PcShape DEF Unpack
  <2>2. /\ n \in Commands /\ n.tool = proc[p].tool /\ n.app = proc[p].app
        /\ n.upgrade = proc[p].upgrade /\ n.over = proc[p].over /\ n.pc = proc[p].pc
        /\ n.cmd = proc[p].cmd /\ n.seen = proc[p].seen /\ n.swapped = proc[p].swapped
        /\ n.left = proc[p].left \ {f}
    BY <1>0 DEF Commands
  <2>3. Touch(p, n)
    BY <1>4 DEF Unpack
  <2> HIDE DEF n
  <2>4. Unpacking(n) /\ ~Removing(n)
    BY <2>1, <2>2 DEF Removing, Unpacking
  <2>5. QED
    BY <1>0, <2>1, <2>2, <2>3, <2>4, TouchGoesOn
<1>5. ASSUME NEW f \in Files, RemoveFile(p, f)
      PROVE  GoesOn(p) /\ Removing(proc[p]) /\ proc[p].pc = "remove" /\ proc'[p].pc = "remove"
  <2>1. Removing(proc[p]) /\ proc[p].pc = "remove" /\ Touch(p, proc[p])
    BY <1>0, <1>5, PcShape DEF RemoveFile
  <2>2. QED
    BY <1>0, <2>1, TouchGoesOn
<1>6. ASSUME BuildCreate(p) PROVE Told(p) /\ proc[p].app = {} /\ proc'[p].app = {}
  <2> DEFINE n == [proc[p] EXCEPT !.pc = "finish"]
  <2>1. n \in Commands /\ n.app = proc[p].app
    BY <1>0 DEF Commands
  <2>2. proc[p].app = {}
    BY <1>0, <1>6, PcShape DEF BuildCreate, Unpacking, Removing
  <2>3. Touch(p, n)
    BY <1>6 DEF BuildCreate
  <2> HIDE DEF n
  <2>4. proc'[p] = [n EXCEPT !.over = n # Idle /\ (@ \/ Beside(p) # {})]
    BY <1>0, <2>1, <2>3, TouchEffect
  <2>5. proc'[p].app = n.app
    BY <2>1, <2>4 DEF Commands
  <2>6. QED
    BY <1>0, <2>1, <2>2, <2>3, <2>5, TouchTells
<1>7. QED
  BY <1>1, <1>2, <1>3, <1>4, <1>5, <1>6

\* Two commands at work on the jail root of one application are beside each other.
LEMMA BesideAt ==
    ASSUME NEW p \in Procs, NEW q \in Procs \ {p}, NEW a,
           At(proc[p], a), At(proc[q], a),
           Unpacking(proc[p]) \/ Removing(proc[p]), Unpacking(proc[q]) \/ Removing(proc[q])
    PROVE  q \in Beside(p)
  BY DEF At, Beside, Unpacking, Removing

\* In every step at most one command moves, and the others learn at most of an
\* overlap; a command that has touched its root after the step touched it in it.
LEMMA OneMoves ==
    ASSUME Base, Base', Effect, ~UNCHANGED <<root, conf, proc, torn>>,
           \A p \in Procs : ~Orphan(p)
    PROVE  \E p \in Procs : /\ \A q \in Procs \ {p} : Same(proc[q], proc'[q])
                            /\ Touched(proc'[p]) => GoesOn(p)
<1>0. /\ proc \in [Procs -> Commands] /\ \A p \in Procs : proc[p] \in Commands /\ Shape(proc[p])
      /\ \A p \in Procs : proc'[p] \in Commands /\ Shape(proc'[p])
  BY DEF Base, TypeOK, ShapeOK
<1>a. ASSUME NEW c \in Commands, c.app = {} PROVE ~Touched(c)
  BY <1>a DEF Touched, Unpacking, Removing
<1>1. ASSUME NEW p \in Procs, Begins(p)
      PROVE  (\A q \in Procs \ {p} : Same(proc[q], proc'[q])) /\ ~Touched(proc'[p])
  <2>1. CASE proc'[p].app = {}
    BY <1>0, <1>1, <1>a, <2>1 DEF Begins, Alone, Same
  <2>2. CASE proc'[p].app # {}
    <3>1. \/ Unpacking(proc'[p]) /\ proc'[p].left = FilesOf[proc'[p].seen.payload]
          \/ Removing(proc'[p]) /\ proc'[p].pc = "destroy"
      BY <1>1, <2>2 DEF Begins, Fresh
    <3>2. ~Touched(proc'[p])
      BY <1>0, <3>1, PcShape DEF Touched
    <3>3. QED
      BY <1>1, <3>2 DEF Begins, Alone, Same
  <2>3. QED
    BY <2>1, <2>2
<1>2. ASSUME NEW p \in Procs, CutOff(p) \/ InstallDone(p) \/ UninstallDone(p)
      PROVE  (\A q \in Procs \ {p} : Same(proc[q], proc'[q])) /\ ~Touched(proc'[p])
  <2>1. proc'[p] = Idle /\ Alone(p)
    BY <1>0, <1>2 DEF CutOff, InstallDone, UninstallDone, Exit, Alone
  <2>2. QED
    BY <1>a, <2>1, IdleType DEF Alone, Same
<1>3. ASSUME NEW p \in Procs, BuildCreate(p) \/ WriteConf(p)
      PROVE  (\A q \in Procs \ {p} : Same(proc[q], proc'[q])) /\ ~Touched(proc'[p])
  <2>1. Told(p) /\ proc'[p].app = {}
    BY <1>3, RootSteps, IdleType
  <2>2. QED
    BY <1>0, <1>a, <2>1 DEF Told
<1>4. ASSUME NEW p \in Procs, RemoveConf(p) \/ \E gone \in BOOLEAN : Destroy(p, gone)
      PROVE  (\A q \in Procs \ {p} : Same(proc[q], proc'[q])) /\ GoesOn(p)
  BY <1>4, RootSteps DEF GoesOn, Told
<1>5. ASSUME NEW p \in Procs, NEW f \in Files, Unpack(p, f) \/ RemoveFile(p, f)
      PROVE  (\A q \in Procs \ {p} : Same(proc[q], proc'[q])) /\ GoesOn(p)
  BY <1>5, RootSteps DEF GoesOn, Told
<1>6. QED
  BY <1>1, <1>2, <1>3, <1>4, <1>5 DEF Effect

LEMMA StepOverlap == Base /\ Base' /\ OverlapKnown /\ [Next]_vars => OverlapKnown'
<1> SUFFICES ASSUME Base, Base', OverlapKnown, Effect PROVE OverlapKnown'
  BY StepEffect
<1>0. \A q \in Procs : proc[q] \in Commands /\ Shape(proc[q])
  BY DEF Base, TypeOK, ShapeOK
<1>1. CASE UNCHANGED <<root, conf, proc, torn>>
  BY <1>1 DEF OverlapKnown
<1>a. ASSUME NEW r \in Procs, Orphan(r) PROVE OverlapKnown'
  <2>1. \A q \in Procs : /\ Touched(proc'[q]) <=> Touched(proc[q])
                         /\ \A a : At(proc'[q], a) <=> At(proc[q], a)
                         /\ proc[q].over => proc'[q].over
    BY <1>0, <1>a, OrphanSame, SameCommand
  <2>2. QED
    BY <2>1 DEF OverlapKnown
<1>2. CASE ~UNCHANGED <<root, conf, proc, torn>> /\ \A r \in Procs : ~Orphan(r)
  <2>1. PICK p \in Procs : /\ \A q \in Procs \ {p} : Same(proc[q], proc'[q])
                           /\ Touched(proc'[p]) => GoesOn(p)
    BY <1>2, OneMoves
  <2>2. \A q \in Procs \ {p} : /\ Touched(proc'[q]) <=> Touched(proc[q])
                               /\ \A a : At(proc'[q], a) <=> At(proc[q], a)
                               /\ proc[q].over => proc'[q].over
    BY <1>0, <2>1, SameCommand
  <2>3. ASSUME NEW q \in Procs \ {p}, NEW a \in Apps, At(proc'[p], a), At(proc'[q], a),
               Touched(proc'[p]), Touched(proc'[q])
        PROVE  proc'[p].over /\ proc'[q].over
    <3>1. GoesOn(p) /\ At(proc[p], a) /\ (Unpacking(proc[p]) \/ Removing(proc[p]))
      BY <2>1, <2>3 DEF GoesOn, At, Touched
    <3>2. At(proc[q], a) /\ (Unpacking(proc[q]) \/ Removing(proc[q]))
      BY <2>2, <2>3 DEF Touched
    <3>3. q \in Beside(p)
      BY <3>1, <3>2, BesideAt
    <3>4. QED
      BY <3>1, <3>3 DEF GoesOn, Told
  <2>4. ASSUME NEW q \in Procs \ {p}, NEW r \in Procs \ {p}, NEW a \in Apps, q # r,
               At(proc'[q], a), At(proc'[r], a), Touched(proc'[q]), Touched(proc'[r])
        PROVE  proc'[q].over /\ proc'[r].over
    BY <2>2, <2>4 DEF OverlapKnown
  <2>5. QED
    BY <2>3, <2>4 DEF OverlapKnown
<1>3. QED
  BY <1>1, <1>2, <1>a

\* What NoConf says of one command and one application.
NoConfAt(q, a) ==
    At(proc[q], a) =>
        /\ Unpacking(proc[q]) /\ ~proc[q].upgrade /\ ~proc[q].over => conf[a] = NoRel
        /\ proc[q].pc = "remove" /\ a \notin torn => conf[a] = NoRel

\* It is kept for a command that at most learns of an overlap, if the jail.conf
\* is not written and the application stays torn.
LEMMA NoConfSame ==
    ASSUME Base, NoConf, NEW q \in Procs, NEW a \in Apps, Same(proc[q], proc'[q]),
           conf'[a] \in {conf[a], NoRel}, a \in torn => a \in torn'
    PROVE  NoConfAt(q, a)'
<1>1. proc[q] \in Commands
  BY DEF Base, TypeOK
<1>2. /\ At(proc'[q], a) <=> At(proc[q], a)
      /\ Unpacking(proc'[q]) <=> Unpacking(proc[q])
      /\ proc'[q].pc = proc[q].pc /\ proc'[q].upgrade = proc[q].upgrade
      /\ proc[q].over => proc'[q].over
  BY <1>1, SameCommand
<1>3. QED
  BY <1>2 DEF NoConf, NoConfAt

LEMMA StepNoConf == Base /\ Base' /\ OverlapKnown /\ NoConf /\ [Next]_vars => NoConf'
<1> SUFFICES ASSUME Base, Base', OverlapKnown, NoConf, Effect, NEW q \in Procs, NEW a \in Apps
             PROVE  NoConfAt(q, a)'
  BY StepEffect DEF NoConf, NoConfAt
<1>0. /\ proc \in [Procs -> Commands] /\ \A p \in Procs : proc[p] \in Commands /\ Shape(proc[p])
      /\ \A p \in Procs : proc'[p] \in Commands /\ Shape(proc'[p])
      /\ conf \in [Apps -> Rel]
  BY DEF Base, TypeOK, ShapeOK
<1>1. CASE UNCHANGED <<root, conf, proc, torn>>
  BY <1>1, NoConfSame DEF Same
<1>2. ASSUME NEW p \in Procs, Begins(p) PROVE NoConfAt(q, a)'
  <2>1. CASE q # p
    BY <1>2, <2>1, NoConfSame DEF Begins, Alone, Same
  <2>2. CASE q = p /\ proc'[p].app = {}
    BY <2>2 DEF NoConfAt, At
  <2>3. CASE q = p /\ Unpacking(proc'[p]) /\ proc'[p].app # {}
    <3>1. ASSUME At(proc'[p], a), ~proc'[p].upgrade PROVE conf'[a] = NoRel
      <4>1. proc'[p].upgrade = (conf[AppOf(proc'[p].seen.toml)] # NoRel)
        <5>1. ~Removing(proc'[p])
          BY <1>0, <2>3, PcShape
        <5>2. QED
          BY <1>2, <2>3, <3>1, <5>1 DEF Begins, Fresh, At
      <4>2. AppOf(proc'[p].seen.toml) = a
        BY <2>3, <3>1 DEF Unpacking, At
      <4>3. QED
        BY <1>2, <3>1, <4>1, <4>2 DEF Begins
    <3>2. proc'[p].pc # "remove"
      BY <2>3 DEF Unpacking
    <3>3. QED
      BY <2>3, <3>1, <3>2 DEF NoConfAt
  <2>4. CASE q = p /\ ~Unpacking(proc'[p]) /\ proc'[p].app # {}
    BY <1>2, <2>4 DEF Begins, Fresh, NoConfAt
  <2>5. QED
    BY <2>1, <2>2, <2>3, <2>4
<1>3. ASSUME NEW p \in Procs, CutOff(p) \/ InstallDone(p) \/ UninstallDone(p)
      PROVE  NoConfAt(q, a)'
  <2>1. proc'[p] = Idle /\ Alone(p) /\ conf' = conf
    BY <1>0, <1>3 DEF CutOff, InstallDone, UninstallDone, Exit, Alone, disk
  <2>2. a \in torn => a \in torn'
    BY <1>3 DEF CutOff, Breaks, InstallDone, UninstallDone
  <2>3. CASE q = p
    BY <2>1, <2>3, IdleType DEF NoConfAt, At
  <2>4. CASE q # p
    BY <2>1, <2>2, <2>4, NoConfSame DEF Alone, Same
  <2>5. QED
    BY <2>3, <2>4
<1>4. ASSUME NEW p \in Procs, BuildCreate(p) PROVE NoConfAt(q, a)'
  <2>1. Told(p) /\ proc'[p].app = {} /\ conf' = conf /\ torn' = torn
    BY <1>4, RootSteps DEF BuildCreate
  <2>2. CASE q = p
    BY <2>1, <2>2 DEF NoConfAt, At
  <2>3. CASE q # p
    BY <2>1, <2>3, NoConfSame DEF Told
  <2>4. QED
    BY <2>2, <2>3
<1>5. ASSUME NEW p \in Procs, WriteConf(p) PROVE NoConfAt(q, a)'
  <2>1. Told(p) /\ proc'[p] = Idle /\ Unpacking(proc[p])
    BY <1>5, RootSteps
  <2>2. At(proc[p], App(p)) /\ App(p) \in Apps /\ proc[p].app = {App(p)}
    BY <1>5, <2>1, OneApp DEF WriteConf, At
  <2>3. CASE q = p
    BY <2>1, <2>3, IdleType DEF NoConfAt, At
  <2>4. CASE q # p /\ a # App(p)
    <3>1. conf'[a] = conf[a] /\ (a \in torn => a \in torn')
      BY <1>0, <1>5, <2>2, <2>4 DEF WriteConf
    <3>2. QED
      BY <2>1, <2>4, <3>1, NoConfSame DEF Told
  <2>5. CASE q # p /\ a = App(p)
    <3> SUFFICES ASSUME At(proc'[q], a)
                 PROVE  /\ ~(Unpacking(proc'[q]) /\ ~proc'[q].over)
                        /\ ~(proc'[q].pc = "remove" /\ a \notin torn')
      BY DEF NoConfAt
    <3>1. /\ At(proc[q], a) /\ proc'[q].pc = proc[q].pc
          /\ Unpacking(proc'[q]) <=> Unpacking(proc[q])
      BY <1>0, <2>1, <2>5, SameCommand DEF Told
    <3>2. ASSUME Unpacking(proc'[q]) PROVE proc'[q].over
      BY <2>1, <2>2, <2>5, <3>1, <3>2, BesideAt DEF Told
    <3>3. ASSUME proc'[q].pc = "remove" PROVE a \in torn'
      <4>1. Removing(proc[q]) /\ Touched(proc[q])
        BY <1>0, <3>1, <3>3, PcShape DEF Touched
      <4>2. Touched(proc[p])
        BY <1>5, <2>1, PackagesAssumption DEF WriteConf, Touched, Unpacking
      <4>3. proc[p].over
        BY <2>2, <2>5, <3>1, <4>1, <4>2 DEF OverlapKnown
      <4>4. QED
        BY <1>5, <2>2, <2>5, <4>3 DEF WriteConf
    <3>4. QED
      BY <3>2, <3>3
  <2>6. QED
    BY <2>3, <2>4, <2>5
<1>6. ASSUME NEW p \in Procs, RemoveConf(p) PROVE NoConfAt(q, a)'
  <2>1. GoesOn(p) /\ Removing(proc[p]) /\ proc'[p].pc = "remove"
    BY <1>6, RootSteps
  <2>2. App(p) \in Apps /\ proc[p].app = {App(p)}
    BY <2>1, OneApp
  <2>3. conf' = [conf EXCEPT ![App(p)] = NoRel] /\ torn' = torn
    BY <1>6 DEF RemoveConf
  <2>4. CASE q = p
    <3>1. At(proc'[p], a) => a = App(p)
      BY <2>1, <2>2 DEF GoesOn, At
    <3>2. QED
      BY <1>0, <2>3, <2>4, <3>1 DEF NoConfAt
  <2>5. CASE q # p
    <3>1. conf'[a] \in {conf[a], NoRel}
      BY <1>0, <2>3
    <3>2. QED
      BY <2>1, <2>3, <2>5, <3>1, NoConfSame DEF GoesOn, Told
  <2>6. QED
    BY <2>4, <2>5
<1>7. ASSUME NEW p \in Procs, GoesOn(p), proc'[p].pc = "remove" => proc[p].pc = "remove",
             conf' = conf, torn' = torn
      PROVE  NoConfAt(q, a)'
  <2>1. CASE q = p
    <3>1. NoConfAt(p, a)
      BY DEF NoConf, NoConfAt
    <3>2. QED
      BY <1>7, <2>1, <3>1 DEF GoesOn, NoConfAt, At
  <2>2. CASE q # p
    BY <1>7, <2>2, NoConfSame DEF GoesOn, Told
  <2>3. QED
    BY <2>1, <2>2
<1>8. ASSUME NEW p \in Procs, NEW gone \in BOOLEAN, Destroy(p, gone) PROVE NoConfAt(q, a)'
  <2>1. conf' = conf /\ torn' = torn
    BY <1>8 DEF Destroy
  <2>2. QED
    BY <1>7, <1>8, <2>1, RootSteps
<1>9. ASSUME NEW p \in Procs, NEW f \in Files, Unpack(p, f) \/ RemoveFile(p, f)
      PROVE  NoConfAt(q, a)'
  <2>1. conf' = conf /\ torn' = torn
    BY <1>9 DEF Unpack, RemoveFile
  <2>2. GoesOn(p) /\ (proc'[p].pc = "remove" => proc[p].pc = "remove")
    BY <1>9, RootSteps
  <2>3. QED
    BY <1>7, <2>1, <2>2
<1>10. ASSUME NEW p \in Procs, Orphan(p) PROVE NoConfAt(q, a)'
  BY <1>10, OrphanSame, NoConfSame
<1>11. QED
  BY <1>1, <1>2, <1>3, <1>4, <1>5, <1>6, <1>8, <1>9, <1>10 DEF Effect

\* What Guarded says of one application.
GuardedAt(a) == Good(a) \/ \E p \in Procs : Breaker(proc[p], a)

\* It is kept if its root and jail.conf are, and whoever would have repaired it is
\* still at it.
LEMMA GuardedSame ==
    ASSUME Base, Guarded, NEW a \in Apps \ torn, NEW p \in Procs,
           \A q \in Procs \ {p} : Same(proc[q], proc'[q]),
           Breaker(proc[p], a) => Breaker(proc'[p], a),
           root'.manager[a] = root.manager[a], conf'[a] = conf[a]
    PROVE  GuardedAt(a)'
<1>1. CASE Good(a)
  BY <1>1 DEF Good, GuardedAt
<1>2. ASSUME NEW q \in Procs, Breaker(proc[q], a) PROVE Breaker(proc'[q], a)
  <2>1. CASE q = p
    BY <1>2, <2>1
  <2>2. CASE q # p
    <3>1. proc[q] \in Commands /\ Same(proc[q], proc'[q])
      BY <2>2 DEF Base, TypeOK
    <3>2. QED
      BY <1>2, <3>1, SameCommand
  <2>3. QED
    BY <2>1, <2>2
<1>3. QED
  BY <1>1, <1>2 DEF Guarded, GuardedAt

LEMMA StepGuarded == IInv /\ IInv' /\ CInv /\ [Next]_vars => Guarded'
<1> SUFFICES ASSUME IInv, IInv', CInv, Effect, NEW a \in Apps, a \notin torn'
             PROVE  GuardedAt(a)'
  BY StepEffect DEF Guarded, GuardedAt, IInv
<1>0. /\ proc \in [Procs -> Commands] /\ \A p \in Procs : proc[p] \in Commands /\ Shape(proc[p])
      /\ conf \in [Apps -> Rel] /\ root \in [Tools -> [Apps -> [Files -> Rel]]]
      /\ Base /\ HeldOK /\ OverlapKnown /\ NoConf /\ Guarded
  BY DEF IInv, CInv, Base, TypeOK, ShapeOK
<1>1. CASE UNCHANGED <<root, conf, proc, torn>>
  BY <1>0, <1>1 DEF Guarded, GuardedAt, Good
<1>2. ASSUME NEW p \in Procs, Begins(p) PROVE GuardedAt(a)'
  <2>1. ~Breaker(proc[p], a) /\ a \notin torn
    BY <1>2 DEF Begins, Breaker, At
  <2>2. QED
    BY <1>0, <1>2, <2>1, GuardedSame DEF Begins, Alone, Same
<1>3. ASSUME NEW p \in Procs, CutOff(p) PROVE GuardedAt(a)'
  <2>1. a \notin torn /\ ~Breaker(proc[p], a)
    BY <1>3 DEF CutOff, Breaks, Breaker, At, Removing
  <2>2. QED
    BY <1>0, <1>3, <2>1, GuardedSame DEF CutOff, Alone, Same
<1>4. ASSUME NEW p \in Procs, BuildCreate(p) PROVE GuardedAt(a)'
  <2>1. Told(p) /\ ~Breaker(proc[p], a)
    BY <1>0, <1>4, RootSteps DEF Breaker, At
  <2>2. a \notin torn /\ root' = root /\ conf' = conf
    BY <1>4 DEF BuildCreate
  <2>3. QED
    BY <1>0, <2>1, <2>2, GuardedSame DEF Told
<1>5. ASSUME NEW p \in Procs, InstallDone(p) PROVE GuardedAt(a)'
  <2>1. Alone(p) /\ ~Breaker(proc[p], a)
    BY <1>0, <1>5 DEF InstallDone, Exit, Alone, Breaker, At
  <2>2. a \notin torn /\ root' = root /\ conf' = conf
    BY <1>5 DEF InstallDone, disk
  <2>3. QED
    BY <1>0, <2>1, <2>2, GuardedSame DEF Alone, Same
<1>6. ASSUME NEW p \in Procs, UninstallDone(p) PROVE GuardedAt(a)'
  <2>1. Alone(p) /\ a \notin torn /\ root' = root /\ conf' = conf
    BY <1>0, <1>6 DEF UninstallDone, Exit, Alone, disk
  <2>2. CASE Breaker(proc[p], a)
    <3>1. conf[a] = NoRel
      BY <1>0, <1>6, <2>1, <2>2 DEF NoConf, Breaker, UninstallDone
    <3>2. QED
      BY <2>1, <3>1 DEF GuardedAt, Good
  <2>3. CASE ~Breaker(proc[p], a)
    BY <1>0, <2>1, <2>3, GuardedSame DEF Alone, Same
  <2>4. QED
    BY <2>2, <2>3
<1>7. ASSUME NEW p \in Procs, WriteConf(p) PROVE GuardedAt(a)'
  <2>1. Told(p) /\ Unpacking(proc[p]) /\ proc[p].tool = "manager"
    BY <1>0, <1>7, RootSteps DEF WriteConf
  <2>2. App(p) \in Apps /\ proc[p].app = {App(p)}
    BY <2>1, OneApp
  <2>3. CASE a = App(p)
    <3>1. ~proc[p].over /\ proc[p].left = {} /\ root' = root
      BY <1>7, <2>2, <2>3 DEF WriteConf
    <3>2. conf'[a] = proc[p].seen.payload /\ Contents(proc[p]) = proc[p].seen.payload
      BY <1>0, <1>7, <2>1, <2>2, <2>3 DEF WriteConf, Unpacking, Contents
    <3>3. \A f \in FilesOf[proc[p].seen.payload] : root[proc[p].tool][a][f] = Contents(proc[p])
      BY <1>0, <2>1, <2>3, <3>1 DEF HeldOK, Held
    <3>4. QED
      BY <2>1, <3>1, <3>2, <3>3 DEF GuardedAt, Good
  <2>4. CASE a # App(p)
    <3>1. a \notin torn /\ conf'[a] = conf[a] /\ root' = root
      BY <1>0, <1>7, <2>2, <2>4 DEF WriteConf
    <3>2. ~Breaker(proc[p], a)
      BY <2>2, <2>4 DEF Breaker, At
    <3>3. QED
      BY <1>0, <2>1, <3>1, <3>2, GuardedSame DEF Told
  <2>5. QED
    BY <2>3, <2>4
<1>8. ASSUME NEW p \in Procs, GoesOn(p), Removing(proc[p]), torn' = torn,
             \A b \in Apps : b # App(p) => conf'[b] = conf[b] /\ root'.manager[b] = root.manager[b]
      PROVE  GuardedAt(a)'
  <2>1. proc[p].app = {App(p)} /\ proc[p].tool = "manager"
    BY <1>8, OneApp DEF Removing
  <2>2. CASE a = App(p)
    BY <1>8, <2>1, <2>2 DEF GoesOn, GuardedAt, Breaker, At
  <2>3. CASE a # App(p)
    <3>1. ~Breaker(proc[p], a)
      BY <2>1, <2>3 DEF Breaker, At
    <3>2. QED
      BY <1>0, <1>8, <2>3, <3>1, GuardedSame DEF GoesOn, Told
  <2>4. QED
    BY <2>2, <2>3
<1>9. ASSUME NEW p \in Procs, RemoveConf(p) PROVE GuardedAt(a)'
  <2>1. GoesOn(p) /\ Removing(proc[p])
    BY <1>0, <1>9, RootSteps
  <2>2. App(p) \in Apps
    BY <2>1, OneApp
  <2>3. torn' = torn /\ root' = root /\ \A b \in Apps : b # App(p) => conf'[b] = conf[b]
    BY <1>0, <1>9, <2>2 DEF RemoveConf
  <2>4. QED
    BY <1>8, <2>1, <2>3
<1>10. ASSUME NEW p \in Procs, NEW gone \in BOOLEAN, Destroy(p, gone) PROVE GuardedAt(a)'
  <2>1. GoesOn(p) /\ Removing(proc[p])
    BY <1>0, <1>10, RootSteps
  <2>2. App(p) \in Apps
    BY <2>1, OneApp
  <2>3. torn' = torn /\ conf' = conf
    BY <1>10 DEF Destroy
  <2>4. \A b \in Apps : b # App(p) => root'.manager[b] = root.manager[b]
    BY <1>0, <1>10, <2>2 DEF Destroy, Tools
  <2>5. QED
    BY <1>8, <2>1, <2>3, <2>4
<1>11. ASSUME NEW p \in Procs, NEW f \in Files, RemoveFile(p, f) PROVE GuardedAt(a)'
  <2>1. GoesOn(p) /\ Removing(proc[p])
    BY <1>0, <1>11, RootSteps
  <2>2. App(p) \in Apps /\ proc[p].tool = "manager"
    BY <2>1, OneApp DEF Removing
  <2>3. torn' = torn /\ conf' = conf
    BY <1>11 DEF RemoveFile
  <2>4. \A b \in Apps : b # App(p) => root'.manager[b] = root.manager[b]
    BY <1>0, <1>11, <2>2 DEF RemoveFile, Put, Tools
  <2>5. QED
    BY <1>8, <2>1, <2>3, <2>4
<1>12. ASSUME NEW p \in Procs, NEW f \in Files, Unpack(p, f) PROVE GuardedAt(a)'
  <2>1. GoesOn(p) /\ Unpacking(proc[p]) /\ torn' = torn /\ conf' = conf
    BY <1>0, <1>12, RootSteps DEF Unpack
  <2>2. App(p) \in Apps /\ proc[p].app = {App(p)} /\ proc[p].tool \in Tools
    BY <1>0, <2>1, OneApp DEF Commands
  <2>3. root' = [root EXCEPT ![proc[p].tool][App(p)][f] = Contents(proc[p])]
    BY <1>12 DEF Unpack, Put
  <2>4. CASE At(proc[p], a)
    <3>1. CASE proc'[p].upgrade \/ proc'[p].over
      BY <2>1, <2>4, <3>1 DEF GoesOn, GuardedAt, Breaker, At
    <3>2. CASE ~proc'[p].upgrade /\ ~proc'[p].over
      <4>1. conf[a] = NoRel
        BY <1>0, <2>1, <2>4, <3>2 DEF GoesOn, NoConf
      <4>2. QED
        BY <2>1, <4>1 DEF GuardedAt, Good
    <3>3. QED
      BY <3>1, <3>2
  <2>5. CASE ~At(proc[p], a)
    <3>1. root'.manager[a] = root.manager[a]
      BY <1>0, <2>2, <2>3, <2>5 DEF At, Tools
    <3>2. ~Breaker(proc[p], a)
      BY <2>5 DEF Breaker
    <3>3. QED
      BY <1>0, <2>1, <3>1, <3>2, GuardedSame DEF GoesOn, Told
  <2>6. QED
    BY <2>4, <2>5
<1>13. ASSUME NEW p \in Procs, Orphan(p) PROVE GuardedAt(a)'
  <2>1. (\A q \in Procs : Same(proc[q], proc'[q])) /\ UNCHANGED <<root, conf, torn>>
    BY <1>0, <1>13, OrphanSame
  <2>2. Breaker(proc[p], a) => Breaker(proc'[p], a)
    BY <1>0, <2>1, SameCommand
  <2>3. QED
    BY <1>0, <2>1, <2>2, GuardedSame
<1>14. QED
  BY <1>1, <1>2, <1>3, <1>4, <1>5, <1>6, <1>7, <1>9, <1>10, <1>11, <1>12, <1>13 DEF Effect

LEMMA AlwaysCInv == Spec => [](IInv /\ CInv)
<1>1. Init => CInv
  BY IdleType DEF Init, CInv, OverlapKnown, NoConf, Guarded, Good, At
<1>2. IInv /\ CInv /\ IInv' /\ [Next]_vars => CInv'
  BY StepOverlap, StepNoConf, StepGuarded DEF CInv, IInv
<1>3. QED
  BY <1>1, <1>2, InitIInv, StepIInv, PTL DEF Spec

\* A jail.conf names a release whose files are all in the jail root, at every
\* moment no command is at work on it, unless an upgrade, a removal or one of
\* several overlapping commands was cut off: whatever crashes or fails, a first
\* install leaves files without a jail.conf, never a jail.conf without files.
THEOREM ConfHasFiles == Spec => []ConfMeansFiles
<1>1. CInv => ConfMeansFiles
  BY DEF CInv, Guarded, Good, Breaker, At, ConfMeansFiles
<1>2. QED
  BY <1>1, AlwaysCInv, PTL

-----------------------------------------------------------------------------
(* The configurations lifecycled loads. *)

\* A descriptor that parses gives one configuration, for the jail it names.
LEMMA OneConfig ==
    ASSUME NEW doc, parse_descriptor(doc) # {}
    PROVE  \E c : /\ Configs({doc}) = {c} /\ c.jail_name = Value(doc.jail_name)
                  /\ doc.jail_name # {}
<1>1. PICK d : parse_descriptor(doc) = {d} /\ d.jail_name = Value(doc.jail_name) /\ doc.jail_name # {}
  <2> DEFINE d == [jail_name |-> Value(doc.jail_name), needs_gpu |-> Value(doc.needs_gpu),
                   max_memory_mb |-> Value(doc.max_memory_mb),
                   max_cpu_percent |-> Value(doc.max_cpu_percent)]
  <2>1. parse_descriptor(doc) = {d} /\ doc.jail_name # None
    BY DEF parse_descriptor
  <2>2. d.jail_name = Value(doc.jail_name)
    OBVIOUS
  <2> HIDE DEF d
  <2>3. QED
    BY <2>1, <2>2 DEF None
<1>2. Configs({doc}) = {AppLifecycleConfig(d)}
  BY <1>1 DEF Configs
<1>3. AppLifecycleConfig(d).jail_name = d.jail_name
  BY DEF AppLifecycleConfig
<1>4. QED
  BY <1>1, <1>2, <1>3

LEMMA ValueIn == ASSUME NEW S, S # {} PROVE Value(S) \in S
<1>1. PICK v : v \in S
  OBVIOUS
<1>2. QED
  BY <1>1 DEF Value

\* What load_descriptors may return: one configuration per jail that is named.
LEMMA Loaded ==
    ASSUME NEW docs, NEW m \in load_descriptors(docs)
    PROVE  \E all : /\ all = IF Configs(docs) = {} THEN SquirrelDefaults ELSE Configs(docs)
                    /\ m \subseteq all
                    /\ \A c, d \in m : c.jail_name = d.jail_name => c = d
                    /\ \A c \in all : \E d \in m : d.jail_name = c.jail_name
<1> DEFINE all == IF Configs(docs) = {} THEN SquirrelDefaults ELSE Configs(docs)
<1> HIDE DEF all
<1>1. PICK pick \in [{c.jail_name : c \in all} -> all] :
          /\ \A j \in DOMAIN pick : pick[j].jail_name = j
          /\ m = {c \in all : c = pick[c.jail_name]}
  BY DEF load_descriptors, all
<1>2. ASSUME NEW c \in all PROVE \E d \in m : d.jail_name = c.jail_name
  <2>1. c.jail_name \in DOMAIN pick
    OBVIOUS
  <2>2. pick[c.jail_name] \in all /\ pick[c.jail_name].jail_name = c.jail_name
    BY <1>1, <2>1
  <2>3. pick[c.jail_name] \in m
    BY <1>1, <2>2
  <2>4. QED
    BY <2>2, <2>3
<1>3. \A c, d \in m : c.jail_name = d.jail_name => c = d
  BY <1>1
<1>4. QED
  BY <1>1, <1>2, <1>3 DEF all

\* A configuration lifecycled has loaded, and the priority in it, comes from the
\* descriptor of an application that names the jail, and every descriptor that
\* it could read gives one, unless another application claims the jail; the
\* built-in ones are loaded only if no descriptor could be read or one states
\* the same (load_descriptors).
THEOREM ConfigsStated == Spec => []ConfigsLoaded
<1>1. Init => ConfigsLoaded
  BY DEF Init, ConfigsLoaded
<1>2. ConfigsLoaded /\ [Next]_vars => ConfigsLoaded'
  <2>1. ASSUME NEW rels \in SUBSET Releases, LoadDescriptors(rels, TRUE)
        PROVE  ConfigsLoaded'
    <3> DEFINE docs == {DocOf[r] : r \in rels}
    <3>0. \A c : c \in Configs(docs) <=>
               \E r \in rels : parse_descriptor(DocOf[r]) # {} /\ c \in Configs({DocOf[r]})
      BY DEF Configs
    <3>1. PICK m \in load_descriptors(docs) : limits' = [rels |-> rels, read |-> TRUE, map |-> m]
      BY <2>1 DEF LoadDescriptors
    <3> HIDE DEF docs
    <3>2. PICK all : /\ all = IF Configs(docs) = {} THEN SquirrelDefaults ELSE Configs(docs)
                     /\ m \subseteq all
                     /\ \A c, d \in m : c.jail_name = d.jail_name => c = d
                     /\ \A c \in all : \E d \in m : d.jail_name = c.jail_name
      BY Loaded
    <3>3. ASSUME NEW r \in rels, parse_descriptor(DocOf[r]) # {},
                 \A r2 \in rels \ {r} : DocOf[r2].jail_name # DocOf[r].jail_name
          PROVE  \E c \in m : {c} = Configs({DocOf[r]})
      <4>1. PICK c : /\ Configs({DocOf[r]}) = {c} /\ c.jail_name = Value(DocOf[r].jail_name)
                     /\ DocOf[r].jail_name # {}
        BY <3>3, OneConfig
      <4>2. c \in Configs(docs) /\ c \in all
        BY <3>0, <3>2, <3>3, <4>1
      <4>3. PICK d \in m : d.jail_name = c.jail_name
        BY <3>2, <4>2
      <4>4. PICK r2 \in rels : parse_descriptor(DocOf[r2]) # {} /\ d \in Configs({DocOf[r2]})
        BY <3>0, <3>2, <4>2, <4>3
      <4>5. d.jail_name = Value(DocOf[r2].jail_name) /\ DocOf[r2].jail_name # {}
        BY <4>4, OneConfig
      <4>6. DocOf[r2].jail_name = DocOf[r].jail_name
        <5>1. \A u, v \in DocOf[r].jail_name : u = v
          BY PackagesAssumption
        <5>2. \A u, v \in DocOf[r2].jail_name : u = v
          BY PackagesAssumption
        <5>3. Value(DocOf[r].jail_name) \in DocOf[r].jail_name
          BY <4>1, ValueIn
        <5>4. Value(DocOf[r2].jail_name) \in DocOf[r2].jail_name
          BY <4>5, ValueIn
        <5>5. QED
          <6> DEFINE w == Value(DocOf[r].jail_name)
          <6>1. w \in DocOf[r].jail_name /\ w \in DocOf[r2].jail_name
            BY <4>1, <4>3, <4>5, <5>3, <5>4
          <6> HIDE DEF w
          <6>2. DocOf[r].jail_name = {w} /\ DocOf[r2].jail_name = {w}
            BY <5>1, <5>2, <6>1
          <6>3. QED
            BY <6>2
      <4>7. r2 = r
        BY <3>3, <4>6
      <4>8. QED
        BY <4>1, <4>4, <4>7
    <3>4. ASSUME NEW c \in m, c \in SquirrelDefaults
          PROVE  \/ \A r \in rels : parse_descriptor(DocOf[r]) = {}
                 \/ \E r \in rels : {c} = Configs({DocOf[r]})
      <4>1. CASE Configs(docs) = {}
        <5>1. ASSUME NEW r \in rels, parse_descriptor(DocOf[r]) # {} PROVE FALSE
          BY <3>0, <4>1, <5>1, OneConfig
        <5>2. QED
          BY <5>1
      <4>2. CASE Configs(docs) # {}
        <5>1. PICK r \in rels : parse_descriptor(DocOf[r]) # {} /\ c \in Configs({DocOf[r]})
          BY <3>0, <3>2, <4>2
        <5>2. QED
          <6>1. PICK d : Configs({DocOf[r]}) = {d}
            BY <5>1, OneConfig
          <6>2. QED
            BY <5>1, <6>1
      <4>3. QED
        BY <4>1, <4>2
    <3>5. limits'.rels = rels /\ limits'.map = m
      BY <3>1
    <3>6. QED
      BY <3>2, <3>3, <3>4, <3>5 DEF ConfigsLoaded
  <2>2. ASSUME UNCHANGED limits, ConfigsLoaded PROVE ConfigsLoaded'
    BY <2>2 DEF ConfigsLoaded
  <2>a. ASSUME NEW rels \in SUBSET Releases, LoadDescriptors(rels, FALSE)
        PROVE  ConfigsLoaded'
    <3>1. limits' = [rels |-> rels, read |-> FALSE, map |-> {}]
      BY <2>a DEF LoadDescriptors
    <3>2. QED
      BY <3>1 DEF ConfigsLoaded
  <2>3. [Next]_vars => \/ UNCHANGED limits
                       \/ \E rels \in SUBSET Releases, read \in BOOLEAN : LoadDescriptors(rels, read)
    BY ZenonT(60) DEF Next, Pkgd, Manager, World, vars, BuildStart, BuildPayload, BuildDescriptor,
       BuildCreate, BuildFinish, Inspect, Verify, InstallStart, InstallVerify, InstallRead,
       InstallDone, ManagerInstall, ManagerRead, UnpackCut, WriteConf, ManagerUninstall,
       Destroy, RemoveConf, UninstallDone, Fail, Crash, Unpack, RemoveFile, Repack,
       RepackManifest, Orphan, OrphanEnds, Start
  <2>4. QED
    BY <2>1, <2>2, <2>a, <2>3
<1>3. QED
  BY <1>1, <1>2, PTL DEF Spec

=============================================================================
