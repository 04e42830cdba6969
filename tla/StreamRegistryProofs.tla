------------------------ MODULE StreamRegistryProofs ------------------------
(***************************************************************************)
(* Proofs about StreamRegistry, for every set of configs, inodes and       *)
(* writers and every number of calls and power failures: as long as no two *)
(* calls overlap, the registry file is always one whole message, and load, *)
(* change, write, fsync, rename amounts to single steps of RegistrySpec.   *)
(*                                                                         *)
(* AlwaysReadable is not inductive.  What a rename makes the registry is   *)
(* what a call has written since it opened the file, so the invariant      *)
(* follows a call through its writes (CallProgress), and it needs that     *)
(* neither the registry nor what the disk falls back to is the file being  *)
(* written (Apart).  For the refinement it also remembers that the copy in *)
(* hand was made from the registry that is still there (CopyCurrent).      *)
(***************************************************************************)
EXTENDS StreamRegistry, TLAPS

\* Calls that do not overlap, as if stop_stream, too, held the mutex.
Serialised ==
    \A x, y \in Writers : w[x] # Idle /\ w[y] # Idle => x = y

Stored(n) == n # None => Whole(n) /\ n \in synced

\* The .tmp file is neither the registry nor what the disk may fall back to,
\* and a call that has a file open has the .tmp file open.
Apart ==
    /\ tmp # None => tmp # disk
    /\ \A x \in Writers : w[x].fd # None => w[x].fd = tmp

\* What a call has written so far.
CallProgress ==
    \A x \in Writers :
        /\ w[x].pc \in {"second", "sync", "rename"} => half[w[x].fd][1] = w[x].val
        /\ w[x].pc \in {"sync", "rename"} => half[w[x].fd][2] = w[x].val
        /\ w[x].pc = "rename" => w[x].fd \in synced

\* The copy a call is going to write is the registry with its change made.
CopyCurrent ==
    \A x \in Writers :
        /\ w[x].pc = "load" => w[x].add # None \/ w[x].rem # None
        /\ w[x].pc \notin {"idle", "load"} =>
             \/ w[x].add # None /\ w[x].val = Upsert(Holds(path), w[x].add)
             \/ w[x].rem # None /\ w[x].val = Without(Holds(path), w[x].rem)

IInv == Stored(path) /\ Stored(disk) /\ Apart /\ CallProgress /\ CopyCurrent

-----------------------------------------------------------------------------
(* Type correctness, whatever calls overlap. *)

LEMMA InitTypeOK == Init => TypeOK
  BY RegistryAssumption DEF Init, TypeOK, Idle, Call, Blank, PCs, Values

LEMMA StepTypeOK == TypeOK /\ [Next]_vars => TypeOK'
<1> SUFFICES ASSUME TypeOK, [Next]_vars PROVE TypeOK'
  OBVIOUS
<1> USE RegistryAssumption DEF TypeOK, PCs, Values, Call, Idle
<1>1. ASSUME NEW x \in Writers, NEW cfg \in Configs, CallAdd(x, cfg) PROVE TypeOK'
  BY <1>1 DEF CallAdd, SpendCall
<1>2. ASSUME NEW x \in Writers, NEW a \in Apps, CallRemove(x, a) PROVE TypeOK'
  BY <1>2 DEF CallRemove, SpendCall
<1>3. ASSUME NEW x \in Writers, LoadAdd(x) PROVE TypeOK'
  BY <1>3 DEF LoadAdd, Upsert, Without, Holds, Readable, Whole
<1>4. ASSUME NEW x \in Writers, LoadRemove(x) PROVE TypeOK'
  BY <1>4 DEF LoadRemove, Without, Holds, Readable, Whole
<1>5. ASSUME NEW x \in Writers, LoadError(x) PROVE TypeOK'
  BY <1>5 DEF LoadError, Return
<1>6. ASSUME NEW x \in Writers, Create(x) PROVE TypeOK'
  BY <1>6 DEF Create, Blank, Unused
<1>7. ASSUME NEW x \in Writers, WriteFirst(x) PROVE TypeOK'
  BY <1>7 DEF WriteFirst, Goto
<1>8. ASSUME NEW x \in Writers, WriteSecond(x) PROVE TypeOK'
  BY <1>8 DEF WriteSecond, Goto
<1>9. ASSUME NEW x \in Writers, SyncAll(x) PROVE TypeOK'
  BY <1>9 DEF SyncAll, Goto
<1>10. ASSUME NEW x \in Writers, SaveError(x) PROVE TypeOK'
  BY <1>10 DEF SaveError, Return
<1>11. ASSUME NEW x \in Writers, Rename(x) PROVE TypeOK'
  BY <1>11 DEF Rename, Return
<1>12. ASSUME NEW x \in Writers, RenameError(x) PROVE TypeOK'
  BY <1>12 DEF RenameError, Return
<1>13. ASSUME FlushDirectory PROVE TypeOK'
  BY <1>13 DEF FlushDirectory
<1>14. ASSUME PowerFailure PROVE TypeOK'
  BY <1>14 DEF PowerFailure
<1>15. CASE UNCHANGED vars
  BY <1>15 DEF vars
<1>16. QED
  BY <1>1, <1>2, <1>3, <1>4, <1>5, <1>6, <1>7, <1>8, <1>9, <1>10, <1>11,
      <1>12, <1>13, <1>14, <1>15 DEF Next, Save

\* Type correctness: also with overlapping calls the registry and its .tmp are
\* different files, and a call has a file open exactly while it writes.
THEOREM TypeCorrect == Spec => []TypeOK
  BY InitTypeOK, StepTypeOK, PTL DEF Spec

-----------------------------------------------------------------------------
(* The file, for calls that do not overlap. *)

LEMMA InitIInv == Init => IInv
  BY RegistryAssumption
  DEF Init, IInv, Stored, Apart, CallProgress, CopyCurrent, Idle, Call

\* Each step keeps what the calls know about the file they write.
LEMMA StepIInv ==
    TypeOK /\ TypeOK' /\ Serialised /\ Serialised' /\ IInv /\ [Next]_vars => IInv'
<1> SUFFICES ASSUME TypeOK, TypeOK', Serialised, Serialised', IInv, [Next]_vars
             PROVE  IInv'
  OBVIOUS
<1> USE RegistryAssumption
    DEF TypeOK, PCs, Values, Call, Idle, Serialised, IInv, Stored, Whole, Holds,
        Apart, CallProgress, CopyCurrent, Upsert, Without
<1>1. ASSUME NEW x \in Writers, NEW cfg \in Configs, CallAdd(x, cfg) PROVE IInv'
  BY <1>1 DEF CallAdd, SpendCall
<1>2. ASSUME NEW x \in Writers, NEW a \in Apps, CallRemove(x, a) PROVE IInv'
  BY <1>2 DEF CallRemove, SpendCall
<1>3. ASSUME NEW x \in Writers, LoadAdd(x) PROVE IInv'
  BY <1>3 DEF LoadAdd
<1>4. ASSUME NEW x \in Writers, LoadRemove(x) PROVE IInv'
  BY <1>4 DEF LoadRemove
<1>5. ASSUME NEW x \in Writers, LoadError(x) PROVE IInv'
  BY <1>5 DEF LoadError, Return
<1>6. ASSUME NEW x \in Writers, Create(x) PROVE IInv'
  BY <1>6 DEF Create, Blank, Unused, Open
<1>7. ASSUME NEW x \in Writers, WriteFirst(x) PROVE IInv'
  BY <1>7 DEF WriteFirst, Goto
<1>8. ASSUME NEW x \in Writers, WriteSecond(x) PROVE IInv'
  BY <1>8 DEF WriteSecond, Goto
<1>9. ASSUME NEW x \in Writers, SyncAll(x) PROVE IInv'
  BY <1>9 DEF SyncAll, Goto
<1>10. ASSUME NEW x \in Writers, SaveError(x) PROVE IInv'
  BY <1>10 DEF SaveError, Return
<1>11. ASSUME NEW x \in Writers, Rename(x) PROVE IInv'
  BY <1>11 DEF Rename, Return
<1>12. ASSUME NEW x \in Writers, RenameError(x) PROVE IInv'
  BY <1>12 DEF RenameError, Return
<1>13. ASSUME FlushDirectory PROVE IInv'
  BY <1>13 DEF FlushDirectory
<1>14. ASSUME PowerFailure PROVE IInv'
  BY <1>14 DEF PowerFailure
<1>15. CASE UNCHANGED vars
  BY <1>15 DEF vars
<1>16. QED
  BY <1>1, <1>2, <1>3, <1>4, <1>5, <1>6, <1>7, <1>8, <1>9, <1>10, <1>11,
      <1>12, <1>13, <1>14, <1>15 DEF Next, Save

LEMMA Invariance == Spec /\ []Serialised => []IInv
  BY TypeCorrect, InitIInv, StepIInv, PTL DEF Spec

\* Neither an error at any point of save_registry_vec nor a power failure at
\* any time leaves a torn or an empty registry, provided calls do not overlap;
\* rg_torn shows that the proviso is needed.
THEOREM ReadableWhenSerialised == Spec /\ []Serialised => []AlwaysReadable
<1>1. IInv => AlwaysReadable
  BY DEF IInv, Stored, AlwaysReadable, Readable
<1>2. QED
  BY Invariance, <1>1, PTL

-----------------------------------------------------------------------------
(* The refinement. *)

\* The empty file system is the empty registry.
LEMMA InitRefines == Init => Abstract!Init
  BY DEF Init, Abstract!Init, Holds

Quiet == UNCHANGED <<Holds(path), Holds(disk)>>

\* The rename is the one step in which a call takes effect.
LEMMA RenameRefines ==
    ASSUME TypeOK, Serialised, IInv, NEW x \in Writers, Rename(x)
    PROVE  Abstract!Next
<1> USE RegistryAssumption
    DEF TypeOK, Values, Call, Idle, IInv, Stored, Whole, Holds, Apart, CallProgress, Rename
<1>1. /\ w[x].fd = tmp /\ tmp \in Inodes
      /\ half[tmp][1] = w[x].val
      /\ w[x].add \in Configs \cup {None} /\ w[x].rem \in Apps \cup {None}
  OBVIOUS
<1>2. Holds(path)' = w[x].val /\ UNCHANGED Holds(disk)
  BY <1>1
<1>3. CASE w[x].add # None /\ w[x].val = Upsert(Holds(path), w[x].add)
  <2>1. Abstract!Add(w[x].add)
    BY <1>2, <1>3 DEF Abstract!Add, Abstract!Upsert, Abstract!Without, Upsert, Without
  <2>2. QED
    BY <1>1, <1>3, <2>1 DEF Abstract!Next
<1>4. CASE w[x].rem # None /\ w[x].val = Without(Holds(path), w[x].rem)
  <2>1. Abstract!Remove(w[x].rem)
    BY <1>2, <1>4 DEF Abstract!Remove, Abstract!Without, Without
  <2>2. QED
    BY <1>1, <1>4, <2>1 DEF Abstract!Next
<1>5. QED
  BY <1>3, <1>4 DEF CopyCurrent, PCs

\* Every other step of a call leaves the registry as it is.
LEMMA StepRefines ==
    TypeOK /\ TypeOK' /\ Serialised /\ IInv /\ [Next]_vars
        => [Abstract!Next]_<<Holds(path), Holds(disk)>>
<1> SUFFICES ASSUME TypeOK, TypeOK', Serialised, IInv, [Next]_vars
             PROVE  Abstract!Next \/ Quiet
  BY DEF Quiet
<1> USE DEF Quiet, Holds
<1>1. ASSUME NEW x \in Writers, NEW cfg \in Configs, CallAdd(x, cfg) PROVE Quiet
  BY <1>1 DEF CallAdd
<1>2. ASSUME NEW x \in Writers, NEW a \in Apps, CallRemove(x, a) PROVE Quiet
  BY <1>2 DEF CallRemove
<1>3. ASSUME NEW x \in Writers, LoadAdd(x) PROVE Quiet
  BY <1>3 DEF LoadAdd
<1>4. ASSUME NEW x \in Writers, LoadRemove(x) PROVE Quiet
  BY <1>4 DEF LoadRemove
<1>5. ASSUME NEW x \in Writers, LoadError(x) PROVE Quiet
  BY <1>5 DEF LoadError
<1>6. ASSUME NEW x \in Writers, Create(x) PROVE Quiet
  BY <1>6, RegistryAssumption
  DEF Create, TypeOK, IInv, Apart, Unused, Open, Blank, Stored
<1>7. ASSUME NEW x \in Writers, WriteFirst(x) PROVE Quiet
  BY <1>7, RegistryAssumption
  DEF WriteFirst, TypeOK, IInv, Apart, Unused, Open, Blank, Stored
<1>8. ASSUME NEW x \in Writers, WriteSecond(x) PROVE Quiet
  BY <1>8, RegistryAssumption
  DEF WriteSecond, TypeOK, IInv, Apart, Unused, Open, Blank, Stored
<1>9. ASSUME NEW x \in Writers, SyncAll(x) PROVE Quiet
  BY <1>9 DEF SyncAll
<1>10. ASSUME NEW x \in Writers, SaveError(x) PROVE Quiet
  BY <1>10 DEF SaveError
<1>11. ASSUME NEW x \in Writers, Rename(x) PROVE Abstract!Next
  BY <1>11, RenameRefines
<1>12. ASSUME NEW x \in Writers, RenameError(x) PROVE Quiet
  BY <1>12 DEF RenameError
<1>13. ASSUME FlushDirectory PROVE Abstract!Next
  BY <1>13 DEF FlushDirectory, Abstract!Next, Abstract!Flush
<1>14. ASSUME PowerFailure PROVE Abstract!Next \/ Quiet
  <2>1. \A n \in synced : half'[n][1] = half[n][1]
    <3>1. PICK lost \in SUBSET ((Inodes \ synced) \X {1, 2}) :
             half' = [n \in Inodes |-> [k \in {1, 2} |->
                         IF <<n, k>> \in lost THEN None ELSE half[n][k]]]
      BY <1>14 DEF PowerFailure
    <3>2. \A n \in synced : <<n, 1>> \notin lost
      OBVIOUS
    <3>3. QED
      BY <3>1, <3>2 DEF TypeOK
  <2>2. Holds(disk)' = Holds(disk) /\ (path' = path => Holds(path)' = Holds(path))
    BY <1>14, <2>1 DEF PowerFailure, IInv, Stored
  <2>3. CASE path' = path
    BY <2>2, <2>3
  <2>4. CASE path' = disk
    BY <1>14, <2>2, <2>4 DEF PowerFailure, Abstract!Next, Abstract!PowerFailure
  <2>5. QED
    BY <1>14, <2>3, <2>4 DEF PowerFailure
<1>15. CASE UNCHANGED vars
  BY <1>15 DEF vars
<1>16. QED
  BY <1>1, <1>2, <1>3, <1>4, <1>5, <1>6, <1>7, <1>8, <1>9, <1>10, <1>11,
      <1>12, <1>13, <1>14, <1>15 DEF Next, Save

\* save_registry_vec is an atomic write: to its callers, calls that do not
\* overlap, their errors and power failures are steps of RegistrySpec.
THEOREM AtomicWhenSerialised == Spec /\ []Serialised => AtomicRegistry
<1>1. Spec /\ []Serialised => Abstract!Init /\ [][Abstract!Next]_<<Holds(path), Holds(disk)>>
  BY TypeCorrect, Invariance, InitRefines, StepRefines, PTL DEF Spec
<1>2. QED
  BY <1>1 DEF AtomicRegistry, Abstract!Spec
=============================================================================
