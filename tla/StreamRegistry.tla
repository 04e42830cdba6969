--------------------------- MODULE StreamRegistry ---------------------------
(***************************************************************************)
(* The registry file /var/db/bsdos/streams.capnp, as load_registry_vec,    *)
(* save_registry_vec, add_to_registry and remove_from_registry of          *)
(* bsdos-core/src/stream_manager.rs read and write it: load the whole      *)
(* file, change the copy, write it to <path>.tmp, fsync, rename.           *)
(*                                                                         *)
(* A writer is one call of add_to_registry or remove_from_registry.        *)
(* start_stream calls the first under the mutex of the stream map,         *)
(* stop_stream the second without it, so calls overlap.                    *)
(*                                                                         *)
(* A path names an inode; File::create on an existing path truncates its   *)
(* inode; a message is written in more than one write, so an inode has two *)
(* halves.  A power failure loses what was not synced and may undo the     *)
(* last rename; the directory is never synced.                             *)
(***************************************************************************)
EXTENDS Naturals, FiniteSets

CONSTANTS
    Apps, Configs, AppOf,
    Writers,       \* calls that may overlap
    Inodes,
    None,          \* no inode; nothing written
    MaxCalls,      \* bound on calls
    MaxFailures    \* bound on power failures

ASSUME RegistryAssumption ==
    /\ AppOf \in [Configs -> Apps]
    /\ None \notin Inodes \cup Configs \cup Apps
    /\ \A v \in SUBSET Configs : None # v
    /\ MaxCalls \in Nat /\ MaxFailures \in Nat

VARIABLES
    half,     \* half[n][k]: the value whose k-th half inode n holds
    synced,   \* inodes whose contents are on the disk
    path,     \* inode of the registry
    tmp,      \* inode of the registry's .tmp
    disk,     \* inode the registry had when the directory was last on disk
    w,        \* w[x]: the call x is executing
    used

vars == <<half, synced, path, tmp, disk, w, used>>

-----------------------------------------------------------------------------
Values == SUBSET Configs
Blank == [k \in {1, 2} |-> None]

Without(r, a) == {c \in r : AppOf[c] # a}
PushOnly(r, cfg) == r \cup {cfg}      \* slip: push without retain
Upsert(r, cfg) == Without(r, AppOf[cfg]) \cup {cfg}

PCs == {"idle", "load", "create", "first", "second", "sync", "rename"}

\* add: the config to add (None for a removal); rem: the stream to remove.
Call(pc, add, rem, val, fd) ==
    [pc |-> pc, add |-> add, rem |-> rem, val |-> val, fd |-> fd]
Idle == Call("idle", None, None, {}, None)

Goto(x, pc) == w' = [w EXCEPT ![x] = Call(pc, @.add, @.rem, @.val, @.fd)]
Return(x) == w' = [w EXCEPT ![x] = Idle]

\* capnp accepts a file that is one whole message, and nothing else.
Whole(n) == half[n][1] # None /\ half[n][1] = half[n][2]
Holds(n) == IF n = None THEN {} ELSE half[n][1]

\* A file that does not exist is an empty registry.
Readable == path # None => Whole(path)

Open == {w[x].fd : x \in Writers}

Unused(n) == n \notin {path, tmp, disk} \cup Open

-----------------------------------------------------------------------------
Init ==
    /\ half = [n \in Inodes |-> Blank]
    /\ synced = {}
    /\ path = None /\ tmp = None /\ disk = None
    /\ w = [x \in Writers |-> Idle]
    /\ used = [calls |-> 0, failures |-> 0]

SpendCall ==
    /\ used.calls < MaxCalls
    /\ used' = [used EXCEPT !.calls = @ + 1]

\* start_stream adds under the mutex of the stream map: one at a time.
CallAdd(x, cfg) ==
    /\ w[x] = Idle
    /\ \A y \in Writers : w[y].add = None
    /\ SpendCall
    /\ w' = [w EXCEPT ![x] = Call("load", cfg, None, {}, None)]
    /\ UNCHANGED <<half, synced, path, tmp, disk>>

\* stop_stream removes without the mutex.
CallRemove(x, a) ==
    /\ w[x] = Idle
    /\ SpendCall
    /\ w' = [w EXCEPT ![x] = Call("load", None, a, {}, None)]
    /\ UNCHANGED <<half, synced, path, tmp, disk>>

\* add_to_registry: load, retain, push.
LoadAdd(x) ==
    /\ w[x].pc = "load" /\ w[x].add # None
    /\ Readable
    /\ w' = [w EXCEPT ![x] = Call("create", @.add, None,
                                  Upsert(Holds(path), @.add), None)]
    /\ UNCHANGED <<half, synced, path, tmp, disk, used>>

\* remove_from_registry: load, retain; the stream was there.
LoadRemove(x) ==
    /\ w[x].pc = "load" /\ w[x].rem # None
    /\ Readable
    /\ Without(Holds(path), w[x].rem) # Holds(path)
    /\ w' = [w EXCEPT ![x] = Call("create", None, @.rem,
                                  Without(Holds(path), @.rem), None)]
    /\ UNCHANGED <<half, synced, path, tmp, disk, used>>

\* The file cannot be parsed, or the stream to remove is not in it.
LoadError(x) ==
    /\ w[x].pc = "load"
    /\ \/ ~Readable
       \/ w[x].rem # None /\ Without(Holds(path), w[x].rem) = Holds(path)
    /\ Return(x)
    /\ UNCHANGED <<half, synced, path, tmp, disk, used>>

CreateInPlace(x) ==      \* slip: the registry itself is truncated and rewritten
    /\ w[x].pc = "create"
    /\ \E n \in Inodes :
          /\ IF path = None THEN Unused(n) ELSE n = path
          /\ half' = [half EXCEPT ![n] = Blank]
          /\ synced' = synced \ {n}
          /\ tmp' = n
          /\ w' = [w EXCEPT ![x] = Call("first", @.add, @.rem, @.val, n)]
    /\ UNCHANGED <<path, disk, used>>

\* File::create: a new inode, or the old one truncated.
Create(x) ==
    /\ w[x].pc = "create"
    /\ \E n \in Inodes :
          /\ IF tmp = None THEN Unused(n) ELSE n = tmp
          /\ half' = [half EXCEPT ![n] = Blank]
          /\ synced' = synced \ {n}
          /\ tmp' = n
          /\ w' = [w EXCEPT ![x] = Call("first", @.add, @.rem, @.val, n)]
    /\ UNCHANGED <<path, disk, used>>

WriteFirst(x) ==
    /\ w[x].pc = "first"
    /\ half' = [half EXCEPT ![w[x].fd][1] = w[x].val]
    /\ synced' = synced \ {w[x].fd}
    /\ Goto(x, "second")
    /\ UNCHANGED <<path, tmp, disk, used>>

WriteSecond(x) ==
    /\ w[x].pc = "second"
    /\ half' = [half EXCEPT ![w[x].fd][2] = w[x].val]
    /\ synced' = synced \ {w[x].fd}
    /\ Goto(x, "sync")
    /\ UNCHANGED <<path, tmp, disk, used>>

SyncSkipped(x) ==      \* slip: no fsync before the rename
    /\ w[x].pc = "sync"
    /\ Goto(x, "rename")
    /\ UNCHANGED <<half, synced, path, tmp, disk, used>>

SyncAll(x) ==
    /\ w[x].pc = "sync"
    /\ synced' = synced \cup {w[x].fd}
    /\ Goto(x, "rename")
    /\ UNCHANGED <<half, path, tmp, disk, used>>

\* mkdir, create, write or fsync fails; the .tmp file stays as it is.
SaveError(x) ==
    /\ w[x].pc \in {"create", "first", "second", "sync"}
    /\ Return(x)
    /\ UNCHANGED <<half, synced, path, tmp, disk, used>>

\* rename moves whatever the .tmp path names by now.
Rename(x) ==
    /\ w[x].pc = "rename"
    /\ tmp # None
    /\ path' = tmp
    /\ tmp' = None
    /\ Return(x)
    /\ UNCHANGED <<half, synced, disk, used>>

\* Another call has renamed the .tmp file away, or rename fails.
RenameError(x) ==
    /\ w[x].pc = "rename"
    /\ Return(x)
    /\ UNCHANGED <<half, synced, path, tmp, disk, used>>

-----------------------------------------------------------------------------
(* The file system. *)

FlushDirectory ==
    /\ disk # path
    /\ disk' = path
    /\ UNCHANGED <<half, synced, path, tmp, w, used>>

\* Unsynced halves may be lost, and the rename since the last flush undone.
PowerFailure ==
    /\ used.failures < MaxFailures
    /\ used' = [used EXCEPT !.failures = @ + 1]
    /\ \E lost \in SUBSET ((Inodes \ synced) \X {1, 2}) :
          half' = [n \in Inodes |-> [k \in {1, 2} |->
                      IF <<n, k>> \in lost THEN None ELSE half[n][k]]]
    /\ \/ UNCHANGED <<path, tmp>>
       \/ path' = disk /\ tmp' = IF disk # path THEN path ELSE tmp
    /\ w' = [x \in Writers |-> Idle]
    /\ UNCHANGED <<synced, disk>>

-----------------------------------------------------------------------------
Save(x) ==
    \/ Create(x) \/ WriteFirst(x) \/ WriteSecond(x) \/ SyncAll(x)
    \/ Rename(x) \/ SaveError(x) \/ RenameError(x)

Next ==
    \/ \E x \in Writers :
          \/ \E cfg \in Configs : CallAdd(x, cfg)
          \/ \E a \in Apps : CallRemove(x, a)
          \/ LoadAdd(x) \/ LoadRemove(x) \/ LoadError(x)
          \/ Save(x)
    \/ FlushDirectory \/ PowerFailure

Spec == Init /\ [][Next]_vars

-----------------------------------------------------------------------------
(* Properties. *)

\* Every variable has its type; a call that writes has a file open, and the
\* registry and its .tmp are different files.
TypeOK ==
    /\ half \in [Inodes -> [{1, 2} -> {None} \cup Values]]
    /\ synced \subseteq Inodes
    /\ {path, tmp, disk} \subseteq Inodes \cup {None}
    /\ w \in [Writers -> [pc : PCs, add : Configs \cup {None}, rem : Apps \cup {None},
                          val : Values, fd : Inodes \cup {None}]]
    /\ used \in [calls : 0..MaxCalls, failures : 0..MaxFailures]
    /\ \A x \in Writers : w[x].fd # None <=>
           w[x].pc \in {"first", "second", "sync", "rename"}
    /\ tmp # None => tmp # path

\* The registry a boot would read is always one whole message: neither an
\* error on the way nor a power failure leaves a torn or an empty file, in
\* the path or in what the disk may fall back to.
AlwaysReadable == Readable /\ (disk # None => Whole(disk) /\ disk \in synced)

\* The file as its callers see it.
Abstract == INSTANCE RegistrySpec
            WITH reg <- Holds(path), stable <- Holds(disk)

\* save_registry_vec is an "atomic write": calls, failures of calls and power
\* failures amount to the steps of RegistrySpec.
AtomicRegistry == Abstract!Spec

\* "atomic rewrite of /var/db/bsdos/streams.capnp": the registry file is a
\* whole message whatever calls overlap.
NeverTorn == Readable
=============================================================================
