------------------------------ MODULE Packages ------------------------------
(***************************************************************************)
(* The package tools: bsdos-pkgd (build, inspect, verify, install) and     *)
(* jpk-manager (install, uninstall), run as processes that share an        *)
(* archive and jail roots, and lifecycled reading the descriptors of what  *)
(* is installed.                                                           *)
(*                                                                         *)
(* The tools use two archive formats: bsdos-pkgd a gzipped tar with a      *)
(* manifest of hashes, jpk-manager a header, a JSON manifest and a zstd    *)
(* payload; they install to different roots.  As the tools share nothing,  *)
(* only commands of one tool overlap.                                      *)
(* The contents of a file are the release it comes from.                   *)
(*                                                                         *)
(* External: the developer who edits the source directory, whoever repacks *)
(* an archive, jail(8), umount(8) and zfs(8).                              *)
(***************************************************************************)
EXTENDS Descriptor, FiniteSets

CONSTANTS
    Procs, Releases,
    DocOf,        \* DocOf[r]: jpk.toml of release r
    FilesOf,      \* FilesOf[r]: the files of its payload
    NoRel, Bad,   \* nothing there; bytes of no release
    MaxOps,       \* bound on commands
    MaxEvents     \* bound on crashes, failures, edits and repackings

Files == UNION {FilesOf[r] : r \in Releases}
AppOf(r) == Value(DocOf[r].id).name
Apps == {AppOf(r) : r \in Releases}

ASSUME PackagesAssumption ==
    /\ \A r \in Releases : /\ DocOf[r].id # None /\ FilesOf[r] # {}
                           /\ \A u, v \in DocOf[r].jail_name : u = v
    /\ NoRel \notin Releases /\ Bad \notin Releases /\ NoRel # Bad
    /\ MaxOps \in Nat /\ MaxEvents \in Nat

VARIABLES
    jpk,      \* the archive of bsdos-pkgd
    root,     \* root[t][a][f]: what tool t's jail root of a holds as f
    conf,     \* conf[a]: the release /etc/jail.conf.d/<a>.conf was written for
    proc,     \* proc[p]: the command p is executing
    out,      \* exit of the last command that ended
    limits,   \* the configurations lifecycled loaded, and of which releases
    torn,     \* apps whose upgrade or removal was cut off
    used

vars == <<jpk, root, conf, proc, out, limits, torn, used>>
disk == <<jpk, root, conf>>

-----------------------------------------------------------------------------
Tools == {"pkgd", "manager"}

Tracked == {"jpk.toml", "payload.tar", "build-info.txt"}
Members == Tracked \cup {"jpk.json", "manifest.json"}

\* An archive as a build writes it.  changed: the members somebody has replaced
\* since; listed: the members manifest.json has a hash of; fits: it parses, and
\* each of its hashes is that of the member it names.
Archive(toml, payload, whole) ==
    [toml |-> toml, payload |-> payload, whole |-> whole,
     changed |-> {}, listed |-> Tracked, fits |-> TRUE]
NoArchive == Archive(NoRel, NoRel, FALSE)

\* An "orphan" is what a jpk-manager that is gone has left at work: zstd and tar.
\* tool and app: the root the command writes to; seen: the archive it makes
\* or has read; left: files still to unpack; swapped: the archive it read is
\* not the one it verified; over: another command was at work on the same root
\* meanwhile; upgrade: there was a jail.conf when it began.
Running(cmd, tool, pc) ==
    [cmd |-> cmd, tool |-> tool, pc |-> pc, app |-> {}, seen |-> NoArchive,
     left |-> {}, swapped |-> FALSE, over |-> FALSE, upgrade |-> FALSE]
Idle == Running("none", "pkgd", "idle")

Empty == [f \in Files |-> NoRel]

Init ==
    /\ jpk = NoArchive
    /\ root = [t \in Tools |-> [a \in Apps |-> Empty]]
    /\ conf = [a \in Apps |-> NoRel]
    /\ proc = [p \in Procs |-> Idle]
    /\ out = [ok |-> TRUE, cmd |-> "none"]
    /\ limits = [rels |-> {}, read |-> TRUE, map |-> {}]
    /\ torn = {}
    /\ used = [ops |-> 0, events |-> 0]

Spend ==
    /\ used.events < MaxEvents
    /\ used' = [used EXCEPT !.events = @ + 1]

Command(p) ==
    /\ proc[p] = Idle
    /\ used.ops < MaxOps
    /\ used' = [used EXCEPT !.ops = @ + 1]

Start(p, c) ==
    /\ Command(p)
    /\ \A q \in Procs : proc[q] = Idle \/ proc[q].tool = c.tool
    /\ proc' = [proc EXCEPT ![p] = c]
    /\ UNCHANGED <<disk, out, limits, torn>>

Continue(p, next) == proc' = [proc EXCEPT ![p] = next]

Exit(p, ok) ==
    /\ proc' = [proc EXCEPT ![p] = Idle]
    /\ out' = [ok |-> ok, cmd |-> proc[p].cmd]

\* p touches the root of its application, or the archive it builds: it and
\* every other command at work there overlap.
Beside(p) == {q \in Procs \ {p} : /\ proc[q].tool = proc[p].tool
                                  /\ proc[q].app = proc[p].app
                                  /\ (proc[q].cmd = "build") = (proc[p].cmd = "build")}
Touch(p, next) ==
    proc' = [q \in Procs |->
                IF q = p THEN [next EXCEPT !.over = next # Idle /\ (@ \/ Beside(p) # {})]
                ELSE IF q \in Beside(p) THEN [proc[q] EXCEPT !.over = TRUE]
                ELSE proc[q]]

App(p) == Value(proc[p].app)
Contents(c) == IF "payload.tar" \in c.seen.changed THEN Bad ELSE c.seen.payload
Put(p, f, x) == root' = [root EXCEPT ![proc[p].tool][App(p)][f] = x]

-----------------------------------------------------------------------------
\* bsdos-pkgd build

BuildStart(p, r) ==
    Start(p, [Running("build", "pkgd", "descriptor") EXCEPT !.seen.toml = r])

\* Read and validate jpk.toml.
BuildDescriptor(p) ==
    /\ proc[p].pc = "descriptor"
    /\ IF Accepted(DocOf[proc[p].seen.toml])
       THEN Continue(p, [proc[p] EXCEPT !.pc = "payload"]) /\ UNCHANGED out
       ELSE Exit(p, FALSE)
    /\ UNCHANGED <<disk, limits, torn, used>>

\* build_payload_tar packs the directory as it is now: perhaps the developer
\* has gone on to another release.
BuildPayload(p, r) ==
    /\ proc[p].pc = "payload"
    /\ IF r = proc[p].seen.toml THEN UNCHANGED used ELSE Spend
    /\ Continue(p, [proc[p] EXCEPT !.pc = "create", !.seen.payload = r])
    /\ UNCHANGED <<disk, out, limits, torn>>

\* File::create truncates the archive that is there.
BuildCreate(p) ==
    /\ proc[p].pc = "create"
    /\ jpk' = NoArchive
    /\ Touch(p, [proc[p] EXCEPT !.pc = "finish"])
    /\ UNCHANGED <<root, conf, out, limits, torn, used>>

\* Five members, the manifest over three of them, then the end of the gzip
\* stream; until then the archive cannot be read, and perhaps not after it if
\* two builds wrote the same file.
BuildFinish(p, whole) ==
    /\ proc[p].pc = "finish"
    /\ ~whole => proc[p].over
    /\ jpk' = [proc[p].seen EXCEPT !.whole = whole]
    /\ Exit(p, TRUE)
    /\ UNCHANGED <<root, conf, limits, torn, used>>

-----------------------------------------------------------------------------
\* bsdos-pkgd inspect, verify, install

\* inspect parses jpk.toml and does not validate it.
Inspect(p) ==
    /\ Command(p)
    /\ out' = [ok |-> /\ jpk.whole /\ jpk.toml \in Releases
                      /\ from_toml_str(DocOf[jpk.toml]) # {},
               cmd |-> "inspect"]
    /\ UNCHANGED <<disk, proc, limits, torn>>

ManifestOnly(a) == a.whole   \* slip: hashes not compared

\* Only what the manifest lists is compared, and nothing vouches for the
\* manifest: a signature is mentioned if there is one, and not checked.
Verifies(a) == a.whole /\ a.fits

Verify(p) ==
    /\ Command(p)
    /\ out' = [ok |-> Verifies(jpk), cmd |-> "verify"]
    /\ UNCHANGED <<disk, proc, limits, torn>>

InstallStart(p) == Start(p, Running("install", "pkgd", "verify"))

InstallVerify(p) ==
    /\ proc[p].pc = "verify"
    /\ IF Verifies(jpk)
       THEN Continue(p, [proc[p] EXCEPT !.pc = "read", !.seen = jpk]) /\ UNCHANGED out
       ELSE Exit(p, FALSE)
    /\ UNCHANGED <<disk, limits, torn, used>>

\* The archive is opened and read again, and its descriptor validated.
InstallRead(p) ==
    /\ proc[p].tool = "pkgd" /\ proc[p].pc = "read"
    /\ IF jpk.whole /\ jpk.toml \in Releases /\ Accepted(DocOf[jpk.toml])
       THEN /\ Continue(p, [proc[p] EXCEPT
                    !.pc = "unpack", !.app = {AppOf(jpk.toml)}, !.seen = jpk,
                    !.swapped = jpk # proc[p].seen, !.left = FilesOf[jpk.payload]])
            /\ UNCHANGED out
       ELSE Exit(p, FALSE)
    /\ UNCHANGED <<disk, limits, torn, used>>

\* create_dir_all, then unpack over whatever is there, file by file.
Unpack(p, f) ==
    /\ proc[p].cmd \in {"install", "orphan"} /\ proc[p].pc = "unpack"
    /\ f \in proc[p].left
    /\ Put(p, f, Contents(proc[p]))
    /\ Touch(p, [proc[p] EXCEPT !.left = @ \ {f}])
    /\ UNCHANGED <<jpk, conf, out, limits, torn, used>>

InstallDone(p) ==
    /\ proc[p].cmd = "install" /\ proc[p].tool = "pkgd"
    /\ proc[p].pc = "unpack" /\ proc[p].left = {}
    /\ Exit(p, TRUE)
    /\ UNCHANGED <<disk, limits, torn, used>>

-----------------------------------------------------------------------------
\* jpk-manager

\* The package file holds release r; if it is not whole, its payload is cut.
ManagerInstall(p, r, whole) ==
    Start(p, [Running("install", "manager", "read") EXCEPT
                 !.seen = Archive(r, r, whole)])

validate_id(id) == id.len \in 1..MaxIdLen /\ id.plain

ConfFirst(p) ==      \* slip: jail.conf is written before the payload is unpacked
    LET r == proc[p].seen.toml IN
    /\ proc[p].tool = "manager" /\ proc[p].pc = "read"
    /\ Continue(p, [proc[p] EXCEPT
            !.pc = "unpack", !.app = {AppOf(r)}, !.left = FilesOf[r],
            !.upgrade = conf[AppOf(r)] # NoRel])
    /\ conf' = [conf EXCEPT ![AppOf(r)] = r]
    /\ UNCHANGED <<jpk, root, out, limits, torn, used>>

\* parse_jpk and validate_id; nothing tells how long the payload should be.
ManagerRead(p) ==
    LET r == proc[p].seen.toml IN
    /\ proc[p].tool = "manager" /\ proc[p].pc = "read"
    /\ IF validate_id(Value(DocOf[r].id))
       THEN /\ Continue(p, [proc[p] EXCEPT
                    !.pc = "unpack", !.app = {AppOf(r)}, !.left = FilesOf[r],
                    !.upgrade = conf[AppOf(r)] # NoRel])
            /\ UNCHANGED out
       ELSE Exit(p, FALSE)
    /\ UNCHANGED <<disk, limits, torn, used>>

\* p ends in the middle of an upgrade, or of one of several overlapping
\* commands.
Breaks(p) ==
    torn' = IF proc[p].upgrade \/ proc[p].over THEN torn \cup proc[p].app ELSE torn

\* zstd reaches the end of a cut payload, or zstd or tar fails: what was
\* unpacked stays, jail.conf is not written.
UnpackCut(p) ==
    /\ proc[p].cmd = "install" /\ proc[p].pc = "unpack"
    /\ proc[p].tool = "manager" /\ ~proc[p].seen.whole
    /\ proc[p].left # {}
    /\ Exit(p, FALSE)
    /\ Breaks(p)
    /\ UNCHANGED <<disk, limits, used>>

\* generate_jail_conf, written over the one that is there.
WriteConf(p) ==
    /\ proc[p].cmd = "install" /\ proc[p].tool = "manager"
    /\ proc[p].pc = "unpack" /\ proc[p].left = {} /\ proc[p].seen.whole
    /\ conf' = [conf EXCEPT ![App(p)] = proc[p].seen.toml]
    /\ torn' = IF proc[p].over THEN torn \cup proc[p].app ELSE torn \ proc[p].app
    /\ Touch(p, Idle)
    /\ out' = [ok |-> TRUE, cmd |-> "install"]
    /\ UNCHANGED <<jpk, root, limits, used>>

\* validate_id; then jail -r and umount, whose failure is ignored.
ManagerUninstall(p, a) ==
    /\ \E r \in Releases : AppOf(r) = a /\ validate_id(Value(DocOf[r].id))
    /\ Start(p, [Running("uninstall", "manager", "destroy") EXCEPT
                    !.app = {a}, !.upgrade = TRUE])

\* zfs destroy: it fails, which is only reported, or the dataset under the
\* root and with it the files are gone.
Destroy(p, gone) ==
    /\ proc[p].pc = "destroy"
    /\ root' = IF gone THEN [root EXCEPT !.manager[App(p)] = Empty] ELSE root
    /\ Touch(p, [proc[p] EXCEPT !.pc = "conf"])
    /\ UNCHANGED <<jpk, conf, out, limits, torn, used>>

KeepConf(p) ==      \* slip: jail.conf is forgotten
    /\ proc[p].pc = "conf"
    /\ Touch(p, [proc[p] EXCEPT !.pc = "remove"])
    /\ UNCHANGED <<disk, out, limits, torn, used>>

RemoveConf(p) ==
    /\ proc[p].pc = "conf"
    /\ conf' = [conf EXCEPT ![App(p)] = NoRel]
    /\ Touch(p, [proc[p] EXCEPT !.pc = "remove"])
    /\ UNCHANGED <<jpk, root, out, limits, torn, used>>

\* remove_dir_all, file by file.
RemoveFile(p, f) ==
    /\ proc[p].pc = "remove" /\ root.manager[App(p)][f] # NoRel
    /\ Put(p, f, NoRel)
    /\ Touch(p, proc[p])
    /\ UNCHANGED <<jpk, conf, out, limits, torn, used>>

UninstallDone(p) ==
    /\ proc[p].pc = "remove" /\ root.manager[App(p)] = Empty
    /\ Exit(p, TRUE)
    /\ UNCHANGED <<disk, limits, torn, used>>

-----------------------------------------------------------------------------
\* A read, a write, a spawn or a removal fails, or the process is killed: no
\* tool undoes what it has done.

Fail(p) ==
    /\ proc[p] # Idle
    /\ Spend
    /\ Exit(p, FALSE)
    /\ jpk' = IF proc[p].pc = "finish" THEN NoArchive ELSE jpk
    /\ Breaks(p)
    /\ UNCHANGED <<root, conf, limits>>

Crash(p) ==
    /\ proc[p] # Idle
    /\ Spend
    /\ Exit(p, FALSE)
    /\ Breaks(p)
    /\ UNCHANGED <<disk, limits>>

\* jpk-manager is killed, or fails to write to zstd, while zstd and tar unpack:
\* nothing stops them, and they go on with what they have been given.
Orphan(p) ==
    /\ proc[p].cmd = "install" /\ proc[p].tool = "manager" /\ proc[p].pc = "unpack"
    /\ Spend
    /\ Continue(p, [proc[p] EXCEPT !.cmd = "orphan"])
    /\ out' = [ok |-> FALSE, cmd |-> "install"]
    /\ UNCHANGED <<disk, limits, torn>>

\* They end, whether or not they were given everything.
OrphanEnds(p) ==
    /\ proc[p].cmd = "orphan"
    /\ Continue(p, Idle)
    /\ Breaks(p)
    /\ UNCHANGED <<disk, out, limits, used>>

\* The world around the tools.

\* Somebody unpacks the archive, replaces a member and packs it again: the
\* descriptor by that of release r, or by one that does not parse, ...
Repack(m, r) ==
    /\ jpk.whole /\ m \notin jpk.changed /\ Spend
    /\ (r # jpk.toml) = (m = "jpk.toml")
    /\ jpk' = [jpk EXCEPT !.changed = @ \cup {m}, !.toml = r,
                          !.fits = @ /\ m \notin jpk.listed]
    /\ UNCHANGED <<root, conf, proc, out, limits, torn>>

\* ... or the manifest by one with other entries.
RepackManifest(listed, fits) ==
    /\ jpk.whole /\ "manifest.json" \notin jpk.changed /\ Spend
    /\ jpk' = [jpk EXCEPT !.changed = @ \cup {"manifest.json"},
                          !.listed = listed, !.fits = fits]
    /\ UNCHANGED <<root, conf, proc, out, limits, torn>>

\* lifecycled starts: zpids.conf lists one version of some applications, and is
\* read, or it is there and cannot be: then no configuration is in force, not
\* even a built-in one.  lifecycled shares nothing with the commands, so it is
\* enough to start it before them.
LoadDescriptors(rels, read) ==
    /\ used.ops = 0
    /\ used' = [used EXCEPT !.ops = MaxOps]
    /\ \A r1, r2 \in rels : AppOf(r1) = AppOf(r2) => r1 = r2
    /\ \E m \in IF read THEN load_descriptors({DocOf[r] : r \in rels}) ELSE {{}} :
          limits' = [rels |-> rels, read |-> read, map |-> m]
    /\ UNCHANGED <<disk, proc, out, torn>>

-----------------------------------------------------------------------------
Pkgd(p) ==
    \/ \E r \in Releases : BuildStart(p, r) \/ BuildPayload(p, r)
    \/ BuildDescriptor(p)
    \/ BuildCreate(p) \/ \E whole \in BOOLEAN : BuildFinish(p, whole)
    \/ Inspect(p) \/ Verify(p)
    \/ InstallStart(p) \/ InstallVerify(p) \/ InstallRead(p) \/ InstallDone(p)

Manager(p) ==
    \/ \E r \in Releases, whole \in BOOLEAN : ManagerInstall(p, r, whole)
    \/ ManagerRead(p) \/ UnpackCut(p) \/ WriteConf(p)
    \/ Orphan(p) \/ OrphanEnds(p)
    \/ \E a \in Apps : ManagerUninstall(p, a)
    \/ \E gone \in BOOLEAN : Destroy(p, gone)
    \/ RemoveConf(p) \/ UninstallDone(p)

World ==
    \/ \E m \in Members \ {"manifest.json"}, r \in Releases \cup {Bad} : Repack(m, r)
    \/ \E listed \in SUBSET Tracked, fits \in BOOLEAN : RepackManifest(listed, fits)
    \/ \E rels \in SUBSET Releases, read \in BOOLEAN : LoadDescriptors(rels, read)

Next ==
    \/ \E p \in Procs :
          \/ Pkgd(p) \/ Manager(p) \/ Fail(p) \/ Crash(p)
          \/ \E f \in Files : Unpack(p, f) \/ RemoveFile(p, f)
    \/ World

Spec == Init /\ [][Next]_vars

-----------------------------------------------------------------------------
\* Type correctness.
Rel == Releases \cup {NoRel, Bad}
Archives == [toml : Rel, payload : Rel, whole : BOOLEAN, changed : SUBSET Members,
             listed : SUBSET Tracked, fits : BOOLEAN]
Commands ==
    [cmd : {"none", "build", "install", "uninstall", "orphan"}, tool : Tools,
     pc : {"idle", "descriptor", "payload", "create", "finish", "verify", "read",
           "unpack", "destroy", "conf", "remove"},
     app : SUBSET Apps, seen : Archives, left : SUBSET Files,
     swapped : BOOLEAN, over : BOOLEAN, upgrade : BOOLEAN]

TypeOK ==
    /\ jpk \in Archives
    /\ root \in [Tools -> [Apps -> [Files -> Rel]]]
    /\ conf \in [Apps -> Rel]
    /\ proc \in [Procs -> Commands]
    /\ torn \subseteq Apps
    /\ out.ok \in BOOLEAN
    /\ used \in [ops : 0..MaxOps, events : 0..MaxEvents]

\* A step that ends a command with success, on a root it had to itself, ends
\* one that has done its work.
DoneStep ==
    \A p \in Procs :
        LET c == proc[p] IN
        c.app # {} /\ c.cmd # "orphan" /\ proc'[p] = Idle /\ out'.ok /\ ~c.over =>
            LET a == App(p) IN
            IF c.cmd = "install"
            THEN \A f \in FilesOf[c.seen.payload] : root'[c.tool][a][f] = Contents(c)
            ELSE root'.manager[a] = Empty /\ conf'[a] = NoRel

\* A command that exits with success has done its work, whatever crashed or
\* failed before it, as long as no other command, nor what a killed one left at
\* work, was at the same root: after an install every file of the payload is there with the
\* payload's contents (files of an older release may lie beside them); after
\* an uninstall neither files nor jail.conf are left.
SuccessMeansDone == [][DoneStep]_vars

\* What an install of bsdos-pkgd unpacks comes from a complete archive, never
\* from one a build was still writing or died in, with an accepted descriptor;
\* and descriptor and payload are those of the build, unless the archive was
\* replaced between the verification and the second read of the same install,
\* or its manifest was rewritten along with them, which run_verify cannot see.
VerifiedPayload ==
    \A p \in Procs :
        LET c == proc[p] IN
        c.tool = "pkgd" /\ c.pc = "unpack" =>
            /\ c.seen.whole /\ Accepted(DocOf[c.seen.toml])
            /\ {"jpk.toml", "payload.tar"} \cap c.seen.changed # {} =>
                  c.swapped \/ "manifest.json" \in c.seen.changed

\* An install of bsdos-pkgd, of an archive that stays as it is meanwhile,
\* unpacks the payload a build made: the hash of every file, and a signature
\* over descriptor and payload, stand in front of it
\* (docs/specs/SPEC_jpk_descriptor_v1.md:296-299).
PayloadAsBuilt ==
    \A p \in Procs :
        LET c == proc[p] IN
        c.tool = "pkgd" /\ c.pc = "unpack" /\ ~c.swapped => Contents(c) # Bad

\* A jail.conf names a release whose files are all in the jail root: it is
\* written last and removed before the files, so neither a crash nor a
\* failure of a first install or at any later time breaks this; only an
\* upgrade or a removal that was cut off, or overlapping commands, do.
ConfMeansFiles ==
    \A a \in Apps :
        conf[a] # NoRel /\ a \notin torn /\ (\A p \in Procs : proc[p].app # {a}) =>
            \A f \in FilesOf[conf[a]] : root.manager[a][f] = conf[a]

\* The configuration lifecycled loads for a jail, and with it the priority the
\* jail is evicted by, comes from the descriptor of the application that names
\* the jail, unless that descriptor leaves out what lifecycled requires or
\* states more than 255 percent of CPU, another application claims the jail, or
\* zpids.conf cannot be read; the built-in configurations are loaded only if no
\* descriptor could be read, or if one states the same.  The memory and CPU
\* limits are part of the configuration and go no further: lifecycled prints
\* them (main.rs:546-557).
ConfigsLoaded ==
    /\ \A r \in limits.rels :
          \/ \E c \in limits.map : {c} = Configs({DocOf[r]})
          \/ ~limits.read \/ parse_descriptor(DocOf[r]) = {}
          \/ \E r2 \in limits.rels \ {r} : DocOf[r2].jail_name = DocOf[r].jail_name
    /\ \A c \in limits.map :
          c \in SquirrelDefaults =>
              \/ \A r \in limits.rels : parse_descriptor(DocOf[r]) = {}
              \/ \E r \in limits.rels : {c} = Configs({DocOf[r]})
    /\ \A c, d \in limits.map : c.jail_name = d.jail_name => c = d

=============================================================================
