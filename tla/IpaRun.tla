------------------------------- MODULE IpaRun -------------------------------
(***************************************************************************)
(* bsdos-run: run_ipa of bsdos-run/src/main.rs with the steps it calls in  *)
(* ipa.rs, plist.rs, mobileprovision.rs, entitlements.rs, frameworks.rs,   *)
(* jpk.rs, mldr.rs and launch.rs, in the order of the code.                *)
(*                                                                         *)
(* The command is run up to MaxRuns times, one after the other, on the     *)
(* archives of Ipas.  An archive is what the steps find in it: whether it  *)
(* is a readable zip with safe names, and the *.app directories under      *)
(* Payload, each with its files, its Info.plist and profile (the document  *)
(* and the bytes written for it), its Frameworks directory and its Mach-O  *)
(* file.  A run may be killed between any two steps, and an application    *)
(* that replaced one may exit at any time, beside a later run or not.      *)
(* --jail only prints and is left out, and so are the application's        *)
(* arguments.                                                              *)
(***************************************************************************)
EXTENDS PropertyList, MachO, Descriptor

CONSTANTS
    Ipas,       \* the archives
    Trimmed,    \* identifier -> what sanitise_app_id leaves of it
    HostVars,   \* the <<name, value>> entries a caller's environment may hold
    MaxRuns     \* runs of the command

\* A bundle has one Info.plist or none, Trimmed knows the identifiers, and
\* the headers of a Mach-O file count what is in it.
ASSUME IpaRunAssumption ==
    /\ MaxRuns \in Nat
    /\ \A raw \in DOMAIN Trimmed : Trimmed[raw].len \in Nat
    /\ \A ipa \in Ipas : \A a \in ipa.apps :
          /\ \A f, g \in a.plist : f = g
          /\ \A f \in a.plist : \A b \in parse_info_plist_bytes(f).info :
                b.bundle_identifier \in DOMAIN Trimmed
          /\ Counted(a.macho)

Runs == 1..MaxRuns

\* An environment is the set of its entries: nothing keeps a name from having
\* two.  The value "raw" stands for one that is not Unicode.
Environments == SUBSET HostVars

VARIABLES
    pc,         \* the step run_ipa is about to take; "idle" between runs
    n,          \* the current or last run
    args,       \* its archive and flags
    app,        \* Option: the bundle directory found
    binary,     \* the file to execute
    bundle,     \* Option<BundleInfo>
    policy,     \* Option<JailNetwork>: "inherit" or "disable"
    embedded,   \* names of the images in Frameworks/
    report,     \* the conclusion of print_dep_resolution
    out,        \* the --emit-jpk file
    child,      \* Option: what the process that replaced this one was given
    dirs,       \* runs whose temporary directory is on disk
    ended       \* run -> how it ended: "exec" while the application it became
                \* is running, "exited" after that

vars == <<pc, n, args, app, binary, bundle, policy, embedded, report, out, child,
          dirs, ended>>
locals == <<args, app, binary, bundle, policy, embedded, report>>

NoFile == [state |-> "absent", doc |-> {}]
Torn == [state |-> "torn", doc |-> {}]
File(doc) == [state |-> "written", doc |-> {doc}]

Init ==
    /\ pc = "idle" /\ n = 0 /\ args = None
    /\ app = None /\ binary = "" /\ bundle = None /\ policy = None
    /\ embedded = {} /\ report = ""
    /\ out = NoFile /\ child = None /\ dirs = {} /\ ended = [i \in Runs |-> ""]

-----------------------------------------------------------------------------
\* entitlements.rs and jpk.rs

policy_from_bundle(b) ==
    IF b.network_client \/ b.network_server THEN "inherit" ELSE "disable"

\* The profile, when there is one, decides alone.
policy_from_entitlements(b, provision) ==
    IF provision = None THEN policy_from_bundle(b)
    ELSE IF \E e \in provision : e.network THEN "inherit" ELSE "disable"

jpk_network(mode) == IF mode = "inherit" THEN "inet" ELSE "none"

\* slip: an identifier without a dot keeps none
NoPrefix(raw) == [name |-> raw, len |-> Trimmed[raw].len, plain |-> TRUE,
                  dotted |-> Trimmed[raw].dotted]

\* Lower case, '-' for every other character, separators trimmed; Trimmed
\* gives the length and last label that leaves and whether a dot is in it.
sanitise_app_id(raw) ==
    LET s == Trimmed[raw]
    IN  IF s.len = 0
        THEN [name |-> "org.bsdos.unknown-ipa", len |-> 21, plain |-> TRUE, dotted |-> TRUE]
        ELSE [name |-> raw, len |-> IF s.dotted THEN s.len ELSE s.len + 10,
              plain |-> TRUE, dotted |-> TRUE]

derive_jail_name(raw) ==
    IF Trimmed[raw].len = 0 THEN "app_unknownipa"
    ELSE IF Trimmed[raw].label = "" THEN "appIpa" ELSE Trimmed[raw].label

\* The document written, as Descriptor's readers see it: it has no limits.
ipa_to_jpk_descriptor(b, mode) ==
    [schema_version |-> Some("1.0"), id |-> Some(sanitise_app_id(b.bundle_identifier)),
     version |-> Some(<<TRUE, TRUE, TRUE>>), named |-> TRUE,
     arch |-> Some({"aarch64", "amd64"}), type |-> Some("jail"),
     jail_name |-> Some(derive_jail_name(b.bundle_identifier)),
     entrypoint |-> Some(b.bundle_executable),
     needs_wayland |-> Some(TRUE), needs_input |-> Some(TRUE), needs_gpu |-> Some(FALSE),
     network |-> Some(jpk_network(mode)), filesystem |-> Some("ro"),
     max_memory_mb |-> None, max_cpu_percent |-> None, max_disk_mb |-> None]

-----------------------------------------------------------------------------
\* launch.rs: where the dynamic loader looks, "bundle" and "Frameworks" being
\* directories of the extracted tree

Names(env) == {e[1] : e \in env}

RootVars == {"__mldr_DYLD_ROOT_PATH", "DYLD_ROOT_PATH"}
SearchVars == {"DYLD_FRAMEWORK_PATH", "DYLD_LIBRARY_PATH",
               "DYLD_FALLBACK_FRAMEWORK_PATH", "DYLD_FALLBACK_LIBRARY_PATH"}

build_dyld_env(a, images) ==
    {<<v, "bundle">> : v \in RootVars}
    \cup (IF images # {} \/ a.frameworks.state # "missing"
          THEN {<<v, "Frameworks">> : v \in SearchVars} ELSE {})

\* slip: what the caller has set is not skipped
AppendOnly(inherited, dyld_env) == inherited \cup dyld_env

merge_env(inherited, dyld_env) ==
    {e \in inherited : e[1] \notin Names(dyld_env)} \cup dyld_env

\* std::env::vars panics at an entry that is not Unicode.
vars_panics(inherited) == \E e \in inherited : e[2] = "raw"

-----------------------------------------------------------------------------
\* The steps

Step(from, to) == pc = from /\ pc' = to /\ UNCHANGED <<n, child, ended>>

\* run_ipa returns: TempDir is dropped and removes the directory, if the run
\* had made it.
End(how) ==
    /\ pc' = "idle" /\ ended' = [ended EXCEPT ![n] = how]
    /\ dirs' = dirs \ {n}
    /\ UNCHANGED <<n, args, app, binary, bundle, policy, embedded, child>>

Fail == End("error") /\ UNCHANGED <<report, out>>

Run(ipa, dry_run, launch, emit_jpk) ==
    /\ pc = "idle" /\ n < MaxRuns
    /\ pc' = "check" /\ n' = n + 1
    /\ args' = Some([ipa |-> ipa, dry_run |-> dry_run, launch |-> launch, emit_jpk |-> emit_jpk])
    /\ app' = None /\ binary' = "" /\ bundle' = None /\ policy' = None
    /\ embedded' = {} /\ report' = ""
    /\ child' = None
    /\ UNCHANGED <<out, dirs, ended>>

Arg == Value(args)
App == Value(app)

check_ipa ==
    /\ pc = "check"
    /\ IF Arg.ipa.zip = "no zip" THEN Fail
       ELSE Step("check", "tempdir") /\ UNCHANGED <<locals, out, dirs>>

\* TempDir::new, which can fail.
extract_ipa ==
    \/ Step("tempdir", "unpack") /\ dirs' = dirs \cup {n} /\ UNCHANGED <<locals, out>>
    \/ pc = "tempdir" /\ Fail

\* The entries: a broken archive, an unsafe name or a full disk ends the run.
Unpack ==
    \/ Step("unpack", "find") /\ Arg.ipa.zip = "ok" /\ UNCHANGED <<locals, out, dirs>>
    \/ pc = "unpack" /\ Fail

\* The first *.app of the directory, in no particular order; its executable
\* is the one Info.plist names, or else the name of the directory.
find_binary ==
    /\ pc = "find"
    /\ \/ Arg.ipa.apps = {} /\ Fail
       \/ \E a \in Arg.ipa.apps :
            LET named == UNION {read_bundle_executable(f) : f \in a.plist}
                exec == OrElse(named, a.stem)
            IN  IF exec \in a.files \cup {""}       \* joined with "" it is the directory
                THEN /\ Step("find", "plist")
                     /\ app' = Some(a) /\ binary' = exec
                     /\ UNCHANGED <<args, bundle, policy, embedded, report, out, dirs>>
                ELSE Fail

read_info_plist ==
    LET parsed == {parse_info_plist_bytes(f) : f \in App.plist}
    IN  /\ pc = "plist"
        /\ IF \E r \in parsed : r.err = ""
           THEN /\ Step("plist", "policy")
                /\ bundle' = UNION {r.info : r \in parsed}
                /\ UNCHANGED <<args, app, binary, policy, embedded, report, out, dirs>>
           ELSE Fail

\* A profile that cannot be read counts as none.
DerivePolicy ==
    /\ Step("policy", "frameworks")
    /\ policy' = Some(policy_from_entitlements(Value(bundle),
                          UNION {read_mobileprovision(p) : p \in App.profile}))
    /\ UNCHANGED <<args, app, binary, bundle, embedded, report, out, dirs>>

DiscoverFrameworks ==
    LET found == discover_frameworks(App.frameworks)
    IN  /\ pc = "frameworks"
        /\ IF found = None THEN Fail
           ELSE /\ Step("frameworks", IF Arg.emit_jpk THEN "emit" ELSE "mldr")
                /\ embedded' = Value(found)
                /\ UNCHANGED <<args, app, binary, bundle, policy, report, out, dirs>>

\* std::fs::write: the file is truncated, then filled; both can fail.
EmitOpen ==
    \/ Step("emit", "write") /\ out' = Torn /\ UNCHANGED <<locals, dirs>>
    \/ pc = "emit" /\ Fail

EmitWrite ==
    /\ pc = "write"
    /\ \/ /\ End("ok") /\ UNCHANGED report
          /\ out' = File(ipa_to_jpk_descriptor(Value(bundle), Value(policy)))
       \/ Fail

find_mldr ==
    \/ /\ Step("mldr", IF Arg.dry_run THEN "dry_run" ELSE IF Arg.launch THEN "launch" ELSE "exec")
       /\ UNCHANGED <<locals, out, dirs>>
    \/ pc = "mldr" /\ Fail

\* Print the plan; the dependencies only if there is something to resolve
\* them against.
Resolution(machotool) ==
    IF embedded = {} THEN "none" ELSE print_dep_resolution(App.macho, embedded, machotool)

DryRun(machotool) ==
    /\ pc = "dry_run" /\ End("ok")
    /\ report' = Resolution(machotool) /\ UNCHANGED out

\* --launch: the report is printed, whatever it says, before the exec.
Launch(machotool) ==
    /\ Step("launch", "exec")
    /\ report' = Resolution(machotool)
    /\ UNCHANGED <<args, app, binary, bundle, policy, embedded, out, dirs>>

SelfContainedLaunch == Arg.launch /\ embedded # {}

\* slip: the directory is dropped before the exec
ExecDropped(inherited) ==
    /\ pc = "exec" /\ pc' = "idle" /\ ended' = [ended EXCEPT ![n] = "exec"]
    /\ child' = Some([file |-> binary, given |-> inherited, env |-> inherited])
    /\ dirs' = dirs \ {n} /\ UNCHANGED <<n, locals, out>>

\* exec_self_contained, if --launch found images to bring along, else
\* exec_mldr: the process is replaced, and nothing is dropped.
Exec(inherited) ==
    /\ pc = "exec" /\ (SelfContainedLaunch => ~vars_panics(inherited))
    /\ pc' = "idle" /\ ended' = [ended EXCEPT ![n] = "exec"]
    /\ child' = Some([file |-> binary, given |-> inherited,
                      env |-> IF SelfContainedLaunch
                              THEN merge_env(inherited, build_dyld_env(App, embedded))
                              ELSE inherited])
    /\ UNCHANGED <<n, locals, out, dirs>>

\* The exec fails and run_ipa returns, or merge_env panics and unwinds it.
ExecFails == pc = "exec" /\ Fail

\* The application exits: nothing of this program is left that would know.
AppExits(i) ==
    /\ ended[i] = "exec" /\ ended' = [ended EXCEPT ![i] = "exited"]
    /\ UNCHANGED <<pc, n, locals, out, child, dirs>>

\* Killed by a signal: no destructor runs.
Killed ==
    /\ pc # "idle" /\ pc' = "idle" /\ ended' = [ended EXCEPT ![n] = "killed"]
    /\ UNCHANGED <<n, locals, out, child, dirs>>

Next ==
    \/ \E ipa \in Ipas, dry_run, launch, emit_jpk \in BOOLEAN : Run(ipa, dry_run, launch, emit_jpk)
    \/ check_ipa \/ extract_ipa \/ Unpack \/ find_binary \/ read_info_plist
    \/ DerivePolicy \/ DiscoverFrameworks \/ EmitOpen \/ EmitWrite \/ find_mldr
    \/ \E machotool \in BOOLEAN : DryRun(machotool) \/ Launch(machotool)
    \/ \E inherited \in Environments : Exec(inherited)
    \/ ExecFails \/ Killed
    \/ \E i \in Runs : AppExits(i)

Spec == Init /\ [][Next]_vars

-----------------------------------------------------------------------------
\* Properties

(* The extracted tree is on disk as long as somebody reads it: for the steps *)
(* after extract_ipa, through errors, panics and later runs, and while the   *)
(* application that replaced a run is running.  It is gone once run_ipa has  *)
(* returned, with or without an error.  Nothing is said of a run that was    *)
(* killed, nor of an application that has exited: see TempCleaned.           *)
TempDirs ==
    /\ pc \notin {"idle", "check", "tempdir"} => n \in dirs
    /\ \A i \in Runs : /\ ended[i] = "exec" => i \in dirs
                       /\ ended[i] \in {"ok", "error"} => i \notin dirs

(* A run that ends well with --emit-jpk leaves a complete descriptor, never  *)
(* starts the application, and its descriptor names the binary find_binary   *)
(* checked, unless Info.plist names none; bsdos-pkgd accepts it, unless the  *)
(* identifier is too long for it or the executable is named "".              *)
DescriptorUsable ==
    n > 0 /\ Arg.emit_jpk =>
        /\ ended[n] \notin {"exec", "exited"}
        /\ ended[n] = "ok" =>
             /\ out.state = "written"
             /\ \A doc \in out.doc :
                  /\ \/ Value(doc.entrypoint) = binary
                     \/ \A f \in App.plist : read_bundle_executable(f) = None
                  /\ \/ Accepted(doc)
                     \/ Value(doc.id).len > MaxIdLen
                     \/ doc.entrypoint = Some("")

(* "self-contained launch is viable" is said of a binary only if every       *)
(* library that some slice of it cannot do without is among the images of    *)
(* the bundle: the exception is a library that a slice also names as weak.   *)
ViableHonest ==
    report = "viable" =>
        \A path \in Named(App.macho, HardKinds) :
            path.base \in embedded \/ path \in Named(App.macho, {"WEAK"})

(* An application launched with the images it brings along is told of one    *)
(* place for each of the loader's search paths, the bundle's, whatever the   *)
(* caller had set them to, once or twice; and whatever else the caller had   *)
(* set it gets as it was, DYLD_INSERT_LIBRARIES and every other variable of  *)
(* the loader that build_dyld_env does not name included.                    *)
SelfContained ==
    \A c \in child :
        /\ SelfContainedLaunch =>
              \A v \in RootVars \cup SearchVars :
                  {e \in c.env : e[1] = v} = {<<v, IF v \in RootVars THEN "bundle" ELSE "Frameworks">>}
        /\ \A e \in c.env \cup c.given :
              e[1] \notin RootVars \cup SearchVars => (e \in c.env <=> e \in c.given)

=============================================================================
