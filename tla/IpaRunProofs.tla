---------------------------- MODULE IpaRunProofs ----------------------------
(***************************************************************************)
(* Proofs about IpaRun, for every archive and number of runs: whatever an  *)
(* Info.plist holds and whichever format it is in.                         *)
(*                                                                         *)
(* TempDirs, DescriptorUsable and SelfContained are not inductive.  Their  *)
(* invariant adds where the run is (Progress: a run that has not ended has *)
(* left no mark) and what run_ipa knows there: what it was called with     *)
(* (Chosen), that a run with --emit-jpk never gets to the steps that start *)
(* the application (NotEmitting), that the binary is the one               *)
(* read_bundle_executable names (Found) and that the bundle is what the    *)
(* one Info.plist says (Parsed).  ViableHonest, InfoFaithful and           *)
(* NetworkAsGranted hold of what the readers return, which                 *)
(* BundleReaderProofs establishes: their invariants say where each belief  *)
(* of run_ipa was read.                                                    *)
(***************************************************************************)
EXTENDS BundleFaithful, BundleReaderProofs

-----------------------------------------------------------------------------
(* What the steps compute. *)

\* The readers agree on the executable, whichever the format.
LEMMA ExecutableIs ==
    ASSUME NEW f, NEW b \in parse_info_plist_bytes(f).info
    PROVE  b.bundle_executable = OrElse(read_bundle_executable(f), "AppBinary")
<1> DEFINE key == "CFBundleExecutable"
<1>1. key \in StringKeys
  BY DEF StringKeys
<1>2. ASSUME NEW str, NEW bool, NEW caps
      PROVE  BundleInfo(str, bool, caps).bundle_executable = OrElse(str[key], "AppBinary")
  BY DEF BundleInfo
<1>3. CASE f.form = "xml"
  <2>1. b = parse_info_plist(f.lines)
    BY <1>3 DEF parse_info_plist_bytes
  <2>2. read_bundle_executable(f) = extract_string_after_key(f.lines, key)
    BY <1>3 DEF read_bundle_executable
  <2>3. QED
    BY <1>1, <1>2, <2>1, <2>2 DEF parse_info_plist
<1>4. CASE f.form # "xml"
  <2> DEFINE r == parse_bplist(f)
  <2> HIDE DEF r
  <2>1. r.err = "" /\ b = bundle_info_from_bplist(r.val)
    BY <1>4 DEF parse_info_plist_bytes, r
  <2>2. read_bundle_executable(f) = get_string(r.val, key)
    BY <1>4, <2>1 DEF read_bundle_executable, r
  <2> DEFINE str == [k \in StringKeys |-> get_string(r.val, k)]
  <2>3. b = BundleInfo(str, [k \in BoolKeys |-> get_bool(r.val, k)],
                       get_array_strings(r.val, "UIRequiredDeviceCapabilities"))
    BY <2>1 DEF bundle_info_from_bplist
  <2>4. str[key] = get_string(r.val, key)
    BY <1>1
  <2> HIDE DEF str
  <2>5. QED
    BY <1>2, <2>2, <2>3, <2>4
<1>5. QED
  BY <1>3, <1>4

\* Info.plist is refused or gives one BundleInfo.
LEMMA InfoIs ==
    ASSUME NEW f, parse_info_plist_bytes(f).err = ""
    PROVE  \E b : parse_info_plist_bytes(f).info = {b}
<1>1. CASE f.form = "xml"
  BY <1>1 DEF parse_info_plist_bytes
<1>2. CASE f.form # "xml"
  <2> DEFINE r == parse_bplist(f)
  <2> HIDE DEF r
  <2>1. r.err = "" /\ parse_info_plist_bytes(f).info = {bundle_info_from_bplist(r.val)}
    BY <1>2 DEF parse_info_plist_bytes, r
  <2>2. QED
    BY <2>1
<1>3. QED
  BY <1>1, <1>2

\* Option's unwrap.
LEMMA ValueOfSome == ASSUME NEW v PROVE Value(Some(v)) = v /\ Some(v) # None
  BY DEF Value, Some, None

\* "1.0.0", the version of every descriptor written, is a version.
LEMMA ThreeNumbers == ASSUME NEW v, v = <<TRUE, TRUE, TRUE>> PROVE validate_semver(v)
<1>1. Len(v) = 3
  OBVIOUS
<1>2. v[1] /\ v[2] /\ v[3]
  BY Zenon
<1>3. DOMAIN v = 1..3 /\ \A i \in 1..3 : i = 1 \/ i = 2 \/ i = 3
  OBVIOUS
<1>4. \A i \in DOMAIN v : v[i]
  BY <1>2, <1>3, Zenon
<1>5. Len(v) \in 2..3
  BY <1>1
<1>6. QED
  BY <1>4, <1>5, Zenon DEF validate_semver

\* Whatever the identifier, the network and the executable are, bsdos-pkgd
\* accepts the descriptor, up to the two exceptions.
LEMMA DescriptorAccepted ==
    ASSUME NEW b, NEW mode, b.bundle_identifier \in DOMAIN Trimmed
    PROVE  LET doc == ipa_to_jpk_descriptor(b, mode)
           IN  /\ doc.entrypoint = Some(b.bundle_executable)
               /\ \/ Accepted(doc)
                  \/ Value(doc.id).len > MaxIdLen
                  \/ doc.entrypoint = Some("")
<1> DEFINE doc == ipa_to_jpk_descriptor(b, mode)
<1> DEFINE id == sanitise_app_id(b.bundle_identifier)
<1>1. id.len \in Nat \ {0} /\ id.plain = TRUE /\ id.dotted = TRUE
  <2> DEFINE s == Trimmed[b.bundle_identifier]
  <2>1. s.len \in Nat
    BY IpaRunAssumption
  <2> HIDE DEF s
  <2>2. CASE s.len = 0
    BY <2>2 DEF sanitise_app_id, s
  <2>3. CASE s.len # 0
    <3>1. id.len = (IF s.dotted THEN s.len ELSE s.len + 10) /\ id.plain = TRUE /\ id.dotted = TRUE
      BY <2>3 DEF sanitise_app_id, s
    <3>2. QED
      BY <2>1, <2>3, <3>1
  <2>4. QED
    BY <2>2, <2>3
<1> HIDE DEF id
<1>2. /\ doc.schema_version = Some("1.0") /\ doc.id = Some(id)
      /\ doc.version = Some(<<TRUE, TRUE, TRUE>>) /\ doc.named = TRUE
      /\ doc.arch = Some({"aarch64", "amd64"}) /\ doc.type = Some("jail")
      /\ doc.entrypoint = Some(b.bundle_executable)
      /\ doc.network = Some(jpk_network(mode)) /\ doc.filesystem = Some("ro")
  BY DEF ipa_to_jpk_descriptor, id
<1> HIDE DEF doc
<1>3. jpk_network(mode) \in {"none", "inet"}
  BY DEF jpk_network
<1>4. ASSUME id.len <= MaxIdLen, b.bundle_executable # "" PROVE Accepted(doc)
  <2> DEFINE d == [schema_version |-> Value(doc.schema_version), id |-> Value(doc.id),
           version |-> Value(doc.version), arch |-> Value(doc.arch),
           type |-> Value(doc.type), entrypoint |-> Value(doc.entrypoint),
           jail_name |-> OrElse(doc.jail_name, ""),
           needs_gpu |-> OrElse(doc.needs_gpu, FALSE),
           network |-> OrElse(doc.network, "none"),
           filesystem |-> OrElse(doc.filesystem, "ro")]
  <2>1. Required(doc)
    BY <1>2 DEF Required, Some, None
  <2>2. from_toml_str(doc) = {d}
    BY <2>1 DEF from_toml_str
  <2>3. /\ d.schema_version = "1.0" /\ d.id = id /\ d.version = <<TRUE, TRUE, TRUE>>
        /\ d.arch = {"aarch64", "amd64"} /\ d.type = "jail"
        /\ d.entrypoint = b.bundle_executable
        /\ d.network = jpk_network(mode) /\ d.filesystem = "ro"
    BY <1>2, ValueOfSome DEF OrElse
  <2> HIDE DEF d
  <2>4. validate_app_id(d.id)
    <3>1. id.len \in Nat \ {0} /\ id.len <= MaxIdLen
      BY <1>1, <1>4, Zenon
    <3>2. id.len \in 1..MaxIdLen
      BY <3>1 DEF MaxIdLen
    <3>3. QED
      BY <1>1, <2>3, <3>2, Zenon DEF validate_app_id
  <2>5. validate_semver(d.version)
    BY <2>3, ThreeNumbers
  <2>6. validate(d)
    BY <1>3, <1>4, <2>3, <2>4, <2>5 DEF validate
  <2>7. QED
    BY <2>2, <2>6 DEF Accepted
<1>5. Value(doc.id) = id
  BY <1>2, ValueOfSome
<1>6. id.len > MaxIdLen \/ id.len <= MaxIdLen
  BY <1>1 DEF MaxIdLen
<1>7. CASE id.len > MaxIdLen
  BY <1>2, <1>5, <1>7 DEF doc
<1>8. CASE id.len <= MaxIdLen
  BY <1>2, <1>4, <1>8 DEF doc
<1>9. QED
  BY <1>6, <1>7, <1>8

\* With images of its own, the application gets the loader's search paths from
\* the bundle and from nowhere else, and everything else from the caller.
LEMMA EnvironmentIs ==
    ASSUME NEW a, NEW images, images # {}, NEW inherited
    PROVE  LET env == merge_env(inherited, build_dyld_env(a, images))
               paths == RootVars \cup SearchVars
           IN  /\ \A v \in paths :
                     {e \in env : e[1] = v} = {<<v, IF v \in RootVars THEN "bundle" ELSE "Frameworks">>}
               /\ \A e \in env \cup inherited : e[1] \notin paths => (e \in env <=> e \in inherited)
<1> DEFINE paths == RootVars \cup SearchVars
<1> DEFINE dyld == build_dyld_env(a, images)
<1> DEFINE env == merge_env(inherited, dyld)
<1> DEFINE where(v) == IF v \in RootVars THEN "bundle" ELSE "Frameworks"
<1>1. \A v \in SearchVars : v \notin RootVars
  BY DEF RootVars, SearchVars
<1>2. dyld = {<<v, where(v)>> : v \in paths}
  <2>1. dyld = {<<v, "bundle">> : v \in RootVars} \cup {<<v, "Frameworks">> : v \in SearchVars}
    BY DEF build_dyld_env
  <2> HIDE DEF dyld
  <2>2. QED
    BY <1>1, <2>1
<1> HIDE DEF dyld, paths, where
<1>3. Names(dyld) = paths
  <2>1. Names(dyld) = {e[1] : e \in {<<v, where(v)>> : v \in paths}}
    BY <1>2, Zenon DEF Names
  <2>2. \A v \in paths : <<v, where(v)>>[1] = v
    OBVIOUS
  <2>3. QED
    BY <2>1, <2>2
<1>4. env = {e \in inherited : e[1] \notin paths} \cup dyld
  BY <1>3 DEF merge_env
<1> HIDE DEF env
<1>5. \A v \in paths : {e \in env : e[1] = v} = {<<v, where(v)>>}
  BY <1>2, <1>4
<1>6. \A e \in env \cup inherited : e[1] \notin paths => (e \in env <=> e \in inherited)
  BY <1>2, <1>4
<1>7. QED
  BY <1>5, <1>6 DEF env, dyld, paths, where

-----------------------------------------------------------------------------
(* The runs of the command. *)

Reading == {"unpack", "find", "plist", "policy", "frameworks", "emit", "write",
            "mldr", "dry_run", "launch", "exec"}
Starting == {"mldr", "dry_run", "launch", "exec"}

\* Where the command is: a run that has not ended has left no mark, and the
\* process it was started in is still its own.
Progress ==
    /\ n \in 0..MaxRuns
    /\ pc \in {"idle", "check", "tempdir"} \cup Reading
    /\ ended \in [Runs -> {"", "ok", "error", "exec", "exited", "killed"}]
    /\ \A i \in Runs : i > n => ended[i] = ""
    /\ pc # "idle" => n \in Runs /\ ended[n] = "" /\ child = None

\* What run_ipa knows at the step it has reached.
Chosen ==
    n > 0 => \E ipa \in Ipas : \E dry_run, launch, emit_jpk \in BOOLEAN :
        args = Some([ipa |-> ipa, dry_run |-> dry_run, launch |-> launch, emit_jpk |-> emit_jpk])
NotEmitting == pc \in Starting => Arg.emit_jpk = FALSE
Found ==
    pc \in Reading \ {"unpack", "find"} =>
        \E a \in Arg.ipa.apps :
            /\ app = Some(a)
            /\ binary = OrElse(UNION {read_bundle_executable(f) : f \in a.plist}, a.stem)
Parsed ==
    pc \in Reading \ {"unpack", "find", "plist"} =>
        \E f \in App.plist : /\ parse_info_plist_bytes(f).err = ""
                             /\ bundle = parse_info_plist_bytes(f).info

IInv == Progress /\ TempDirs /\ Chosen /\ NotEmitting /\ Found /\ Parsed
        /\ DescriptorUsable /\ SelfContained


\* The invariant holds before the first run.
LEMMA InitIInv == Init => IInv
<1> SUFFICES ASSUME Init PROVE IInv
  OBVIOUS
<1> DEFINE marks == {"", "ok", "error", "exec", "exited", "killed"}
<1>a. /\ pc = "idle" /\ n = 0 /\ child = {} /\ dirs = {}
      /\ ended \in [Runs -> marks] /\ \A i \in Runs : ended[i] = ""
  BY DEF Init, None
<1>b. MaxRuns \in Nat /\ n = 0
  BY <1>a, IpaRunAssumption, Zenon
<1>c. n \in 0..MaxRuns /\ ~(n > 0)
  BY <1>b
<1>d. pc \in {"idle", "check", "tempdir"} \cup Reading
  BY <1>a
<1>1. Progress
  BY <1>a, <1>c, <1>d, Zenon DEF Progress
<1>2. TempDirs
  BY <1>a DEF TempDirs
<1>3. Chosen /\ DescriptorUsable
  BY <1>c, Zenon DEF Chosen, DescriptorUsable
<1>4. NotEmitting /\ Found /\ Parsed
  BY <1>a DEF NotEmitting, Found, Parsed, Reading, Starting
<1>5. SelfContained
  BY <1>a DEF SelfContained
<1>6. QED
  BY <1>1, <1>2, <1>3, <1>4, <1>5 DEF IInv

\* A step from one point of a run to the next: what was known stays known.
LEMMA Onward ==
    ASSUME IInv, NEW from \in Reading \cup {"check", "tempdir"}, NEW to \in Reading \cup {"tempdir"},
           Step(from, to), args' = args,
           (n \in dirs /\ dirs' = dirs) \/ dirs' = dirs \cup {n} \/ (to = "tempdir" /\ dirs' = dirs)
    PROVE  Progress' /\ TempDirs' /\ Chosen' /\ DescriptorUsable' /\ SelfContained'
<1> USE DEF IInv, Step
<1>1. Progress'
  BY DEF Progress, Reading
<1>2. TempDirs'
  BY DEF Progress, TempDirs, Reading
<1>3. Chosen'
  BY DEF Chosen
<1>4. DescriptorUsable'
  BY DEF Progress, DescriptorUsable, Reading
<1>5. SelfContained'
  BY DEF Progress, SelfContained, Reading, None
<1>6. QED
  BY <1>1, <1>2, <1>3, <1>4, <1>5

\* A later run is another run.
LEMMA NotItself == ASSUME Progress PROVE \A i \in Runs : i > n => i # n
<1>1. n \in 0..MaxRuns /\ MaxRuns \in Nat
  BY IpaRunAssumption, Zenon DEF Progress
<1>2. QED
  BY <1>1 DEF Runs

\* run_ipa returns.
LEMMA Returns ==
    ASSUME IInv, pc # "idle", NEW how \in {"ok", "error"}, End(how)
    PROVE  Progress' /\ TempDirs' /\ Chosen' /\ NotEmitting' /\ Found' /\ Parsed' /\ SelfContained'
<1> USE DEF IInv, End
<1> DEFINE marks == {"", "ok", "error", "exec", "exited", "killed"}
<1>a. n' = n /\ n \in Runs /\ pc' = "idle" /\ child' = child
  BY DEF Progress
<1>b. ended \in [Runs -> marks] /\ ended' \in [Runs -> marks]
  BY DEF Progress
<1>c. \A i \in Runs : i # n => ended'[i] = ended[i]
  BY <1>b
<1>d. \A i \in Runs : i > n => i # n
  BY <1>a DEF Runs
<1>e. n \in 0..MaxRuns /\ \A i \in Runs : i > n => ended[i] = ""
  BY DEF Progress
<1>1. Progress'
  BY <1>a, <1>b, <1>c, <1>d, <1>e, Zenon DEF Progress
<1>2. TempDirs'
  BY DEF Progress, TempDirs
<1>3. Chosen'
  BY DEF Chosen
<1>4. NotEmitting' /\ Found' /\ Parsed'
  BY DEF NotEmitting, Found, Parsed, Reading, Starting
<1>5. SelfContained'
  BY DEF Progress, SelfContained, None
<1>6. QED
  BY <1>1, <1>2, <1>3, <1>4, <1>5

\* The bundle found has one Info.plist at most.
LEMMA OnePlist ==
    ASSUME IInv, pc \in Reading \ {"unpack", "find"}
    PROVE  /\ App \in Arg.ipa.apps /\ Arg.ipa \in Ipas
           /\ \A f, g \in App.plist : f = g
           /\ Arg.emit_jpk \in BOOLEAN
<1>1. PICK a \in Arg.ipa.apps : app = Some(a)
  BY DEF IInv, Found
<1>2. App = a
  BY <1>1, ValueOfSome DEF App
<1>3. n \in 0..MaxRuns /\ n \in Runs /\ MaxRuns \in Nat
  BY IpaRunAssumption DEF IInv, Progress, Reading
<1>4. n > 0
  BY <1>3 DEF Runs
<1>5. PICK ipa \in Ipas : \E dry_run, launch, emit_jpk \in BOOLEAN :
        args = Some([ipa |-> ipa, dry_run |-> dry_run, launch |-> launch, emit_jpk |-> emit_jpk])
  BY <1>4, Zenon DEF IInv, Chosen
<1>6. Arg.ipa = ipa /\ Arg.emit_jpk \in BOOLEAN
  BY <1>5, ValueOfSome DEF Arg
<1>7. QED
  BY <1>1, <1>2, <1>5, <1>6, IpaRunAssumption, Zenon

\* A run that ends with an error.
LEMMA FailIInv == ASSUME IInv, pc # "idle", Fail PROVE IInv'
<1>1. ended'[n] = "error" /\ n' = n /\ n \in Runs
  BY DEF Fail, End, IInv, Progress
<1>2. DescriptorUsable'
  BY <1>1 DEF DescriptorUsable
<1>3. QED
  BY <1>2, Returns DEF IInv, Fail

-----------------------------------------------------------------------------
(* One lemma per step that learns or writes something. *)

\* A new run starts with a clean sheet.
LEMMA RunIInv ==
    ASSUME IInv, NEW ipa \in Ipas, NEW dry_run \in BOOLEAN, NEW launch \in BOOLEAN,
           NEW emit_jpk \in BOOLEAN, Run(ipa, dry_run, launch, emit_jpk)
    PROVE  IInv'
<1>a. /\ pc = "idle" /\ n < MaxRuns /\ n \in 0..MaxRuns
      /\ pc' = "check" /\ n' = n + 1 /\ child' = {} /\ ended' = ended /\ dirs' = dirs
  BY DEF Run, IInv, Progress, None
<1>b. MaxRuns \in Nat
  BY IpaRunAssumption, Zenon
<1>c. n' \in 0..MaxRuns /\ n' \in Runs /\ n' > n /\ \A i \in Runs : i > n' => i > n
  BY <1>a, <1>b DEF Runs
<1>d. /\ ended \in [Runs -> {"", "ok", "error", "exec", "exited", "killed"}]
      /\ \A i \in Runs : i > n => ended[i] = ""
  BY DEF IInv, Progress
<1>e. ended'[n'] = ""
  BY <1>a, <1>c, <1>d
<1>1. Progress'
  BY <1>a, <1>c, <1>d, <1>e, Zenon DEF Progress, None
<1>2. TempDirs'
  BY <1>a DEF IInv, TempDirs
<1>3. Chosen'
  BY Zenon DEF Run, Chosen
<1>4. NotEmitting' /\ Found' /\ Parsed'
  BY <1>a DEF NotEmitting, Found, Parsed, Reading, Starting
<1>5. DescriptorUsable'
  BY <1>e, "" \notin {"exec", "exited"}, "" # "ok", Zenon DEF DescriptorUsable
<1>6. SelfContained'
  BY <1>a DEF SelfContained
<1>7. QED
  BY <1>1, <1>2, <1>3, <1>4, <1>5, <1>6 DEF IInv

\* A bundle is found: what it is called and what is to be executed.
LEMMA FindIInv == ASSUME IInv, find_binary PROVE IInv'
<1>1. CASE Fail
  BY <1>1, FailIInv DEF find_binary
<1>2. CASE ~Fail
  <2>1. PICK a \in Arg.ipa.apps :
            /\ Step("find", "plist")
            /\ app' = Some(a) /\ args' = args /\ dirs' = dirs
            /\ binary' = OrElse(UNION {read_bundle_executable(f) : f \in a.plist}, a.stem)
    BY <1>2 DEF find_binary
  <2>2. n \in dirs /\ pc' = "plist"
    BY <2>1 DEF Step, IInv, TempDirs
  <2>3. Progress' /\ TempDirs' /\ Chosen' /\ DescriptorUsable' /\ SelfContained'
    BY <2>1, <2>2, Onward DEF Reading
  <2>4. Arg' = Arg
    BY <2>1 DEF Arg
  <2>5. NotEmitting' /\ Parsed'
    BY <2>2 DEF NotEmitting, Parsed, Reading, Starting
  <2>6. Found'
    BY <2>1, <2>4 DEF Found
  <2>7. QED
    BY <2>3, <2>5, <2>6 DEF IInv
<1>3. QED
  BY <1>1, <1>2

\* Info.plist is read: the bundle is what the one file says.
LEMMA PlistIInv == ASSUME IInv, read_info_plist PROVE IInv'
<1>1. CASE Fail
  BY <1>1, FailIInv DEF read_info_plist
<1>2. CASE ~Fail
  <2> DEFINE parsed == {parse_info_plist_bytes(f) : f \in App.plist}
  <2>1. /\ Step("plist", "policy") /\ \E r \in parsed : r.err = ""
        /\ bundle' = UNION {r.info : r \in parsed}
        /\ args' = args /\ app' = app /\ binary' = binary /\ dirs' = dirs
    BY <1>2 DEF read_info_plist
  <2>2. n \in dirs /\ pc' = "policy" /\ pc = "plist"
    BY <2>1 DEF Step, IInv, TempDirs
  <2>3. Progress' /\ TempDirs' /\ Chosen' /\ DescriptorUsable' /\ SelfContained'
    BY <2>1, <2>2, Onward DEF Reading
  <2>4. Arg' = Arg /\ App' = App
    BY <2>1 DEF Arg, App
  <2>5. NotEmitting'
    BY <2>2 DEF NotEmitting, Starting
  <2>6. Found'
    BY <2>1, <2>2, <2>4 DEF IInv, Found, Reading
  <2>7. \A f, g \in App.plist : f = g
    BY <2>2, OnePlist DEF IInv, Reading
  <2>8. Parsed'
    <3>1. PICK f \in App.plist : parse_info_plist_bytes(f).err = ""
      BY <2>1
    <3>2. parsed = {parse_info_plist_bytes(f)}
      BY <2>7
    <3>3. bundle' = parse_info_plist_bytes(f).info
      BY <2>1, <3>2
    <3>4. QED
      BY <2>4, <3>1, <3>3 DEF Parsed
  <2>9. QED
    BY <2>3, <2>5, <2>6, <2>8 DEF IInv
<1>3. QED
  BY <1>1, <1>2

\* The descriptor is written: it says what the bundle says.
LEMMA WriteIInv == ASSUME IInv, EmitWrite PROVE IInv'
<1>1. CASE Fail
  BY <1>1, FailIInv DEF EmitWrite
<1>2. CASE ~Fail
  <2> DEFINE doc == ipa_to_jpk_descriptor(Value(bundle), Value(policy))
  <2>1. End("ok") /\ out' = File(doc) /\ pc = "write"
    BY <1>2 DEF EmitWrite
  <2>2. /\ App \in Arg.ipa.apps /\ Arg.ipa \in Ipas
        /\ \A f, g \in App.plist : f = g
    BY <2>1, OnePlist DEF Reading
  <2>3. PICK f \in App.plist : /\ parse_info_plist_bytes(f).err = ""
                               /\ bundle = parse_info_plist_bytes(f).info
    BY <2>1 DEF IInv, Parsed, Reading
  <2>4. PICK b : parse_info_plist_bytes(f).info = {b}
    BY <2>3, InfoIs
  <2>5. Value(bundle) = b
    BY <2>3, <2>4, ValueOfSome DEF Some
  <2>6. b.bundle_identifier \in DOMAIN Trimmed
    BY <2>2, <2>3, <2>4, IpaRunAssumption, b \in {b}, Zenon
  <2>7. b.bundle_executable = OrElse(read_bundle_executable(f), "AppBinary")
    BY <2>4, ExecutableIs
  <2>8. binary = OrElse(read_bundle_executable(f), App.stem)
    <3>1. PICK a \in Arg.ipa.apps :
              /\ app = Some(a)
              /\ binary = OrElse(UNION {read_bundle_executable(g) : g \in a.plist}, a.stem)
      BY <2>1 DEF IInv, Found, Reading
    <3>2. App = a
      BY <3>1, ValueOfSome DEF App
    <3>3. UNION {read_bundle_executable(g) : g \in App.plist} = read_bundle_executable(f)
      BY <2>2
    <3>4. QED
      BY <3>1, <3>2, <3>3, Zenon
  <2>9. /\ doc.entrypoint = Some(b.bundle_executable)
        /\ \/ Accepted(doc)
           \/ Value(doc.id).len > MaxIdLen
           \/ doc.entrypoint = Some("")
    BY <2>5, <2>6, DescriptorAccepted, Zenon
  <2> HIDE DEF doc
  <2>10. \/ Value(doc.entrypoint) = binary
         \/ \A g \in App.plist : read_bundle_executable(g) = None
    <3>1. CASE read_bundle_executable(f) = None
      BY <2>2, <3>1, Zenon
    <3>2. CASE read_bundle_executable(f) # None
      BY <2>7, <2>8, <2>9, <3>2, ValueOfSome, Zenon DEF OrElse
    <3>3. QED
      BY <3>1, <3>2
  <2>11. DescriptorUsable'
    <3>1. /\ ended' = [ended EXCEPT ![n] = "ok"] /\ n' = n /\ binary' = binary /\ app' = app
          /\ out'.state = "written" /\ out'.doc = {doc}
      BY <2>1 DEF End, File
    <3>2. ended'[n] \notin {"exec", "exited"}
      <4>1. n \in Runs /\ ended \in [Runs -> {"", "ok", "error", "exec", "exited", "killed"}]
        BY <2>1 DEF IInv, Progress
      <4>2. QED
        BY <3>1, <4>1
    <3>3. App' = App
      BY <3>1 DEF App
    <3>4. QED
      BY <2>9, <2>10, <3>1, <3>2, <3>3, Zenon DEF DescriptorUsable
  <2>12. QED
    BY <2>1, <2>11, Returns DEF IInv
<1>3. QED
  BY <1>1, <1>2

\* The process is replaced: a run that was to write a descriptor is not here,
\* and the loader of one with images gets their paths.
LEMMA ExecIInv == ASSUME IInv, NEW inherited \in Environments, Exec(inherited) PROVE IInv'
<1> DEFINE marks == {"", "ok", "error", "exec", "exited", "killed"}
<1> DEFINE env == IF SelfContainedLaunch
                  THEN merge_env(inherited, build_dyld_env(App, embedded))
                  ELSE inherited
<1>1. /\ pc = "exec" /\ pc' = "idle" /\ n' = n /\ dirs' = dirs /\ args' = args
      /\ embedded' = embedded /\ ended' = [ended EXCEPT ![n] = "exec"]
      /\ child' = {[file |-> binary, given |-> inherited, env |-> env]}
  BY DEF Exec, locals, Some
<1> HIDE DEF env
<1>2. n \in 0..MaxRuns /\ n \in Runs /\ ended \in [Runs -> marks] /\ n \in dirs
  BY <1>1 DEF IInv, Progress, TempDirs
<1>3. ended' \in [Runs -> marks] /\ \A i \in Runs : i # n => ended'[i] = ended[i]
  BY <1>1, <1>2
<1>4. Progress'
  <2>1. \A i \in Runs : i > n => i # n
    BY NotItself DEF IInv
  <2>2. \A i \in Runs : i > n => ended[i] = ""
    BY DEF IInv, Progress
  <2>3. QED
    BY <1>1, <1>2, <1>3, <2>1, <2>2, Zenon DEF Progress
<1>5. TempDirs'
  BY <1>1, <1>2, <1>3 DEF IInv, TempDirs
<1>6. Chosen'
  BY <1>1 DEF IInv, Chosen
<1>7. NotEmitting' /\ Found' /\ Parsed'
  BY <1>1 DEF NotEmitting, Found, Parsed, Reading, Starting
<1>8. Arg' = Arg /\ Arg.emit_jpk = FALSE
  BY <1>1 DEF Arg, IInv, NotEmitting, Starting
<1>9. DescriptorUsable'
  BY <1>8, Zenon DEF DescriptorUsable
<1>10. SelfContained'
  <2> DEFINE paths == RootVars \cup SearchVars
  <2>1. ASSUME SelfContainedLaunch
        PROVE  /\ \A v \in paths :
                     {e \in env : e[1] = v} = {<<v, IF v \in RootVars THEN "bundle" ELSE "Frameworks">>}
               /\ \A e \in env \cup inherited : e[1] \notin paths => (e \in env <=> e \in inherited)
    BY <2>1, EnvironmentIs DEF env, SelfContainedLaunch
  <2>2. ~SelfContainedLaunch => env = inherited
    BY DEF env
  <2>3. SelfContainedLaunch' <=> SelfContainedLaunch
    BY <1>1, <1>8 DEF SelfContainedLaunch
  <2>4. \A e \in env \cup inherited : e[1] \notin paths => (e \in env <=> e \in inherited)
    BY <2>1, <2>2
  <2>5. \A c \in child' : c.env = env /\ c.given = inherited
    BY <1>1
  <2>6. QED
    BY <2>1, <2>3, <2>4, <2>5, Zenon DEF SelfContained
<1>11. QED
  BY <1>4, <1>5, <1>6, <1>7, <1>9, <1>10 DEF IInv

\* The plan is printed, which --emit-jpk never comes to.
LEMMA DryRunIInv == ASSUME IInv, NEW machotool \in BOOLEAN, DryRun(machotool) PROVE IInv'
<1>1. pc = "dry_run" /\ End("ok")
  BY DEF DryRun
<1>2. Arg' = Arg /\ Arg.emit_jpk = FALSE
  BY <1>1 DEF End, Arg, IInv, NotEmitting, Starting
<1>3. DescriptorUsable'
  BY <1>2, Zenon DEF DescriptorUsable
<1>4. QED
  BY <1>1, <1>3, Returns DEF IInv

\* The run is killed, and its directory stays.
LEMMA KilledIInv == ASSUME IInv, Killed PROVE IInv'
<1> DEFINE marks == {"", "ok", "error", "exec", "exited", "killed"}
<1>1. /\ pc # "idle" /\ pc' = "idle" /\ n' = n /\ dirs' = dirs /\ child' = child
      /\ args' = args /\ ended' = [ended EXCEPT ![n] = "killed"]
  BY DEF Killed, locals
<1>2. n \in 0..MaxRuns /\ n \in Runs /\ ended \in [Runs -> marks] /\ child = {}
  BY <1>1 DEF IInv, Progress, None
<1>3. /\ ended' \in [Runs -> marks] /\ ended'[n] = "killed"
      /\ \A i \in Runs : i # n => ended'[i] = ended[i]
  BY <1>1, <1>2
<1>4. Progress'
  <2>1. \A i \in Runs : i > n => i # n
    BY NotItself DEF IInv
  <2>2. \A i \in Runs : i > n => ended[i] = ""
    BY DEF IInv, Progress
  <2>3. QED
    BY <1>1, <1>2, <1>3, <2>1, <2>2, Zenon DEF Progress
<1>5. TempDirs'
  BY <1>1, <1>2, <1>3 DEF IInv, TempDirs
<1>6. Chosen'
  BY <1>1 DEF IInv, Chosen
<1>7. NotEmitting' /\ Found' /\ Parsed'
  BY <1>1 DEF NotEmitting, Found, Parsed, Reading, Starting
<1>8. DescriptorUsable'
  BY <1>1, <1>3 DEF DescriptorUsable
<1>9. SelfContained'
  BY <1>1, <1>2 DEF SelfContained
<1>10. QED
  BY <1>4, <1>5, <1>6, <1>7, <1>8, <1>9 DEF IInv

\* An application exits, and its directory stays.
LEMMA AppExitsIInv == ASSUME IInv, NEW i \in Runs, AppExits(i) PROVE IInv'
<1> DEFINE marks == {"", "ok", "error", "exec", "exited", "killed"}
<1>1. /\ pc' = pc /\ n' = n /\ dirs' = dirs /\ child' = child /\ args' = args /\ app' = app
      /\ binary' = binary /\ bundle' = bundle /\ embedded' = embedded /\ out' = out
      /\ ended[i] = "exec" /\ ended' = [ended EXCEPT ![i] = "exited"]
  BY DEF AppExits, locals
<1>2. ended \in [Runs -> marks]
  BY DEF IInv, Progress
<1>3. /\ ended' \in [Runs -> marks] /\ ended'[i] = "exited"
      /\ \A j \in Runs : j # i => ended'[j] = ended[j]
  BY <1>1, <1>2
<1>4. Progress'
  <2>1. \A j \in Runs : ended[j] = "" => j # i
    BY <1>1
  <2>2. QED
    BY <1>1, <1>3, <2>1 DEF IInv, Progress
<1>5. TempDirs'
  BY <1>1, <1>2, <1>3 DEF IInv, TempDirs
<1>6. Arg' = Arg /\ App' = App
  BY <1>1 DEF Arg, App
<1>7. Chosen' /\ NotEmitting' /\ Found' /\ Parsed'
  BY <1>1, <1>6 DEF IInv, Chosen, NotEmitting, Found, Parsed
<1>8. DescriptorUsable'
  <2>1. SUFFICES ASSUME n > 0, Arg.emit_jpk
                 PROVE  ended'[n] \notin {"exec", "exited"} /\ ended'[n] = ended[n]
    BY <1>1, <1>6 DEF IInv, DescriptorUsable
  <2>2. ended[n] \notin {"exec", "exited"}
    BY <2>1, Zenon DEF IInv, DescriptorUsable
  <2>3. n # i
    BY <1>1, <2>2
  <2>4. n \in Runs
    <3>1. n \in 0..MaxRuns /\ MaxRuns \in Nat
      BY IpaRunAssumption, Zenon DEF IInv, Progress
    <3>2. QED
      BY <2>1, <3>1 DEF Runs
  <2>5. QED
    BY <1>3, <2>2, <2>3, <2>4
<1>9. SelfContained'
  <2>1. SelfContainedLaunch' <=> SelfContainedLaunch
    BY <1>1, <1>6 DEF SelfContainedLaunch
  <2>2. QED
    BY <1>1, <2>1, Zenon DEF IInv, SelfContained
<1>10. QED
  BY <1>4, <1>5, <1>7, <1>8, <1>9 DEF IInv

\* The other steps go from one point to the next and may fail; they change
\* nothing that was learnt, and those that go on to start the application
\* come from a run without --emit-jpk.
LEMMA QuietIInv ==
    ASSUME IInv, NEW from \in Reading \cup {"check", "tempdir"}, NEW to \in Reading \cup {"tempdir"},
           Step(from, to), args' = args, app' = app, binary' = binary, bundle' = bundle,
           (n \in dirs /\ dirs' = dirs) \/ dirs' = dirs \cup {n} \/ (to = "tempdir" /\ dirs' = dirs),
           to \in Starting => from \in Starting \/ Arg.emit_jpk = FALSE,
           to \in Reading \ {"unpack", "find"} => from \in Reading \ {"unpack", "find"},
           to \in Reading \ {"unpack", "find", "plist"} => from \in Reading \ {"unpack", "find", "plist"}
    PROVE  IInv'
<1>1. Progress' /\ TempDirs' /\ Chosen' /\ DescriptorUsable' /\ SelfContained'
  BY Onward
<1>2. Arg' = Arg /\ App' = App /\ pc = from /\ pc' = to
  BY DEF Arg, App, Step
<1>3. NotEmitting'
  BY <1>2 DEF IInv, NotEmitting
<1>4. Found'
  BY <1>2 DEF IInv, Found
<1>5. Parsed'
  BY <1>2 DEF IInv, Parsed
<1>6. QED
  BY <1>1, <1>3, <1>4, <1>5 DEF IInv

\* Every step of run_ipa keeps what the run knows.
THEOREM Invariance == Spec => []IInv
<1>1. Init => IInv
  BY InitIInv
<1>2. IInv /\ [Next]_vars => IInv'
  <2> SUFFICES ASSUME IInv, [Next]_vars PROVE IInv'
    OBVIOUS
  <2>1. ASSUME NEW ipa \in Ipas, NEW dry_run \in BOOLEAN, NEW launch \in BOOLEAN,
               NEW emit_jpk \in BOOLEAN, Run(ipa, dry_run, launch, emit_jpk)
        PROVE  IInv'
    BY <2>1, RunIInv
  <2>2. CASE check_ipa
    <3>1. CASE Fail
      BY <2>2, <3>1, FailIInv DEF check_ipa
    <3>2. CASE ~Fail
      BY <2>2, <3>2, QuietIInv DEF check_ipa, locals, Reading, Starting
    <3>3. QED
      BY <3>1, <3>2
  <2>3. CASE extract_ipa
    <3>1. CASE Fail
      BY <2>3, <3>1, FailIInv DEF extract_ipa, Step
    <3>2. CASE ~Fail
      BY <2>3, <3>2, QuietIInv DEF extract_ipa, locals, Reading, Starting
    <3>3. QED
      BY <3>1, <3>2
  <2>4. CASE Unpack
    <3>1. CASE Fail
      BY <2>4, <3>1, FailIInv DEF Unpack, Step
    <3>2. CASE ~Fail
      <4>1. n \in dirs
        BY <2>4, <3>2 DEF Unpack, Step, IInv, TempDirs
      <4>2. QED
        BY <2>4, <3>2, <4>1, QuietIInv DEF Unpack, locals, Reading, Starting
    <3>3. QED
      BY <3>1, <3>2
  <2>5. CASE find_binary
    BY <2>5, FindIInv
  <2>6. CASE read_info_plist
    BY <2>6, PlistIInv
  <2>7. CASE DerivePolicy
    <3>1. n \in dirs
      BY <2>7 DEF DerivePolicy, Step, IInv, TempDirs
    <3>2. QED
      BY <2>7, <3>1, QuietIInv DEF DerivePolicy, Reading, Starting
  <2>8. CASE DiscoverFrameworks
    <3>1. CASE Fail
      BY <2>8, <3>1, FailIInv DEF DiscoverFrameworks
    <3>2. CASE ~Fail
      <4> DEFINE to == IF Arg.emit_jpk THEN "emit" ELSE "mldr"
      <4>1. /\ Step("frameworks", to) /\ args' = args /\ app' = app
            /\ binary' = binary /\ bundle' = bundle /\ dirs' = dirs
        BY <2>8, <3>2 DEF DiscoverFrameworks
      <4>2. n \in dirs
        BY <4>1 DEF Step, IInv, TempDirs
      <4>3. Arg.emit_jpk \in BOOLEAN
        BY <4>1, OnePlist DEF Step, Reading
      <4>4. /\ to \in Reading \ {"unpack", "find", "plist"}
            /\ to \in Starting => Arg.emit_jpk = FALSE
        BY <4>3 DEF Reading, Starting
      <4>5. "frameworks" \in Reading \ {"unpack", "find", "plist"}
        BY DEF Reading
      <4> HIDE DEF to
      <4>6. QED
        BY <4>1, <4>2, <4>4, <4>5, QuietIInv
    <3>3. QED
      BY <3>1, <3>2
  <2>9. CASE EmitOpen
    <3>1. CASE Fail
      BY <2>9, <3>1, FailIInv DEF EmitOpen, Step
    <3>2. CASE ~Fail
      <4>1. n \in dirs
        BY <2>9, <3>2 DEF EmitOpen, Step, IInv, TempDirs
      <4>2. QED
        BY <2>9, <3>2, <4>1, QuietIInv DEF EmitOpen, locals, Reading, Starting
    <3>3. QED
      BY <3>1, <3>2
  <2>10. CASE EmitWrite
    BY <2>10, WriteIInv
  <2>11. CASE find_mldr
    <3>1. CASE Fail
      BY <2>11, <3>1, FailIInv DEF find_mldr, Step
    <3>2. CASE ~Fail
      <4> DEFINE to == IF Arg.dry_run THEN "dry_run" ELSE IF Arg.launch THEN "launch" ELSE "exec"
      <4>1. /\ Step("mldr", to) /\ args' = args /\ app' = app
            /\ binary' = binary /\ bundle' = bundle /\ dirs' = dirs
        BY <2>11, <3>2 DEF find_mldr, locals
      <4>2. n \in dirs
        BY <4>1 DEF Step, IInv, TempDirs
      <4>3. to \in Reading \ {"unpack", "find", "plist"}
        BY DEF Reading
      <4>4. "mldr" \in (Reading \ {"unpack", "find", "plist"}) \cap Starting
        BY DEF Reading, Starting
      <4> HIDE DEF to
      <4>5. QED
        BY <4>1, <4>2, <4>3, <4>4, QuietIInv
    <3>3. QED
      BY <3>1, <3>2
  <2>12. ASSUME NEW machotool \in BOOLEAN, DryRun(machotool)
         PROVE  IInv'
    BY <2>12, DryRunIInv
  <2>13. ASSUME NEW machotool \in BOOLEAN, Launch(machotool)
         PROVE  IInv'
    <3>1. n \in dirs
      BY <2>13 DEF Launch, Step, IInv, TempDirs
    <3>2. QED
      BY <2>13, <3>1, QuietIInv DEF Launch, Reading, Starting
  <2>14. ASSUME NEW inherited \in Environments, Exec(inherited)
         PROVE  IInv'
    BY <2>14, ExecIInv
  <2>15. CASE ExecFails
    BY <2>15, FailIInv DEF ExecFails
  <2>16. CASE Killed
    BY <2>16, KilledIInv
  <2>17. ASSUME NEW i \in Runs, AppExits(i)
         PROVE  IInv'
    BY <2>17, AppExitsIInv
  <2>18. CASE UNCHANGED vars
    BY <2>18, ZenonT(60) DEF vars, IInv, Progress, TempDirs, Chosen, NotEmitting, Found, Parsed,
                 DescriptorUsable, SelfContained, SelfContainedLaunch, Arg, App
  <2>19. QED
    BY <2>1, <2>2, <2>3, <2>4, <2>5, <2>6, <2>7, <2>8, <2>9, <2>10, <2>11, <2>12,
       <2>13, <2>14, <2>15, <2>16, <2>17, <2>18 DEF Next
<1>3. QED
  BY <1>1, <1>2, PTL DEF Spec

-----------------------------------------------------------------------------
(* What follows. *)

\* The extracted tree is on disk while a step or the running application reads
\* it, and gone after every return of run_ipa.
THEOREM DirectoryKept == Spec => []TempDirs
<1>1. IInv => TempDirs
  BY DEF IInv
<1>2. QED
  BY Invariance, <1>1, PTL

\* Whatever Info.plist and the profile say, a run that ends well with
\* --emit-jpk leaves a descriptor bsdos-pkgd accepts, up to the two exceptions,
\* for the binary find_binary checked; and it never starts the application.
THEOREM DescriptorFits == Spec => []DescriptorUsable
<1>1. IInv => DescriptorUsable
  BY DEF IInv
<1>2. QED
  BY Invariance, <1>1, PTL

\* An application that brings images along is told to search the bundle for them
\* and nothing else, whatever the caller's environment says about those paths;
\* every other entry of it, for the loader or not, is passed on as it is.
THEOREM LaunchSelfContained == Spec => []SelfContained
<1>1. IInv => SelfContained
  BY DEF IInv
<1>2. QED
  BY Invariance, <1>1, PTL

-----------------------------------------------------------------------------
(* What is said of the dependencies. *)

\* Nothing is said of them before the plan is printed.
Unreported == pc \notin {"idle", "exec"} => report = ""

\* The conclusion is drawn from the bundle that was found.
LEMMA ResolutionHonest ==
    ASSUME IInv, pc \in {"dry_run", "launch"}, NEW machotool, Resolution(machotool) = "viable",
           NEW path \in Named(App.macho, HardKinds)
    PROVE  path.base \in embedded \/ path \in Named(App.macho, {"WEAK"})
<1>1. App \in Arg.ipa.apps /\ Arg.ipa \in Ipas
  BY OnePlist DEF Reading
<1>2. Counted(App.macho)
  BY <1>1, IpaRunAssumption, Zenon
<1>3. print_dep_resolution(App.macho, embedded, machotool) = "viable"
  BY DEF Resolution
<1>4. QED
  BY <1>2, <1>3, ViableIs

\* Whoever is told that a launch is viable has every library some slice cannot
\* do without in the bundle, or it is also named as weak: whatever the slices,
\* their commands and the Frameworks directory are.
THEOREM ViableIsHonest == Spec => []ViableHonest
<1> DEFINE HInv == Unreported /\ ViableHonest
<1>1. Init => HInv
  BY DEF Init, Unreported, ViableHonest
<1>2. IInv /\ HInv /\ [Next]_vars => HInv'
  <2> SUFFICES ASSUME IInv, HInv, [Next]_vars PROVE HInv'
    OBVIOUS
  <2>1. ASSUME app' = app, embedded' = embedded, report' = report PROVE ViableHonest'
    BY <2>1 DEF ViableHonest, App
  <2>2. ASSUME report' = "" PROVE HInv'
    BY <2>2 DEF Unreported, ViableHonest
  <2>3. CASE Fail
    BY <2>1, <2>3 DEF Fail, End, Unreported
  <2>4. ASSUME NEW ipa \in Ipas, NEW dry_run \in BOOLEAN, NEW launch \in BOOLEAN,
               NEW emit_jpk \in BOOLEAN, Run(ipa, dry_run, launch, emit_jpk)
        PROVE  HInv'
    BY <2>2, <2>4 DEF Run
  <2>5. CASE /\ ~Fail
             /\ \/ check_ipa \/ extract_ipa \/ Unpack \/ find_binary \/ read_info_plist
                \/ DerivePolicy \/ DiscoverFrameworks \/ EmitOpen \/ find_mldr
    <3>1. report' = report /\ pc \notin {"idle", "exec"}
      BY <2>5 DEF check_ipa, extract_ipa, Unpack, find_binary, read_info_plist, DerivePolicy,
                  DiscoverFrameworks, EmitOpen, find_mldr, Step, locals
    <3>2. QED
      BY <2>2, <3>1 DEF Unreported
  <2>6. CASE EmitWrite /\ ~Fail
    BY <2>1, <2>6 DEF EmitWrite, End, Unreported
  <2>7. ASSUME NEW machotool \in BOOLEAN, DryRun(machotool) \/ Launch(machotool)
        PROVE  HInv'
    <3>1. /\ pc \in {"dry_run", "launch"} /\ pc' \in {"idle", "exec"}
          /\ app' = app /\ embedded' = embedded /\ report' = Resolution(machotool)
      BY <2>7 DEF DryRun, Launch, End, Step
    <3>2. App' = App
      BY <3>1 DEF App
    <3>3. QED
      BY <3>1, <3>2, ResolutionHonest DEF Unreported, ViableHonest
  <2>8. ASSUME NEW inherited \in Environments, Exec(inherited)
        PROVE  HInv'
    BY <2>1, <2>8 DEF Exec, locals, Unreported
  <2>9. CASE ExecFails
    BY <2>3, <2>9 DEF ExecFails
  <2>10. CASE Killed
    BY <2>1, <2>10 DEF Killed, locals, Unreported
  <2>11. CASE (\E i \in Runs : AppExits(i)) \/ UNCHANGED vars
    BY <2>1, <2>11 DEF AppExits, locals, vars, Unreported
  <2>12. QED
    BY <2>3, <2>4, <2>5, <2>6, <2>7, <2>8, <2>9, <2>10, <2>11 DEF Next
<1>3. HInv => ViableHonest
  OBVIOUS
<1>4. QED
  BY Invariance, <1>1, <1>2, <1>3, PTL DEF Spec

-----------------------------------------------------------------------------
(* What the bundle says. *)

\* Info.plist read, in either format, is the document it stores.
LEMMA InfoRead ==
    ASSUME NEW f, NEW doc, Stores(f, doc), f.form = "xml" => PlainText(f, doc),
           NEW b \in parse_info_plist_bytes(f).info
    PROVE  b = bundle_info_from_bplist(doc)
<1>1. CASE f.form = "xml"
  <2>1. b = parse_info_plist(f.lines)
    BY <1>1 DEF parse_info_plist_bytes
  <2>2. Spelled(f.lines, doc, f.at) /\ PlainText(f, doc)
    BY <1>1 DEF Stores
  <2>3. parse_info_plist(f.lines) = bundle_info_from_bplist(doc)
    BY <2>2, ScannedInfoIs DEF PlainText, InfoKeys
  <2>4. QED
    BY <2>1, <2>3
<1>2. CASE f.form # "xml"
  <2> DEFINE r == parse_bplist(f)
  <2> HIDE DEF r
  <2>1. r.err = "" /\ b = bundle_info_from_bplist(r.val)
    BY <1>2 DEF parse_info_plist_bytes, r
  <2>2. r.val = doc
    BY <1>2, <2>1, BinaryIs DEF r
  <2>3. QED
    BY <2>1, <2>2
<1>3. QED
  BY <1>1, <1>2


\* What Info.plist asks for, when none of the keys is spelled below its root.
LEMMA InfoAsks ==
    ASSUME NEW f, NEW doc, Stores(f, doc),
           f.form = "xml" => Once(f.lines, doc, f.at, NETWORK_BOOL_KEYS),
           NEW b \in parse_info_plist_bytes(f).info
    PROVE  policy_from_bundle(b) =
              IF \E k \in NETWORK_BOOL_KEYS : OrElse(get_bool(doc, k), FALSE)
              THEN "inherit" ELSE "disable"
<1> DEFINE client == "com.apple.security.network.client"
<1> DEFINE server == "com.apple.security.network.server"
<1>1. NETWORK_BOOL_KEYS = {client, server} /\ BoolKeys = {client, server}
  BY DEF NETWORK_BOOL_KEYS, BoolKeys
<1>2. \E str, caps : b = BundleInfo(str, [k \in BoolKeys |-> get_bool(doc, k)], caps)
  <2>1. CASE f.form = "xml"
    <3>1. b = parse_info_plist(f.lines)
      BY <2>1 DEF parse_info_plist_bytes
    <3>2. Spelled(f.lines, doc, f.at) /\ Once(f.lines, doc, f.at, NETWORK_BOOL_KEYS)
      BY <2>1 DEF Stores
    <3>3. \A k \in BoolKeys : Once(f.lines, doc, f.at, {k})
      BY <1>1, <3>2 DEF Once
    <3>4. [k \in BoolKeys |-> extract_bool_after_key(f.lines, k)] = [k \in BoolKeys |-> get_bool(doc, k)]
      BY <3>2, <3>3, BoolIs
    <3>5. QED
      BY <3>1, <3>4, Zenon DEF parse_info_plist
  <2>2. CASE f.form # "xml"
    <3> DEFINE r == parse_bplist(f)
    <3> HIDE DEF r
    <3>1. r.err = "" /\ b = bundle_info_from_bplist(r.val)
      BY <2>2 DEF parse_info_plist_bytes, r
    <3>2. r.val = doc
      BY <2>2, <3>1, BinaryIs DEF r
    <3>3. QED
      BY <3>1, <3>2, Zenon DEF bundle_info_from_bplist
  <2>3. QED
    BY <2>1, <2>2
<1>3. PICK str, caps : b = BundleInfo(str, [k \in BoolKeys |-> get_bool(doc, k)], caps)
  BY <1>2
<1> DEFINE bool == [k \in BoolKeys |-> get_bool(doc, k)]
<1>4. bool[client] = get_bool(doc, client) /\ bool[server] = get_bool(doc, server)
  BY <1>1
<1>5. b.network_client = OrElse(bool[client], FALSE) /\ b.network_server = OrElse(bool[server], FALSE)
  BY <1>3, Zenon DEF BundleInfo
<1> HIDE DEF bool, client, server
<1>6. policy_from_bundle(b) =
         IF OrElse(bool[client], FALSE) \/ OrElse(bool[server], FALSE) THEN "inherit" ELSE "disable"
  BY <1>5, Zenon DEF policy_from_bundle
<1>7. (OrElse(bool[client], FALSE) \/ OrElse(bool[server], FALSE))
        <=> \E k \in NETWORK_BOOL_KEYS : OrElse(get_bool(doc, k), FALSE)
  BY <1>1, <1>4, Zenon
<1>8. QED
  BY <1>6, <1>7, Zenon

\* Option's unwrap_or.
LEMMA OrElseIs == ASSUME NEW v, NEW d PROVE OrElse({v}, d) = v /\ OrElse({}, d) = d
<1>1. {v} = Some(v) /\ {} = None /\ Some(v) # None
  BY DEF Some, None
<1>2. QED
  BY <1>1, ValueOfSome DEF OrElse

\* What the profile grants, when the scan is not mistaken about it.
LEMMA ProfileGrants ==
    ASSUME NEW p, Signs(p), ~Misread(p)
    PROVE  entitlements_from_xml(p.lines).network <=> \E e \in Entitlements(p) : Grants(e.doc)
<1> DEFINE scope == OrElse(isolate_entitlements_dict(p.lines), p.lines)
<1> DEFINE network == \/ \E k \in NETWORK_BOOL_KEYS : TRUE \in extract_bool_after_key(scope, k)
                      \/ \E k \in NETWORK_PRESENCE_KEYS : key_is_present(scope, k)
<1>1. Once(p.lines, p.doc, p.at, {"Entitlements"}) /\ Entitlements(p) # {}
  BY DEF Misread
<1>2. ASSUME NEW e \in Entitlements(p)
      PROVE  e.lines = scope /\ Spelled(e.lines, e.doc, e.at)
  <2>1. CASE Lookup(p.doc, "Entitlements") = {}
    <3>1. e = [lines |-> p.lines, doc |-> p.doc, at |-> p.at]
      BY <1>2, <2>1 DEF Entitlements
    <3>2. isolate_entitlements_dict(p.lines) = {}
      BY <1>1, <2>1, IsolatedIs
    <3>3. Spelled(p.lines, p.doc, p.at)
      BY DEF Signs
    <3>4. scope = p.lines
      BY <3>2, OrElseIs
    <3>5. QED
      BY <3>1, <3>3, <3>4
  <2>2. CASE Lookup(p.doc, "Entitlements") # {}
    <3>1. PICK i \in EntitlementsAt(p) :
             e = [lines |-> Inside(p, i), doc |-> p.doc.entries[i][2], at |-> p.inner[i]]
      BY <1>2, <2>2 DEF Entitlements
    <3>2. isolate_entitlements_dict(p.lines) = {Inside(p, i)}
      BY <1>1, IsolatedIs
    <3>3. scope = Inside(p, i)
      BY <3>2, OrElseIs
    <3>4. Spelled(Inside(p, i), p.doc.entries[i][2], p.inner[i])
      BY DEF Signs
    <3>5. QED
      BY <3>1, <3>3, <3>4
  <2>3. QED
    BY <2>1, <2>2
<1>3. entitlements_from_xml(p.lines).network = network
  BY Zenon DEF entitlements_from_xml
<1> HIDE DEF scope
<1>4. ASSUME NEW e \in Entitlements(p) PROVE Grants(e.doc) <=> network
  <2>1. e.lines = scope /\ Spelled(e.lines, e.doc, e.at)
    BY <1>2
  <2>2. /\ Once(e.lines, e.doc, e.at, NETWORK_BOOL_KEYS \cup NETWORK_PRESENCE_KEYS)
        /\ \A i \in DOMAIN e.at : e.doc.entries[i][1] \in NETWORK_PRESENCE_KEYS
                                     => e.lines[e.at[i]].tag = ""
    BY DEF Misread, GrantingKeys
  <2>3. /\ \A k \in NETWORK_BOOL_KEYS : extract_bool_after_key(e.lines, k) = get_bool(e.doc, k)
        /\ \A k \in NETWORK_PRESENCE_KEYS : key_is_present(e.lines, k) <=> Lookup(e.doc, k) # {}
    BY <2>1, <2>2, NetworkIs
  <2>4. QED
    BY <2>1, <2>3, Zenon DEF Grants
<1> HIDE DEF network
<1>5. QED
  BY <1>1, <1>3, <1>4

\* The mode run_ipa derives is what the application was granted.
LEMMA PolicyIs ==
    ASSUME NEW a, \E ipa \in Ipas : a \in ipa.apps, ~NetworkMisread(a),
           NEW f \in a.plist, NEW b \in parse_info_plist_bytes(f).info
    PROVE  policy_from_entitlements(b, UNION {read_mobileprovision(p) : p \in a.profile}) =
              IF NetworkGranted(a) THEN "inherit" ELSE "disable"
<1> DEFINE provision == UNION {read_mobileprovision(p) : p \in a.profile}
<1>1. /\ Stores(f, a.info)
      /\ \A p, q \in a.profile : p = q
      /\ \A p \in a.profile : p.readable \in BOOLEAN /\ (p.readable => Signs(p))
  BY BundleAssumption
<1>2. CASE Readables(a) = {}
  <2>1. provision = {}
    BY <1>1, <1>2 DEF Readables, read_mobileprovision
  <2>2. f.form = "xml" => Once(f.lines, a.info, f.at, NETWORK_BOOL_KEYS)
    BY <1>2 DEF NetworkMisread
  <2>3. policy_from_entitlements(b, provision) = policy_from_bundle(b)
    BY <2>1 DEF policy_from_entitlements, None
  <2>4. NetworkGranted(a) <=> \E k \in NETWORK_BOOL_KEYS : OrElse(get_bool(a.info, k), FALSE)
    BY <1>2 DEF NetworkGranted
  <2>5. QED
    BY <1>1, <2>2, <2>3, <2>4, InfoAsks, Zenon
<1>3. CASE Readables(a) # {}
  <2>1. PICK p \in a.profile : p.readable
    BY <1>3 DEF Readables
  <2>2. a.profile = {p} /\ Readables(a) = {p}
    BY <1>1, <2>1 DEF Readables
  <2>3. Signs(p) /\ ~Misread(p)
    BY <1>1, <1>3, <2>1, <2>2 DEF NetworkMisread
  <2>4. provision = {entitlements_from_xml(p.lines)}
    BY <2>1, <2>2 DEF read_mobileprovision
  <2> DEFINE e == entitlements_from_xml(p.lines)
  <2>5. e.network <=> \E x \in Entitlements(p) : Grants(x.doc)
    BY <2>3, ProfileGrants
  <2>6. NetworkGranted(a) <=> \E x \in Entitlements(p) : Grants(x.doc)
    BY <2>2 DEF NetworkGranted
  <2> HIDE DEF e, provision
  <2>7. policy_from_entitlements(b, provision) = IF e.network THEN "inherit" ELSE "disable"
    BY <2>4 DEF policy_from_entitlements, None, e
  <2>8. QED
    BY <2>5, <2>6, <2>7 DEF provision
<1>4. QED
  BY <1>2, <1>3

-----------------------------------------------------------------------------
(* What run_ipa believes about the bundle. *)

Unread == {"check", "tempdir", "unpack", "find", "plist"}
Decisive == {"frameworks", "emit", "write"} \cup Starting

\* What is known of the bundle was read in its Info.plist.
Informed ==
    /\ pc \in Unread => bundle = None
    /\ bundle # None => n > 0 /\ app # None /\ App \in Arg.ipa.apps /\ Arg.ipa \in Ipas
    /\ \A b \in bundle : \E f \in App.plist : b \in parse_info_plist_bytes(f).info

\* The mode was derived from that and from the profile.
Decided ==
    /\ pc \in Unread \cup {"policy"} => policy = None
    /\ pc \in Decisive => \E mode : policy = Some(mode)
    /\ \A mode \in policy : \E b \in bundle :
          mode = policy_from_entitlements(b, UNION {read_mobileprovision(p) : p \in App.profile})

\* A descriptor written by the last run has the mode it derived.
Written ==
    n > 0 /\ Arg.emit_jpk /\ ended[n] = "ok" =>
        \A doc \in out.doc : \E mode \in policy : doc.network = Some(jpk_network(mode))

BInv == Informed /\ Decided /\ Written

\* Nothing is known before the first run.
LEMMA InitBInv == Init => BInv
<1> SUFFICES ASSUME Init PROVE BInv
  OBVIOUS
<1>1. pc = "idle" /\ bundle = {} /\ policy = {} /\ n = 0
  BY DEF Init, None
<1>2. Informed /\ Decided
  BY <1>1 DEF Informed, Decided, Unread, Decisive, Starting, None
<1>3. Written
  BY <1>1 DEF Written
<1>4. QED
  BY <1>2, <1>3 DEF BInv

\* A step that reads nothing.
LEMMA Unlearnt ==
    ASSUME Informed, Decided, n' = n, args' = args, app' = app, bundle' = bundle, policy' = policy,
           pc' \in Unread => pc \in Unread, pc' \in Decisive => pc \in Decisive,
           pc' = "policy" => pc \in Unread \cup {"policy"}
    PROVE  Informed' /\ Decided'
<1>1. App' = App /\ Arg' = Arg
  BY DEF App, Arg
<1>2. Informed'
  BY <1>1 DEF Informed
<1>3. Decided'
  BY <1>1 DEF Decided
<1>4. QED
  BY <1>2, <1>3

\* The last run has not ended, or not well.
LEMMA Unwritten == ASSUME ended'[n'] # "ok" PROVE Written'
  BY DEF Written

\* How the last run ended, after a step that ends it or does not.
LEMMA EndedIs ==
    ASSUME IInv, pc # "idle", n' = n
    PROVE  /\ ended' = ended => ended'[n'] = ""
           /\ \A how : ended' = [ended EXCEPT ![n] = how] => ended'[n'] = how
  BY DEF IInv, Progress

\* Info.plist is read.
LEMMA PlistBInv == ASSUME IInv, BInv, read_info_plist PROVE BInv'
<1>1. CASE Fail
  <2>1. Informed' /\ Decided'
    BY <1>1, Unlearnt DEF BInv, Fail, End, Unread, Decisive, Starting
  <2>2. Written'
    BY <1>1, EndedIs, Unwritten DEF Fail, End, read_info_plist
  <2>3. QED
    BY <2>1, <2>2 DEF BInv
<1>2. CASE ~Fail
  <2> DEFINE parsed == {parse_info_plist_bytes(f) : f \in App.plist}
  <2>1. /\ pc = "plist" /\ pc' = "policy" /\ n' = n /\ args' = args /\ app' = app
        /\ bundle' = UNION {r.info : r \in parsed} /\ policy' = policy /\ ended' = ended
    BY <1>2 DEF read_info_plist, Step
  <2>2. App' = App /\ Arg' = Arg
    BY <2>1 DEF App, Arg
  <2>3. App \in Arg.ipa.apps /\ Arg.ipa \in Ipas
    BY <2>1, OnePlist DEF Reading
  <2>4. n > 0 /\ app # None
    <3>1. n \in 0..MaxRuns /\ n \in Runs /\ MaxRuns \in Nat
      BY <2>1, IpaRunAssumption DEF IInv, Progress
    <3>2. PICK a \in Arg.ipa.apps : app = Some(a)
      BY <2>1 DEF IInv, Found, Reading
    <3>3. QED
      BY <3>1, <3>2, ValueOfSome DEF Runs
  <2>5. Informed'
    BY <2>1, <2>2, <2>3, <2>4 DEF Informed, Unread
  <2>6. policy = None
    BY <2>1 DEF BInv, Decided, Unread
  <2>7. Decided'
    BY <2>1, <2>6 DEF Decided, Decisive, Starting, None
  <2>8. Written'
    BY <2>1, EndedIs, Unwritten
  <2>9. QED
    BY <2>5, <2>7, <2>8 DEF BInv
<1>3. QED
  BY <1>1, <1>2

\* The policy is derived.
LEMMA PolicyBInv == ASSUME IInv, BInv, DerivePolicy PROVE BInv'
<1>1. /\ pc = "policy" /\ pc' = "frameworks" /\ n' = n /\ args' = args /\ app' = app
      /\ bundle' = bundle /\ ended' = ended
      /\ policy' = Some(policy_from_entitlements(Value(bundle),
                            UNION {read_mobileprovision(p) : p \in App.profile}))
  BY DEF DerivePolicy, Step
<1>2. App' = App /\ Arg' = Arg
  BY <1>1 DEF App, Arg
<1>3. PICK b : bundle = {b}
  BY <1>1, InfoIs DEF IInv, Parsed, Reading
<1>4. Value(bundle) = b
  BY <1>3, ValueOfSome DEF Some
<1>5. Informed'
  BY <1>1, <1>2 DEF BInv, Informed, Unread
<1>6. Decided'
  BY <1>1, <1>2, <1>3, <1>4 DEF Decided, Unread, Some
<1>7. Written'
  BY <1>1, EndedIs, Unwritten
<1>8. QED
  BY <1>5, <1>6, <1>7 DEF BInv

\* The descriptor is written.
LEMMA WriteBInv == ASSUME IInv, BInv, EmitWrite, ~Fail PROVE BInv'
<1>1. /\ pc = "write" /\ pc' = "idle" /\ n' = n /\ args' = args /\ app' = app
      /\ bundle' = bundle /\ policy' = policy
      /\ out' = File(ipa_to_jpk_descriptor(Value(bundle), Value(policy)))
  BY DEF EmitWrite, End
<1>2. Informed' /\ Decided'
  BY <1>1, Unlearnt DEF BInv, Unread, Decisive, Starting
<1>3. PICK mode : policy = Some(mode)
  BY <1>1 DEF BInv, Decided, Decisive
<1>4. Value(policy) = mode /\ mode \in policy
  BY <1>3, ValueOfSome DEF Some
<1>5. ASSUME NEW doc \in out'.doc PROVE doc.network = Some(jpk_network(mode))
  <2>1. out'.doc = {ipa_to_jpk_descriptor(Value(bundle), mode)}
    BY <1>1, <1>4 DEF File
  <2>2. QED
    BY <2>1 DEF ipa_to_jpk_descriptor
<1>6. Written'
  BY <1>1, <1>4, <1>5 DEF Written
<1>7. QED
  BY <1>2, <1>6 DEF BInv

\* Every step.
LEMMA NextBInv == ASSUME IInv, BInv, [Next]_vars PROVE BInv'
<1>1. ASSUME NEW ipa \in Ipas, NEW dry_run \in BOOLEAN, NEW launch \in BOOLEAN,
             NEW emit_jpk \in BOOLEAN, Run(ipa, dry_run, launch, emit_jpk)
      PROVE  BInv'
  <2>1. /\ pc' = "check" /\ bundle' = {} /\ policy' = {} /\ n' = n + 1 /\ ended' = ended
        /\ n < MaxRuns
    BY <1>1 DEF Run, None
  <2>2. Informed' /\ Decided'
    BY <2>1 DEF Informed, Decided, Unread, Decisive, Starting, None
  <2>3. ended'[n'] # "ok"
    <3>1. n \in 0..MaxRuns /\ MaxRuns \in Nat /\ n < MaxRuns
      BY <2>1, IpaRunAssumption, Zenon DEF IInv, Progress
    <3>2. n + 1 \in Runs /\ n + 1 > n
      BY <3>1 DEF Runs
    <3>3. \A i \in Runs : i > n => ended[i] = ""
      BY DEF IInv, Progress
    <3>4. QED
      BY <2>1, <3>2, <3>3
  <2>4. QED
    BY <2>2, <2>3, Unwritten DEF BInv
<1>2. CASE Fail /\ pc # "idle"
  <2>1. Informed' /\ Decided'
    BY <1>2, Unlearnt DEF BInv, Fail, End, Unread, Decisive, Starting
  <2>2. Written'
    BY <1>2, EndedIs, Unwritten DEF Fail, End
  <2>3. QED
    BY <2>1, <2>2 DEF BInv
<1>3. CASE /\ ~Fail
           /\ \/ check_ipa \/ extract_ipa \/ Unpack \/ DiscoverFrameworks \/ EmitOpen \/ find_mldr
              \/ \E machotool \in BOOLEAN : Launch(machotool)
  <2>1. /\ pc # "idle" /\ n' = n /\ args' = args /\ app' = app /\ bundle' = bundle
        /\ policy' = policy /\ ended' = ended
        /\ pc' \in Unread => pc \in Unread
        /\ pc' \in Decisive => pc \in Decisive
        /\ pc' # "policy"
    BY <1>3 DEF check_ipa, extract_ipa, Unpack, DiscoverFrameworks, EmitOpen, find_mldr, Launch,
                Step, locals, Unread, Decisive, Starting
  <2>2. Informed' /\ Decided'
    BY <2>1, Unlearnt DEF BInv
  <2>3. Written'
    BY <2>1, EndedIs, Unwritten
  <2>4. QED
    BY <2>2, <2>3 DEF BInv
<1>4. CASE find_binary /\ ~Fail
  <2>1. /\ pc = "find" /\ pc' = "plist" /\ n' = n /\ bundle' = bundle /\ policy' = policy
        /\ ended' = ended
    BY <1>4 DEF find_binary, Step
  <2>2. bundle = {} /\ policy = {}
    BY <2>1 DEF BInv, Informed, Decided, Unread, None
  <2>3. Informed' /\ Decided'
    BY <2>1, <2>2 DEF Informed, Decided, Unread, Decisive, Starting, None
  <2>4. Written'
    BY <2>1, EndedIs, Unwritten
  <2>5. QED
    BY <2>3, <2>4 DEF BInv
<1>5. ASSUME NEW machotool \in BOOLEAN, DryRun(machotool) PROVE BInv'
  <2>1. /\ pc = "dry_run" /\ pc' = "idle" /\ n' = n /\ args' = args /\ app' = app
        /\ bundle' = bundle /\ policy' = policy
    BY <1>5 DEF DryRun, End
  <2>2. Informed' /\ Decided'
    BY <2>1, Unlearnt DEF BInv, Unread, Decisive, Starting
  <2>3. Arg' = Arg /\ Arg.emit_jpk = FALSE
    BY <2>1 DEF IInv, NotEmitting, Starting, Arg
  <2>4. Written'
    BY <2>3 DEF Written
  <2>5. QED
    BY <2>2, <2>4 DEF BInv
<1>6. CASE Killed \/ \E inherited \in Environments : Exec(inherited)
  <2>1. /\ pc # "idle" /\ pc' = "idle" /\ n' = n /\ args' = args /\ app' = app
        /\ bundle' = bundle /\ policy' = policy
        /\ \E how \in {"killed", "exec"} : ended' = [ended EXCEPT ![n] = how]
    BY <1>6 DEF Killed, Exec, locals
  <2>2. Informed' /\ Decided'
    BY <2>1, Unlearnt DEF BInv, Unread, Decisive, Starting
  <2>3. Written'
    BY <2>1, EndedIs, Unwritten
  <2>4. QED
    BY <2>2, <2>3 DEF BInv
<1>7. CASE UNCHANGED vars
  <2>1. Informed' /\ Decided'
    BY <1>7, Unlearnt DEF BInv, vars
  <2>2. Written'
    BY <1>7 DEF BInv, Written, Arg, vars
  <2>3. QED
    BY <2>1, <2>2 DEF BInv
<1>8. ASSUME NEW i \in Runs, AppExits(i) PROVE BInv'
  <2>1. /\ pc' = pc /\ n' = n /\ args' = args /\ app' = app /\ bundle' = bundle
        /\ policy' = policy /\ out' = out
        /\ ended[i] = "exec" /\ ended' = [ended EXCEPT ![i] = "exited"]
    BY <1>8 DEF AppExits, locals
  <2>2. Informed' /\ Decided'
    BY <2>1, Unlearnt DEF BInv
  <2>3. ASSUME n > 0, ended'[n] = "ok" PROVE ended[n] = "ok"
    <3>1. n \in 0..MaxRuns /\ MaxRuns \in Nat
      BY IpaRunAssumption, Zenon DEF IInv, Progress
    <3>2. n \in Runs
      BY <2>3, <3>1 DEF Runs
    <3>3. ended \in [Runs -> {"", "ok", "error", "exec", "exited", "killed"}]
      BY DEF IInv, Progress
    <3>4. QED
      BY <2>1, <2>3, <3>2, <3>3
  <2>4. Written'
    BY <2>1, <2>3 DEF BInv, Written, Arg
  <2>5. QED
    BY <2>2, <2>4 DEF BInv
<1>9. ASSUME Fail, Next, \A ipa \in Ipas, dry_run, launch, emit_jpk \in BOOLEAN :
                             ~Run(ipa, dry_run, launch, emit_jpk),
             \A i \in Runs : ~AppExits(i)
      PROVE  pc # "idle"
  BY <1>9 DEF Next, check_ipa, extract_ipa, Unpack, find_binary, read_info_plist, DerivePolicy,
              DiscoverFrameworks, EmitOpen, EmitWrite, find_mldr, DryRun, Launch, Exec, ExecFails,
              Killed, Step
<1>10. QED
  BY <1>1, <1>2, <1>3, <1>4, <1>5, <1>6, <1>7, <1>8, <1>9, PlistBInv, PolicyBInv, WriteBInv
     DEF Next, ExecFails

\* What run_ipa believes about the bundle is what the root dictionary of
\* Info.plist says, in whichever format, wherever the line scan can tell.
THEOREM InfoIsFaithful == Spec => []InfoFaithful
<1>1. Init => BInv
  BY InitBInv
<1>2. IInv /\ BInv /\ [Next]_vars => BInv'
  BY NextBInv
<1>3. BInv => InfoFaithful
  <2> SUFFICES ASSUME BInv, NEW b \in bundle,
                      ~\E f \in App.plist : f.form = "xml" /\ ~PlainText(f, App.info)
               PROVE  b = bundle_info_from_bplist(App.info)
    BY DEF InfoFaithful
  <2>1. PICK f \in App.plist : b \in parse_info_plist_bytes(f).info
    BY DEF BInv, Informed
  <2>2. App \in Arg.ipa.apps /\ Arg.ipa \in Ipas
    BY DEF BInv, Informed, None
  <2>3. Stores(f, App.info)
    BY <2>2, BundleAssumption
  <2>4. QED
    BY <2>1, <2>3, InfoRead
<1>4. QED
  BY Invariance, <1>1, <1>2, <1>3, PTL DEF Spec

\* The jail has the network exactly if the application was granted it, and the
\* descriptor says the same.
THEOREM NetworkIsAsGranted == Spec => []NetworkAsGranted
<1>1. Init => BInv
  BY InitBInv
<1>2. IInv /\ BInv /\ [Next]_vars => BInv'
  BY NextBInv
<1>3. BInv => NetworkAsGranted
  <2> SUFFICES ASSUME BInv, ~(app # None /\ NetworkMisread(App))
               PROVE  /\ \A mode \in policy :
                            mode = IF NetworkGranted(App) THEN "inherit" ELSE "disable"
                      /\ n > 0 /\ Arg.emit_jpk /\ ended[n] = "ok" =>
                            \A doc \in out.doc :
                                doc.network = Some(IF NetworkGranted(App) THEN "inet" ELSE "none")
    BY Zenon DEF NetworkAsGranted
  <2>1. ASSUME NEW mode \in policy
        PROVE  mode = IF NetworkGranted(App) THEN "inherit" ELSE "disable"
    <3>1. PICK b \in bundle :
             mode = policy_from_entitlements(b, UNION {read_mobileprovision(p) : p \in App.profile})
      BY DEF BInv, Decided
    <3>2. PICK f \in App.plist : b \in parse_info_plist_bytes(f).info
      BY DEF BInv, Informed
    <3>3. app # None /\ App \in Arg.ipa.apps /\ Arg.ipa \in Ipas
      BY <3>1 DEF BInv, Informed, None
    <3>4. ~NetworkMisread(App)
      BY <3>3
    <3>5. QED
      BY <3>1, <3>2, <3>3, <3>4, PolicyIs, Zenon
  <2>2. ASSUME n > 0, Arg.emit_jpk, ended[n] = "ok", NEW doc \in out.doc
        PROVE  doc.network = Some(IF NetworkGranted(App) THEN "inet" ELSE "none")
    <3>1. PICK mode \in policy : doc.network = Some(jpk_network(mode))
      BY <2>2 DEF BInv, Written
    <3>2. jpk_network(mode) = IF NetworkGranted(App) THEN "inet" ELSE "none"
      BY <2>1 DEF jpk_network
    <3>3. QED
      BY <3>1, <3>2, Zenon
  <2>3. QED
    BY <2>1, <2>2
<1>4. QED
  BY Invariance, <1>1, <1>2, <1>3, PTL DEF Spec

=============================================================================
