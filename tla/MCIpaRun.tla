------------------------------ MODULE MCIpaRun ------------------------------
(***************************************************************************)
(* Instances of IpaRun: one ordinary application, and archives that differ *)
(* from it in one aspect each.                                             *)
(***************************************************************************)
EXTENDS BundleFaithful, PropertyTrees

Client == "com.apple.security.network.client"
Multipath == "com.apple.developer.networking.multipath"

Entry(k, v) == <<k, v>>
Id(s) == Entry("CFBundleIdentifier", Str(s))
Main(s) == Entry("CFBundleExecutable", Str(s))
Caps == Entry("UIRequiredDeviceCapabilities", Arr(<<Str("armv7"), Str("arm64")>>))
Base == Dict(<<Id("com.a.app"), Main("Main"), Caps, Entry(Client, Bool(TRUE))>>)

Infos ==
    {Base, Dict(<<>>), Dict(<<Id("com.a.app")>>), Dict(<<Id(""), Main("")>>),
     Dict(<<Id("long"), Main("Main")>>), Dict(<<Id("app"), Main("Main")>>),
     Dict(<<Id("com.a.app"), Main("Main"), Entry("CFBundleName", Str("A&B"))>>),
     Dict(<<Main("Main"), Entry("CFBundleIdentifier", Bool(TRUE))>>),
     \* a nested dictionary with keys of the root, before and after them
     Dict(<<Entry("Ext", Dict(<<Main("Tool"), Entry(Client, Bool(TRUE))>>)), Main("Main")>>),
     Dict(<<Main("Main"), Entry("Ext", Dict(<<Main("Tool")>>)), Caps>>),
     \* more objects than the budget, one level deep
     Dict(<<Id("com.a.app"), Main("Main"), Caps, Entry(Client, Bool(TRUE)),
            Entry("MinimumOSVersion", Str("13.0"))>>),
     \* two equal keys; an array in an array
     Dict(<<Main("Main"), Id("com.a.app"), Id("app"), Entry(Client, Bool(TRUE)), Entry(Client, Bool(FALSE))>>),
     Dict(<<Main("Main"), Entry("UIRequiredDeviceCapabilities", Arr(<<Arr(<<Str("arm64")>>)>>))>>)}

Broken ==
    LET good == bplist(Encode(Base, 0))
    IN  {WithTrees(f) : f \in
            {[good EXCEPT !.short = TRUE], [good EXCEPT !.offset_int_size = 0],
             [good EXCEPT !.object_ref_size = 9], [good EXCEPT !.num_objects = 0],
             [good EXCEPT !.top_object = @ + good.num_objects], [good EXCEPT !.table_room = 1],
             [good EXCEPT !.stray = {3}], [good EXCEPT !.num_objects = 4],
             [good EXCEPT !.objects[3] = [t |-> "bad"]],
             [good EXCEPT !.objects[3] = [t |-> "array", refs |-> <<2>>]]}}

Cmd(kind, dir, base) == [cmd |-> kind, cmdsize |-> 24, str_off |-> 12,
                         path |-> [dir |-> dir, base |-> base]]
Image(cmds) ==
    [magic |-> TRUE, ncmds |-> Len(cmds), sizeofcmds |-> 24 * Len(cmds), room |-> 100,
     cmds |-> [o \in {24 * (i - 1) : i \in DOMAIN cmds} |-> cmds[o \div 24 + 1]]]
Thin(img) == [magic |-> "thin", image |-> img]
Fat(imgs) == [magic |-> "fat", nfat |-> Len(imgs),
              arches |-> [i \in DOMAIN imgs |-> [fits |-> TRUE, image |-> imgs[i]]]]

Foo == Cmd("LOAD", "@rpath/Foo.framework", "Foo")
Sys(kind) == Cmd(kind, "/usr/lib", "libSystem.B.dylib")
FooOnly == Image(<<Foo, [Foo EXCEPT !.cmd = "RPATH"]>>)

MachOs ==
    LET two == Image(<<Foo, Sys("LOAD")>>)
    IN  {Thin(FooOnly), Thin(two), Thin(Image(<<Sys("WEAK"), Foo>>)),
         Thin(Image(<<Sys("REEXPORT"), [Foo EXCEPT !.cmd = "UUID"]>>)),
         Thin(Image(<<[Foo EXCEPT !.path = EmptyPath]>>)),
         Thin([two EXCEPT !.cmds[0].cmdsize = 0]), Thin([two EXCEPT !.cmds[24].str_off = 24]),
         Thin([two EXCEPT !.cmds[24].cmdsize = 32]), Thin([two EXCEPT !.ncmds = 3]),
         Thin([two EXCEPT !.room = 40]), Thin([two EXCEPT !.magic = FALSE]),
         Fat(<<FooOnly, Image(<<Sys("WEAK")>>), two>>), Fat(<<FooOnly, two>>),
         [Fat(<<FooOnly>>) EXCEPT !.nfat = 2], [Fat(<<FooOnly>>) EXCEPT !.arches[1].fits = FALSE],
         [magic |-> "script", image |-> FooOnly]}

Dir(entries) == [state |-> "there", entries |-> entries]
Framework(name, has) == [name |-> name, kind |-> "framework", has_binary |-> has]
Vendored == Dir({Framework("Foo", TRUE), [name |-> "README", kind |-> "other", has_binary |-> FALSE]})
FrameworkDirs ==
    {[state |-> "missing", entries |-> {}], [state |-> "unreadable", entries |-> {}], Dir({}),
     Vendored, Dir({Framework("Foo", FALSE), [name |-> "libSystem.B.dylib", kind |-> "dylib",
                                              has_binary |-> FALSE]})}

Signed(doc) == {SignedProfile(doc, "lines")}
Profile(entries) == Signed(Dict(<<Entry("Name", Str("dev")), Entry("Entitlements", Dict(entries))>>))
Profiles ==
    {{}, {[readable |-> FALSE, doc |-> Dict(<<>>), lines |-> <<>>]}}
    \cup {{SignedProfile(Dict(<<Entry("Entitlements", Dict(<<Entry(Multipath, Arr(<<Str("wifi")>>))>>))>>),
                         layout)} : layout \in {"lines", "inline", "joined"}}
    \cup {
     Profile(<<Entry(Client, Bool(TRUE))>>), Profile(<<Entry(Client, Bool(FALSE))>>),
     Profile(<<Entry("get-task-allow", Bool(TRUE)), Entry(Multipath, Arr(<<Str("wifi")>>))>>),
     Profile(<<Entry("keychain", Dict(<<Entry("group", Str("g"))>>)), Entry(Client, Bool(TRUE))>>),
     Profile(<<Entry("keychain", Dict(<<Entry(Client, Bool(TRUE))>>))>>),
     Signed(Dict(<<Entry("Entitlements", Dict(<<>>)),
                   Entry("Other", Dict(<<Entry(Client, Bool(TRUE))>>))>>)),
     Signed(Dict(<<Entry("Name", Str("dev"))>>)), Signed(Dict(<<Entry(Client, Bool(TRUE))>>)),
     Signed(Dict(<<Entry("Entitlements", Str("none")), Entry(Client, Bool(TRUE))>>)),
     Signed(Dict(<<Entry("Entitlements", Dict(<<Entry(Client, Bool(TRUE)),
                                                Entry(Client, Bool(FALSE))>>))>>)),
     Signed(Dict(<<Entry("Entitlements", Dict(<<Entry("team", Str("t"))>>)),
                   Entry("Other", Dict(<<Entry(Client, Bool(TRUE))>>))>>))}

Ordinary ==
    [stem |-> "App", files |-> {"Main", "App"}, info |-> Base, plist |-> {BinaryFile(Base)},
     profile |-> {}, frameworks |-> Vendored, macho |-> Thin(FooOnly)]

Apps ==
    {[Ordinary EXCEPT !.info = doc, !.plist = {BinaryFile(doc)}] : doc \in Infos}
    \cup {[Ordinary EXCEPT !.info = doc, !.plist = {XmlFile(doc, lay)}] :
             doc \in Infos, lay \in {"lines", "inline", "joined"}}
    \cup {[Ordinary EXCEPT !.plist = {f}] : f \in Broken}
    \cup {[Ordinary EXCEPT !.plist = {}], [Ordinary EXCEPT !.files = {"App"}]}
    \cup {[Ordinary EXCEPT !.profile = p] : p \in Profiles}
    \cup {[Ordinary EXCEPT !.info = Dict(<<Main("Main")>>),
                           !.plist = {BinaryFile(Dict(<<Main("Main")>>))}, !.profile = p] : p \in Profiles}
    \cup {[Ordinary EXCEPT !.frameworks = d] : d \in FrameworkDirs}
    \cup {[Ordinary EXCEPT !.macho = m] : m \in MachOs}

MCIpas ==
    {[zip |-> "ok", apps |-> {a}] : a \in Apps}
    \cup {[zip |-> z, apps |-> {Ordinary}] : z \in {"no zip", "broken"}}
    \cup {[zip |-> "ok", apps |-> {}],
          [zip |-> "ok", apps |-> {Ordinary, [Ordinary EXCEPT !.stem = "Two", !.info = Dict(<<>>),
                                                              !.plist = {BinaryFile(Dict(<<>>))}]}]}

MCTrimmed ==
    [s \in {"com.a.app", "app", "unknown.bundle", "long", ""} |->
        [len |-> CASE s = "long" -> MaxIdLen + 1 [] s = "" -> 0 [] s = "app" -> 3 [] OTHER -> 9,
         dotted |-> s \notin {"app", ""},
         label |-> IF s = "unknown.bundle" THEN "app_bundle" ELSE "app_app"]]

MCHostVars ==
    {<<"DYLD_LIBRARY_PATH", "host">>, <<"DYLD_LIBRARY_PATH", "other">>,
     <<"DYLD_INSERT_LIBRARIES", "host">>, <<"LANG", "raw">>}

MCEscapes == [s \in {"A&B"} |-> "A&amp;B"]

\* bplist.rs:127, of the documents of the instance
NestingOnly ==
    \A a \in app : \A f \in a.plist : f = BinaryFile(a.info) => TooDeepMeansDeep(a.info)

(* The application's directory is removed when the process ends, as the help *)
(* of the command says (main.rs:60-61).                                      *)
TempCleaned == \A i \in Runs : ended[i] = "exited" => i \notin dirs

=============================================================================
