-------------------------------- MODULE MachO --------------------------------
(***************************************************************************)
(* What a Mach-O image depends on and whether a bundle brings it along:    *)
(* the parser of machotool (macho.rs), its deps report, and the resolution *)
(* of that report against the bundle's Frameworks directory                *)
(* (bsdos-run/src/frameworks.rs).                                          *)
(*                                                                         *)
(* An image is its header fields and a function from an offset in the      *)
(* load-command region to the command that starts there (zeroes are read   *)
(* anywhere else).  A list the code builds in file order is the set of its *)
(* lines, each with the place that orders it.  A path is a directory part and a base name.  Byte      *)
(* order and word size only choose how fields are read: they are the       *)
(* "magic" that is known or not.  LC_REQ_DYLD is masked off before the     *)
(* match and left out.                                                     *)
(***************************************************************************)
EXTENDS Option, Integers, Sequences, FiniteSets

DepKinds == {"LOAD", "WEAK", "REEXPORT"}
HardKinds == {"LOAD", "REEXPORT"}
PrintedKinds == DepKinds \cup {"RPATH"}
EmptyPath == [dir |-> "", base |-> ""]

Zeroes == [cmd |-> "0", cmdsize |-> 0, str_off |-> 0, path |-> EmptyPath]
CommandAt(img, off) == IF off \in DOMAIN img.cmds THEN img.cmds[off] ELSE Zeroes

\* The string lies inside its command, after the two words of the header.
read_lc_str_ok(c) == c.str_off \in 8..(c.cmdsize - 1)

\* What a dylib or rpath command at off adds to the lists of the slice.
LinesOf(c, off) ==
    IF c.cmd \in PrintedKinds THEN {[at |-> off, kind |-> c.cmd, path |-> c.path]} ELSE {}

\* slip: a command may be as small as nothing, and may end past the region
TrustCmdsize(img, st) ==
    LET c == CommandAt(img, st.off)
    IN  [st EXCEPT !.off = @ + c.cmdsize, !.lines = @ \cup LinesOf(c, st.off)]

\* One turn of the loop over ncmds.
ParseCommand(img, st) ==
    LET c == CommandAt(img, st.off)
    IN  IF \/ st.bad
           \/ st.off + 8 > img.sizeofcmds
           \/ c.cmdsize < 8
           \/ st.off + c.cmdsize > img.sizeofcmds
           \/ c.cmd \in PrintedKinds /\ ~read_lc_str_ok(c)
        THEN [st EXCEPT !.bad = TRUE]
        ELSE [off |-> st.off + c.cmdsize, bad |-> FALSE, lines |-> st.lines \cup LinesOf(c, st.off)]

\* Result<Slice, _>: the dylib and rpath commands of one image.
parse_thin(img) ==
    LET walk[i \in 0..img.ncmds] ==
            IF i = 0 THEN [off |-> 0, bad |-> FALSE, lines |-> {}]
            ELSE ParseCommand(img, walk[i - 1])
        end == walk[img.ncmds]
    IN  IF ~img.magic \/ img.sizeofcmds > img.room \/ end.bad THEN None
        ELSE Some(end.lines)

\* Result<MachInfo, _>: one bad slice spoils the file.
parse_fat(f) ==
    IF \/ f.nfat > Len(f.arches)        \* the table runs past the file
       \/ \E i \in 1..f.nfat : ~f.arches[i].fits \/ parse_thin(f.arches[i].image) = None
    THEN None
    ELSE Some([i \in 1..f.nfat |-> Value(parse_thin(f.arches[i].image))])

parse(f) ==
    CASE f.magic = "fat" -> parse_fat(f)
      [] f.magic = "thin" -> IF parse_thin(f.image) = None THEN None
                             ELSE Some(<<Value(parse_thin(f.image))>>)
      [] OTHER -> None

\* The report of "machotool deps": of each slice its dylibs, then its rpaths.
print_deps(slices) ==
    UNION {{[slice |-> i, at |-> l.at, kind |-> l.kind, path |-> l.path] : l \in slices[i]} :
              i \in DOMAIN slices}

\* l is printed before m.
Precedes(l, m) ==
    \/ l.slice < m.slice
    \/ l.slice = m.slice /\ l.kind # "RPATH" /\ m.kind = "RPATH"
    \/ l.slice = m.slice /\ (l.kind = "RPATH" <=> m.kind = "RPATH") /\ l.at < m.at

-----------------------------------------------------------------------------
\* frameworks.rs

\* The loadable images of Frameworks/: a framework with its binary inside, or
\* a dylib file.  Err when the directory cannot be read.
discover_frameworks(dir) ==
    CASE dir.state = "missing" -> Some({})
      [] dir.state = "unreadable" -> None
      [] OTHER -> Some({e.name : e \in {x \in dir.entries :
                            \/ x.kind = "framework" /\ x.has_binary
                            \/ x.kind = "dylib"}})

\* By base name, wherever the install name points.
resolve_one(path, index) == path.base \in index

\* One resolution per install name, the first; a line with no path has none.
resolve_from_deps_output(report, index) ==
    LET deps == {l \in report : l.kind \in DepKinds /\ l.path # EmptyPath}
        first(l) == ~\E m \in deps : m.path = l.path /\ Precedes(m, l)
    IN  {[install_name |-> l.path,
          status |-> IF resolve_one(l.path, index) THEN "embedded"
                     ELSE IF l.kind \in HardKinds THEN "hard" ELSE "weak"] :
            l \in {k \in deps : first(k)}}

\* Err when machotool is not found or refuses the file.
resolve_deps(file, index, machotool) ==
    IF ~machotool \/ parse(file) = None THEN None
    ELSE Some(resolve_from_deps_output(print_deps(Value(parse(file))), index))

\* The conclusion printed last; an Err is only reported.
print_dep_resolution(file, index, machotool) ==
    LET deps == resolve_deps(file, index, machotool)
    IN  IF deps = None THEN "unresolved"
        ELSE IF \E r \in Value(deps) : r.status = "hard" THEN "missing" ELSE "viable"

-----------------------------------------------------------------------------
\* What a file contains, for the assumption and the properties

\* The images of a file: the slices of a fat one.
Images(f) == IF f.magic = "fat" THEN {f.arches[i].image : i \in DOMAIN f.arches} ELSE {f.image}

\* The headers count every slice and every command there is.
Counted(f) ==
    /\ f.magic = "fat" => /\ DOMAIN f.arches = 1..Len(f.arches)
                          /\ Len(f.arches) \in 0..f.nfat /\ f.nfat \in Nat
    /\ \A img \in Images(f) :
          /\ img.ncmds \in Nat /\ DOMAIN img.cmds \subseteq Nat
          /\ IsFiniteSet(DOMAIN img.cmds) /\ Cardinality(DOMAIN img.cmds) <= img.ncmds
          /\ \A off \in DOMAIN img.cmds : img.cmds[off].cmdsize \in Nat

\* The libraries the slices of a file name, by kind.
Named(f, kinds) ==
    (UNION {{img.cmds[o].path : o \in {x \in DOMAIN img.cmds : img.cmds[x].cmd \in kinds}} :
               img \in Images(f)}) \ {EmptyPath}

=============================================================================
