----------------------------- MODULE MCPackages -----------------------------
(***************************************************************************)
(* An instance of Packages: two releases of one application that share a   *)
(* file, and a release of another one that claims the same jail and whose  *)
(* id has no dot, which jpk-manager takes and bsdos-pkgd does not.         *)
(***************************************************************************)
EXTENDS Packages, TLC

CONSTANTS v1, v2, w1, f1, f2, f3, p1, p2, org, wid

Doc(app, dotted, jail, cpu) ==
    [schema_version |-> Some("1.0"), id |-> Some([name |-> app, len |-> 9,
                                                  plain |-> TRUE, dotted |-> dotted]),
     version |-> Some(<<TRUE, TRUE>>), named |-> TRUE, arch |-> Some({"amd64"}),
     type |-> Some("jail"), entrypoint |-> Some("app"), jail_name |-> Some(jail),
     needs_wayland |-> Some(TRUE), needs_input |-> Some(TRUE), needs_gpu |-> Some(dotted),
     network |-> None, filesystem |-> None, max_memory_mb |-> Some(64),
     max_cpu_percent |-> Some(cpu), max_disk_mb |-> Some(10)]

MCDocOf == [r \in Releases |-> CASE r = v1 -> Doc(org, TRUE, "appTest", 30)
                                 [] r = v2 -> Doc(org, TRUE, "appTest", 400)
                                 [] OTHER -> Doc(wid, FALSE, "appTest", 30)]
MCFilesOf == [r \in Releases |-> CASE r = v1 -> {f1, f2}
                                   [] r = v2 -> {f2, f3}
                                   [] OTHER -> {f1}]

Symm == Permutations(Procs)

=============================================================================
