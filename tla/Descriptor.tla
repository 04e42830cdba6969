----------------------------- MODULE Descriptor -----------------------------
(***************************************************************************)
(* jpk.toml, as its two readers see it: JpkDescriptor of                   *)
(* bsdos-pkgd/src/descriptor.rs, which build and install parse and         *)
(* validate, and the subset lifecycled/src/jpk_config.rs reads for the     *)
(* limits of a jail.                                                       *)
(*                                                                         *)
(* A document is what the TOML file states; an application id is what      *)
(* validate_app_id asks of it; a version is the list of its dot-separated  *)
(* parts, TRUE for those that parse as u64.  Limits are small enough for   *)
(* the u32 and u64 fields; only the u8 of max_cpu_percent is modelled.     *)
(***************************************************************************)
EXTENDS Option, Naturals, Sequences

MaxIdLen == 128
U8(o) == \A n \in o : n < 2^8

-----------------------------------------------------------------------------
\* bsdos-pkgd

\* Fields serde has no default for; named: name, bsdos_codename_min and
\* freebsd_min are all there.
Required(doc) ==
    /\ None \notin {doc.schema_version, doc.id, doc.version, doc.arch,
                    doc.type, doc.entrypoint}
    /\ doc.named

\* Result<JpkDescriptor, _>: the parsed descriptor, its defaults filled in.
from_toml_str(doc) ==
    IF Required(doc)
    THEN {[schema_version |-> Value(doc.schema_version), id |-> Value(doc.id),
           version |-> Value(doc.version), arch |-> Value(doc.arch),
           type |-> Value(doc.type), entrypoint |-> Value(doc.entrypoint),
           jail_name |-> OrElse(doc.jail_name, ""),
           needs_gpu |-> OrElse(doc.needs_gpu, FALSE),
           network |-> OrElse(doc.network, "none"),
           filesystem |-> OrElse(doc.filesystem, "ro")]}
    ELSE {}

validate_app_id(id) == id.len \in 1..MaxIdLen /\ id.plain /\ id.dotted

validate_semver(v) == Len(v) \in 2..3 /\ \A i \in DOMAIN v : v[i]

validate(d) ==
    /\ d.schema_version = "1.0"
    /\ validate_app_id(d.id)
    /\ validate_semver(d.version)
    /\ d.arch # {}
    /\ d.type = "jail"
    /\ d.entrypoint # ""
    /\ d.network \in {"none", "inet", "inet6", "unix-only"}
    /\ d.filesystem \in {"ro", "rw", "private-tmpfs"}

Accepted(doc) == \E d \in from_toml_str(doc) : validate(d)

-----------------------------------------------------------------------------
\* lifecycled

\* Every field of its structs is required, and max_cpu_percent is a u8.
parse_descriptor(doc) ==
    IF /\ None \notin {doc.id, doc.version, doc.type, doc.jail_name,
                       doc.needs_wayland, doc.needs_input, doc.needs_gpu,
                       doc.max_memory_mb, doc.max_cpu_percent, doc.max_disk_mb}
       /\ doc.named
       /\ U8(doc.max_cpu_percent)
    THEN {[jail_name |-> Value(doc.jail_name), needs_gpu |-> Value(doc.needs_gpu),
           max_memory_mb |-> Value(doc.max_memory_mb),
           max_cpu_percent |-> Value(doc.max_cpu_percent)]}
    ELSE {}

AppLifecycleConfig(d) ==
    [jail_name |-> d.jail_name, max_memory_mb |-> d.max_memory_mb,
     max_cpu_percent |-> d.max_cpu_percent,
     priority |-> IF d.needs_gpu THEN 50 ELSE 200, needs_gpu |-> d.needs_gpu]

SquirrelDefaults ==
    {[jail_name |-> "appTerminal", max_memory_mb |-> 32, max_cpu_percent |-> 5,
      priority |-> 200, needs_gpu |-> FALSE],
     [jail_name |-> "appBrowser", max_memory_mb |-> 512, max_cpu_percent |-> 50,
      priority |-> 50, needs_gpu |-> FALSE]}

\* The configurations read from the documents that are found and parse.
Configs(docs) == {AppLifecycleConfig(d) : d \in UNION {parse_descriptor(doc) : doc \in docs}}

\* slip: the defaults are always there
WithDefaults(docs) ==
    LET all == Configs(docs) \cup SquirrelDefaults
    IN  {{c \in all : c = pick[c.jail_name]} :
            pick \in {f \in [{c.jail_name : c \in all} -> all] :
                        \A j \in DOMAIN f : f[j].jail_name = j}}

\* The maps jail_name -> config that load_descriptors may return: zpids.conf
\* is walked in the order of a HashMap, so among descriptors of one jail any
\* may be inserted last.
load_descriptors(docs) ==
    LET all == IF Configs(docs) = {} THEN SquirrelDefaults ELSE Configs(docs)
    IN  {{c \in all : c = pick[c.jail_name]} :
            pick \in {f \in [{c.jail_name : c \in all} -> all] :
                        \A j \in DOMAIN f : f[j].jail_name = j}}

=============================================================================
