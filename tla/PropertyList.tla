---------------------------- MODULE PropertyList ----------------------------
(***************************************************************************)
(* The property lists of an application bundle and the two readers         *)
(* bsdos-run has for them: the line scan over XML text of plist.rs (used   *)
(* for Info.plist and for the profile inside embedded.mobileprovision) and *)
(* the object-table walk of bplist.rs.                                     *)
(*                                                                         *)
(* A document is a tree: Str, Bool, Arr of trees, Dict of key/tree pairs.  *)
(* XML is the sequence of its non-blank trimmed lines; a line holds an     *)
(* optional key, a tag, the text of a string and, when an array starts on  *)
(* it, the strings that follow on the same line.  A binary file is its     *)
(* trailer and its table of objects; an object the decoder refuses (an     *)
(* unknown marker, a payload past the end of the file) is "bad".  Integer, *)
(* real and data objects are leaves no key of interest has: they are not   *)
(* told apart from "other".                                                *)
(***************************************************************************)
EXTENDS Option, Integers, Sequences, SequencesExt, FiniteSetsExt

CONSTANT
    Budget      \* depth_budget of parse_bplist (256 in the code)

ASSUME BudgetAssumption == Budget \in Nat \ {0}

Str(s) == [t |-> "str", s |-> s]
Bool(b) == [t |-> "bool", b |-> b]
Arr(items) == [t |-> "array", items |-> items]
Dict(entries) == [t |-> "dict", entries |-> entries]

\* The values of a dictionary for a key: at most one, the last.
Lookup(v, key) ==
    IF v.t # "dict" THEN {}
    ELSE LET at == {i \in DOMAIN v.entries : v.entries[i][1] = key}
         IN  IF at = {} THEN {} ELSE {v.entries[Max(at)][2]}

get_string(v, key) == {x.s : x \in {y \in Lookup(v, key) : y.t = "str"}}
get_bool(v, key) == {x.b : x \in {y \in Lookup(v, key) : y.t = "bool"}}
get_array_strings(v, key) ==
    UNION {{x.items[i].s : i \in {j \in DOMAIN x.items : x.items[j].t = "str"}} :
              x \in {y \in Lookup(v, key) : y.t = "array"}}

-----------------------------------------------------------------------------
\* bplist.rs

Ok(v, depth) == [err |-> "", val |-> v, depth |-> depth]
Err(why) == [err |-> why, val |-> Str(""), depth |-> 0]

\* An object once its children have been decoded, and what they left of the
\* budget: a dictionary ignores the keys that are not strings.
Decoded(o, kids) ==
    LET keyed == {i \in 1..(Len(kids.vals) \div 2) : kids.vals[2 * i - 1].t = "str"}
    IN  CASE o.t = "bad" -> Err("malformed")
          [] o.t \in {"str", "bool", "other"} -> Ok(o, kids.depth)
          [] o.t \in {"array", "dict"} /\ kids.err # "" -> Err(kids.err)
          [] o.t = "array" /\ kids.err = "" -> Ok(Arr(kids.vals), kids.depth)
          [] OTHER ->
               Ok(Dict([i \in 1..Cardinality(keyed) |->
                            LET k == CHOOSE k \in keyed : Cardinality({j \in keyed : j <= k}) = i
                            IN  <<kids.vals[2 * k - 1].s, kids.vals[2 * k]>>]),
                  kids.depth)

Refs(o) == IF o.t \in {"array", "dict"} THEN o.refs ELSE <<>>

\* The objects refs lead to, one after the other, with a budget of depth for
\* all of them; the first that is refused ends it.
Kids(parse, refs, depth) ==
    LET kids[i \in 0..Len(refs)] ==
            IF i = 0 THEN [err |-> "", depth |-> depth, vals |-> <<>>]
            ELSE LET acc == kids[i - 1]
                     r == parse[acc.depth][refs[i]]
                 IN  IF acc.err # "" THEN acc
                     ELSE [err |-> r.err, depth |-> r.depth, vals |-> Append(acc.vals, r.val)]
    IN  kids[Len(refs)]

\* The object at index root and what is left of the budget: every object
\* visited takes one from it, and none is given back.
parse_object(f, root, budget) ==
    LET parse[depth \in 0..budget] ==
            [idx \in Nat |->
                IF depth = 0 THEN Err("nesting too deep")
                ELSE IF idx >= f.num_objects THEN Err("index out of range")
                ELSE LET o == f.objects[idx + 1]
                     IN  Decoded(o, Kids(parse, Refs(o), depth - 1))]
    IN  parse[budget][root]

parse_bplist(f) ==
    IF \/ f.short
       \/ f.offset_int_size \notin 1..8
       \/ f.object_ref_size \notin 1..8
       \/ f.num_objects = 0
       \/ f.top_object >= f.num_objects
       \/ f.num_objects > f.table_room      \* the table runs past the file
       \/ f.stray # {}                      \* an entry of it points past the file
    THEN Err("malformed")
    ELSE parse_object(f, f.top_object, Budget)

-----------------------------------------------------------------------------
\* plist.rs: the scan over lines

Line(key, tag, text) == [key |-> key, tag |-> tag, text |-> text, items |-> <<>>, closes |-> FALSE]

\* The lines that are a key tag and nothing else.
KeyLines(lines, key) == {i \in DOMAIN lines : lines[i].key = {key} /\ lines[i].tag = ""}

key_is_present(lines, key) == KeyLines(lines, key) # {}

\* The first of the key's lines that is followed by one of the tags: the scan
\* goes on past a key whose value is of another type.
FirstFollowed(lines, key, tags) ==
    LET at == {i \in KeyLines(lines, key) :
                  i < Len(lines) /\ lines[i + 1].key = {} /\ lines[i + 1].tag \in tags}
    IN  IF at = {} THEN {} ELSE {lines[Min(at) + 1]}

extract_string_after_key(lines, key) == {l.text : l \in FirstFollowed(lines, key, {"string"})}

extract_bool_after_key(lines, key) ==
    {l.tag = "true" : l \in FirstFollowed(lines, key, {"true", "false"})}

\* slip: an array that starts on the line of its key is not seen
OwnLineOnly(lines, key) ==
    LET at == KeyLines(lines, key)
    IN  IF at = {} \/ Min(at) = Len(lines) THEN {}
        ELSE Range(lines[Min(at) + 1].items)

\* Unlike the other two, this scan ends at the first line that has the key.
\* The strings of an array run to the first closing tag, whichever it closes.
extract_array_after_key(lines, key) ==
    LET at == {i \in DOMAIN lines : lines[i].key = {key}}
        from == IF lines[Min(at)].tag = "array" THEN Min(at) ELSE Min(at) + 1
        ends == {j \in (from + 1)..Len(lines) : lines[j].tag = "/array"}
        upto == IF lines[from].closes THEN from
                ELSE IF ends = {} THEN Len(lines) ELSE Min(ends)
    IN  IF at = {} THEN {}
        ELSE IF from > Len(lines) THEN {}
        ELSE IF lines[from].tag # "array" THEN {}
        ELSE Range(lines[from].items)
             \cup {lines[j].text : j \in {k \in (from + 1)..upto : lines[k].tag = "string"}}

-----------------------------------------------------------------------------
\* BundleInfo

StringKeys == {"CFBundleIdentifier", "CFBundleExecutable", "CFBundleName",
               "CFBundleDisplayName", "MinimumOSVersion"}
BoolKeys == {"com.apple.security.network.client", "com.apple.security.network.server"}

\* Both readers fill the same fields with the same defaults, from what they
\* find under each key.
BundleInfo(str, bool, capabilities) ==
    [bundle_identifier |-> OrElse(str["CFBundleIdentifier"], "unknown.bundle"),
     bundle_executable |-> OrElse(str["CFBundleExecutable"], "AppBinary"),
     bundle_name |-> OrElse(str["CFBundleName"], ""),
     display_name |-> OrElse(str["CFBundleDisplayName"], ""),
     requires_arm64 |-> "arm64" \in capabilities,
     minimum_os_version |-> OrElse(str["MinimumOSVersion"], ""),
     network_client |-> OrElse(bool["com.apple.security.network.client"], FALSE),
     network_server |-> OrElse(bool["com.apple.security.network.server"], FALSE)]

bundle_info_from_bplist(root) ==
    BundleInfo([k \in StringKeys |-> get_string(root, k)],
               [k \in BoolKeys |-> get_bool(root, k)],
               get_array_strings(root, "UIRequiredDeviceCapabilities"))

parse_info_plist(lines) ==
    BundleInfo([k \in StringKeys |-> extract_string_after_key(lines, k)],
               [k \in BoolKeys |-> extract_bool_after_key(lines, k)],
               extract_array_after_key(lines, "UIRequiredDeviceCapabilities"))

\* Result<BundleInfo, _>: only a binary file can be refused.
parse_info_plist_bytes(f) ==
    IF f.form = "xml" THEN [err |-> "", info |-> {parse_info_plist(f.lines)}]
    ELSE LET r == parse_bplist(f)
         IN  [err |-> r.err, info |-> IF r.err = "" THEN {bundle_info_from_bplist(r.val)} ELSE {}]

\* CFBundleExecutable alone, with no default.
read_bundle_executable(f) ==
    IF f.form = "xml" THEN extract_string_after_key(f.lines, "CFBundleExecutable")
    ELSE LET r == parse_bplist(f)
         IN  IF r.err = "" THEN get_string(r.val, "CFBundleExecutable") ELSE {}

-----------------------------------------------------------------------------
\* mobileprovision.rs

NETWORK_BOOL_KEYS == BoolKeys
NETWORK_PRESENCE_KEYS ==
    {"com.apple.developer.networking.wifi-info", "com.apple.developer.networking.multipath",
     "com.apple.developer.networking.networkextension",
     "com.apple.developer.networking.vpn.api", "com.apple.developer.associated-domains"}

\* slip: the first closing tag ends the dictionary
UpToFirstClose(lines) ==
    LET keys == {i \in DOMAIN lines : lines[i].key = {"Entitlements"}}
        opens == {j \in DOMAIN lines : keys # {} /\ j > Min(keys) /\ lines[j].tag = "dict"}
        ends == {k \in DOMAIN lines : opens # {} /\ k > Min(opens) /\ lines[k].tag = "/dict"}
    IN  IF ends = {} THEN {} ELSE {SubSeq(lines, Min(opens), Min(ends))}

\* The first <dict> after the Entitlements key, to the </dict> that balances it.
isolate_entitlements_dict(lines) ==
    LET keys == {i \in DOMAIN lines : lines[i].key = {"Entitlements"}}
        opens == {j \in DOMAIN lines : keys # {} /\ j > Min(keys) /\ lines[j].tag = "dict"}
        Count(tag, k) == Cardinality({i \in Min(opens)..k : lines[i].tag = tag})
        ends == {k \in DOMAIN lines : opens # {} /\ k > Min(opens)
                                      /\ Count("dict", k) = Count("/dict", k)}
    IN  IF ends = {} THEN {} ELSE {SubSeq(lines, Min(opens), Min(ends))}

entitlements_from_xml(lines) ==
    LET scope == OrElse(isolate_entitlements_dict(lines), lines)
    IN  [application_identifier |->
             OrElse(extract_string_after_key(scope, "application-identifier"), ""),
         get_task_allow |-> OrElse(extract_bool_after_key(scope, "get-task-allow"), FALSE),
         aps_environment |-> OrElse(extract_string_after_key(scope, "aps-environment"), ""),
         network |-> \/ \E k \in NETWORK_BOOL_KEYS : TRUE \in extract_bool_after_key(scope, k)
                     \/ \E k \in NETWORK_PRESENCE_KEYS : key_is_present(scope, k)]

\* Result<Entitlements, _>: the profile is a signed container with or without
\* an XML property list inside.
read_mobileprovision(p) ==
    IF p.readable THEN {entitlements_from_xml(p.lines)} ELSE {}

=============================================================================
