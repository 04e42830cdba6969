------------------------- MODULE BundleReaderProofs -------------------------
(***************************************************************************)
(* Proofs about the readers of a bundle's files.                           *)
(*                                                                         *)
(* Property lists, for every document and every file that stores it        *)
(* (PropertyFiles): the line scan of plist.rs finds what the root          *)
(* dictionary says if no key it looks for is spelled elsewhere, the object *)
(* table of bplist.rs gives the document back or is refused, and the       *)
(* entitlements cut out of a profile are its Entitlements dictionary.      *)
(*                                                                         *)
(* MachO, for every file whose headers count what is in it: an image that  *)
(* parses has every one of its dylib and rpath commands in the list.  The  *)
(* parser makes ncmds turns at offsets that only grow, and zeroes read     *)
(* where no command starts are refused (a cmdsize of 0 is below 8): the    *)
(* offsets are ncmds different commands, which are all there are.          *)
(*                                                                         *)
(* parse_thin, Kids and parse_object are functions defined by recursion:   *)
(* that they exist, and what they compute, is proved with Induction, which *)
(* is about sets of numbers.  No operator is passed to a theorem.          *)
(***************************************************************************)
EXTENDS MachO, PropertyFiles, FiniteSetTheorems, WellFoundedInduction, TLAPS

-----------------------------------------------------------------------------
(* Induction over natural numbers, as a fact about sets. *)

\* A set of offsets or of slices that is not empty has a first.
LEMMA LeastNat ==
    ASSUME NEW T \in SUBSET Nat, T # {}
    PROVE  \E x \in T : \A y \in T : x <= y
<1>1. PICK x \in T : \A y \in T : ~(<<y, x>> \in OpToRel(<, Nat))
  BY WFMin, NatLessThanWellFounded
<1>2. ASSUME NEW y \in T PROVE ~(y < x)
  BY <1>1, Zenon DEF OpToRel
<1>3. QED
  BY <1>2

\* What holds before the first turn, and after a turn when it held before it,
\* holds after any number of turns.
LEMMA Induction ==
    ASSUME NEW S, 0 \in S, \A n \in Nat : n \in S => n + 1 \in S
    PROVE  Nat \subseteq S
<1> DEFINE T == Nat \ S
<1>1. SUFFICES ASSUME T # {} PROVE FALSE
  OBVIOUS
<1>2. PICK x \in T : \A y \in T : x <= y
  BY <1>1, LeastNat
<1>3. x - 1 \in Nat /\ x - 1 \notin T
  BY <1>2
<1>4. QED
  BY <1>3

\* Option's unwrap.
LEMMA ValueOf == ASSUME NEW v PROVE Value(Some(v)) = v /\ Some(v) # None
  BY DEF Value, Some, None

-----------------------------------------------------------------------------
(* The line scan. *)

\* The one place of a key is the first and the last.
LEMMA LargestOfOne == ASSUME NEW i \in Nat PROVE Max({i}) = i /\ Min({i}) = i
  BY DEF Max, Min

\* Where a key is in a dictionary, and on which lines.
Entries(doc, key) == {i \in DOMAIN doc.entries : doc.entries[i][1] = key}
Places(lines, key) == {i \in DOMAIN lines : lines[i].key = {key}}

\* A key that is spelled in the root only, and once, is where its entry is.
LEMMA OnePlace ==
    ASSUME NEW lines, NEW doc, NEW at, Spelled(lines, doc, at),
           NEW key, Once(lines, doc, at, {key})
    PROVE  \/ Entries(doc, key) = {} /\ Places(lines, key) = {}
           \/ \E i \in DOMAIN doc.entries : Entries(doc, key) = {i} /\ Places(lines, key) = {at[i]}
<1>1. /\ at \in [DOMAIN doc.entries -> DOMAIN lines]
      /\ \A i \in DOMAIN doc.entries : lines[at[i]].key = {doc.entries[i][1]}
  BY DEF Spelled, EntryAt
<1>2. \A l \in Places(lines, key) : l \in Range(at)
  BY DEF Places, KeysBelow, Once
<1>3. \A l \in Places(lines, key) : \E i \in Entries(doc, key) : l = at[i]
  <2> SUFFICES ASSUME NEW l \in Places(lines, key) PROVE \E i \in Entries(doc, key) : l = at[i]
    OBVIOUS
  <2>1. PICK i \in DOMAIN doc.entries : l = at[i]
    BY <1>1, <1>2 DEF Range
  <2>2. {doc.entries[i][1]} = {key}
    BY <1>1, <2>1 DEF Places
  <2>3. QED
    BY <2>1, <2>2 DEF Entries
<1>4. \A i \in Entries(doc, key) : at[i] \in Places(lines, key)
  BY <1>1 DEF Entries, Places
<1>5. \A i, j \in Entries(doc, key) : i = j
  BY DEF Repeated, Entries, Once
<1>6. CASE Entries(doc, key) = {}
  BY <1>3, <1>6
<1>7. CASE Entries(doc, key) # {}
  <2>1. PICK i \in Entries(doc, key) : TRUE
    BY <1>7
  <2>2. Entries(doc, key) = {i} /\ i \in DOMAIN doc.entries
    BY <1>5, <2>1 DEF Entries
  <2>3. Places(lines, key) = {at[i]}
    BY <1>3, <1>4, <2>2
  <2>4. QED
    BY <2>2, <2>3
<1>8. QED
  BY <1>6, <1>7

\* What the dictionary has under a key.
LEMMA LookupIs ==
    ASSUME NEW doc, doc.t = "dict", IsSeq(doc.entries), NEW key
    PROVE  /\ Entries(doc, key) = {} => Lookup(doc, key) = {}
           /\ \A i \in DOMAIN doc.entries :
                 Entries(doc, key) = {i} => Lookup(doc, key) = {doc.entries[i][2]}
<1>1. \A i \in DOMAIN doc.entries : i \in Nat
  BY DEF IsSeq
<1>2. QED
  BY <1>1, LargestOfOne DEF Lookup, Entries

\* The scan for a string or a Boolean takes the line after the key if its
\* value is one.
LEMMA FollowedIs ==
    ASSUME NEW lines, NEW doc, NEW at, Spelled(lines, doc, at),
           NEW key, Once(lines, doc, at, {key}),
           NEW tags, "array" \notin tags
    PROVE  /\ Entries(doc, key) = {} => FirstFollowed(lines, key, tags) = {}
           /\ \A i \in DOMAIN doc.entries :
                 Entries(doc, key) = {i} =>
                    LET v == doc.entries[i][2]
                    IN  IF ValueTag(v) \in tags
                        THEN FirstFollowed(lines, key, tags) = {lines[at[i] + 1]}
                             /\ ValueAt(lines, at[i] + 1, v)
                        ELSE FirstFollowed(lines, key, tags) = {}
<1>1. KeyLines(lines, key) = {i \in Places(lines, key) : lines[i].tag = ""}
  BY DEF KeyLines, Places
<1>2. ASSUME Entries(doc, key) = {} PROVE FirstFollowed(lines, key, tags) = {}
  <2>1. Places(lines, key) = {}
    BY <1>2, OnePlace
  <2>2. QED
    BY <1>1, <2>1 DEF FirstFollowed
<1>3. ASSUME NEW i \in DOMAIN doc.entries, Entries(doc, key) = {i}
      PROVE  LET v == doc.entries[i][2]
             IN  IF ValueTag(v) \in tags
                 THEN FirstFollowed(lines, key, tags) = {lines[at[i] + 1]}
                      /\ ValueAt(lines, at[i] + 1, v)
                 ELSE FirstFollowed(lines, key, tags) = {}
  <2> DEFINE v == doc.entries[i][2]
  <2>1. Places(lines, key) = {at[i]}
    BY <1>3, OnePlace
  <2>2. /\ IsSeq(lines) /\ at[i] \in DOMAIN lines
        /\ EntryAt(lines, at[i], doc.entries[i][1], v)
    BY DEF Spelled
  <2>3. DOMAIN lines = 1..Len(lines) /\ Len(lines) \in Nat
    BY <2>2 DEF IsSeq
  <2> DEFINE T == {j \in KeyLines(lines, key) :
                     j < Len(lines) /\ lines[j + 1].key = {} /\ lines[j + 1].tag \in tags}
  <2>4. FirstFollowed(lines, key, tags) = IF T = {} THEN {} ELSE {lines[Min(T) + 1]}
    BY DEF FirstFollowed
  <2>5. CASE lines[at[i]].tag = "" /\ ValueAt(lines, at[i] + 1, v)
    <3>1. KeyLines(lines, key) = {at[i]}
      BY <1>1, <2>1, <2>5
    <3>2. at[i] + 1 \in DOMAIN lines /\ lines[at[i] + 1].key = {} /\ lines[at[i] + 1].tag = ValueTag(v)
      BY <2>5 DEF ValueAt
    <3>3. at[i] < Len(lines)
      BY <2>2, <2>3, <3>2
    <3>4. T = IF ValueTag(v) \in tags THEN {at[i]} ELSE {}
      BY <3>1, <3>2, <3>3
    <3>5. at[i] \in Nat
      BY <2>2, <2>3
    <3>6. Min({at[i]}) = at[i]
      BY <3>5, LargestOfOne, Zenon
    <3> HIDE DEF T
    <3>7. QED
      BY <2>4, <2>5, <3>4, <3>6
  <2>6. CASE Row(lines[at[i]], v)
    <3>1. KeyLines(lines, key) = {}
      BY <1>1, <2>1, <2>6 DEF Row
    <3>2. ValueTag(v) = "array"
      BY <2>6 DEF Row, ValueTag
    <3>3. QED
      BY <2>4, <3>1, <3>2
  <2>7. QED
    BY <2>2, <2>5, <2>6 DEF EntryAt
<1>4. QED
  BY <1>2, <1>3

\* A string that is spelled without entities is read as it is.
LEMMA StringIs ==
    ASSUME NEW lines, NEW doc, NEW at, Spelled(lines, doc, at),
           NEW key, Once(lines, doc, at, {key}),
           \A i \in DOMAIN doc.entries :
              doc.entries[i][2].t = "str" => doc.entries[i][2].s \notin DOMAIN Escapes
    PROVE  extract_string_after_key(lines, key) = get_string(doc, key)
<1> DEFINE F == FirstFollowed(lines, key, {"string"})
<1>1. doc.t = "dict" /\ IsSeq(doc.entries)
  BY DEF Spelled
<1>2. "array" \notin {"string"}
  OBVIOUS
<1>3. CASE Entries(doc, key) = {}
  <2>1. F = {} /\ Lookup(doc, key) = {}
    BY <1>1, <1>2, <1>3, FollowedIs, LookupIs
  <2>2. QED
    BY <2>1 DEF extract_string_after_key, get_string
<1>4. ASSUME NEW i \in DOMAIN doc.entries, Entries(doc, key) = {i}
      PROVE  extract_string_after_key(lines, key) = get_string(doc, key)
  <2> DEFINE v == doc.entries[i][2]
  <2>1. Lookup(doc, key) = {v}
    BY <1>1, <1>4, LookupIs
  <2>2. IF ValueTag(v) \in {"string"}
        THEN F = {lines[at[i] + 1]} /\ ValueAt(lines, at[i] + 1, v)
        ELSE F = {}
    BY <1>2, <1>4, FollowedIs
  <2>3. ValueTag(v) = "string" <=> v.t = "str"
    BY DEF ValueTag
  <2>4. CASE v.t = "str"
    <3>1. F = {lines[at[i] + 1]} /\ lines[at[i] + 1].text = XmlText(v.s)
      BY <2>2, <2>3, <2>4 DEF ValueAt, LeafAt, IsLeaf
    <3>2. XmlText(v.s) = v.s
      BY <2>4 DEF XmlText
    <3>3. QED
      BY <2>1, <2>4, <3>1, <3>2 DEF extract_string_after_key, get_string
  <2>5. CASE v.t # "str"
    <3>1. F = {}
      BY <2>2, <2>3, <2>5
    <3>2. QED
      BY <2>1, <2>5, <3>1 DEF extract_string_after_key, get_string
  <2>6. QED
    BY <2>4, <2>5
<1>5. QED
  BY <1>3, <1>4, OnePlace

\* A Boolean is read as it is.
LEMMA BoolIs ==
    ASSUME NEW lines, NEW doc, NEW at, Spelled(lines, doc, at),
           NEW key, Once(lines, doc, at, {key})
    PROVE  extract_bool_after_key(lines, key) = get_bool(doc, key)
<1> DEFINE tags == {"true", "false"}
<1> DEFINE F == FirstFollowed(lines, key, tags)
<1>1. doc.t = "dict" /\ IsSeq(doc.entries)
  BY DEF Spelled
<1>2. "array" \notin tags
  OBVIOUS
<1>3. CASE Entries(doc, key) = {}
  <2>1. F = {} /\ Lookup(doc, key) = {}
    BY <1>1, <1>2, <1>3, FollowedIs, LookupIs
  <2>2. QED
    BY <2>1 DEF extract_bool_after_key, get_bool
<1>4. ASSUME NEW i \in DOMAIN doc.entries, Entries(doc, key) = {i}
      PROVE  extract_bool_after_key(lines, key) = get_bool(doc, key)
  <2> DEFINE v == doc.entries[i][2]
  <2>1. Lookup(doc, key) = {v}
    BY <1>1, <1>4, LookupIs
  <2>2. IF ValueTag(v) \in tags
        THEN F = {lines[at[i] + 1]} /\ ValueAt(lines, at[i] + 1, v)
        ELSE F = {}
    BY <1>2, <1>4, FollowedIs
  <2>3. ValueTag(v) \in tags <=> v.t = "bool"
    BY DEF ValueTag
  <2>4. CASE v.t = "bool"
    <3>1. F = {lines[at[i] + 1]} /\ lines[at[i] + 1].tag = ValueTag(v) /\ v.b \in BOOLEAN
      BY <2>2, <2>3, <2>4 DEF ValueAt, LeafAt, IsLeaf
    <3>2. ValueTag(v) = IF v.b THEN "true" ELSE "false"
      BY <2>4 DEF ValueTag
    <3>3. (lines[at[i] + 1].tag = "true") = v.b
      BY <3>1, <3>2
    <3>4. extract_bool_after_key(lines, key) = {lines[at[i] + 1].tag = "true"}
      BY <3>1 DEF extract_bool_after_key
    <3>5. get_bool(doc, key) = {v.b}
      BY <2>1, <2>4 DEF get_bool
    <3>6. QED
      BY <3>3, <3>4, <3>5
  <2>5. CASE v.t # "bool"
    <3>1. F = {}
      BY <2>2, <2>3, <2>5
    <3>2. QED
      BY <2>1, <2>5, <3>1 DEF extract_bool_after_key, get_bool
  <2>6. QED
    BY <2>4, <2>5
<1>5. QED
  BY <1>3, <1>4, OnePlace

\* An entity does not make the name of an architecture nor unmake it.
LEMMA ArchitectureIs == ASSUME NEW s PROVE XmlText(s) = "arm64" <=> s = "arm64"
  BY EscapesAssumption DEF XmlText

\* An array of leaves is read from its row or its block.
LEMMA ArrayIs ==
    ASSUME NEW lines, NEW doc, NEW at, Spelled(lines, doc, at),
           NEW key, Once(lines, doc, at, {key}),
           \A i \in DOMAIN doc.entries :
              LET v == doc.entries[i][2]
              IN  v.t = "array" /\ doc.entries[i][1] = key => \A j \in DOMAIN v.items : IsLeaf(v.items[j])
    PROVE  "arm64" \in extract_array_after_key(lines, key) <=> "arm64" \in get_array_strings(doc, key)
<1> DEFINE T == {i \in DOMAIN lines : lines[i].key = {key}}
<1> DEFINE from == IF lines[Min(T)].tag = "array" THEN Min(T) ELSE Min(T) + 1
<1> DEFINE ends == {j \in (from + 1)..Len(lines) : lines[j].tag = "/array"}
<1> DEFINE upto == IF lines[from].closes THEN from ELSE IF ends = {} THEN Len(lines) ELSE Min(ends)
<1> DEFINE found == Range(lines[from].items)
                    \cup {lines[j].text : j \in {k \in (from + 1)..upto : lines[k].tag = "string"}}
<1>1. extract_array_after_key(lines, key) =
         IF T = {} THEN {} ELSE IF from > Len(lines) THEN {}
         ELSE IF lines[from].tag # "array" THEN {} ELSE found
  BY Zenon DEF extract_array_after_key
<1>2. T = Places(lines, key)
  BY DEF Places
<1>3. IsSeq(lines) /\ doc.t = "dict" /\ IsSeq(doc.entries)
  BY DEF Spelled
<1>4. CASE Entries(doc, key) = {}
  <2>1. T = {} /\ Lookup(doc, key) = {}
    BY <1>2, <1>3, <1>4, OnePlace, LookupIs
  <2>2. QED
    BY <1>1, <2>1 DEF get_array_strings
<1>5. ASSUME NEW i \in DOMAIN doc.entries, Entries(doc, key) = {i}
      PROVE  "arm64" \in extract_array_after_key(lines, key) <=> "arm64" \in get_array_strings(doc, key)
  <2> DEFINE v == doc.entries[i][2]
  <2> DEFINE l == at[i]
  <2>1. T = {l}
    BY <1>2, <1>5, OnePlace
  <2>2. l \in DOMAIN lines /\ EntryAt(lines, l, doc.entries[i][1], v)
    BY DEF Spelled
  <2>3. DOMAIN lines = 1..Len(lines) /\ Len(lines) \in Nat
    BY <1>3 DEF IsSeq
  <2>4. l \in Nat /\ l <= Len(lines)
    BY <2>2, <2>3
  <2>5. Min(T) = l
    BY <2>1, <2>4, LargestOfOne
  <2>6. Lookup(doc, key) = {v}
    BY <1>3, <1>5, LookupIs
  <2>7. get_array_strings(doc, key) =
           IF v.t = "array" THEN {v.items[j].s : j \in {k \in DOMAIN v.items : v.items[k].t = "str"}}
           ELSE {}
    BY <2>6 DEF get_array_strings
  <2>8. v.t = "array" => \A j \in DOMAIN v.items : IsLeaf(v.items[j])
    BY <1>5 DEF Entries
  <2>9. T # {}
    BY <2>1
  <2> HIDE DEF T, v, l
  <2>10. ASSUME Row(lines[from], v), from \in DOMAIN lines
         PROVE  "arm64" \in extract_array_after_key(lines, key) <=> "arm64" \in get_array_strings(doc, key)
    <3>1. /\ lines[from].tag = "array" /\ lines[from].closes /\ v.t = "array"
          /\ \A j \in DOMAIN v.items : v.items[j].t = "str"
          /\ lines[from].items = [j \in DOMAIN v.items |-> XmlText(v.items[j].s)]
      BY <2>10 DEF Row
    <3>2. upto = from
      BY <3>1
    <3>3. from \in Nat /\ from <= Len(lines)
      BY <2>3, <2>10
    <3> HIDE DEF from, upto
    <3>4. found = Range(lines[from].items)
      BY <3>2, <3>3
    <3> HIDE DEF found
    <3> DEFINE texts == {XmlText(v.items[j].s) : j \in DOMAIN v.items}
    <3>5. found = texts
      <4>1. DOMAIN lines[from].items = DOMAIN v.items
        BY <3>1
      <4>2. \A j \in DOMAIN v.items : lines[from].items[j] = XmlText(v.items[j].s)
        BY <3>1
      <4>3. Range(lines[from].items) = texts
        BY <4>1, <4>2 DEF Range
      <4>4. QED
        BY <3>4, <4>3
    <3> HIDE DEF texts
    <3>6. extract_array_after_key(lines, key) = texts
      BY <1>1, <2>3, <2>9, <3>1, <3>3, <3>5
    <3>7. get_array_strings(doc, key) = {v.items[j].s : j \in DOMAIN v.items}
      BY <2>7, <3>1
    <3>8. QED
      BY <3>6, <3>7, ArchitectureIs DEF texts
  <2>11. CASE Row(lines[l], v)
    <3>1. from = l
      BY <2>5, <2>11 DEF Row
    <3> HIDE DEF from
    <3>2. QED
      BY <2>2, <2>10, <2>11, <3>1
  <2>12. CASE lines[l].tag = "" /\ ValueAt(lines, l + 1, v)
    <3>1. from = l + 1
      BY <2>5, <2>12
    <3>2. from \in DOMAIN lines /\ lines[from].tag = ValueTag(v)
      BY <2>12, <3>1 DEF ValueAt
    <3>3. from \in Nat /\ from <= Len(lines)
      BY <2>3, <3>2
    <3>4. CASE v.t # "array"
      <4>1. lines[from].tag # "array"
        BY <3>2, <3>4 DEF ValueTag
      <4> HIDE DEF from
      <4>2. QED
        BY <1>1, <2>3, <2>7, <2>9, <3>3, <3>4, <4>1
    <3>5. CASE v.t = "array" /\ Row(lines[from], v)
      BY <2>10, <3>2, <3>5
    <3>6. CASE v.t = "array" /\ Block(lines, from, v)
      <4> DEFINE m == Len(v.items)
      <4>1. /\ lines[from].tag = "array" /\ ~lines[from].closes /\ lines[from].items = <<>>
            /\ IsSeq(v.items)
            /\ from + m + 1 \in DOMAIN lines
            /\ lines[from + m + 1].tag = "/array"
            /\ \A j \in DOMAIN v.items : LeafAt(lines, from + j, v.items[j])
        BY <2>8, <3>6 DEF Block
      <4>2. DOMAIN v.items = 1..m /\ m \in Nat
        BY <4>1 DEF IsSeq
      <4> HIDE DEF from
      <4>3. \A j \in 1..m : /\ lines[from + j].tag = ValueTag(v.items[j])
                            /\ v.items[j].t = "str" => lines[from + j].text = XmlText(v.items[j].s)
                            /\ IsLeaf(v.items[j])
        BY <2>8, <3>6, <4>1, <4>2 DEF LeafAt
      <4>4. \A j \in 1..m : /\ lines[from + j].tag # "/array"
                            /\ lines[from + j].tag = "string" <=> v.items[j].t = "str"
        BY <4>3 DEF ValueTag, IsLeaf
      <4>5. Min(ends) = from + m + 1 /\ ends # {}
        <5>1. from + m + 1 \in ends
          BY <2>3, <3>3, <4>1, <4>2
        <5>2. \A j \in ends : from + m + 1 <= j
          <6> SUFFICES ASSUME NEW j \in ends, j < from + m + 1 PROVE FALSE
            BY <2>3, <3>3, <4>2
          <6>1. j - from \in 1..m /\ from + (j - from) = j
            BY <2>3, <3>3, <4>2
          <6>2. QED
            BY <4>4, <6>1
        <5>3. \A j \in ends : j \in Nat
          BY <2>3, <3>3
        <5> HIDE DEF ends
        <5>4. \A x \in ends : (\A y \in ends : x <= y) => x = from + m + 1
          BY <5>1, <5>2, <5>3
        <5>5. QED
          BY <5>1, <5>2, <5>4 DEF Min
      <4>6. upto = from + m + 1
        BY <4>1, <4>5
      <4> HIDE DEF ends, upto
      <4>7. Range(lines[from].items) = {}
        BY <4>1 DEF Range
      <4>8. {k \in (from + 1)..upto : lines[k].tag = "string"} =
            {from + j : j \in {k \in 1..m : v.items[k].t = "str"}}
        <5>1. ASSUME NEW k \in (from + 1)..upto, lines[k].tag = "string"
              PROVE  k - from \in 1..m /\ v.items[k - from].t = "str" /\ from + (k - from) = k
          <6>1. k # from + m + 1
            BY <4>1, <5>1
          <6>2. k - from \in 1..m /\ from + (k - from) = k
            BY <3>3, <4>2, <4>6, <6>1
          <6>3. QED
            BY <4>4, <5>1, <6>2
        <5>2. ASSUME NEW j \in 1..m, v.items[j].t = "str"
              PROVE  from + j \in (from + 1)..upto /\ lines[from + j].tag = "string"
          BY <3>3, <4>2, <4>4, <4>6, <5>2
        <5>3. QED
          BY <5>1, <5>2
      <4>9. found = {XmlText(v.items[j].s) : j \in {k \in 1..m : v.items[k].t = "str"}}
        BY <4>3, <4>7, <4>8
      <4> HIDE DEF found
      <4>10. extract_array_after_key(lines, key) = found
        BY <1>1, <2>3, <2>9, <3>3, <4>1
      <4>11. get_array_strings(doc, key) = {v.items[j].s : j \in {k \in 1..m : v.items[k].t = "str"}}
        BY <2>7, <3>6, <4>2
      <4>12. QED
        BY <4>9, <4>10, <4>11, ArchitectureIs
    <3>7. QED
      BY <2>12, <3>1, <3>4, <3>5, <3>6 DEF ValueAt
  <2>13. QED
    BY <2>2, <2>11, <2>12 DEF EntryAt
<1>6. QED
  BY <1>4, <1>5, OnePlace

\* The scan fills the fields of BundleInfo with what the document says.
LEMMA ScannedInfoIs ==
    ASSUME NEW lines, NEW doc, NEW at, Spelled(lines, doc, at),
           Once(lines, doc, at, StringKeys \cup BoolKeys \cup {"UIRequiredDeviceCapabilities"}),
           \A i \in DOMAIN doc.entries :
              LET v == doc.entries[i][2]
              IN  /\ v.t = "str" => v.s \notin DOMAIN Escapes
                  /\ v.t = "array" /\ doc.entries[i][1] = "UIRequiredDeviceCapabilities"
                        => \A j \in DOMAIN v.items : IsLeaf(v.items[j])
    PROVE  parse_info_plist(lines) = bundle_info_from_bplist(doc)
<1> DEFINE caps == "UIRequiredDeviceCapabilities"
<1>1. \A k \in StringKeys \cup BoolKeys \cup {caps} : Once(lines, doc, at, {k})
  BY DEF Once
<1>2. [k \in StringKeys |-> extract_string_after_key(lines, k)] = [k \in StringKeys |-> get_string(doc, k)]
  BY <1>1, StringIs
<1>3. [k \in BoolKeys |-> extract_bool_after_key(lines, k)] = [k \in BoolKeys |-> get_bool(doc, k)]
  BY <1>1, BoolIs
<1>4. "arm64" \in extract_array_after_key(lines, caps) <=> "arm64" \in get_array_strings(doc, caps)
  <2>1. Once(lines, doc, at, {caps})
    BY <1>1
  <2>2. QED
    BY <2>1, ArrayIs
<1>5. ASSUME NEW str, NEW bool, NEW c, NEW d, "arm64" \in c <=> "arm64" \in d
      PROVE  BundleInfo(str, bool, c) = BundleInfo(str, bool, d)
  <2>1. ("arm64" \in c) = ("arm64" \in d)
    BY <1>5
  <2>2. QED
    BY <2>1, Zenon DEF BundleInfo
<1>6. QED
  BY <1>2, <1>3, <1>4, <1>5 DEF parse_info_plist, bundle_info_from_bplist

-----------------------------------------------------------------------------
(* Profiles. *)

\* The first of several lines.
LEMMA LeastIs ==
    ASSUME NEW S \in SUBSET Nat, NEW m \in S, \A y \in S : m <= y
    PROVE  Min(S) = m
<1>1. \A x \in S : (\A y \in S : x <= y) => x = m
  OBVIOUS
<1>2. QED
  BY <1>1 DEF Min

\* A key is seen wherever the dictionary has it, unless its value is on the
\* line of the key.
LEMMA PresentIs ==
    ASSUME NEW lines, NEW doc, NEW at, Spelled(lines, doc, at),
           NEW key, Once(lines, doc, at, {key})
    PROVE  (\A i \in Entries(doc, key) : lines[at[i]].tag = "")
              => (key_is_present(lines, key) <=> Lookup(doc, key) # {})
<1>1. doc.t = "dict" /\ IsSeq(doc.entries)
  BY DEF Spelled
<1>2. KeyLines(lines, key) = {i \in Places(lines, key) : lines[i].tag = ""}
  BY DEF KeyLines, Places
<1>3. CASE Entries(doc, key) = {}
  <2>1. Places(lines, key) = {} /\ Lookup(doc, key) = {}
    BY <1>1, <1>3, OnePlace, LookupIs
  <2>2. QED
    BY <1>2, <2>1 DEF key_is_present
<1>4. CASE Entries(doc, key) # {}
  <2>1. PICK i \in DOMAIN doc.entries : Entries(doc, key) = {i} /\ Places(lines, key) = {at[i]}
    BY <1>4, OnePlace
  <2>2. Lookup(doc, key) = {doc.entries[i][2]}
    BY <1>1, <2>1, LookupIs
  <2>3. lines[at[i]].tag = "" => at[i] \in KeyLines(lines, key)
    BY <1>2, <2>1
  <2>4. QED
    BY <2>1, <2>2, <2>3 DEF key_is_present
<1>5. QED
  BY <1>3, <1>4

\* What the scan sees of the network is what the dictionary grants.
LEMMA NetworkIs ==
    ASSUME NEW lines, NEW doc, NEW at, Spelled(lines, doc, at),
           Once(lines, doc, at, NETWORK_BOOL_KEYS \cup NETWORK_PRESENCE_KEYS),
           \A i \in DOMAIN at : doc.entries[i][1] \in NETWORK_PRESENCE_KEYS => lines[at[i]].tag = ""
    PROVE  /\ \A k \in NETWORK_BOOL_KEYS : extract_bool_after_key(lines, k) = get_bool(doc, k)
           /\ \A k \in NETWORK_PRESENCE_KEYS : key_is_present(lines, k) <=> Lookup(doc, k) # {}
<1>1. \A k \in NETWORK_BOOL_KEYS \cup NETWORK_PRESENCE_KEYS : Once(lines, doc, at, {k})
  BY DEF Once
<1>2. \A k \in NETWORK_BOOL_KEYS : extract_bool_after_key(lines, k) = get_bool(doc, k)
  BY <1>1, BoolIs
<1>3. ASSUME NEW k \in NETWORK_PRESENCE_KEYS
      PROVE  key_is_present(lines, k) <=> Lookup(doc, k) # {}
  <2>1. Once(lines, doc, at, {k})
    BY <1>1
  <2>2. DOMAIN at = DOMAIN doc.entries
    BY DEF Spelled
  <2>3. \A i \in Entries(doc, k) : lines[at[i]].tag = ""
    BY <2>2 DEF Entries
  <2>4. QED
    BY <2>1, <2>3, PresentIs
<1>4. QED
  BY <1>2, <1>3

\* The Entitlements dictionary is cut out of the profile as it is; without the
\* key there is nothing to cut out.
LEMMA IsolatedIs ==
    ASSUME NEW p, Signs(p), Once(p.lines, p.doc, p.at, {"Entitlements"})
    PROVE  /\ Lookup(p.doc, "Entitlements") = {} => isolate_entitlements_dict(p.lines) = {}
           /\ \A i \in EntitlementsAt(p) :
                 isolate_entitlements_dict(p.lines) = {Inside(p, i)}
<1> DEFINE key == "Entitlements"
<1> DEFINE lines == p.lines
<1> DEFINE keys == {i \in DOMAIN lines : lines[i].key = {key}}
<1> DEFINE opens == {j \in DOMAIN lines : keys # {} /\ j > Min(keys) /\ lines[j].tag = "dict"}
<1> DEFINE Count(tag, k) == Cardinality({i \in Min(opens)..k : lines[i].tag = tag})
<1> DEFINE ends == {k \in DOMAIN lines : opens # {} /\ k > Min(opens)
                                         /\ Count("dict", k) = Count("/dict", k)}
<1>1. isolate_entitlements_dict(lines) =
         IF ends = {} THEN {} ELSE {SubSeq(lines, Min(opens), Min(ends))}
  BY Zenon DEF isolate_entitlements_dict
<1>2. Spelled(lines, p.doc, p.at)
  BY DEF Signs
<1>3. Once(lines, p.doc, p.at, {key})
  OBVIOUS
<1>4. keys = Places(lines, key)
  BY DEF Places
<1>5. p.doc.t = "dict" /\ IsSeq(p.doc.entries) /\ IsSeq(lines)
  BY <1>2 DEF Spelled
<1>6. DOMAIN lines = 1..Len(lines) /\ Len(lines) \in Nat
  BY <1>5 DEF IsSeq
<1>7. CASE Lookup(p.doc, key) = {}
  <2>1. Entries(p.doc, key) = {}
    <3>1. ASSUME NEW i \in DOMAIN p.doc.entries, Entries(p.doc, key) = {i} PROVE FALSE
      <4>1. Lookup(p.doc, key) = {p.doc.entries[i][2]}
        BY <1>5, <3>1, LookupIs
      <4>2. QED
        BY <1>7, <4>1
    <3>2. QED
      BY <1>2, <1>3, <3>1, OnePlace
  <2>2. keys = {}
    BY <1>2, <1>3, <1>4, <2>1, OnePlace
  <2>3. opens = {}
    BY <2>2
  <2>4. ends = {}
    BY <2>3
  <2>5. EntitlementsAt(p) = {}
    BY <2>1 DEF EntitlementsAt, Entries
  <2>6. QED
    BY <1>1, <2>4, <2>5
<1>8. ASSUME NEW i \in EntitlementsAt(p)
      PROVE  isolate_entitlements_dict(lines) = {Inside(p, i)} /\ Lookup(p.doc, key) # {}
  <2> DEFINE v == p.doc.entries[i][2]
  <2> DEFINE open == p.at[i] + 1
  <2> DEFINE close == p.close[i]
  <2>1. i \in Entries(p.doc, key) /\ i \in DOMAIN p.doc.entries /\ v.t = "dict" /\ v.entries # <<>>
    BY DEF EntitlementsAt, Entries
  <2>2. Entries(p.doc, key) = {i} /\ keys = {p.at[i]}
    BY <1>2, <1>3, <1>4, <2>1, OnePlace
  <2>3. p.at[i] \in DOMAIN lines /\ EntryAt(lines, p.at[i], p.doc.entries[i][1], v)
    BY <1>2, <2>1 DEF Spelled
  <2>4. ValueAt(lines, open, v)
    BY <2>1, <2>3 DEF EntryAt, Row
  <2>5. open \in DOMAIN lines /\ lines[open].tag = "dict"
    BY <2>1, <2>4 DEF ValueAt, ValueTag
  <2>6. p.at[i] \in Nat /\ open \in Nat
    BY <1>6, <2>3
  <2>7. Min(keys) = p.at[i] /\ keys # {}
    BY <2>2, <2>6, LargestOfOne
  <2>8. Encloses(lines, open, close)
    BY DEF Signs
  <2> HIDE DEF keys, close
  <2>9. Min(opens) = open /\ opens # {}
    <3>1. opens \in SUBSET Nat /\ open \in opens /\ \A y \in opens : open <= y
      BY <1>6, <2>3, <2>5, <2>6, <2>7
    <3> HIDE DEF opens, open
    <3>2. QED
      BY <3>1, LeastIs
  <2>10. ends = {k \in DOMAIN lines : k > open /\ Cardinality({j \in open..k : lines[j].tag = "dict"})
                                                  = Cardinality({j \in open..k : lines[j].tag = "/dict"})}
    BY <2>9
  <2>11. Min(ends) = close /\ ends # {}
    <3>1. close \in DOMAIN lines /\ open < close
      BY <2>8 DEF Encloses
    <3>2. \A k \in (open + 1)..close :
             Cardinality({j \in open..k : lines[j].tag = "dict"})
             = Cardinality({j \in open..k : lines[j].tag = "/dict"}) <=> k = close
      BY <2>8 DEF Encloses
    <3> HIDE DEF open, ends
    <3>3. close \in ends
      BY <1>6, <2>6, <2>10, <3>1, <3>2
    <3>4. ASSUME NEW k \in ends PROVE close <= k
      <4>1. CASE k < close
        BY <1>6, <2>6, <2>10, <3>1, <3>2, <4>1
      <4>2. QED
        BY <1>6, <2>10, <3>1, <4>1
    <3>5. ends \in SUBSET Nat
      BY <1>6, <2>10
    <3>6. QED
      BY <3>3, <3>4, <3>5, LeastIs
  <2> HIDE DEF ends, opens
  <2>12. isolate_entitlements_dict(lines) = {SubSeq(lines, open, close)}
    BY <1>1, <2>9, <2>11
  <2>13. Lookup(p.doc, key) = {v}
    BY <1>5, <2>1, <2>2, LookupIs
  <2>14. QED
    BY <2>12, <2>13 DEF Inside, close
<1>9. QED
  BY <1>7, <1>8

-----------------------------------------------------------------------------
(* The walk over the objects of a binary file. *)

\* The recursion of Kids, over the first n references.
KidsStart(d) == [err |-> "", depth |-> d, vals |-> <<>>]
KidsNext(p, refs, acc, i) ==
    LET r == p[acc.depth][refs[i]]
    IN  IF acc.err # "" THEN acc
        ELSE [err |-> r.err, depth |-> r.depth, vals |-> Append(acc.vals, r.val)]
IsKids(k, p, refs, d, n) ==
    k = [i \in 0..n |-> IF i = 0 THEN KidsStart(d) ELSE KidsNext(p, refs, k[i - 1], i)]

\* The recursion of Kids defines a function.
LEMMA KidsExist ==
    ASSUME NEW p, NEW refs, NEW d
    PROVE  \A n \in Nat : \E k : IsKids(k, p, refs, d, n)
<1> DEFINE S == {n \in Nat : \E k : IsKids(k, p, refs, d, n)}
<1>1. 0 \in S
  <2>1. IsKids([i \in 0..0 |-> KidsStart(d)], p, refs, d, 0)
    BY DEF IsKids
  <2>2. QED
    BY <2>1
<1>2. ASSUME NEW n \in Nat, n \in S PROVE n + 1 \in S
  <2>1. PICK f : IsKids(f, p, refs, d, n)
    BY <1>2
  <2> DEFINE g == [i \in 0..(n + 1) |-> IF i = n + 1 THEN KidsNext(p, refs, f[n], n + 1) ELSE f[i]]
  <2>2. IsKids(g, p, refs, d, n + 1)
    <3>1. ASSUME NEW i \in 0..(n + 1)
          PROVE  g[i] = IF i = 0 THEN KidsStart(d) ELSE KidsNext(p, refs, g[i - 1], i)
      BY <2>1 DEF IsKids
    <3>2. QED
      BY <3>1 DEF IsKids
  <2>3. QED
    BY <2>2
<1> HIDE DEF S
<1>3. Nat \subseteq S
  BY <1>1, <1>2, Induction
<1>4. QED
  BY <1>3 DEF S

\* What the recursion is at its ends.
LEMMA KidsTurns ==
    ASSUME NEW k, NEW p, NEW refs, NEW d, NEW n \in Nat, IsKids(k, p, refs, d, n)
    PROVE  /\ k[0] = KidsStart(d)
           /\ \A i \in Nat : i + 1 <= n => k[i + 1] = KidsNext(p, refs, k[i], i + 1)
  BY DEF IsKids

\* Kids is the last of its turns.
LEMMA KidsAre ==
    ASSUME NEW p, NEW refs, Len(refs) \in Nat, NEW d
    PROVE  \E k : /\ IsKids(k, p, refs, d, Len(refs))
                  /\ Kids(p, refs, d) = k[Len(refs)]
<1> DEFINE f == CHOOSE g : IsKids(g, p, refs, d, Len(refs))
<1>2. IsKids(f, p, refs, d, Len(refs))
  BY KidsExist
<1>3. Kids(p, refs, d) = f[Len(refs)]
  BY DEF Kids, IsKids, KidsStart, KidsNext
<1> HIDE DEF f
<1>4. QED
  BY <1>2, <1>3

\* A result within its budget d, of an object that has a tree: that tree.
Sound(f, r, d, idx) ==
    /\ r.depth \in 0..d
    /\ r.err = "" => idx \in DOMAIN f.trees /\ r.val = f.trees[idx]
SoundTo(f, p, d) == \A c \in 0..d : \A idx \in Nat : Sound(f, p[c][idx], c, idx)
SoundBelow(f, p, d) == d # 0 => SoundTo(f, p, d - 1)

\* The state of Kids after i turns.
Gathered(f, refs, acc, d, i) ==
    /\ acc.depth \in 0..d
    /\ acc.err = "" => /\ \A j \in 1..i : refs[j] \in DOMAIN f.trees
                       /\ acc.vals = [j \in 1..i |-> f.trees[refs[j]]]

\* A turn of Kids adds a tree, or ends in an error.
LEMMA KidsTurn ==
    ASSUME NEW f, NEW p, NEW d \in Nat, SoundTo(f, p, d), NEW i \in Nat,
           NEW refs, refs[i + 1] \in Nat, NEW acc, Gathered(f, refs, acc, d, i)
    PROVE  Gathered(f, refs, KidsNext(p, refs, acc, i + 1), d, i + 1)
<1> DEFINE ref == refs[i + 1]
<1> DEFINE r == p[acc.depth][ref]
<1> DEFINE next == KidsNext(p, refs, acc, i + 1)
<1>1. acc.depth \in 0..d
  BY DEF Gathered
<1>2. CASE acc.err # ""
  <2>1. next = acc
    BY <1>2 DEF KidsNext
  <2>2. QED
    BY <1>1, <1>2, <2>1 DEF Gathered
<1>3. CASE acc.err = ""
  <2>1. Sound(f, r, acc.depth, ref)
    BY <1>1 DEF SoundTo
  <2>2. next = [err |-> r.err, depth |-> r.depth, vals |-> Append(acc.vals, r.val)]
    BY <1>3 DEF KidsNext
  <2> HIDE DEF next
  <2>3. next.err = r.err /\ next.depth = r.depth /\ next.vals = Append(acc.vals, r.val)
    BY <2>2
  <2>4. next.depth \in 0..d
    <3>1. r.depth \in 0..acc.depth
      BY <2>1 DEF Sound
    <3> HIDE DEF r
    <3>2. QED
      BY <1>1, <2>3, <3>1
  <2>5. ASSUME next.err = ""
        PROVE  /\ \A j \in 1..(i + 1) : refs[j] \in DOMAIN f.trees
               /\ next.vals = [j \in 1..(i + 1) |-> f.trees[refs[j]]]
    <3>1. ref \in DOMAIN f.trees /\ r.val = f.trees[ref]
      BY <2>1, <2>3, <2>5 DEF Sound
    <3>2. /\ \A j \in 1..i : refs[j] \in DOMAIN f.trees
          /\ acc.vals = [j \in 1..i |-> f.trees[refs[j]]]
      BY <1>3 DEF Gathered
    <3> HIDE DEF r
    <3> DEFINE T == {f.trees[x] : x \in DOMAIN f.trees}
    <3>3. acc.vals \in Seq(T) /\ Len(acc.vals) = i /\ f.trees[ref] \in T
      BY <3>1, <3>2
    <3>4. Append(acc.vals, f.trees[ref]) = [j \in 1..(i + 1) |-> f.trees[refs[j]]]
      BY <3>2, <3>3
    <3>5. \A j \in 1..(i + 1) : refs[j] \in DOMAIN f.trees
      BY <3>1, <3>2
    <3>6. QED
      BY <2>3, <3>1, <3>4, <3>5
  <2>6. QED
    BY <2>4, <2>5 DEF Gathered, next
<1>4. QED
  BY <1>2, <1>3

\* Children stay within the budget, and are the trees referred to.
LEMMA KidsSound ==
    ASSUME NEW f, NEW p, NEW d \in Nat, SoundTo(f, p, d),
           NEW refs, Len(refs) \in Nat, \A i \in 1..Len(refs) : refs[i] \in Nat
    PROVE  Gathered(f, refs, Kids(p, refs, d), d, Len(refs))
<1> DEFINE n == Len(refs)
<1>1. PICK k : IsKids(k, p, refs, d, n) /\ Kids(p, refs, d) = k[n]
  BY KidsAre
<1> HIDE DEF n
<1> DEFINE S == {i \in Nat : i <= n => Gathered(f, refs, k[i], d, i)}
<1>2. n \in Nat
  BY DEF n
<1>3. 0 \in S
  <2>1. k[0] = KidsStart(d)
    BY <1>1, <1>2, KidsTurns
  <2>2. Gathered(f, refs, KidsStart(d), d, 0)
    BY DEF KidsStart, Gathered
  <2>3. QED
    BY <2>1, <2>2
<1>4. ASSUME NEW i \in Nat, i \in S PROVE i + 1 \in S
  <2>1. ASSUME i + 1 <= n PROVE Gathered(f, refs, k[i + 1], d, i + 1)
    <3>1. k[i + 1] = KidsNext(p, refs, k[i], i + 1)
      BY <1>1, <1>2, <2>1, KidsTurns
    <3>2. Gathered(f, refs, k[i], d, i)
      BY <1>2, <1>4, <2>1
    <3>3. refs[i + 1] \in Nat
      BY <1>2, <2>1 DEF n
    <3>4. QED
      BY <3>1, <3>2, <3>3, KidsTurn
  <2>2. QED
    BY <2>1
<1> HIDE DEF S
<1>5. Nat \subseteq S
  BY <1>3, <1>4, Induction
<1>6. n \in S
  BY <1>2, <1>5
<1>7. Gathered(f, refs, k[n], d, n)
  BY <1>2, <1>6 DEF S
<1>8. QED
  BY <1>1, <1>7 DEF n

\* Children depend on what p is at budgets up to d only.
LEMMA KidsSame ==
    ASSUME NEW f, NEW p, NEW q, NEW d \in Nat, SoundTo(f, p, d),
           \A c \in 0..d : p[c] = q[c],
           NEW refs, Len(refs) \in Nat, \A i \in 1..Len(refs) : refs[i] \in Nat
    PROVE  Kids(p, refs, d) = Kids(q, refs, d)
<1> DEFINE n == Len(refs)
<1>1. PICK k : IsKids(k, p, refs, d, n) /\ Kids(p, refs, d) = k[n]
  BY KidsAre
<1>2. PICK l : IsKids(l, q, refs, d, n) /\ Kids(q, refs, d) = l[n]
  BY KidsAre
<1> HIDE DEF n
<1> DEFINE S == {i \in Nat : i <= n => k[i] = l[i] /\ Gathered(f, refs, k[i], d, i)}
<1>3. n \in Nat
  BY DEF n
<1>4. 0 \in S
  <2>1. k[0] = KidsStart(d) /\ l[0] = KidsStart(d)
    BY <1>1, <1>2, <1>3, KidsTurns
  <2>2. Gathered(f, refs, KidsStart(d), d, 0)
    BY DEF KidsStart, Gathered
  <2>3. QED
    BY <2>1, <2>2
<1>5. ASSUME NEW i \in Nat, i \in S PROVE i + 1 \in S
  <2>1. ASSUME i + 1 <= n PROVE k[i + 1] = l[i + 1] /\ Gathered(f, refs, k[i + 1], d, i + 1)
    <3>1. k[i + 1] = KidsNext(p, refs, k[i], i + 1) /\ l[i + 1] = KidsNext(q, refs, l[i], i + 1)
      BY <1>1, <1>2, <1>3, <2>1, KidsTurns
    <3>2. k[i] = l[i] /\ Gathered(f, refs, k[i], d, i)
      BY <1>3, <1>5, <2>1
    <3>3. refs[i + 1] \in Nat
      BY <1>3, <2>1 DEF n
    <3>4. Gathered(f, refs, k[i + 1], d, i + 1)
      BY <3>1, <3>2, <3>3, KidsTurn
    <3>5. p[k[i].depth] = q[k[i].depth]
      BY <3>2 DEF Gathered
    <3>6. KidsNext(p, refs, k[i], i + 1) = KidsNext(q, refs, k[i], i + 1)
      BY <3>5 DEF KidsNext
    <3>7. QED
      BY <3>1, <3>2, <3>4, <3>6
  <2>2. QED
    BY <2>1
<1> HIDE DEF S
<1>6. Nat \subseteq S
  BY <1>4, <1>5, Induction
<1>7. k[n] = l[n]
  BY <1>3, <1>6 DEF S
<1>8. QED
  BY <1>1, <1>2, <1>7 DEF n

-----------------------------------------------------------------------------
(* The recursion of parse_object, with a budget of d. *)

Body(f, p, d) ==
    [idx \in Nat |->
        IF d = 0 THEN Err("nesting too deep")
        ELSE IF idx >= f.num_objects THEN Err("index out of range")
        ELSE LET o == f.objects[idx + 1]
             IN  Decoded(o, Kids(p, Refs(o), d - 1))]
IsParse(f, p, n) == p = [d \in 0..n |-> Body(f, p, d)]

\* The references of a dictionary come in pairs.
LEMMA Pairs ==
    ASSUME NEW n \in Nat, n % 2 = 0
    PROVE  /\ n \div 2 \in Nat /\ 2 * (n \div 2) = n
           /\ \A i \in 1..(n \div 2) : 2 * i - 1 \in 1..n /\ 2 * i \in 1..n
<1>1. n \div 2 \in Nat /\ 2 * (n \div 2) = n
  OBVIOUS
<1> DEFINE m == n \div 2
<1> HIDE DEF m
<1>2. m \in Nat /\ 2 * m = n
  BY <1>1 DEF m
<1>3. \A i \in 1..m : 2 * i - 1 \in 1..n /\ 2 * i \in 1..n
  BY <1>2
<1>4. QED
  BY <1>2, <1>3 DEF m

\* The i-th of the numbers from 1 to m is i.
LEMMA Ranks ==
    ASSUME NEW m \in Nat
    PROVE  /\ Cardinality(1..m) = m
           /\ \A i \in 1..m : (CHOOSE k \in 1..m : Cardinality({j \in 1..m : j <= k}) = i) = i
<1>1. ASSUME NEW k \in Nat PROVE Cardinality(1..k) = k
  <2>1. 1 \in Int /\ k \in Int
    OBVIOUS
  <2>2. Cardinality(1..k) = IF 1 > k THEN 0 ELSE k - 1 + 1
    BY <2>1, FS_Interval
  <2>3. QED
    BY <2>2
<1>2. ASSUME NEW k \in 1..m PROVE Cardinality({j \in 1..m : j <= k}) = k
  <2>1. {j \in 1..m : j <= k} = 1..k /\ k \in Nat
    OBVIOUS
  <2>2. QED
    BY <1>1, <2>1, Zenon
<1>3. ASSUME NEW i \in 1..m
      PROVE  (CHOOSE k \in 1..m : Cardinality({j \in 1..m : j <= k}) = i) = i
  <2> DEFINE R(k) == Cardinality({j \in 1..m : j <= k})
  <2>1. \A k \in 1..m : R(k) = k
    BY <1>2
  <2> HIDE DEF R
  <2>2. (CHOOSE k \in 1..m : R(k) = i) = i
    BY <2>1
  <2>3. QED
    BY <2>2 DEF R
<1>4. QED
  BY <1>1, <1>3

\* The children of a dictionary whose keys are strings, all decoded.
Filled(o, kids, trees) ==
    /\ o.t = "dict" /\ Len(o.refs) \in Nat /\ Len(o.refs) % 2 = 0
    /\ kids.err = "" /\ Len(kids.vals) = Len(o.refs)
    /\ \A k \in 1..Len(o.refs) : kids.vals[k] = trees[o.refs[k]]
    /\ \A k \in 1..(Len(o.refs) \div 2) : kids.vals[2 * k - 1].t = "str"

\* The entries of a dictionary whose keys are strings are its pairs, in order.
LEMMA DictIs ==
    ASSUME NEW o, NEW kids, NEW trees, Filled(o, kids, trees)
    PROVE  Decoded(o, kids) = Ok(TreeOf(o, trees), kids.depth)
<1> DEFINE n == Len(o.refs)
<1> DEFINE m == n \div 2
<1> DEFINE keyed == {i \in 1..(Len(kids.vals) \div 2) : kids.vals[2 * i - 1].t = "str"}
<1> DEFINE place(i) == CHOOSE k \in keyed : Cardinality({j \in keyed : j <= k}) = i
<1> DEFINE entry(i) == LET k == place(i)
                       IN  <<kids.vals[2 * k - 1].s, kids.vals[2 * k]>>
<1>0. /\ o.t = "dict" /\ n \in Nat /\ n % 2 = 0 /\ kids.err = "" /\ Len(kids.vals) = n
      /\ \A k \in 1..n : kids.vals[k] = trees[o.refs[k]]
      /\ \A k \in 1..m : kids.vals[2 * k - 1].t = "str"
  BY DEF Filled
<1>1. m \in Nat /\ \A i \in 1..m : 2 * i - 1 \in 1..n /\ 2 * i \in 1..n
  BY <1>0, Pairs
<1>2. keyed = 1..m
  BY <1>0
<1>3. Cardinality(keyed) = m
  BY <1>1, <1>2, Ranks
<1>4. \A i \in 1..m : place(i) = i
  <2> HIDE DEF m, keyed
  <2>1. \A i \in 1..m : (CHOOSE k \in keyed : Cardinality({j \in keyed : j <= k}) = i) = i
    BY <1>1, <1>2, Ranks, Zenon
  <2>2. QED
    BY <2>1, Zenon
<1>5. Decoded(o, kids) = Ok(Dict([i \in 1..Cardinality(keyed) |-> entry(i)]), kids.depth)
  BY <1>0, Zenon DEF Decoded
<1>6. TreeOf(o, trees) = Dict([i \in 1..m |-> <<trees[o.refs[2 * i - 1]].s, trees[o.refs[2 * i]]>>])
  BY <1>0, Zenon DEF TreeOf
<1> HIDE DEF n, m, keyed, place
<1>7. \A i \in 1..m : entry(i) = <<trees[o.refs[2 * i - 1]].s, trees[o.refs[2 * i]]>>
  <2> SUFFICES ASSUME NEW i \in 1..m
               PROVE  entry(i) = <<trees[o.refs[2 * i - 1]].s, trees[o.refs[2 * i]]>>
    OBVIOUS
  <2>1. entry(i) = <<kids.vals[2 * i - 1].s, kids.vals[2 * i]>>
    BY <1>4
  <2>2. 2 * i - 1 \in 1..n /\ 2 * i \in 1..n
    BY <1>1
  <2>3. QED
    BY <1>0, <2>1, <2>2
<1> HIDE DEF entry
<1>8. [i \in 1..m |-> entry(i)] = [i \in 1..m |-> <<trees[o.refs[2 * i - 1]].s, trees[o.refs[2 * i]]>>]
  BY <1>7
<1>9. QED
  BY <1>3, <1>5, <1>6, <1>8, Zenon

\* The cases of Decoded and of TreeOf.
LEMMA DecodedIs ==
    ASSUME NEW o, NEW kids
    PROVE  /\ o.t = "bad" => Decoded(o, kids) = Err("malformed")
           /\ o.t \in {"str", "bool", "other"} => Decoded(o, kids) = Ok(o, kids.depth)
           /\ o.t \in {"array", "dict"} /\ kids.err # "" => Decoded(o, kids) = Err(kids.err)
           /\ o.t = "array" /\ kids.err = "" => Decoded(o, kids) = Ok(Arr(kids.vals), kids.depth)
<1> DEFINE keyed == {i \in 1..(Len(kids.vals) \div 2) : kids.vals[2 * i - 1].t = "str"}
<1> DEFINE entries ==
        [i \in 1..Cardinality(keyed) |->
            LET k == CHOOSE k \in keyed : Cardinality({j \in keyed : j <= k}) = i
            IN  <<kids.vals[2 * k - 1].s, kids.vals[2 * k]>>]
<1>1. Decoded(o, kids) =
        CASE o.t = "bad" -> Err("malformed")
          [] o.t \in {"str", "bool", "other"} -> Ok(o, kids.depth)
          [] o.t \in {"array", "dict"} /\ kids.err # "" -> Err(kids.err)
          [] o.t = "array" /\ kids.err = "" -> Ok(Arr(kids.vals), kids.depth)
          [] OTHER -> Ok(Dict(entries), kids.depth)
  BY Zenon DEF Decoded
<1> HIDE DEF entries
<1>2. ASSUME o.t = "bad" PROVE Decoded(o, kids) = Err("malformed")
  BY <1>1, <1>2
<1>3. ASSUME o.t \in {"str", "bool", "other"} PROVE Decoded(o, kids) = Ok(o, kids.depth)
  BY <1>1, <1>3
<1>4. ASSUME o.t \in {"array", "dict"}, kids.err # "" PROVE Decoded(o, kids) = Err(kids.err)
  BY <1>1, <1>4
<1>5. ASSUME o.t = "array", kids.err = "" PROVE Decoded(o, kids) = Ok(Arr(kids.vals), kids.depth)
  BY <1>1, <1>5
<1>6. QED
  BY <1>2, <1>3, <1>4, <1>5, Zenon

\* What a file with a tree for every object that has one says of an object.
LEMMA ObjectOf ==
    ASSUME NEW f, Labelled(f), NEW idx \in Nat, idx < f.num_objects
    PROVE  LET o == f.objects[idx + 1]
           IN  /\ o.t \in {"bad", "str", "bool", "other", "array", "dict"}
               /\ Refs(o) \in Seq(Nat)
               /\ o.t \in {"array", "dict"} => Refs(o) = o.refs
               /\ o.t = "dict" => Len(o.refs) % 2 = 0
               /\ o.t # "bad" /\ (\A i \in 1..Len(Refs(o)) : Refs(o)[i] \in DOMAIN f.trees)
                     => idx \in DOMAIN f.trees
               /\ idx \in DOMAIN f.trees =>
                     /\ f.trees[idx] = TreeOf(o, f.trees)
                     /\ o.t = "dict" => \A k \in 1..(Len(o.refs) \div 2) :
                                            f.trees[o.refs[2 * k - 1]].t = "str"
<1> DEFINE o == f.objects[idx + 1]
<1>1. idx \in 0..(f.num_objects - 1)
  BY DEF Labelled
<1>2. IsObject(o)
  BY <1>1 DEF Labelled
<1>3. /\ o.t \in {"bad", "str", "bool", "other", "array", "dict"}
      /\ Refs(o) \in Seq(Nat)
      /\ o.t \in {"array", "dict"} => Refs(o) = o.refs
      /\ o.t = "dict" => Len(o.refs) % 2 = 0
  <2> HIDE DEF o
  <2>1. <<>> \in Seq(Nat)
    OBVIOUS
  <2>2. QED
    BY <1>2, <2>1, Zenon DEF IsObject, Refs
<1>4. ASSUME o.t # "bad", \A i \in 1..Len(Refs(o)) : Refs(o)[i] \in DOMAIN f.trees
      PROVE  idx \in DOMAIN f.trees
  <2>1. Range(Refs(o)) \subseteq DOMAIN f.trees
    BY <1>3, <1>4 DEF Range
  <2>2. DOMAIN f.trees = Readable(f, DOMAIN f.trees)
    BY DEF Labelled
  <2>3. idx \in Readable(f, DOMAIN f.trees)
    BY <1>1, <1>4, <2>1 DEF Readable
  <2>4. QED
    BY <2>2, <2>3
<1>5. ASSUME idx \in DOMAIN f.trees
      PROVE  /\ f.trees[idx] = TreeOf(o, f.trees)
             /\ o.t = "dict" => \A k \in 1..(Len(o.refs) \div 2) :
                                    f.trees[o.refs[2 * k - 1]].t = "str"
  BY <1>5 DEF Labelled
<1> HIDE DEF o
<1>6. QED
  BY <1>3, <1>4, <1>5 DEF o

\* A result of the reader is within its budget and, if it is one, the tree.
LEMMA BodySound ==
    ASSUME NEW f, Labelled(f), NEW p, NEW d \in Nat, SoundBelow(f, p, d),
           NEW idx \in Nat
    PROVE  Sound(f, Body(f, p, d)[idx], d, idx)
<1> DEFINE o == f.objects[idx + 1]
<1> DEFINE refs == Refs(o)
<1> DEFINE kids == Kids(p, refs, d - 1)
<1> DEFINE r == Body(f, p, d)[idx]
<1>1. \A why : why # "" => Sound(f, Err(why), d, idx)
  <2>1. 0 \in 0..d
    OBVIOUS
  <2> SUFFICES ASSUME NEW why, why # "" PROVE Sound(f, Err(why), d, idx)
    OBVIOUS
  <2>2. Err(why).err = why /\ Err(why).depth = 0
    BY DEF Err
  <2>3. QED
    BY <2>1, <2>2, Zenon DEF Sound
<1>2. CASE d = 0
  <2>1. r = Err("nesting too deep")
    BY <1>2 DEF Body
  <2>2. QED
    BY <1>1, <2>1
<1>3. CASE d # 0 /\ idx >= f.num_objects
  <2>1. r = Err("index out of range")
    BY <1>3 DEF Body
  <2>2. QED
    BY <1>1, <2>1
<1>4. CASE d # 0 /\ ~(idx >= f.num_objects)
  <2>1. r = Decoded(o, kids)
    BY <1>4 DEF Body
  <2>2. f.num_objects \in Nat /\ idx < f.num_objects
    BY <1>4 DEF Labelled
  <2>3. /\ o.t \in {"bad", "str", "bool", "other", "array", "dict"}
        /\ refs \in Seq(Nat)
        /\ o.t \in {"array", "dict"} => refs = o.refs
        /\ o.t = "dict" => Len(o.refs) % 2 = 0
        /\ o.t # "bad" /\ (\A i \in 1..Len(refs) : refs[i] \in DOMAIN f.trees)
              => idx \in DOMAIN f.trees
        /\ idx \in DOMAIN f.trees =>
              /\ f.trees[idx] = TreeOf(o, f.trees)
              /\ o.t = "dict" => \A k \in 1..(Len(o.refs) \div 2) :
                                     f.trees[o.refs[2 * k - 1]].t = "str"
    BY <2>2, ObjectOf, ZenonT(60)
  <2> HIDE DEF o, r
  <2>4. d - 1 \in Nat /\ SoundTo(f, p, d - 1)
    BY <1>4 DEF SoundBelow
  <2>5. Len(refs) \in Nat /\ DOMAIN refs = 1..Len(refs) /\ \A i \in 1..Len(refs) : refs[i] \in Nat
    BY <2>3
  <2> HIDE DEF refs
  <2>6. Gathered(f, refs, kids, d - 1, Len(refs))
    BY <2>4, <2>5, KidsSound
  <2> HIDE DEF kids
  <2>7. kids.depth \in 0..d
    <3>1. kids.depth \in 0..(d - 1)
      BY <2>6, Zenon DEF Gathered
    <3>2. QED
      BY <3>1
  <2>8. ASSUME o.t # "bad", \A i \in 1..Len(refs) : refs[i] \in DOMAIN f.trees,
               Decoded(o, kids) = Ok(TreeOf(o, f.trees), kids.depth)
        PROVE  Sound(f, r, d, idx)
    <3>1. idx \in DOMAIN f.trees /\ f.trees[idx] = TreeOf(o, f.trees)
      BY <2>3, <2>8
    <3>2. r = Ok(f.trees[idx], kids.depth)
      BY <2>1, <2>8, <3>1
    <3>3. r.depth = kids.depth /\ r.val = f.trees[idx]
      BY <3>2 DEF Ok
    <3>4. Sound(f, r, d, idx)
      BY <2>7, <3>1, <3>3, Zenon DEF Sound
    <3>5. QED
      BY <3>4
  <2>9. CASE o.t = "bad"
    <3>1. Decoded(o, kids) = Err("malformed")
      BY <2>9, DecodedIs
    <3>2. QED
      BY <1>1, <2>1, <3>1 DEF r
  <2>10. CASE o.t \in {"str", "bool", "other"}
    <3>1. refs = <<>>
      BY <2>10 DEF Refs, refs
    <3>2. Decoded(o, kids) = Ok(o, kids.depth) /\ TreeOf(o, f.trees) = o
      BY <2>10, DecodedIs DEF TreeOf
    <3>3. QED
      BY <2>8, <2>10, <3>1, <3>2 DEF r
  <2>11. CASE o.t \in {"array", "dict"} /\ kids.err # ""
    <3>1. Decoded(o, kids) = Err(kids.err)
      BY <2>11, DecodedIs
    <3>2. QED
      BY <1>1, <2>1, <2>11, <3>1 DEF r
  <2>12. CASE o.t = "array" /\ kids.err = ""
    <3>1. /\ \A i \in 1..Len(refs) : refs[i] \in DOMAIN f.trees
          /\ kids.vals = [i \in 1..Len(refs) |-> f.trees[refs[i]]]
      BY <2>6, <2>12 DEF Gathered
    <3>2. Decoded(o, kids) = Ok(Arr(kids.vals), kids.depth)
      BY <2>12, DecodedIs
    <3>3. TreeOf(o, f.trees) = Arr([i \in DOMAIN refs |-> f.trees[refs[i]]])
      BY <2>3, <2>12 DEF TreeOf
    <3>4. QED
      BY <2>5, <2>8, <2>12, <3>1, <3>2, <3>3 DEF r
  <2>13. CASE o.t = "dict" /\ kids.err = ""
    <3>1. /\ \A i \in 1..Len(refs) : refs[i] \in DOMAIN f.trees
          /\ kids.vals = [i \in 1..Len(refs) |-> f.trees[refs[i]]]
      BY <2>6, <2>13 DEF Gathered
    <3>2. refs = o.refs /\ Len(refs) % 2 = 0
      BY <2>3, <2>13
    <3>3. Len(kids.vals) = Len(refs) /\ \A k \in 1..Len(refs) : kids.vals[k] = f.trees[refs[k]]
      BY <2>5, <3>1
    <3>4. idx \in DOMAIN f.trees
      BY <2>3, <2>13, <3>1
    <3>5. \A k \in 1..(Len(refs) \div 2) : f.trees[refs[2 * k - 1]].t = "str"
      BY <2>3, <2>13, <3>2, <3>4
    <3>6. \A k \in 1..(Len(refs) \div 2) : kids.vals[2 * k - 1].t = "str"
      <4>1. \A k \in 1..(Len(refs) \div 2) : 2 * k - 1 \in 1..Len(refs)
        BY <2>5, <3>2, Pairs
      <4>2. QED
        BY <3>3, <3>5, <4>1
    <3>7. Decoded(o, kids) = Ok(TreeOf(o, f.trees), kids.depth)
      <4>1. /\ \A k \in 1..Len(o.refs) : kids.vals[k] = f.trees[o.refs[k]]
            /\ \A k \in 1..(Len(o.refs) \div 2) : kids.vals[2 * k - 1].t = "str"
        BY <3>2, <3>3, <3>6, Zenon
      <4>2. Len(o.refs) \in Nat /\ Len(o.refs) % 2 = 0 /\ Len(kids.vals) = Len(o.refs)
        BY <2>5, <3>2, <3>3, Zenon
      <4>3. o.t = "dict" /\ kids.err = ""
        BY <2>13
      <4>4. Filled(o, kids, f.trees)
        BY <4>1, <4>2, <4>3, Zenon DEF Filled
      <4>5. QED
        BY <4>4, DictIs, Zenon
    <3>8. QED
      BY <2>8, <2>13, <3>1, <3>7 DEF r
  <2>14. QED
    BY <2>3, <2>9, <2>10, <2>11, <2>12, <2>13 DEF r
<1>5. QED
  BY <1>2, <1>3, <1>4

\* What a result is depends on p at smaller budgets only.
LEMMA BodySame ==
    ASSUME NEW f, Labelled(f), NEW p, NEW q, NEW d \in Nat, SoundBelow(f, p, d),
           \A c \in 0..(d - 1) : p[c] = q[c]
    PROVE  Body(f, p, d) = Body(f, q, d)
<1>1. ASSUME NEW idx \in Nat, d # 0, idx < f.num_objects
      PROVE  LET o == f.objects[idx + 1]
             IN  Kids(p, Refs(o), d - 1) = Kids(q, Refs(o), d - 1)
  <2> DEFINE refs == Refs(f.objects[idx + 1])
  <2>1. refs \in Seq(Nat)
    BY <1>1, ObjectOf
  <2>2. Len(refs) \in Nat /\ \A i \in 1..Len(refs) : refs[i] \in Nat
    BY <2>1
  <2> HIDE DEF refs
  <2>3. d - 1 \in Nat /\ SoundTo(f, p, d - 1)
    BY <1>1 DEF SoundBelow
  <2>4. Kids(p, refs, d - 1) = Kids(q, refs, d - 1)
    BY <2>2, <2>3, KidsSame
  <2>5. QED
    BY <2>4 DEF refs
<1>2. f.num_objects \in Nat
  BY DEF Labelled
<1>3. ASSUME NEW idx \in Nat PROVE Body(f, p, d)[idx] = Body(f, q, d)[idx]
  <2>1. CASE d = 0 \/ idx >= f.num_objects
    BY <2>1 DEF Body
  <2>2. CASE d # 0 /\ ~(idx >= f.num_objects)
    <3> DEFINE o == f.objects[idx + 1]
    <3>1. idx < f.num_objects
      BY <1>2, <2>2
    <3>2. Kids(p, Refs(o), d - 1) = Kids(q, Refs(o), d - 1)
      BY <1>1, <2>2, <3>1
    <3>3. /\ Body(f, p, d)[idx] = Decoded(o, Kids(p, Refs(o), d - 1))
          /\ Body(f, q, d)[idx] = Decoded(o, Kids(q, Refs(o), d - 1))
      BY <2>2 DEF Body
    <3>4. QED
      BY <3>2, <3>3, Zenon
  <2>3. QED
    BY <2>1, <2>2
<1>4. QED
  BY <1>3, Zenon DEF Body

\* Every result within its budget, at every budget.
LEMMA ParseSound ==
    ASSUME NEW f, Labelled(f), NEW n \in Nat, NEW p, IsParse(f, p, n)
    PROVE  SoundTo(f, p, n)
<1> DEFINE S == {d \in Nat : d <= n => SoundTo(f, p, d)}
<1>1. ASSUME NEW d \in Nat, d <= n, SoundBelow(f, p, d), NEW idx \in Nat
      PROVE  Sound(f, p[d][idx], d, idx)
  <2>1. p[d] = Body(f, p, d)
    BY <1>1 DEF IsParse
  <2>2. Sound(f, Body(f, p, d)[idx], d, idx)
    BY <1>1, BodySound
  <2>3. QED
    BY <2>1, <2>2, Zenon
<1>2. 0 \in S
  <2>1. SoundBelow(f, p, 0) /\ 0 <= n
    BY DEF SoundBelow
  <2>2. \A idx \in Nat : Sound(f, p[0][idx], 0, idx)
    BY <1>1, <2>1
  <2>3. QED
    BY <2>2 DEF SoundTo
<1>3. ASSUME NEW d \in Nat, d \in S PROVE d + 1 \in S
  <2>1. ASSUME d + 1 <= n PROVE SoundTo(f, p, d + 1)
    <3>1. SoundTo(f, p, d)
      BY <1>3, <2>1
    <3>2. (d + 1) - 1 = d
      OBVIOUS
    <3>3. SoundBelow(f, p, d + 1)
      BY <3>1, <3>2, Zenon DEF SoundBelow
    <3>4. \A idx \in Nat : Sound(f, p[d + 1][idx], d + 1, idx)
      BY <1>1, <2>1, <3>3
    <3>5. \A c \in 0..(d + 1) : c \in 0..d \/ c = d + 1
      OBVIOUS
    <3>6. QED
      BY <3>1, <3>4, <3>5, Zenon DEF SoundTo
  <2>2. QED
    BY <2>1
<1> HIDE DEF S
<1>4. Nat \subseteq S
  BY <1>2, <1>3, Induction
<1>5. QED
  BY <1>4 DEF S

\* The recursion of parse_object defines a function.
LEMMA ParseExists ==
    ASSUME NEW f, Labelled(f)
    PROVE  \A n \in Nat : \E p : IsParse(f, p, n)
<1> DEFINE S == {n \in Nat : \E p : IsParse(f, p, n)}
<1>1. ASSUME NEW n \in Nat, NEW p, NEW q, IsParse(f, p, n),
             q = [d \in 0..(n + 1) |-> IF d = n + 1 THEN Body(f, p, n + 1) ELSE p[d]]
      PROVE  IsParse(f, q, n + 1)
  <2>1. SoundTo(f, p, n)
    BY <1>1, ParseSound
  <2>2. ASSUME NEW d \in 0..(n + 1) PROVE Body(f, p, d) = Body(f, q, d)
    <3>1. SoundBelow(f, p, d)
      <4>1. SUFFICES ASSUME d # 0 PROVE SoundTo(f, p, d - 1)
        BY DEF SoundBelow
      <4>2. 0..(d - 1) \subseteq 0..n
        BY <4>1
      <4>3. QED
        BY <2>1, <4>2 DEF SoundTo
    <3>2. d \in Nat /\ \A c \in 0..(d - 1) : p[c] = q[c]
      BY <1>1
    <3>3. QED
      BY <3>1, <3>2, BodySame
  <2>3. ASSUME NEW d \in 0..(n + 1) PROVE q[d] = Body(f, q, d)
    <3>1. q[d] = Body(f, p, d)
      <4>1. CASE d = n + 1
        BY <1>1, <4>1
      <4>2. CASE d \in 0..n
        <5>1. q[d] = p[d]
          BY <1>1, <4>2
        <5>2. p[d] = Body(f, p, d)
          BY <1>1, <4>2 DEF IsParse
        <5>3. QED
          BY <5>1, <5>2
      <4>3. QED
        BY <4>1, <4>2
    <3>2. QED
      BY <2>2, <3>1
  <2>4. q = [d \in 0..(n + 1) |-> q[d]]
    BY <1>1
  <2>5. QED
    BY <2>3, <2>4, Zenon DEF IsParse
<1>2. 0 \in S
  <2> DEFINE p == [d \in 0..0 |-> Body(f, <<>>, 0)]
  <2>1. \A q : Body(f, q, 0) = Body(f, <<>>, 0)
    BY DEF Body
  <2>2. IsParse(f, p, 0)
    <3>1. Body(f, p, 0) = Body(f, <<>>, 0)
      BY <2>1
    <3>2. p = [d \in 0..0 |-> Body(f, p, d)]
      BY <3>1
    <3>3. QED
      BY <3>2, Zenon DEF IsParse
  <2>3. QED
    BY <2>2
<1>3. ASSUME NEW n \in Nat, n \in S PROVE n + 1 \in S
  <2>1. PICK p : IsParse(f, p, n)
    BY <1>3
  <2>2. IsParse(f, [d \in 0..(n + 1) |-> IF d = n + 1 THEN Body(f, p, n + 1) ELSE p[d]], n + 1)
    BY <1>1, <2>1, Zenon
  <2>3. QED
    BY <2>2
<1> HIDE DEF S
<1>4. Nat \subseteq S
  BY <1>2, <1>3, Induction
<1>5. QED
  BY <1>4 DEF S

\* An object that the reader decodes has a tree, and that is what it returns.
LEMMA ObjectIs ==
    ASSUME NEW f, Labelled(f), NEW root \in Nat, NEW n \in Nat
    PROVE  parse_object(f, root, n).err = "" =>
              root \in DOMAIN f.trees /\ parse_object(f, root, n).val = f.trees[root]
<1> DEFINE p == CHOOSE q : IsParse(f, q, n)
<1>1. IsParse(f, p, n)
  BY ParseExists
<1>2. parse_object(f, root, n) = p[n][root]
  BY Zenon DEF parse_object, IsParse, Body
<1> HIDE DEF p
<1>3. SoundTo(f, p, n)
  BY <1>1, ParseSound
<1>4. Sound(f, p[n][root], n, root)
  <2>1. n \in 0..n
    OBVIOUS
  <2>2. QED
    BY <1>3, <2>1, Zenon DEF SoundTo
<1>5. QED
  BY <1>2, <1>4, Zenon DEF Sound

\* A binary file that is read is read as the document it stores.
LEMMA BinaryIs ==
    ASSUME NEW f, NEW doc, Stores(f, doc), f.form # "xml", parse_bplist(f).err = ""
    PROVE  parse_bplist(f).val = doc
<1>1. /\ Labelled(f) /\ f.top_object \in Nat
      /\ f.top_object \in DOMAIN f.trees => f.trees[f.top_object] = doc
  BY DEF Stores
<1>2. Err("malformed").err # ""
  BY DEF Err
<1>3. parse_bplist(f) = parse_object(f, f.top_object, Budget)
  BY <1>2, Zenon DEF parse_bplist
<1>4. Budget \in Nat
  BY BudgetAssumption
<1>5. /\ f.top_object \in DOMAIN f.trees
      /\ parse_bplist(f).val = f.trees[f.top_object]
  <2>1. parse_object(f, f.top_object, Budget).err = ""
    BY <1>3, Zenon
  <2>2. QED
    BY <1>1, <1>3, <1>4, <2>1, ObjectIs, Zenon, ZenonT(60)
<1>6. QED
  BY <1>1, <1>5, Zenon

-----------------------------------------------------------------------------
(* The walk of parse_thin over the load commands. *)

WalkStart == [off |-> 0, bad |-> FALSE, lines |-> {}]
IsWalk(f, img, n) ==
    f = [i \in 0..n |-> IF i = 0 THEN WalkStart ELSE ParseCommand(img, f[i - 1])]

\* The recursion of parse_thin defines a function.
LEMMA WalkExists == ASSUME NEW img PROVE \A n \in Nat : \E f : IsWalk(f, img, n)
<1> DEFINE S == {n \in Nat : \E f : IsWalk(f, img, n)}
<1>1. 0 \in S
  <2>1. IsWalk([i \in 0..0 |-> WalkStart], img, 0)
    BY DEF IsWalk
  <2>2. QED
    BY <2>1
<1>2. ASSUME NEW n \in Nat, n \in S PROVE n + 1 \in S
  <2>1. PICK f : IsWalk(f, img, n)
    BY <1>2
  <2> DEFINE g == [i \in 0..(n + 1) |-> IF i = n + 1 THEN ParseCommand(img, f[n]) ELSE f[i]]
  <2>2. IsWalk(g, img, n + 1)
    <3>1. ASSUME NEW i \in 0..(n + 1)
          PROVE  g[i] = IF i = 0 THEN WalkStart ELSE ParseCommand(img, g[i - 1])
      BY <2>1 DEF IsWalk
    <3>2. QED
      BY <3>1 DEF IsWalk
  <2>3. QED
    BY <2>2
<1> HIDE DEF S
<1>3. Nat \subseteq S
  BY <1>1, <1>2, Induction
<1>4. QED
  BY <1>3 DEF S

\* An image whose header counts its commands.
CountedImage(img) ==
    /\ img.ncmds \in Nat /\ DOMAIN img.cmds \subseteq Nat
    /\ IsFiniteSet(DOMAIN img.cmds) /\ Cardinality(DOMAIN img.cmds) <= img.ncmds
    /\ \A off \in DOMAIN img.cmds : img.cmds[off].cmdsize \in Nat

\* A turn that is not refused found a command, lists it if it is one to list,
\* and moves on.
LEMMA Turn ==
    ASSUME NEW img, CountedImage(img), NEW st, st.off \in Nat,
           st = [off |-> st.off, bad |-> FALSE, lines |-> st.lines], ~ParseCommand(img, st).bad
    PROVE  LET c == img.cmds[st.off]
           IN  /\ st.off \in DOMAIN img.cmds
               /\ ParseCommand(img, st) = [off |-> st.off + c.cmdsize, bad |-> FALSE,
                                           lines |-> st.lines \cup LinesOf(c, st.off)]
               /\ c.cmdsize \in Nat /\ c.cmdsize >= 8
<1> DEFINE c == CommandAt(img, st.off)
<1> DEFINE refused == \/ st.bad
                      \/ st.off + 8 > img.sizeofcmds
                      \/ c.cmdsize < 8
                      \/ st.off + c.cmdsize > img.sizeofcmds
                      \/ c.cmd \in PrintedKinds /\ ~read_lc_str_ok(c)
<1>1. ParseCommand(img, st) =
         IF refused THEN [st EXCEPT !.bad = TRUE]
         ELSE [off |-> st.off + c.cmdsize, bad |-> FALSE, lines |-> st.lines \cup LinesOf(c, st.off)]
  BY DEF ParseCommand
<1>2. ~refused
  <2> HIDE DEF refused
  <2>1. CASE refused
    BY <1>1, <2>1
  <2>2. QED
    BY <2>1
<1>3. ~(c.cmdsize < 8)
  BY <1>2
<1>4. st.off \in DOMAIN img.cmds
  BY <1>3 DEF CommandAt, Zeroes
<1>5. c = img.cmds[st.off]
  BY <1>4 DEF CommandAt
<1> HIDE DEF refused, c
<1>6. ParseCommand(img, st) = [off |-> st.off + c.cmdsize, bad |-> FALSE,
                               lines |-> st.lines \cup LinesOf(c, st.off)]
  BY <1>1, <1>2
<1>7. c.cmdsize \in Nat
  BY <1>4, <1>5 DEF CountedImage
<1>8. QED
  BY <1>3, <1>4, <1>5, <1>6, <1>7

\* After i turns, none refused: the offsets seen are different commands, the
\* list is what they add to it.
Seen(f, i) == {f[j].off : j \in 0..(i - 1)}
Listed(img, offs) == UNION {LinesOf(img.cmds[o], o) : o \in offs}
Walked(img, f, i) ==
    \/ f[i].bad
    \/ /\ f[i] = [off |-> f[i].off, bad |-> FALSE, lines |-> f[i].lines]
       /\ f[i].lines = Listed(img, Seen(f, i))
       /\ f[i].off \in Nat
       /\ Seen(f, i) \subseteq DOMAIN img.cmds
       /\ \A j \in 0..(i - 1) : f[j].off \in Nat /\ f[j].off < f[i].off
       /\ \A j, k \in 0..(i - 1) : j < k => f[j].off < f[k].off

\* What Walked says holds after every turn of parse_thin.
LEMMA WalkInvariant ==
    ASSUME NEW img, CountedImage(img), NEW n \in Nat, NEW f, IsWalk(f, img, n)
    PROVE  Walked(img, f, n)
<1> DEFINE S == {i \in Nat : i <= n => Walked(img, f, i)}
<1>1. 0 \in S
  <2>1. f[0] = WalkStart
    BY DEF IsWalk
  <2>2. Seen(f, 0) = {} /\ Listed(img, {}) = {} /\ 0..(0 - 1) = {}
    BY DEF Seen, Listed
  <2>3. /\ f[0].off = 0 /\ f[0].lines = Listed(img, Seen(f, 0))
        /\ f[0] = [off |-> f[0].off, bad |-> FALSE, lines |-> f[0].lines]
    <3>1. f[0].off = 0 /\ f[0].lines = {}
      BY <2>1 DEF WalkStart
    <3>2. QED
      BY <2>1, <2>2, <3>1, Zenon DEF WalkStart
  <2>4. Walked(img, f, 0)
    BY <2>2, <2>3 DEF Walked
  <2>5. QED
    BY <2>4
<1>2. ASSUME NEW i \in Nat, i \in S PROVE i + 1 \in S
  <2> SUFFICES ASSUME i + 1 <= n, ~f[i + 1].bad PROVE Walked(img, f, i + 1)
    BY DEF Walked
  <2>1. f[i + 1] = ParseCommand(img, f[i])
    BY DEF IsWalk
  <2>2. ~f[i].bad
    <3>1. CASE f[i].bad
      <4>1. ParseCommand(img, f[i]) = [f[i] EXCEPT !.bad = TRUE]
        BY <3>1 DEF ParseCommand
      <4>2. QED
        BY <2>1, <4>1
    <3>2. QED
      BY <3>1
  <2> DEFINE off == f[i].off
  <2>3. /\ f[i] = [off |-> off, bad |-> FALSE, lines |-> f[i].lines]
        /\ f[i].lines = Listed(img, Seen(f, i))
        /\ off \in Nat
        /\ Seen(f, i) \subseteq DOMAIN img.cmds
        /\ \A j \in 0..(i - 1) : f[j].off \in Nat /\ f[j].off < off
        /\ \A j, k \in 0..(i - 1) : j < k => f[j].off < f[k].off
    BY <1>2, <2>2 DEF Walked
  <2>4. /\ off \in DOMAIN img.cmds
        /\ f[i + 1] = [off |-> off + img.cmds[off].cmdsize, bad |-> FALSE,
                       lines |-> f[i].lines \cup LinesOf(img.cmds[off], off)]
        /\ img.cmds[off].cmdsize \in Nat /\ img.cmds[off].cmdsize >= 8
    <3>1. ~ParseCommand(img, f[i]).bad
      BY <2>1, Zenon
    <3>2. QED
      BY <2>1, <2>3, <3>1, Turn, Zenon
  <2> HIDE DEF off
  <2>5. Seen(f, i + 1) = Seen(f, i) \cup {off}
    BY DEF Seen, off
  <2>6. Listed(img, Seen(f, i + 1)) = f[i].lines \cup LinesOf(img.cmds[off], off)
    BY <2>3, <2>5 DEF Listed
  <2>7. \A j \in 0..((i + 1) - 1) : j \in 0..(i - 1) \/ j = i
    OBVIOUS
  <2>8. f[i + 1].off \in Nat /\ off < f[i + 1].off
    BY <2>3, <2>4
  <2>9. \A j \in 0..((i + 1) - 1) : f[j].off \in Nat /\ f[j].off < f[i + 1].off
    BY <2>3, <2>7, <2>8 DEF off
  <2>10. \A j, k \in 0..((i + 1) - 1) : j < k => f[j].off < f[k].off
    BY <2>3, <2>7 DEF off
  <2>11. /\ f[i + 1] = [off |-> f[i + 1].off, bad |-> FALSE, lines |-> f[i + 1].lines]
         /\ f[i + 1].lines = Listed(img, Seen(f, i + 1))
    <3>1. /\ f[i + 1].off = off + img.cmds[off].cmdsize
          /\ f[i + 1].lines = f[i].lines \cup LinesOf(img.cmds[off], off)
      BY <2>4
    <3>2. QED
      BY <2>4, <2>6, <3>1, Zenon
  <2>12. QED
    BY <2>3, <2>4, <2>5, <2>8, <2>9, <2>10, <2>11 DEF Walked
<1> HIDE DEF S
<1>3. Nat \subseteq S
  BY <1>1, <1>2, Induction
<1>4. QED
  BY <1>3 DEF S

\* An image that parses has every command it contains in the list.
LEMMA ThinIs ==
    ASSUME NEW img, CountedImage(img), parse_thin(img) # None
    PROVE  Value(parse_thin(img)) = Listed(img, DOMAIN img.cmds)
<1> DEFINE n == img.ncmds
<1> DEFINE D == DOMAIN img.cmds
<1> DEFINE f == CHOOSE g : IsWalk(g, img, n)
<1>0. n \in Nat /\ IsFiniteSet(D) /\ Cardinality(D) <= n /\ D \subseteq Nat
  BY DEF CountedImage
<1>1. IsWalk(f, img, n)
  BY <1>0, WalkExists
<1>2. parse_thin(img) = IF ~img.magic \/ img.sizeofcmds > img.room \/ f[n].bad THEN None
                        ELSE Some(f[n].lines)
  BY DEF parse_thin, IsWalk, WalkStart
<1> HIDE DEF f
<1>3. ~f[n].bad /\ parse_thin(img) = Some(f[n].lines)
  <2>1. CASE ~img.magic \/ img.sizeofcmds > img.room \/ f[n].bad
    BY <1>2, <2>1
  <2>2. CASE ~(~img.magic \/ img.sizeofcmds > img.room \/ f[n].bad)
    BY <1>2, <2>2
  <2>3. QED
    BY <2>1, <2>2
<1>4. /\ f[n].lines = Listed(img, Seen(f, n))
      /\ Seen(f, n) \subseteq D
      /\ \A j \in 0..(n - 1) : f[j].off \in Nat
      /\ \A j, k \in 0..(n - 1) : j < k => f[j].off < f[k].off
  BY <1>0, <1>1, <1>3, WalkInvariant, ZenonT(60) DEF Walked
<1>5. Seen(f, n) = D
  <2> DEFINE g == [j \in 0..(n - 1) |-> f[j].off]
  <2>1. g \in Injection(0..(n - 1), D)
    <3>1. g \in [0..(n - 1) -> D]
      BY <1>4 DEF Seen
    <3>2. ASSUME NEW j \in 0..(n - 1), NEW k \in 0..(n - 1), g[j] = g[k] PROVE j = k
      <4>1. j < k \/ k < j \/ j = k
        BY <1>0
      <4>2. g[j] = f[j].off /\ g[k] = f[k].off /\ f[j].off \in Nat /\ f[k].off \in Nat
        BY <1>4
      <4>3. QED
        BY <1>4, <3>2, <4>1, <4>2
    <3>3. QED
      BY <3>1, <3>2 DEF Injection, IsInjective
  <2>2. Cardinality(0..(n - 1)) = n /\ Cardinality(D) \in Nat
    <3>1. 0 \in Int /\ n - 1 \in Int
      BY <1>0
    <3>2. Cardinality(0..(n - 1)) = IF 0 > n - 1 THEN 0 ELSE (n - 1) - 0 + 1
      BY <3>1, FS_Interval
    <3>3. QED
      BY <1>0, <3>2, FS_CardinalityType
  <2>3. Cardinality(0..(n - 1)) <= Cardinality(D)
    BY <1>0, <2>1, FS_Injection
  <2>4. g \in Surjection(0..(n - 1), D)
    <3>1. Cardinality(0..(n - 1)) = Cardinality(D)
      BY <1>0, <2>2, <2>3
    <3>2. QED
      BY <1>0, <2>1, <3>1, FS_Injection
  <2>5. \A o \in D : \E j \in 0..(n - 1) : g[j] = o
    BY <2>4 DEF Surjection
  <2>6. D \subseteq Seen(f, n)
    BY <2>5 DEF Seen
  <2>7. QED
    BY <1>4, <2>6
<1>6. QED
  BY <1>3, <1>4, <1>5, ValueOf, Zenon

-----------------------------------------------------------------------------
(* The report and its resolution. *)

\* A file that parses has one list for every image, in the order of the slices.
LEMMA SlicesAre ==
    ASSUME NEW file, Counted(file), parse(file) # None
    PROVE  LET slices == Value(parse(file))
           IN  /\ DOMAIN slices \subseteq Nat
               /\ \A i \in DOMAIN slices : \E img \in Images(file) :
                      slices[i] = Listed(img, DOMAIN img.cmds)
               /\ \A img \in Images(file) : \E i \in DOMAIN slices :
                      slices[i] = Listed(img, DOMAIN img.cmds)
<1>1. \A img \in Images(file) : CountedImage(img)
  BY DEF Counted, CountedImage
<1>2. CASE file.magic = "fat"
  <2> DEFINE lists == [i \in 1..file.nfat |-> Value(parse_thin(file.arches[i].image))]
  <2>1. parse(file) = parse_fat(file)
    BY <1>2 DEF parse
  <2>2. /\ \A i \in 1..file.nfat : parse_thin(file.arches[i].image) # None
        /\ parse(file) = Some(lists)
        /\ ~(file.nfat > Len(file.arches))
    <3> DEFINE refused == \/ file.nfat > Len(file.arches)
                          \/ \E i \in 1..file.nfat : \/ ~file.arches[i].fits
                                                     \/ parse_thin(file.arches[i].image) = None
    <3>1. parse_fat(file) = IF refused THEN None ELSE Some(lists)
      BY Zenon DEF parse_fat
    <3>2. ~refused
      BY <2>1, <3>1
    <3>3. QED
      BY <2>1, <3>1, <3>2
  <2>3. Value(parse(file)) = lists
    BY <2>2, ValueOf
  <2>4. DOMAIN file.arches = 1..file.nfat /\ file.nfat \in Nat
    BY <1>2, <2>2 DEF Counted
  <2>5. Images(file) = {file.arches[i].image : i \in DOMAIN file.arches}
    BY <1>2 DEF Images
  <2>6. \A i \in 1..file.nfat :
            lists[i] = Listed(file.arches[i].image, DOMAIN file.arches[i].image.cmds)
    <3> SUFFICES ASSUME NEW i \in 1..file.nfat
                 PROVE  lists[i] = Listed(file.arches[i].image, DOMAIN file.arches[i].image.cmds)
      OBVIOUS
    <3>1. CountedImage(file.arches[i].image)
      BY <1>1, <2>4, <2>5
    <3>2. QED
      BY <2>2, <3>1, ThinIs
  <2>7. DOMAIN lists = 1..file.nfat
    OBVIOUS
  <2> HIDE DEF lists
  <2>8. QED
    BY <2>3, <2>4, <2>5, <2>6, <2>7
<1>3. CASE file.magic # "fat"
  <2>1. Images(file) = {file.image}
    BY <1>3 DEF Images
  <2>2. parse_thin(file.image) # None /\ parse(file) = Some(<<Value(parse_thin(file.image))>>)
    BY <1>3 DEF parse
  <2>3. Value(parse(file)) = <<Value(parse_thin(file.image))>>
    BY <2>2, ValueOf
  <2>4. Value(parse(file)) = <<Listed(file.image, DOMAIN file.image.cmds)>>
    BY <1>1, <2>1, <2>2, <2>3, ThinIs
  <2>5. QED
    BY <2>1, <2>4
<1>4. QED
  BY <1>2, <1>3

\* Some line of a report is the first.
LEMMA FirstLine ==
    ASSUME NEW deps, deps # {},
           \A l \in deps : l.slice \in Nat /\ l.at \in Nat /\ l.kind # "RPATH"
    PROVE  \E l \in deps : ~\E m \in deps : Precedes(m, l)
<1> DEFINE slices == {l.slice : l \in deps}
<1>1. PICK i \in slices : \A j \in slices : i <= j
  <2>1. slices \in SUBSET Nat /\ slices # {}
    OBVIOUS
  <2>2. QED
    BY <2>1, LeastNat
<1> DEFINE places == {l.at : l \in {k \in deps : k.slice = i}}
<1>2. PICK a \in places : \A b \in places : a <= b
  <2>1. places \in SUBSET Nat /\ places # {}
    BY <1>1
  <2>2. QED
    BY <2>1, LeastNat
<1>3. PICK l \in deps : l.slice = i /\ l.at = a
  BY <1>2
<1>4. ASSUME NEW m \in deps, Precedes(m, l) PROVE FALSE
  <2>1. i <= m.slice /\ m.slice \in Nat /\ i \in Nat
    BY <1>1
  <2>2. m.slice = i /\ m.at < a
    BY <1>3, <1>4, <2>1 DEF Precedes
  <2>3. a <= m.at /\ a \in Nat /\ m.at \in Nat
    BY <1>2, <2>2
  <2>4. QED
    BY <2>2, <2>3
<1>5. QED
  BY <1>3, <1>4

\* A launch is called viable only if every library some slice cannot do without
\* is embedded, or is also named as weak.
LEMMA ViableIs ==
    ASSUME NEW file, Counted(file), NEW index, NEW machotool,
           print_dep_resolution(file, index, machotool) = "viable",
           NEW path \in Named(file, HardKinds)
    PROVE  path.base \in index \/ path \in Named(file, {"WEAK"})
<1> DEFINE slices == Value(parse(file))
<1> DEFINE report == print_deps(slices)
<1>1. parse(file) # None /\ \A r \in resolve_from_deps_output(report, index) : r.status # "hard"
  <2> DEFINE deps == resolve_deps(file, index, machotool)
  <2>1. deps # None /\ \A r \in Value(deps) : r.status # "hard"
    BY DEF print_dep_resolution
  <2>2. ~(~machotool \/ parse(file) = None)
    BY <2>1 DEF resolve_deps
  <2>3. deps = Some(resolve_from_deps_output(report, index))
    BY <2>2 DEF resolve_deps
  <2> HIDE DEF deps, report
  <2>4. QED
    BY <2>1, <2>2, <2>3, ValueOf
<1>2. /\ DOMAIN slices \subseteq Nat
      /\ \A i \in DOMAIN slices : \E img \in Images(file) : slices[i] = Listed(img, DOMAIN img.cmds)
      /\ \A img \in Images(file) : \E i \in DOMAIN slices : slices[i] = Listed(img, DOMAIN img.cmds)
  BY <1>1, SlicesAre
<1> HIDE DEF slices
<1>3. ASSUME NEW l \in report
      PROVE  \E i \in DOMAIN slices : \E img \in Images(file) : \E off \in DOMAIN img.cmds :
                /\ img.cmds[off].cmd \in PrintedKinds
                /\ l = [slice |-> i, at |-> off, kind |-> img.cmds[off].cmd, path |-> img.cmds[off].path]
  <2>1. PICK i \in DOMAIN slices : \E k \in slices[i] :
            l = [slice |-> i, at |-> k.at, kind |-> k.kind, path |-> k.path]
    BY DEF print_deps
  <2>2. PICK img \in Images(file) : slices[i] = Listed(img, DOMAIN img.cmds)
    BY <1>2
  <2>3. PICK k \in Listed(img, DOMAIN img.cmds) :
            l = [slice |-> i, at |-> k.at, kind |-> k.kind, path |-> k.path]
    BY <2>1, <2>2
  <2>4. PICK off \in DOMAIN img.cmds : k \in LinesOf(img.cmds[off], off)
    BY DEF Listed
  <2>5. /\ img.cmds[off].cmd \in PrintedKinds
        /\ k = [at |-> off, kind |-> img.cmds[off].cmd, path |-> img.cmds[off].path]
    BY <2>4 DEF LinesOf
  <2>6. QED
    BY <2>3, <2>5
<1>4. ASSUME NEW img \in Images(file), NEW off \in DOMAIN img.cmds, img.cmds[off].cmd \in PrintedKinds
      PROVE  \E l \in report : l.kind = img.cmds[off].cmd /\ l.path = img.cmds[off].path
  <2>1. PICK i \in DOMAIN slices : slices[i] = Listed(img, DOMAIN img.cmds)
    BY <1>2
  <2> DEFINE k == [at |-> off, kind |-> img.cmds[off].cmd, path |-> img.cmds[off].path]
  <2>2. k \in slices[i]
    BY <1>4, <2>1 DEF Listed, LinesOf
  <2> DEFINE l == [slice |-> i, at |-> k.at, kind |-> k.kind, path |-> k.path]
  <2>3. l \in report
    BY <2>2 DEF print_deps
  <2>4. QED
    BY <2>3
<1> HIDE DEF report
<1> DEFINE lines == {l \in report : l.kind \in DepKinds /\ l.path # EmptyPath /\ l.path = path}
<1>5. lines # {}
  <2>1. PICK img \in Images(file) : \E off \in DOMAIN img.cmds :
            img.cmds[off].cmd \in HardKinds /\ img.cmds[off].path = path
    BY DEF Named
  <2>2. PICK off \in DOMAIN img.cmds : img.cmds[off].cmd \in HardKinds /\ img.cmds[off].path = path
    BY <2>1
  <2>3. path # EmptyPath /\ img.cmds[off].cmd \in PrintedKinds \cap DepKinds
    BY <2>2 DEF Named, HardKinds, PrintedKinds, DepKinds
  <2>4. PICK l \in report : l.kind = img.cmds[off].cmd /\ l.path = img.cmds[off].path
    BY <1>4, <2>3
  <2>5. QED
    BY <2>2, <2>3, <2>4
<1>6. \A l \in lines : l.slice \in Nat /\ l.at \in Nat /\ l.kind # "RPATH"
  <2> SUFFICES ASSUME NEW l \in lines PROVE l.slice \in Nat /\ l.at \in Nat /\ l.kind # "RPATH"
    OBVIOUS
  <2>1. PICK i \in DOMAIN slices, img \in Images(file) : \E off \in DOMAIN img.cmds :
            l = [slice |-> i, at |-> off, kind |-> img.cmds[off].cmd, path |-> img.cmds[off].path]
    BY <1>3
  <2>2. DOMAIN img.cmds \subseteq Nat
    BY DEF Counted
  <2>3. QED
    BY <1>2, <2>1, <2>2 DEF DepKinds
<1>7. PICK l \in lines : ~\E m \in lines : Precedes(m, l)
  BY <1>5, <1>6, FirstLine
<1>8. \E r \in resolve_from_deps_output(report, index) :
         r.status = IF resolve_one(l.path, index) THEN "embedded"
                    ELSE IF l.kind \in HardKinds THEN "hard" ELSE "weak"
  <2> DEFINE deps == {k \in report : k.kind \in DepKinds /\ k.path # EmptyPath}
  <2> DEFINE first(k) == ~\E m \in deps : m.path = k.path /\ Precedes(m, k)
  <2> DEFINE of(k) == [install_name |-> k.path,
                       status |-> IF resolve_one(k.path, index) THEN "embedded"
                                  ELSE IF k.kind \in HardKinds THEN "hard" ELSE "weak"]
  <2>1. l \in deps /\ first(l)
    BY <1>7
  <2>2. resolve_from_deps_output(report, index) = {of(k) : k \in {j \in deps : first(j)}}
    BY Zenon DEF resolve_from_deps_output
  <2>3. of(l) \in resolve_from_deps_output(report, index)
    <3> HIDE DEF of, deps, first
    <3>1. QED
      BY <2>1, <2>2
  <2>4. QED
    BY <2>3
<1>9. path.base \in index \/ l.kind \notin HardKinds
  BY <1>1, <1>8 DEF resolve_one
<1>10. CASE l.kind \notin HardKinds
  <2>1. l.kind = "WEAK" /\ path # EmptyPath
    BY <1>10 DEF HardKinds, DepKinds
  <2>2. PICK img \in Images(file) : \E off \in DOMAIN img.cmds :
            img.cmds[off].cmd = l.kind /\ img.cmds[off].path = l.path
    BY <1>3
  <2>3. QED
    BY <2>1, <2>2 DEF Named
<1>11. QED
  BY <1>9, <1>10

=============================================================================
