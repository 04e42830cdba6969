--------------------------- MODULE PropertyFiles ---------------------------
(***************************************************************************)
(* Property lists from the side of those who write them: when a file of    *)
(* either format stores a document.  The writers are external, and a file  *)
(* carries the key to its layout beside the bytes the readers of           *)
(* PropertyList look at: of XML, the line on which each entry of the root  *)
(* starts (at); of a binary file, the trees its objects stand for (trees). *)
(***************************************************************************)
EXTENDS PropertyList

CONSTANT
    Escapes     \* a string with an XML entity -> its text in the file

\* Entities stand for characters that the name of an architecture has not.
ASSUME EscapesAssumption == \A s \in DOMAIN Escapes : s # "arm64" /\ Escapes[s] # "arm64"

XmlText(s) == IF s \in DOMAIN Escapes THEN Escapes[s] ELSE s

-----------------------------------------------------------------------------
\* XML

ValueTag(v) ==
    CASE v.t = "str" -> "string"
      [] v.t = "bool" -> IF v.b THEN "true" ELSE "false"
      [] v.t = "array" -> "array"
      [] v.t = "dict" -> IF v.entries = <<>> THEN "dict/" ELSE "dict"
      [] OTHER -> "other"

IsSeq(s) == s \in Seq(Range(s))
IsLeaf(v) == v.t \notin {"array", "dict"}
LeafAt(lines, i, v) ==
    /\ i \in DOMAIN lines /\ lines[i].key = {} /\ lines[i].tag = ValueTag(v)
    /\ v.t = "str" => lines[i].text = XmlText(v.s)
    /\ v.t = "bool" => v.b \in BOOLEAN

\* An array of strings on one line.
Row(line, v) ==
    /\ v.t = "array" /\ line.tag = "array" /\ line.closes
    /\ \A i \in DOMAIN v.items : v.items[i].t = "str"
    /\ line.items = [i \in DOMAIN v.items |-> XmlText(v.items[i].s)]

\* An array with one element a line; of one with containers in it nothing more
\* is said.
Block(lines, i, v) ==
    /\ v.t = "array" /\ lines[i].tag = "array" /\ ~lines[i].closes /\ lines[i].items = <<>>
    /\ IsSeq(v.items)
    /\ (\A j \in DOMAIN v.items : IsLeaf(v.items[j])) =>
          /\ i + Len(v.items) + 1 \in DOMAIN lines
          /\ lines[i + Len(v.items) + 1].tag = "/array"
          /\ \A j \in DOMAIN v.items : LeafAt(lines, i + j, v.items[j])

ValueAt(lines, i, v) ==
    /\ i \in DOMAIN lines /\ lines[i].key = {} /\ lines[i].tag = ValueTag(v)
    /\ IsLeaf(v) => LeafAt(lines, i, v)
    /\ v.t = "array" => Row(lines[i], v) \/ Block(lines, i, v)

\* The value follows on the next line, or is an array on the line of the key.
EntryAt(lines, i, key, v) ==
    /\ lines[i].key = {key}
    /\ \/ lines[i].tag = "" /\ ValueAt(lines, i + 1, v)
       \/ Row(lines[i], v)

\* The lines lay the entries of a dictionary out.
Spelled(lines, doc, at) ==
    /\ IsSeq(lines) /\ doc.t = "dict" /\ IsSeq(doc.entries)
    /\ at \in [DOMAIN doc.entries -> DOMAIN lines]
    /\ \A i \in DOMAIN doc.entries :
          EntryAt(lines, at[i], doc.entries[i][1], doc.entries[i][2])

\* The keys that are spelled elsewhere, which is below the root, and those
\* that the root has more than once.
KeysBelow(lines, at) == UNION {lines[i].key : i \in DOMAIN lines \ Range(at)}
Repeated(doc) ==
    {doc.entries[i][1] : i \in {j \in DOMAIN doc.entries :
        \E k \in DOMAIN doc.entries : k # j /\ doc.entries[k][1] = doc.entries[j][1]}}
Once(lines, doc, at, keys) == keys \cap (KeysBelow(lines, at) \cup Repeated(doc)) = {}

-----------------------------------------------------------------------------
\* Binary

\* The tree of an object, given those of the objects it refers to: a
\* dictionary refers to key, value, key, value.
TreeOf(o, trees) ==
    CASE o.t = "array" -> Arr([k \in DOMAIN o.refs |-> trees[o.refs[k]]])
      [] o.t = "dict" -> Dict([k \in 1..(Len(o.refs) \div 2) |->
                                  <<trees[o.refs[2 * k - 1]].s, trees[o.refs[2 * k]]>>])
      [] OTHER -> o

\* The indices whose object can be read if the objects at known can.
Readable(f, known) ==
    {i \in 0..(f.num_objects - 1) :
        f.objects[i + 1].t # "bad" /\ Range(Refs(f.objects[i + 1])) \subseteq known}

IsObject(o) ==
    /\ o.t \in {"bad", "str", "bool", "other", "array", "dict"}
    /\ o.t \in {"array", "dict"} => o.refs \in Seq(Nat)
    /\ o.t = "dict" => Len(o.refs) % 2 = 0

\* trees gives the tree of every object that has one: those that are bad, or
\* lead to such a one or round in a circle, have none.  Keys are strings.
Labelled(f) ==
    /\ f.num_objects \in Nat
    /\ \A i \in 0..(f.num_objects - 1) : IsObject(f.objects[i + 1])
    /\ DOMAIN f.trees = Readable(f, DOMAIN f.trees)
    /\ \A i \in DOMAIN f.trees :
          LET o == f.objects[i + 1]
          IN  /\ f.trees[i] = TreeOf(o, f.trees)
              /\ o.t = "dict" => \A k \in 1..(Len(o.refs) \div 2) :
                                    f.trees[o.refs[2 * k - 1]].t = "str"

\* The file stores the document, or its root has no tree.
Stores(f, doc) ==
    IF f.form = "xml" THEN Spelled(f.lines, doc, f.at)
    ELSE /\ Labelled(f) /\ f.top_object \in Nat
         /\ f.top_object \in DOMAIN f.trees => f.trees[f.top_object] = doc

-----------------------------------------------------------------------------
\* Profiles

\* The dictionaries under the Entitlements key of a profile; close and inner
\* are the line where each ends and the places of its entries.
EntitlementsAt(p) ==
    {i \in DOMAIN p.doc.entries :
        LET v == p.doc.entries[i][2]
        IN  p.doc.entries[i][1] = "Entitlements" /\ v.t = "dict" /\ v.entries # <<>>}

\* The tags of the dictionary at open balance at close and not before.
Encloses(lines, open, close) ==
    LET Count(tag, k) == Cardinality({i \in open..k : lines[i].tag = tag})
    IN  /\ close \in DOMAIN lines /\ open < close
        /\ \A k \in (open + 1)..close : Count("dict", k) = Count("/dict", k) <=> k = close

Inside(p, i) == SubSeq(p.lines, p.at[i] + 1, p.close[i])

Signs(p) ==
    /\ Spelled(p.lines, p.doc, p.at)
    /\ \A i \in EntitlementsAt(p) :
          /\ Encloses(p.lines, p.at[i] + 1, p.close[i])
          /\ Spelled(Inside(p, i), p.doc.entries[i][2], p.inner[i])

=============================================================================
