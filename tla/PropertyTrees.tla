--------------------------- MODULE PropertyTrees ---------------------------
(***************************************************************************)
(* Files as PropertyFiles describes them, made of trees by writers of the  *)
(* two formats, which are external.                                        *)
(***************************************************************************)
EXTENDS PropertyFiles

Children(v) ==
    CASE v.t = "array" -> v.items
      [] v.t = "dict" -> FlattenSeq([i \in DOMAIN v.entries |->
                                        <<Str(v.entries[i][1]), v.entries[i][2]>>])
      [] OTHER -> <<>>

\* What a writer of binary property lists makes of a tree: its objects from
\* index base on, the root first, a container's references in the order the
\* decoder follows them (a dictionary's as key, value, key, value).
RECURSIVE Encode(_, _)
Encode(v, base) ==
    LET kids == FoldLeft(LAMBDA acc, kid :
                            LET at == base + 1 + Len(acc.objs)
                            IN  [refs |-> Append(acc.refs, at),
                                 objs |-> acc.objs \o Encode(kid, at)],
                         [refs |-> <<>>, objs |-> <<>>], Children(v))
        self == IF v.t \in {"array", "dict"} THEN [t |-> v.t, refs |-> kids.refs] ELSE v
    IN  <<self>> \o kids.objs

\* The trees of the objects, starting from those known, level by level.
RECURSIVE Grown(_, _)
Grown(f, trees) ==
    LET more == Readable(f, DOMAIN trees) \ DOMAIN trees
    IN  IF more = {} THEN trees
        ELSE Grown(f, trees @@ [i \in more |-> TreeOf(f.objects[i + 1], trees)])
WithTrees(f) == [trees |-> Grown(f, <<>>)] @@ f

bplist(objs) ==
    [form |-> "bplist", short |-> FALSE, offset_int_size |-> 1, object_ref_size |-> 1,
     num_objects |-> Len(objs), top_object |-> 0, table_room |-> Len(objs),
     stray |-> {}, objects |-> objs]

\* What a writer of XML property lists makes of a tree.  layout says how an
\* array of strings under a key is set: one element a line, all on the line
\* after the key, or on the line of the key.
RECURSIVE Lines(_, _)
Lines(v, layout) ==
    LET entry(e) ==
            LET all == {i \in DOMAIN e[2].items : e[2].items[i].t = "str"}
                row(key) == [Line(key, "array", "") EXCEPT !.closes = TRUE,
                                !.items = [i \in DOMAIN e[2].items |-> XmlText(e[2].items[i].s)]]
            IN  IF layout # "lines" /\ e[2].t = "array" /\ all = DOMAIN e[2].items
                THEN IF layout = "joined" THEN <<row({e[1]})>>
                     ELSE <<Line({e[1]}, "", ""), row({})>>
                ELSE <<Line({e[1]}, "", "")>> \o Lines(e[2], layout)
    IN  CASE v.t = "str" -> <<Line({}, "string", XmlText(v.s))>>
          [] v.t = "bool" -> <<Line({}, IF v.b THEN "true" ELSE "false", "")>>
          [] v.t = "other" -> <<Line({}, "other", "")>>
          [] v.t = "array" ->
               <<Line({}, "array", "")>>
               \o FlattenSeq([i \in DOMAIN v.items |-> Lines(v.items[i], layout)])
               \o <<Line({}, "/array", "")>>
          [] v.t = "dict" ->
               IF v.entries = <<>> THEN <<Line({}, "dict/", "")>>
               ELSE <<Line({}, "dict", "")>>
                    \o FlattenSeq([i \in DOMAIN v.entries |-> entry(v.entries[i])])
                    \o <<Line({}, "/dict", "")>>

\* The line on which each entry of a root dictionary starts.
EntryLines(doc, layout) ==
    [i \in DOMAIN doc.entries |->
        IF i = 1 THEN 2 ELSE Len(Lines(Dict(SubSeq(doc.entries, 1, i - 1)), layout))]

XmlFile(doc, layout) ==
    [form |-> "xml", lines |-> Lines(doc, layout), at |-> EntryLines(doc, layout)]
BinaryFile(doc) == WithTrees(bplist(Encode(doc, 0)))

\* A signed profile with the document inside.
SignedProfile(doc, layout) ==
    LET at == EntryLines(doc, layout)
        dicts == {i \in DOMAIN doc.entries : doc.entries[i][2].t = "dict"}
    IN  [readable |-> TRUE, doc |-> doc, lines |-> Lines(doc, layout), at |-> at,
         close |-> [i \in dicts |-> at[i] + Len(Lines(doc.entries[i][2], layout))],
         inner |-> [i \in dicts |-> EntryLines(doc.entries[i][2], layout)]]

-----------------------------------------------------------------------------
\* A comment on parse_bplist

RECURSIVE Depth(_)
Depth(v) == 1 + Max({0} \cup {Depth(Children(v)[i]) : i \in DOMAIN Children(v)})

(* "nesting too deep" is said of a document whose nesting exceeds the budget *)
(* (bplist.rs:127: "recursion is depth-limited"), not of one with many keys. *)
TooDeepMeansDeep(doc) ==
    parse_bplist(BinaryFile(doc)).err = "nesting too deep" => Depth(doc) > Budget

=============================================================================
