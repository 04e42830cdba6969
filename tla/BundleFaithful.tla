--------------------------- MODULE BundleFaithful ---------------------------
(***************************************************************************)
(* What run_ipa believes about a bundle against what the bundle says: the  *)
(* properties of IpaRun that compare the readers of property lists with    *)
(* the documents their files store.                                        *)
(***************************************************************************)
EXTENDS IpaRun, PropertyFiles

\* Info.plist stores the document a.info; there is at most one profile.
ASSUME BundleAssumption ==
    \A ipa \in Ipas : \A a \in ipa.apps :
        /\ \A f \in a.plist : Stores(f, a.info)
        /\ \A p, q \in a.profile : p = q
        /\ \A p \in a.profile : p.readable \in BOOLEAN /\ (p.readable => Signs(p))

InfoKeys == StringKeys \cup BoolKeys \cup {"UIRequiredDeviceCapabilities"}

\* The line scan takes a key wherever it is spelled and the first of two equal
\* ones, leaves entities as they are, and takes an array to end where one
\* inside it does.
PlainText(f, doc) ==
    /\ Once(f.lines, doc, f.at, InfoKeys)
    /\ \A i \in DOMAIN doc.entries :
          LET v == doc.entries[i][2]
          IN  /\ v.t = "str" => v.s \notin DOMAIN Escapes
              /\ v.t = "array" /\ doc.entries[i][1] = "UIRequiredDeviceCapabilities"
                    => \A j \in DOMAIN v.items : IsLeaf(v.items[j])

(* What run_ipa believes about the bundle is what the root dictionary of     *)
(* Info.plist says, whichever of the two formats it is stored in and however *)
(* the XML lays its arrays out.  The exceptions are those of the line scan.  *)
InfoFaithful ==
    \A b \in bundle :
        \/ b = bundle_info_from_bplist(App.info)
        \/ \E f \in App.plist : f.form = "xml" /\ ~PlainText(f, App.info)

GrantingKeys == NETWORK_BOOL_KEYS \cup NETWORK_PRESENCE_KEYS

\* What a dictionary of entitlements says of the network.
Grants(doc) ==
    \/ \E k \in NETWORK_BOOL_KEYS : TRUE \in get_bool(doc, k)
    \/ \E k \in NETWORK_PRESENCE_KEYS : Lookup(doc, k) # {}

\* The entitlements of a profile, with their place in it: its Entitlements
\* dictionary or, where there is no such key, the whole of it.
Entitlements(p) ==
    IF Lookup(p.doc, "Entitlements") = {}
    THEN {[lines |-> p.lines, doc |-> p.doc, at |-> p.at]}
    ELSE {[lines |-> Inside(p, i), doc |-> p.doc.entries[i][2], at |-> p.inner[i]] :
             i \in EntitlementsAt(p)}

Readables(a) == {p \in a.profile : p.readable}

NetworkGranted(a) ==
    IF Readables(a) # {} THEN \E p \in Readables(a) : \E e \in Entitlements(p) : Grants(e.doc)
    ELSE \E k \in NETWORK_BOOL_KEYS : OrElse(get_bool(a.info, k), FALSE)

\* Where the line scan may be mistaken about the network: a key it looks for
\* is not only in the dictionary read, or has its value on the line of the
\* key; Entitlements is written <dict/>, or is no dictionary.
Misread(p) ==
    \/ ~Once(p.lines, p.doc, p.at, {"Entitlements"})
    \/ Entitlements(p) = {}
    \/ \E e \in Entitlements(p) :
          \/ ~Once(e.lines, e.doc, e.at, GrantingKeys)
          \/ \E i \in DOMAIN e.at : /\ e.doc.entries[i][1] \in NETWORK_PRESENCE_KEYS
                                    /\ e.lines[e.at[i]].tag # ""
NetworkMisread(a) ==
    IF Readables(a) # {} THEN \E p \in Readables(a) : Misread(p)
    ELSE \E f \in a.plist : f.form = "xml" /\ ~Once(f.lines, a.info, f.at, NETWORK_BOOL_KEYS)

(* The jail has the network exactly if the application was granted it: by    *)
(* the entitlements of the profile where there is a readable one, be it to   *)
(* withhold what Info.plist asks for, and by Info.plist otherwise; and the   *)
(* descriptor that was written says the same.                                *)
NetworkAsGranted ==
    \/ app # None /\ NetworkMisread(App)
    \/ /\ \A mode \in policy : mode = IF NetworkGranted(App) THEN "inherit" ELSE "disable"
       /\ n > 0 /\ Arg.emit_jpk /\ ended[n] = "ok" =>
             \A doc \in out.doc :
                 doc.network = Some(IF NetworkGranted(App) THEN "inet" ELSE "none")

=============================================================================
