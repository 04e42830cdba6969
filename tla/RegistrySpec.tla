---------------------------- MODULE RegistrySpec ----------------------------
(***************************************************************************)
(* What the persistent stream registry promises its callers: a set of      *)
(* stream configs that is added to and removed from in single steps, and   *)
(* that a power failure may set back to the last state the disk had, but   *)
(* never to anything in between.                                           *)
(***************************************************************************)
CONSTANTS Configs, Apps, AppOf

VARIABLES reg,      \* the set list_registry returns
          stable    \* the set a power failure may fall back to

Without(r, a) == {c \in r : AppOf[c] # a}
Upsert(r, cfg) == Without(r, AppOf[cfg]) \cup {cfg}

Init == reg = {} /\ stable = {}

Add(cfg) == reg' = Upsert(reg, cfg) /\ UNCHANGED stable
Remove(a) == reg' = Without(reg, a) /\ UNCHANGED stable
Flush == stable' = reg /\ UNCHANGED reg
PowerFailure == reg' = stable /\ UNCHANGED stable

Next == \/ \E cfg \in Configs : Add(cfg)
        \/ \E a \in Apps : Remove(a)
        \/ Flush \/ PowerFailure

Spec == Init /\ [][Next]_<<reg, stable>>
=============================================================================
