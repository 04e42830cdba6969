---------------------------- MODULE MCLifecycle ----------------------------
(* Small instances of Lifecycle. *)
EXTENDS Lifecycle, TLC

CONSTANTS a, b,        \* jails
          p1, p2,      \* process slots
          c1, c2       \* connections

SlotSymmetry == Permutations(Pids)
ConnSlotSymmetry == Permutations(Conns) \cup Permutations(Pids)

OneJail == {a}
TwoJails == {a, b}
OneSlot == {p1}
TwoSlots == {p1, p2}
OneConn == {c1}
TwoConns == {c1, c2}

Nothing == {}
FlakyB == {b}

NoPrios == [j \in Jails |-> None]
Listed == [j \in Jails |-> 200]
Ranked == [j \in Jails |-> IF j = a THEN 200 ELSE 100]
OnlyA == [j \in Jails |-> IF j = a THEN 200 ELSE None]
BothPrios == {0, 200}
NoPrioCmds == {}

\* One reading per level of pressure.
AllLevels == {600, 400, 150, 30}
OnlyNormal == {600}
OnlyCritical == {150}
OnlyOom == {30}
=============================================================================
