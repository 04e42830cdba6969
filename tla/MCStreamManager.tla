-------------------------- MODULE MCStreamManager --------------------------
(* Small instances of StreamManager: two streams, a terminal and a browser. *)
EXTENDS StreamManager, TLC

CONSTANTS term, web,      \* app ids
          ct, cw, cw2,    \* configs: the terminal, the browser, another browser setup
          i1, i2, i3

MCApps == {term, web}
OneEach == {ct, cw}
TwoWeb == {ct, cw, cw2}
Terminal == {ct}
Browser == {cw}
Browsers == {cw, cw2}
MCAppOf == (ct :> term) @@ (cw :> web)
TwoWebAppOf == (cw2 :> web) @@ MCAppOf
Nothing == {}

Slots2 == {i1, i2}
Slots3 == {i1, i2, i3}
SlotSymmetry3 == Permutations(Slots3)
=============================================================================
