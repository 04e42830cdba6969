-------------------------- MODULE MCStreamRegistry --------------------------
(* Small instances of StreamRegistry: a terminal and two browser configs. *)
EXTENDS StreamRegistry, TLC

CONSTANTS term, web, ct, cw, cw2, w1, w2, n1, n2, n3

MCApps == {term, web}
MCConfigs == {ct, cw, cw2}
MCAppOf == (ct :> term) @@ (cw :> web) @@ (cw2 :> web)
MCInodes == {n1, n2, n3}
OneWriter == {w1}
TwoWriters == {w1, w2}
=============================================================================
