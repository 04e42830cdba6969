----------------------------- MODULE MCWlStream -----------------------------
(***************************************************************************)
(* An instance of WlStream: two surfaces, of different format and coding,  *)
(* with a pool each, two buffer sizes and coordinates that end at 3, so    *)
(* that a damage rectangle can saturate, lie outside, or cover the buffer. *)
(***************************************************************************)
EXTENDS WlStream

CONSTANTS s1, s2, p1, p2

MCPoolOf == [s \in Surfaces |-> IF s = s1 THEN p1 ELSE p2]
MCFormatOf == [s \in Surfaces |-> IF s = s1 THEN 0 ELSE 1]
MCCodingOf == [s \in Surfaces |-> IF s = s1 THEN "lz4" ELSE "raw"]
MCDims == {<<2, 1>>, <<2, 2>>}
MCDamages == {Rect(0, 0, 0, 0), Rect(1, 0, 1, 1), Rect(0, 1, 3, 3)}

=============================================================================
