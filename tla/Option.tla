------------------------------- MODULE Option -------------------------------
(***************************************************************************)
(* Rust's Option, and a Result whose error is not told apart: a set of at  *)
(* most one element.                                                       *)
(***************************************************************************)

Some(v) == {v}
None == {}
Value(o) == CHOOSE v \in o : TRUE
OrElse(o, default) == IF o = None THEN default ELSE Value(o)

=============================================================================
