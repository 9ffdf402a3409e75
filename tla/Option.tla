------------------------------- MODULE Option -------------------------------
(* An optional value: the value itself, or None where there is none (Rust's *)
(* `Option`, or a JSON field that is absent).                               *)

CONSTANT None

\* `unwrap_or`
OrElse(value, default) == IF value = None THEN default ELSE value
=============================================================================
