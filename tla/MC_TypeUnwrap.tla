---------------------------- MODULE MC_TypeUnwrap ----------------------------
(***************************************************************************)
(* Three scalar bases, two alias names, and up to three wrappers: enough  *)
(* for an alias of an alias (expression_test), access control on either   *)
(* side of a pointer, and a pointer to a pointer.                         *)
(***************************************************************************)
EXTENDS TypeUnwrap

MCBases == {[kind |-> "i32"], [kind |-> "f32"], [kind |-> "bool"]}
MCAliasNames == {"a", "b"}
=============================================================================
