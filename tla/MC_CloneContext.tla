-------------------------- MODULE MC_CloneContext --------------------------
(***************************************************************************)
(* Three statements, so that a body of two leaves one out, and a prologue *)
(* and a body block given as model values.                                 *)
(***************************************************************************)
EXTENDS CloneContext

MCStmts == {"s1", "s2", "s3"}
=============================================================================
