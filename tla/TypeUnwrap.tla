----------------------------- MODULE TypeUnwrap -----------------------------
(***************************************************************************)
(* Type::UnwrapIfNeeded (src/src/type/type.h) and the expression result  *)
(* type that is stored unwrapped (ast/expression_test.cc).  A type        *)
(* is built the way a program builder builds it, one wrapper at a time    *)
(* (ty.alias, access control, ty.pointer) over a base type, and an        *)
(* expression may be given the type built so far at any point.            *)
(* type.cc and expression.cc are not under src/: the operators follow the *)
(* header's documented contracts.                                         *)
(***************************************************************************)
EXTENDS Naturals, Sequences, FiniteSets

CONSTANTS
    Bases,      \* the unwrapped base types: records with a kind
    AliasNames, \* the symbols aliases may be named
    MaxDepth,   \* bound on the wrappers around a base type
    Null        \* result_type() before set_result_type

VARIABLES
    t,              \* the type built so far
    depth,          \* the number of wrappers around its base
    result_type     \* result_type() of an expression

vars == <<t, depth, result_type>>

Alias(n, sub) == [kind |-> "alias", name |-> n, type |-> sub]
Access(sub) == [kind |-> "access", type |-> sub]
Pointer(sub) == [kind |-> "pointer", type |-> sub]

\* The wrappers UnwrapIfNeeded removes.
Transparent == {"alias", "access"}

-----------------------------------------------------------------------------
(* Fault variants.                                                        *)

\* Removes one level of aliasing or access control only.
UnwrapIfNeededOnce(ty) == IF ty.kind \in Transparent THEN ty.type ELSE ty

-----------------------------------------------------------------------------

\* Type::UnwrapIfNeeded: remove all levels of aliasing and access control.
RECURSIVE UnwrapIfNeeded(_)
UnwrapIfNeeded(ty) ==
    IF ty.kind \in Transparent THEN UnwrapIfNeeded(ty.type) ELSE ty

\* Expression::set_result_type stores the type with its aliases and access
\* control removed (expression_test: an alias of an alias of i32 is I32).
SetResultType(ty) ==
    /\ result_type' = UnwrapIfNeeded(ty)
    /\ UNCHANGED <<t, depth>>

\* The builder wraps the current type in an alias, access control or a
\* pointer.
Wrap ==
    /\ depth < MaxDepth
    /\ \E w \in {Alias(n, t) : n \in AliasNames} \cup {Access(t), Pointer(t)} :
          t' = w
    /\ depth' = depth + 1
    /\ UNCHANGED result_type

Init ==
    /\ t \in Bases
    /\ depth = 0
    /\ result_type = Null

Next == Wrap \/ SetResultType(t)

Spec == Init /\ [][Next]_vars

-----------------------------------------------------------------------------

\* The wrapper chain of a type: the type, its wrapped type, and so on down
\* to its base.
RECURSIVE Chain(_)
Chain(ty) == IF ty.kind \in Transparent \cup {"pointer"}
             THEN <<ty>> \o Chain(ty.type) ELSE <<ty>>

TypeOK ==
    /\ depth \in 0..MaxDepth
    /\ Len(Chain(t)) = depth + 1
    /\ Chain(t)[depth + 1] \in Bases
    /\ result_type = Null \/ result_type.kind \notin Transparent
=============================================================================
