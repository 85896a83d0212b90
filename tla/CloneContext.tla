----------------------------- MODULE CloneContext -----------------------------
(***************************************************************************)
(* The clone context's replacement hook (spec 4.2) and                    *)
(* Transform::CloneWithStatementsAtStart (src/src/transform/transform.cc). *)
(* Before cloning, a transform registers replacements for nodes of the     *)
(* input function's body: for its body block or for single statements.   *)
(* ctx->Clone(n) yields the registered replacement of n, or a clone of n   *)
(* whose children are cloned through ctx.  The transform then clones the   *)
(* function with a prologue statement prepended.                           *)
(* Statements are identifiers; a clone of statement s is [clone_of |-> s]; *)
(* a replacement registered for node n is the new node [new_for |-> n].    *)
(* CloneContext itself is not under src/, so Clone and Replace follow the  *)
(* spec.                                                                   *)
(***************************************************************************)
EXTENDS Naturals, Sequences, SequencesExt

CONSTANTS
    Stmts,      \* the statements a body may hold
    Prologue,   \* the statement the transform prepends
    Block       \* the function's body block node

VARIABLES
    in_body,        \* the input function's body statements
    replacements,   \* node -> the replacement the transform registered
    out_body        \* the cloned function's body statements, <<>> until it runs

vars == <<in_body, replacements, out_body>>

New(n) == [new_for |-> n]

\* ctx->Clone(s) of a statement: its replacement, or a clone.
CloneStmt(s) == IF s \in DOMAIN replacements THEN replacements[s] ELSE [clone_of |-> s]

\* ctx->Clone(in->body()): the block's replacement (a new block whose one
\* statement is new), or a block of the clones of its statements.
CloneBlockNode(b) ==
    IF Block \in DOMAIN replacements THEN <<replacements[Block]>>
    ELSE [i \in DOMAIN b |-> CloneStmt(b[i])]

\* Transform::CloneWithStatementsAtStart: the given statements, then
\* ctx->Clone(s) of each statement of in's body, in a block it creates.
CloneWithStatementsAtStart(statements, in_b) ==
    statements \o [i \in DOMAIN in_b |-> CloneStmt(in_b[i])]

\* The input function: a body of one or two distinct statements.
Init ==
    /\ in_body \in {<<s>> : s \in Stmts} \cup {<<s, t>> : s, t \in Stmts}
    /\ \A i, j \in DOMAIN in_body : i # j => in_body[i] # in_body[j]
    /\ replacements = <<>>
    /\ out_body = <<>>

\* ctx.Replace(n, replacement), before the clone runs.
Replace(n) ==
    /\ out_body = <<>>
    /\ n \in ToSet(in_body) \cup {Block}
    /\ n \notin DOMAIN replacements
    /\ replacements' = replacements @@ (n :> New(n))
    /\ UNCHANGED <<in_body, out_body>>

\* The transform's Run clones the function with the prologue prepended.
Run ==
    /\ out_body = <<>>
    /\ out_body' = CloneWithStatementsAtStart(<<Prologue>>, in_body)
    /\ UNCHANGED <<in_body, replacements>>

Next == (\E n \in Stmts \cup {Block} : Replace(n)) \/ Run

Spec == Init /\ [][Next]_vars

-----------------------------------------------------------------------------

\* What spec 4.2 promises of the clone: the prologue, then ctx->Clone of
\* the body block, every replacement registered for the block or a
\* statement honoured.
SpecClone == <<Prologue>> \o CloneBlockNode(in_body)

\* Every replacement registered before the clone is honoured, the one for
\* the function's body block included (spec 4.2: a hook applies to any
\* node cloned through the context).
BodyReplacementHonoured == out_body # <<>> => out_body = SpecClone
=============================================================================
