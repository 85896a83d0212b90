---------------------------- MODULE CaseStatement ----------------------------
(***************************************************************************)
(* ast::CaseStatement (src/src/ast/case_statement.cc): its validity and   *)
(* its to_str dump.  Two case statements are built the way the tests      *)
(* build them: the constructor with a selector list and a body block (or  *)
(* nullptr), then selectors and body statements pushed one at a time.     *)
(* to_str is modelled as the string it writes: make_indent's spaces,      *)
(* "Default{" or "Case " and the selectors joined by ", " then "{", the   *)
(* body statements at indent + 2, and the closing brace.  A selector is   *)
(* an integer literal, written with std::to_string.                       *)
(***************************************************************************)
EXTENDS Naturals, Sequences, TLC

CONSTANTS
    Values,         \* selector literal values
    MaxSelectors,   \* bound on a case's selectors
    MaxBody,        \* bound on a case's body statements
    Null            \* a body_ of nullptr

VARIABLE cases      \* cases[k], k \in 1..2: a case statement [selectors, body]

vars == <<cases>>

\* CaseStatement(selectors, body).
CaseStatementOf(selectors, body) == [selectors |-> selectors, body |-> body]

\* No selectors: the default arm.
IsDefault(c) == c.selectors = <<>>

\* CaseStatement::IsValid: a body is present and each of its statements
\* is valid (the body statements here, Nop and Kill, always are).
IsValid(c) == c.body # Null

\* Node::make_indent: indent spaces.
RECURSIVE make_indent(_)
make_indent(n) == IF n = 0 THEN "" ELSE " " \o make_indent(n - 1)

\* to_str of the Nop and Kill statements of a body.
StmtStr(s, indent) == make_indent(indent) \o (IF s = "nop" THEN "Nop{}" ELSE "Kill{}") \o "\n"

RECURSIVE BodyStr(_, _)
BodyStr(b, indent) ==
    IF b = <<>> THEN "" ELSE StmtStr(Head(b), indent) \o BodyStr(Tail(b), indent)

-----------------------------------------------------------------------------
(* Fault variants.                                                        *)

\* The selector loop never writes the ", " separator.
SelectorsNoSeparator(sels, first) ==
    LET RECURSIVE Cat(_)
        Cat(s) == IF s = <<>> THEN "" ELSE ToString(Head(s)) \o Cat(Tail(s))
    IN  Cat(sels)

-----------------------------------------------------------------------------

\* The selector loop of to_str: ", " before every selector but the first.
RECURSIVE SelectorsStr(_, _)
SelectorsStr(sels, first) ==
    IF sels = <<>> THEN ""
    ELSE (IF first THEN "" ELSE ", ") \o ToString(Head(sels))
           \o SelectorsStr(Tail(sels), FALSE)

\* CaseStatement::to_str(out, indent).
ToStr(c, indent) ==
    make_indent(indent)
      \o (IF IsDefault(c) THEN "Default{" ELSE "Case " \o SelectorsStr(c.selectors, TRUE) \o "{")
      \o "\n"
      \o (IF c.body = Null THEN "" ELSE BodyStr(c.body, indent + 2))
      \o make_indent(indent) \o "}\n"

\* Node::str(): to_str at indent 0.
Str(c) == ToStr(c, 0)

\* A test constructs each case: a default arm (no selectors) whose body is
\* an empty block or nullptr.
Init == cases \in [1..2 -> {CaseStatementOf(<<>>, b) : b \in {<<>>, Null}}]

\* Add a selector to case k (selectors.push_back before construction).
AddSelector(k, v) ==
    /\ Len(cases[k].selectors) < MaxSelectors
    /\ cases' = [cases EXCEPT ![k].selectors = Append(@, v)]

\* Append a statement to case k's body block.
AddBodyStatement(k, s) ==
    /\ cases[k].body # Null /\ Len(cases[k].body) < MaxBody
    /\ cases' = [cases EXCEPT ![k].body = Append(@, s)]

Next ==
    \E k \in 1..2 :
        \/ \E v \in Values : AddSelector(k, v)
        \/ \E s \in {"nop", "kill"} : AddBodyStatement(k, s)

Spec == Init /\ [][Next]_vars

-----------------------------------------------------------------------------

\* Two different valid case statements never have the same dump: the
\* selector list written by to_str can be read back, and the default arm
\* is told apart from every selector arm.  (A nullptr body prints like an
\* empty one, so only valid cases are compared.)
DumpIdentifiesCase ==
    LET a == cases[1]
        b == cases[2]
    IN  a # b /\ IsValid(a) /\ IsValid(b) => Str(a) # Str(b)
=============================================================================
