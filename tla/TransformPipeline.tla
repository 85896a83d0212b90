------------------------- MODULE TransformPipeline -------------------------
(***************************************************************************)
(* The transform pipeline host (spec 4.4) running an ordered list of       *)
(* passes.  Each pass is a Transform::Run (src/transform/transform.h): it  *)
(* clones the input program into a new one through the clone context,     *)
(* prepending statements to entry-point bodies with                        *)
(* Transform::CloneWithStatementsAtStart (src/transform/transform.cc), and *)
(* returns an Output {program, diagnostics}; on error the program is       *)
(* empty.  Cloned functions carry no semantic info (function.h), so after  *)
(* each pass the host re-resolves the new program; here that cleanup is    *)
(* the resolver's contract (ResolverContract!Resolve), composed over the   *)
(* call graph the program's statements induce.                            *)
(*                                                                         *)
(* Statements are records: "return", "nop", "call" (callee), "io" (vars:   *)
(* the module variables an entry-point interface lists) and "switch"       *)
(* (cases: CaseStatement records with selectors and a body).              *)
(***************************************************************************)
EXTENDS Naturals, Sequences, FiniteSets, TLC

CONSTANTS
    Funcs,      \* the functions of the module
    Uses(_),    \* Uses(f): the module variables f's body names
    Helper,     \* the function a prologue pass inserts a call to
    Passes      \* the registered passes, in order: "prologue" or "entry_point_io"

VARIABLES
    program,        \* [valid, body]: the current program; body[f] is f's statement list
    entry_points,   \* functions with a stage decoration (cloned with the function)
    resolved, refs, local_refs, ancestors,  \* the program's semantic info
    pc,             \* index of the next pass
    phase,          \* "run", "cleanup", "done" or "halted"
    diags,          \* the host's accumulated diagnostics: <<pass, severity>>
    ran             \* passes that have run

vars == <<program, entry_points, resolved, refs, local_refs, ancestors,
          pc, phase, diags, ran>>

Ret == [kind |-> "return"]
Nop == [kind |-> "nop"]
Call(g) == [kind |-> "call", callee |-> g]
Io(vs) == [kind |-> "io", vars |-> vs]
Case(sels, blk) == [kind |-> "case", selectors |-> sels, body |-> blk]
Switch(cs) == [kind |-> "switch", cases |-> cs]

\* A case with no selectors is the default arm.
IsDefault(c) == c.selectors = <<>>

\* The functions a statement list calls, inside switch arms included.
CallsIn(blk) == {blk[i].callee : i \in {j \in DOMAIN blk : blk[j].kind = "call"}}

CalleesIn(blk) ==
    CallsIn(blk) \cup UNION {UNION {CallsIn(blk[i].cases[j].body) : j \in DOMAIN blk[i].cases} :
                             i \in {m \in DOMAIN blk : blk[m].kind = "switch"}}

RC == INSTANCE ResolverContract
        WITH calls <- UNION {{f} \X CalleesIn(program.body[f]) : f \in Funcs}

CloneCaseNoSelectors(c) == Case(<<>>, c.body)

\* CaseStatement::Clone: a new case with cloned selectors and body.
CloneCase(c) == Case(c.selectors, c.body)

\* Node::Clone of a statement: a switch clones each of its cases.
CloneStmt(s) ==
    IF s.kind = "switch"
    THEN Switch([j \in DOMAIN s.cases |-> CloneCase(s.cases[j])])
    ELSE s

CloneBlock(blk) == [i \in DOMAIN blk |-> CloneStmt(blk[i])]

CloneWithStatementsAtEnd(statements, in_body) == CloneBlock(in_body) \o statements

\* Transform::CloneWithStatementsAtStart: the given statements, then a
\* clone of each statement of the input body, in order.
CloneWithStatementsAtStart(statements, in_body) == statements \o CloneBlock(in_body)

\* What a pass prepends to entry point f: a call to the helper, or an
\* interface listing the module variables f references (semantic info
\* the pass reads from its input program).
Prologue(kind, f) ==
    IF kind = "prologue" THEN <<Call(Helper)>> ELSE <<Io(refs[f])>>

PassBody(kind, f) ==
    IF f \in entry_points
    THEN CloneWithStatementsAtStart(Prologue(kind, f), program.body[f])
    ELSE CloneBlock(program.body[f])

DecorationsDropped(eps) == {}

\* The clone keeps each function's decorations, its stage among them.
CloneDecorations(eps) == eps

EmptyProgram == [valid |-> FALSE, body |-> [f \in Funcs |-> <<>>]]

\* Transform::Run of pass i: the transformed program and no diagnostic or
\* a warning, or an error and an empty program.
TransformRun(i) ==
    {[program |-> [valid |-> TRUE, body |-> [f \in Funcs |-> PassBody(Passes[i], f)]],
      diagnostics |-> d] : d \in {{}, {<<i, "warning">>}}}
      \cup {[program |-> EmptyProgram, diagnostics |-> {<<i, "error">>}]}

ContainsErrors(d) == \E x \in d : x[2] = "error"

AddDiags(d, new) == d \cup new

\* The new program's functions are fresh Function nodes: their semantic
\* fields start empty.
NoSemanticInfo ==
    /\ resolved' = FALSE
    /\ refs' = [f \in Funcs |-> {}]
    /\ local_refs' = [f \in Funcs |-> {}]
    /\ ancestors' = [f \in Funcs |-> {}]

\* The host runs the next pass and, on an error, stops.
RunPass ==
    /\ phase = "run"
    /\ \E out \in TransformRun(pc) :
         /\ program' = out.program
         /\ diags' = AddDiags(diags, out.diagnostics)
         /\ phase' = IF ContainsErrors(out.diagnostics) THEN "halted" ELSE "cleanup"
    /\ ran' = ran \cup {pc}
    /\ pc' = pc + 1
    /\ entry_points' = CloneDecorations(entry_points)
    /\ NoSemanticInfo

CleanupStep == RC!Resolve

\* The host's post-pass cleanup: re-resolve the new program.
Cleanup ==
    /\ phase = "cleanup"
    /\ UNCHANGED <<program, entry_points, pc, diags, ran>>
    /\ CleanupStep
    /\ phase' = IF pc > Len(Passes) THEN "done" ELSE "run"

\* Input programs: each function returns, calls another function and
\* returns, or switches with one selector arm calling another function
\* and a last default arm; one or more of them are entry points.
InitBodies ==
    {<<Ret>>}
      \cup {<<Call(g), Ret>> : g \in Funcs}
      \cup {<<Switch(<<Case(<<1>>, <<Call(g)>>), Case(<<>>, <<Nop>>)>>)>> : g \in Funcs}

Init ==
    /\ \E b \in [Funcs \ {Helper} -> InitBodies] :
          program = [valid |-> TRUE, body |-> b @@ (Helper :> <<Nop>>)]
    /\ entry_points \in SUBSET (Funcs \ {Helper}) \ {{}}
    /\ resolved = TRUE
    /\ local_refs = [f \in Funcs |-> Uses(f)]
    /\ refs = [f \in Funcs |-> RC!RefsOf(f)]
    /\ ancestors = [f \in Funcs |-> RC!AncestorsOf(f)]
    /\ pc = 1
    /\ phase = "run"
    /\ diags = {}
    /\ ran = {}

Next == RunPass \/ Cleanup

Spec == Init /\ [][Next]_vars

-----------------------------------------------------------------------------
Stmt == [kind : {"return", "nop"}] \cup [kind : {"call"}, callee : Funcs]
          \cup [kind : {"io"}, vars : SUBSET UNION {Uses(f) : f \in Funcs}]

CaseStmt == [kind : {"case"}, selectors : Seq(Nat), body : Seq(Stmt)]

TypeOK ==
    /\ program.valid \in BOOLEAN
    /\ \A f \in Funcs : program.body[f] \in Seq(Stmt \cup [kind : {"switch"}, cases : Seq(CaseStmt)])
    /\ entry_points \in SUBSET (Funcs \ {Helper}) \ {{}}
    /\ pc \in 1..Len(Passes) + 1
    /\ phase \in {"run", "cleanup", "done", "halted"}
    /\ diags \subseteq (1..Len(Passes)) \X {"warning", "error"}
    /\ ran = 1..pc - 1

\* In every valid program each switch has at most one default arm, and
\* it is the last: cloning (CaseStatement::Clone) keeps every case's
\* selectors, so no pass turns a selector arm into a second default.
SwitchesWellFormed ==
    program.valid =>
      \A f \in Funcs : \A i \in DOMAIN program.body[f] :
        LET s == program.body[f][i]
            D == {j \in DOMAIN s.cases : IsDefault(s.cases[j])}
        IN  s.kind = "switch" => Cardinality(D) <= 1 /\ D \subseteq {Len(s.cases)}

\* No statement of a valid program follows a return: the statements
\* CloneWithStatementsAtStart adds go before the cloned body, whose
\* return stays last, so inserted prologue code is reachable.
NoCodeAfterReturn ==
    program.valid =>
      \A f \in Funcs : \A i \in 1..Len(program.body[f]) - 1 :
        program.body[f][i].kind # "return"
=============================================================================
