-------------------------- MODULE FunctionResolver --------------------------
(***************************************************************************)
(* The function-level half of the type/semantic resolver (spec 4.3) and    *)
(* the semantic-info fields it fills on ast::Function                      *)
(* (src/src/ast/function.h).                                               *)
(*                                                                         *)
(* The resolver's own source is not part of this repository's src/; its    *)
(* steps are modelled from the spec: one pass over the functions in        *)
(* declaration order, each adding the module-scope variables its body      *)
(* names and inheriting what its callees have gathered so far; then a      *)
(* worklist that pushes a function's set to its callers until nothing      *)
(* grows (needed because a callee may be declared after its caller); then, *)
(* for each entry point in declaration order, a traversal of its callees   *)
(* that records the entry point as their ancestor, guarded by a visited    *)
(* set so that a cyclic call graph does not loop.  The Function methods    *)
(* the resolver calls are the header's: add_referenced_module_variable and *)
(* add_local_referenced_module_variable add a variable "if it is not       *)
(* already included" (a set); add_ancestor_entry_point appends to a        *)
(* std::vector<Symbol> (a sequence).                                       *)
(***************************************************************************)
EXTENDS Naturals, Sequences, FiniteSets
LOCAL INSTANCE Functions
LOCAL INSTANCE Graphs

CONSTANTS
    N,          \* functions are 1..N, in declaration order
    Uses(_)     \* Uses(f): the module-scope variables f's body names

Funcs == 1..N

VARIABLES
    calls,                   \* the module's call graph, <<caller, callee>>
    entry_points,            \* functions with a pipeline-stage decoration
    phase,                   \* "functions", "propagate", "ancestry", "done"
    pc,                      \* next function of the current pass
    referenced_module_vars,        \* Function::referenced_module_vars_
    local_referenced_module_vars,  \* Function::local_referenced_module_vars_
    ancestor_entry_points,         \* Function::ancestor_entry_points_
    worklist,                \* functions whose set must reach their callers
    ep,                      \* the entry point being traversed
    frontier,                \* callees still to visit for ep
    visited                  \* callees already visited for ep

vars == <<calls, entry_points, phase, pc, referenced_module_vars,
          local_referenced_module_vars, ancestor_entry_points, worklist,
          ep, frontier, visited>>

CallGraph == [node |-> Funcs, edge |-> calls]

Callees(f) == Successors(CallGraph, f)

Callers(g) == Predecessors(CallGraph, g)

-----------------------------------------------------------------------------
(* Fault variants, each a plausible slip in the resolver.                 *)

\* The entry-point test accepts every function (stage test inverted/lost).
IsEntryPointAny(f) == TRUE

\* The worklist drops a function without re-queueing callers that grew.
PropagateNoRequeue(g) ==
    /\ referenced_module_vars' =
         [c \in Funcs |-> IF c \in Callers(g)
                          THEN referenced_module_vars[c] \cup referenced_module_vars[g]
                          ELSE referenced_module_vars[c]]
    /\ worklist' = worklist \ {g}

\* The ancestry traversal forgets which callees it has visited.
VisitUnguarded(f) ==
    /\ frontier' = (frontier \ {f}) \cup Callees(f)
    /\ visited' = visited \cup {f}
    /\ ancestor_entry_points' =
         [ancestor_entry_points EXCEPT ![f] = Append(@, ep)]

-----------------------------------------------------------------------------

\* Function::IsEntryPoint: pipeline_stage() != PipelineStage::kNone.
IsEntryPoint(f) == f \in entry_points

\* Function::add_referenced_module_variable: add var if not already included.
AddReferenced(refs, vs) == refs \cup vs

\* Function::add_ancestor_entry_point: append ep to ancestor_entry_points_.
AddAncestor(seq, e) == Append(seq, e)

\* Resolve function f, the next in declaration order: its own variables go
\* into both sets, and it inherits what each callee has gathered so far.
ResolveFunction ==
    /\ phase = "functions"
    /\ pc \in Funcs
    /\ LET f == pc IN
       /\ local_referenced_module_vars' =
            [local_referenced_module_vars EXCEPT ![f] = AddReferenced(@, Uses(f))]
       /\ referenced_module_vars' =
            [referenced_module_vars EXCEPT ![f] =
               AddReferenced(@, Uses(f) \cup
                                UNION {referenced_module_vars[g] : g \in Callees(f)})]
       /\ worklist' = worklist \cup {f}
    /\ pc' = pc + 1
    /\ UNCHANGED <<calls, entry_points, phase, ancestor_entry_points, ep,
                   frontier, visited>>

EndFunctions ==
    /\ phase = "functions"
    /\ pc = N + 1
    /\ phase' = "propagate"
    /\ UNCHANGED <<calls, entry_points, pc, referenced_module_vars,
                   local_referenced_module_vars, ancestor_entry_points,
                   worklist, ep, frontier, visited>>

\* Take g off the worklist, add its set to every caller's, and queue the
\* callers whose set grew.
PropagateStep(g) ==
    /\ referenced_module_vars' =
         [c \in Funcs |-> IF c \in Callers(g)
                          THEN AddReferenced(referenced_module_vars[c],
                                             referenced_module_vars[g])
                          ELSE referenced_module_vars[c]]
    /\ worklist' = (worklist \ {g}) \cup
         {c \in Callers(g) : ~(referenced_module_vars[g] \subseteq referenced_module_vars[c])}

Propagate ==
    /\ phase = "propagate"
    /\ \E g \in worklist : PropagateStep(g)
    /\ UNCHANGED <<calls, entry_points, phase, pc, local_referenced_module_vars,
                   ancestor_entry_points, ep, frontier, visited>>

EndPropagate ==
    /\ phase = "propagate"
    /\ worklist = {}
    /\ phase' = "ancestry"
    /\ pc' = 1
    /\ UNCHANGED <<calls, entry_points, referenced_module_vars,
                   local_referenced_module_vars, ancestor_entry_points,
                   worklist, ep, frontier, visited>>

\* Move to the next function in declaration order; an entry point starts a
\* traversal of its callees.
NextEntryPoint ==
    /\ phase = "ancestry"
    /\ frontier = {}
    /\ pc \in Funcs
    /\ pc' = pc + 1
    /\ IF IsEntryPoint(pc)
       THEN /\ ep' = pc
            /\ frontier' = Callees(pc)
            /\ visited' = {}
       ELSE UNCHANGED <<ep, frontier, visited>>
    /\ UNCHANGED <<calls, entry_points, phase, referenced_module_vars,
                   local_referenced_module_vars, ancestor_entry_points, worklist>>

\* Visit callee f of ep: record ep as its ancestor, queue its unvisited
\* callees.
VisitStep(f) ==
    /\ frontier' = (frontier \ {f}) \cup (Callees(f) \ (visited \cup {f}))
    /\ visited' = visited \cup {f}
    /\ ancestor_entry_points' =
         [ancestor_entry_points EXCEPT ![f] = AddAncestor(@, ep)]

Visit ==
    /\ phase = "ancestry"
    /\ \E f \in frontier : VisitStep(f)
    /\ UNCHANGED <<calls, entry_points, phase, pc, referenced_module_vars,
                   local_referenced_module_vars, worklist, ep>>

EndAncestry ==
    /\ phase = "ancestry"
    /\ frontier = {}
    /\ pc = N + 1
    /\ phase' = "done"
    /\ UNCHANGED <<calls, entry_points, pc, referenced_module_vars,
                   local_referenced_module_vars, ancestor_entry_points,
                   worklist, ep, frontier, visited>>

Init ==
    /\ calls \in SUBSET (Funcs \X Funcs)
    /\ entry_points \in SUBSET Funcs
    /\ phase = "functions"
    /\ pc = 1
    /\ referenced_module_vars = [f \in Funcs |-> {}]
    /\ local_referenced_module_vars = [f \in Funcs |-> {}]
    /\ ancestor_entry_points = [f \in Funcs |-> <<>>]
    /\ worklist = {}
    /\ ep = 0
    /\ frontier = {}
    /\ visited = {}

Next ==
    \/ ResolveFunction \/ EndFunctions
    \/ Propagate \/ EndPropagate
    \/ NextEntryPoint \/ Visit \/ EndAncestry

\* Resolution is one sequential call that runs until it returns.
Spec == Init /\ [][Next]_vars /\ WF_vars(Next)
-----------------------------------------------------------------------------

TypeOK ==
    /\ calls \subseteq Funcs \X Funcs
    /\ entry_points \subseteq Funcs
    /\ phase \in {"functions", "propagate", "ancestry", "done"}
    /\ pc \in 1..(N + 1)
    /\ referenced_module_vars \in [Funcs -> SUBSET UNION {Uses(f) : f \in Funcs}]
    /\ local_referenced_module_vars \in [Funcs -> SUBSET UNION {Uses(f) : f \in Funcs}]
    /\ \A f \in Funcs : ancestor_entry_points[f] \in Seq(entry_points)
    /\ worklist \subseteq Funcs
    /\ ep \in {0} \cup entry_points
    /\ frontier \subseteq Funcs /\ visited \subseteq Funcs

\* No function ever lists the same entry point twice among its ancestors,
\* even when the entry point reaches it along two call paths or around a
\* cycle (spec 8, "Entry-point ancestry": E appears exactly once).
\* add_ancestor_entry_point itself appends without a check, so this rests
\* on the traversal visiting each callee once per entry point.
AncestorsOnce == \A f \in Funcs : IsInjective(ancestor_entry_points[f])

\* The resolver implements ResolverContract: while it runs the contract
\* sees nothing, and the step that ends it leaves every function with its
\* own variables, the transitive closure over its callees, and exactly the
\* entry points that reach it; and that step does come.
Done == phase = "done"

Contract == INSTANCE ResolverContract
    WITH resolved <- Done,
         refs <- IF Done THEN referenced_module_vars ELSE [f \in Funcs |-> {}],
         local_refs <- IF Done THEN local_referenced_module_vars
                               ELSE [f \in Funcs |-> {}],
         ancestors <- IF Done THEN [f \in Funcs |-> Range(ancestor_entry_points[f])]
                              ELSE [f \in Funcs |-> {}]

ContractRefinement == Contract!Spec
=============================================================================
