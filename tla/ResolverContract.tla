-------------------------- MODULE ResolverContract --------------------------
(***************************************************************************)
(* What resolution promises about each function's semantic info (spec     *)
(* sections 3 "Function", 4.3 and 8): in one step from unresolved to       *)
(* resolved, every function f gets                                         *)
(*   local_refs[f]  = the module-scope variables f's own body touches,     *)
(*   refs[f]        = those of f and of every function f calls,            *)
(*                    directly or transitively,                            *)
(*   ancestors[f]   = the entry points that call f, directly or            *)
(*                    transitively,                                        *)
(* whatever the call graph, cycles included; and resolution does end.      *)
(***************************************************************************)
EXTENDS FiniteSets
LOCAL INSTANCE Graphs

CONSTANTS
    Funcs,      \* the functions of the module
    Uses(_)     \* Uses(f): the module-scope variables f's body names

VARIABLES
    calls,          \* the call graph: <<caller, callee>> pairs
    entry_points,   \* the functions with a pipeline-stage decoration
    resolved,       \* has Resolve run
    refs,
    local_refs,
    ancestors

vars == <<calls, entry_points, resolved, refs, local_refs, ancestors>>

CallGraph == [node |-> Funcs, edge |-> calls]

Init ==
    /\ calls \in SUBSET (Funcs \X Funcs)
    /\ entry_points \in SUBSET Funcs
    /\ resolved = FALSE
    /\ refs = [f \in Funcs |-> {}]
    /\ local_refs = [f \in Funcs |-> {}]
    /\ ancestors = [f \in Funcs |-> {}]

\* The variables f and everything it calls, directly or not, name.
RefsOf(f) == Uses(f) \cup UNION {Uses(g) : g \in Descendants(CallGraph, f)}

\* The entry points that call f, directly or not.
AncestorsOf(f) == {e \in entry_points : f \in Descendants(CallGraph, e)}

Resolve ==
    /\ ~resolved
    /\ resolved' = TRUE
    /\ local_refs' = [f \in Funcs |-> Uses(f)]
    /\ refs' = [f \in Funcs |-> RefsOf(f)]
    /\ ancestors' = [f \in Funcs |-> AncestorsOf(f)]
    /\ UNCHANGED <<calls, entry_points>>

Spec == Init /\ [][Resolve]_vars /\ WF_vars(Resolve)
=============================================================================
