--------------------------- MODULE EntryPointData ---------------------------
(***************************************************************************)
(* How an entry point's interface structs come out of its body.  A test   *)
(* builds a function body of assignments over identifiers, the type       *)
(* determiner walks every identifier expression in order and records the  *)
(* module-scope variables it names on the function                        *)
(* (Function::add_referenced_module_variable and                          *)
(* add_local_referenced_module_variable, src/src/ast/function.h, each of  *)
(* which appends only a variable not already included), and the MSL       *)
(* generator's EmitEntryPointData builds the <name>_in and <name>_out     *)
(* structs from referenced_location_variables and                         *)
(* referenced_builtin_variables, as                                       *)
(* writer/msl/generator_impl_function_entry_point_data_test.cc expects:   *)
(* input locations in the in struct, output locations then output         *)
(* builtins in the out struct, input builtins passed as parameters, and   *)
(* an error for a compute stage that references a location variable.      *)
(* The determiner and the generator are not under src/.                   *)
(***************************************************************************)
EXTENDS Naturals, Sequences, SequencesExt

CONSTANTS
    Idents,     \* the identifiers a body may name
    Decl(_),    \* Decl(v): [scope, storage_class, decoration] of identifier v
    Stages,     \* the pipeline stages a function may be decorated with
    MaxStmts    \* bound on the body's statements

VARIABLES
    body,           \* the body: a list of assignments <<lhs, rhs>>
    stage,          \* the function's stage decoration
    phase,          \* "build", "determine", "emit" or "done"
    pos,            \* the next identifier expression the determiner visits
    referenced_module_vars_,
    local_referenced_module_vars_,
    result          \* EmitEntryPointData: [ok, in, out]

vars == <<body, stage, phase, pos, referenced_module_vars_,
          local_referenced_module_vars_, result>>

\* The identifier expressions of a body in the order the determiner visits
\* them: each assignment's lhs, then its rhs.
Refs(b) == FlattenSeq([i \in DOMAIN b |-> <<b[i][1], b[i][2]>>])

IsModuleVar(v) == Decl(v).scope = "module"
IsLocation(v) == Decl(v).decoration = "location"
IsBuiltin(v) == Decl(v).decoration = "builtin"
IsIn(v) == Decl(v).storage_class = "in"
IsOut(v) == Decl(v).storage_class = "out"

-----------------------------------------------------------------------------
(* Fault variants.                                                        *)

\* Appends the variable even when the list already holds it.
AddWithoutCheck(list, var) == Append(list, var)

-----------------------------------------------------------------------------

\* add_referenced_module_variable / add_local_referenced_module_variable:
\* append var unless the list already includes it.
AddIfNotIncluded(list, var) == IF Contains(list, var) THEN list ELSE Append(list, var)

\* referenced_location_variables / referenced_builtin_variables: the
\* referenced module variables carrying that decoration, in list order.
referenced_location_variables == SelectSeq(referenced_module_vars_, IsLocation)
referenced_builtin_variables == SelectSeq(referenced_module_vars_, IsBuiltin)

\* The test: the function starts with no statements; its stage is one of
\* the three.
Init ==
    /\ body = <<>>
    /\ stage \in Stages
    /\ phase = "build"
    /\ pos = 1
    /\ referenced_module_vars_ = <<>>
    /\ local_referenced_module_vars_ = <<>>
    /\ result = [ok |-> TRUE, in |-> <<>>, out |-> <<>>]

\* body.push_back(create<AssignmentStatement>(Expr(lhs), Expr(rhs))).
AddStatement(lhs, rhs) ==
    /\ phase = "build" /\ Len(body) < MaxStmts
    /\ body' = Append(body, <<lhs, rhs>>)
    /\ UNCHANGED <<stage, phase, pos, referenced_module_vars_,
                   local_referenced_module_vars_, result>>

\* Func(...) and td.Determine(): the determiner starts on the body.
Determine ==
    /\ phase = "build"
    /\ phase' = "determine"
    /\ UNCHANGED <<body, stage, pos, referenced_module_vars_,
                   local_referenced_module_vars_, result>>

\* Fault variant: the determiner records the variable as locally
\* referenced only.
DetermineIdentifierLocalOnly ==
    /\ phase = "determine" /\ pos <= Len(Refs(body))
    /\ LET v == Refs(body)[pos]
       IN  /\ local_referenced_module_vars_' =
                 IF IsModuleVar(v) THEN AddIfNotIncluded(local_referenced_module_vars_, v)
                 ELSE local_referenced_module_vars_
           /\ UNCHANGED referenced_module_vars_
    /\ pos' = pos + 1
    /\ UNCHANGED <<body, stage, phase, result>>

\* The determiner resolves one identifier expression; a module-scope
\* variable is recorded as referenced and as locally referenced.
DetermineIdentifier ==
    /\ phase = "determine" /\ pos <= Len(Refs(body))
    /\ LET v == Refs(body)[pos]
       IN  IF IsModuleVar(v)
           THEN /\ referenced_module_vars_' = AddIfNotIncluded(referenced_module_vars_, v)
                /\ local_referenced_module_vars_' =
                      AddIfNotIncluded(local_referenced_module_vars_, v)
           ELSE UNCHANGED <<referenced_module_vars_, local_referenced_module_vars_>>
    /\ pos' = pos + 1
    /\ UNCHANGED <<body, stage, phase, result>>

EndDetermine ==
    /\ phase = "determine" /\ pos > Len(Refs(body))
    /\ phase' = "emit"
    /\ UNCHANGED <<body, stage, pos, referenced_module_vars_,
                   local_referenced_module_vars_, result>>

\* GeneratorImpl::EmitEntryPointData(func).
EmitEntryPointData ==
    /\ phase = "emit"
    /\ result' =
         IF stage = "compute" /\ referenced_location_variables # <<>>
         THEN [ok |-> FALSE, in |-> <<>>, out |-> <<>>]
         ELSE [ok |-> TRUE,
               in |-> SelectSeq(referenced_location_variables, IsIn),
               out |-> SelectSeq(referenced_location_variables, IsOut)
                         \o SelectSeq(referenced_builtin_variables, IsOut)]
    /\ phase' = "done"
    /\ UNCHANGED <<body, stage, pos, referenced_module_vars_,
                   local_referenced_module_vars_>>

Next ==
    \/ \E l, r \in Idents : AddStatement(l, r)
    \/ Determine
    \/ DetermineIdentifier
    \/ EndDetermine
    \/ EmitEntryPointData

Spec == Init /\ [][Next]_vars

-----------------------------------------------------------------------------

\* Type invariant.  The locally referenced module variables are always
\* among the referenced ones: the determiner records a variable its body
\* names on both lists (function.h: referenced includes the local ones).
TypeOK ==
    /\ body \in Seq(Idents \X Idents) /\ Len(body) <= MaxStmts
    /\ stage \in Stages
    /\ phase \in {"build", "determine", "emit", "done"}
    /\ pos \in 1..2 * MaxStmts + 1
    /\ ToSet(local_referenced_module_vars_) \subseteq ToSet(referenced_module_vars_)
    /\ result.ok \in BOOLEAN

\* The position at which the body first names v.
FirstRef(v) == CHOOSE i \in DOMAIN Refs(body) : Refs(body)[i] = v
                                            /\ \A j \in 1..i - 1 : Refs(body)[j] # v

\* Fields s lists each variable once, exactly the variables of the body
\* that satisfy P, and in the order the body first names them.
FieldsOf(s, P(_)) ==
    /\ IsInjective(s)
    /\ ToSet(s) = {Refs(body)[i] : i \in {j \in DOMAIN Refs(body) : P(Refs(body)[j])}}
    /\ \A i, j \in DOMAIN s : i < j => FirstRef(s[i]) < FirstRef(s[j])

\* Whatever the body, once EmitEntryPointData has run the in struct holds
\* each input location variable the body names exactly once, in the order
\* the body first names them, and the out struct likewise its output
\* locations followed by its output builtins, though every assignment names
\* a variable twice (foo = foo); a compute stage naming a location variable
\* is an error instead.
EntryPointStructsMatchBody ==
    phase = "done" =>
      LET LocIn(v) == IsModuleVar(v) /\ IsLocation(v) /\ IsIn(v)
          LocOut(v) == IsModuleVar(v) /\ IsLocation(v) /\ IsOut(v)
          BuiltinOut(v) == IsModuleVar(v) /\ IsBuiltin(v) /\ IsOut(v)
          nlocs == Len(SelectSeq(result.out, IsLocation))
      IN  IF stage = "compute" /\ \E i \in DOMAIN Refs(body) : IsModuleVar(Refs(body)[i])
                                                             /\ IsLocation(Refs(body)[i])
          THEN ~result.ok
          ELSE /\ result.ok
               /\ FieldsOf(result.in, LocIn)
               /\ FieldsOf(SubSeq(result.out, 1, nlocs), LocOut)
               /\ FieldsOf(SubSeq(result.out, nlocs + 1, Len(result.out)), BuiltinOut)
=============================================================================
