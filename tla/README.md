# TLA+ models of the Tint shader compiler core

This directory models the parts of `src/` (a 20-file sample of Tint) whose behaviour
depends on the order of operations: the HLSL identifier namer, the function-level
semantic info that resolution fills in, the transform pipeline with its cloning and
post-pass re-resolution, the type manager's canonical type objects, type
unwrapping, the validity and dump of case statements, the entry-point structs
an emitter builds from a function's referenced variables, and the clone context's
replacement hook. It also lists the parts that are left out, and
the plan for the rest.

## 1. Inventory

The spec (`spec.md`) describes seven components. The sample holds full source for
only a few of them. Most files are headers or unit tests.

| Component | Source in `src/` | State it keeps | Operations that change state |
|---|---|---|---|
| HLSL namer (`writer::hlsl::Namer`) | `writer/hlsl/namer.cc` (full) | `name_map_` (WGSL name → HLSL name), `remapped_names_` (every HLSL name handed out), the sorted reserved-word table `kNames` | `NameFor`, `RegisterRemappedName` (queries: `IsMapped`, `IsRemapped`) |
| Function semantic info (`ast::Function`) | `ast/function.h` (header only) | `referenced_module_vars_`, `local_referenced_module_vars_`, `ancestor_entry_points_`, and the decorations that decide `IsEntryPoint` | `add_referenced_module_variable`, `add_local_referenced_module_variable`, `add_ancestor_entry_point` |
| Type/semantic resolver | none (spec 4.3) | per-function sets, the caller→callee record, a worklist | one pass over functions in declaration order, worklist propagation, entry-point ancestry |
| Clone/transform context | `transform/transform.cc`, `ast/case_statement.cc` (`Clone`), `ast/node.h` | the destination program's node arena, the replacement hooks | `Clone` of each node kind, `Transform::CloneWithStatementsAtStart` |
| Type manager (`type::Manager`) | `type/type_manager.h`, `type/type.h` (headers) | `types_`: type_name → owned type | `Get` (deduplicate by `type_name`), `Reset` |
| Transform pipeline host | `transform/transform.h` (the interface; the manager is spec 4.4) | the ordered pass list, diagnostics | `Run` each pass in order and clean up between passes; stop on an error |
| Statement validity | `ast/case_statement.cc`; `ast/if_statement_test.cc` (tests only) | none (pure predicates) | `IsValid`, `IsDefault`, `to_str` |
| Parsers (WGSL, SPIR-V) | `reader/*/parser.h` (headers) | the parser's program builder | `Parse()`, `program()`, the free `Parse(file)`: declarations only; the grammar is out of scope (spec 1) |
| Backend emitters (HLSL, MSL, SPIR-V, WGSL) | tests only, plus `writer/test_namer.h` | output text | out of scope (spec 1) |

**How the components interact.** A parser fills a program container. The resolver walks
the container. It calls `Function::add_*` to record semantic info, and it records which
function calls which. A transform uses a clone context to copy the program into a new
container. The clone carries no semantic info, so the pipeline host must resolve the
new container again before the next pass. An emitter reads the final container. It asks
a namer, once per symbol, for a backend-legal identifier. The HLSL namer is that service
for HLSL.

**What is hard.** Nothing runs concurrently (spec 5). The hard behaviours are about order:

* the order in which `NameFor` sees names. A WGSL identifier can look exactly like the
  namer's own output (`float_tint_0`, `float_tint_0_0`). Whether that causes a collision depends on
  which name comes first, and the two branches of `NameFor` test different maps.
* the order in which the resolver meets functions. A callee may be declared after its
  caller, so the transitive variable sets need a worklist, and the pop order of that
  worklist must not matter.
* call-graph shape. Diamonds can record an entry point twice.
* stale state across a clone or a `Reset`.
* a pass that fails and leaves an empty program.

**What makes each part correct.**

* Namer: the mapping is injective, never yields a reserved word, and is fixed from the
  first call. A name is kept unchanged when nothing collides.
* Resolver and function info: `referenced` is the variables of the function and of all
  its transitive callees, and `local` is the function's own variables. The ancestors are
  exactly the entry points that reach the function, each listed once. Resolution ends
  even when the call graph is cyclic.
* Clone: the clone has the same structure, and prepended statements come first. The
  clone's semantic info is empty until it is resolved again.
* Type manager: structurally equal requests get the same instance until `Reset`, and a
  new instance after it.
* Pipeline: passes run in order and no pass runs after an error (the host's own
  promise, spec 4.4). Every program a pass produces keeps the structure the clone
  promises.

## 2. Modules and how they map to the code

### `HlslNamer` (`writer/hlsl/namer.cc`)

* **Encoding of names.** An identifier is the sequence of its `_`-separated tokens, for
  example `float_tint_0` = `<<"float","tint","0">>`. The namer only ever appends
  `"_tint_" + to_string(i)` or `"_" + to_string(i)`, so string concatenation is sequence
  concatenation. `std::to_string` is `ToString`. String equality is sequence equality,
  provided no base token is `tint` or a numeral.
* **Variables.** `name_map`, `remapped_names`, and `ret` (the value the last call
  returned).
* **`NameFor(name)`** is one action with two disjuncts:
  - the memoised early return;
  - the fresh computation. `FreshName` picks the reserved branch (`FirstFreeTint`, the
    `while` loop over `name_map_` keys) or the ordinary branch (`FirstUnremapped`, the
    `while` loop over `remapped_names_`). The action then registers the result and
    stores it.
* **Reserved words.** `IsReserved` is the `std::binary_search` over `kNames`. The table's
  608 entries were checked to be sorted byte-wise, so the search is membership. The table
  is a constant, and `MC_HlslNamer` gives it the real table from `HlslKeywords`.

### `HlslKeywords` (`writer/hlsl/namer.cc`, lines 24–632)

The 608 strings of `kNames`, in source order. They are split into `kNamesPart1`..`kNamesPart5`
along the source line ranges, and `HlslKNames` joins the parts.

### `Sanitizer` (abstract)

The naming-service contract from spec section 6. Its state is a memo `names` and the
latest answer `out`.

* `Lookup` returns the stored answer.
* `Assign` picks a fresh answer. The answer is unreserved, and it equals the name itself
  when the name is neither reserved nor already handed out.

`HlslNamer` instantiates it with `names <- name_map, out <- ret`.

### `FunctionResolver` (`ast/function.h` and spec 4.3)

The `Function` adders come from the header:

* `AddReferenced` adds "if not already included", so it is a set union.
* `AddAncestor` appends to a `std::vector<Symbol>`, so it is `Append` to a sequence.
* `IsEntryPoint` is membership in `entry_points`.

The resolver itself is not under `src/`. Its steps follow spec 4.3 and are marked
`spec_modelled` in `PROJECT.json`:

* `ResolveFunction` handles one function in declaration order. It adds the function's
  own variables and inherits what its callees have so far.
* `Propagate` takes any function off the worklist. It unions that function's set into
  each caller's set and re-queues the callers whose set grew.
* `NextEntryPoint` and `Visit` run a traversal with a visited set from each entry point.
  Each step calls `add_ancestor_entry_point`.
* `End*` are the loop exits.

The call graph and the set of entry points are chosen in `Init` and never change. The
model enumerates every graph over `N` functions.

### `ResolverContract` (abstract)

A single `Resolve` step sets every function's semantic info:

* `refs[f]` is `Uses(f)` plus `Uses(g)` for every `g` in `Descendants(CallGraph, f)`;
* `local_refs[f]` is `Uses(f)`;
* `ancestors[f]` is the set of entry points `e` with `f` in `Descendants(CallGraph, e)`.

Its `Spec` has `WF(Resolve)`. The refinement mapping in `FunctionResolver` shows the
contract nothing until `phase = "done"`.

### `TransformPipeline` (`transform/transform.h`, `transform/transform.cc`, `ast/case_statement.cc`, spec 4.4)

The host runs the registered passes in order over one program.

* **Program.** A record of `valid` and `body`: one statement list per function.
  Statements are records: `return`, `nop`, `call` (with a callee), `io` (an interface
  listing module variables), and `switch` (with `case` records that have selectors and a
  body; no selectors means `IsDefault`). The call graph is derived from the bodies, so a
  pass that inserts a call changes it.
* **Semantic info.** The variables `resolved`, `refs`, `local_refs` and `ancestors`.
  They are the variables of `ResolverContract`, which is instantiated with
  `calls <- ` the derived call graph.
* **Cloning.**
  - `CloneCase` is `CaseStatement::Clone`: selectors and body are cloned.
  - `CloneStmt` is `Node::Clone` of a statement.
  - `CloneBlock` is the statement loop of `CloneWithStatementsAtStart`.
  - `CloneWithStatementsAtStart` puts the caller's statements first, then the clones.
  - `CloneDecorations` keeps each function's stage decoration.
* **Passes.** A pass (`PassBody`) clones every function. For an entry point it uses
  `CloneWithStatementsAtStart` with a prologue:
  - a `"prologue"` pass inserts a call to `Helper`;
  - an `"entry_point_io"` pass inserts an interface that lists the entry point's
    `referenced_module_variables`. This is semantic info that the pass reads from its
    input.
* **`TransformRun(i)`** is `Transform::Run`. It returns an `Output` with one of:
  - the transformed program and no diagnostics;
  - the transformed program and a warning;
  - an error and the empty program (`Output()`).
* **`RunPass`** is the host running one pass:
  - it accumulates the pass's diagnostics (`AddDiags`);
  - it stops if they contain an error (`ContainsErrors`);
  - it leaves the new program's semantic info empty (`NoSemanticInfo`), because
    `Function::Clone` does not copy it.
* **`Cleanup`** is the host's re-resolution, `ResolverContract!Resolve` over the new
  program.

The host is not under `src/`, so `RunPass`, `Cleanup` and the diagnostics handling are
`spec_modelled` (spec 4.4). The host only drives the passes: the properties of this
module are about the programs that the cloning code under `src/` produces, not about
the host loop, whose ordering, halting and diagnostics would hold by the model's own
definitions.

### `TypeUnwrap` (`type/type.h`)

`UnwrapIfNeeded` (RECURSIVE) translates the header's contract. `type.cc` is not in the
sample. `UnwrapPtrIfNeeded` and `UnwrapAll` are only comments there, and nothing in the
sample calls them, so they are left out: a model written from a comment cannot
disagree with it. The state is built the way a program builder
builds types:

* `t` is the type built so far;
* `Wrap` wraps `t` in an alias, in access control, or in a pointer, up to `MaxDepth`;
* `SetResultType(t)` gives an expression the type built so far. Following
  `expression_test.cc`, `result_type` stores `UnwrapIfNeeded(t)`.

### `TypeManager` (`type/type_manager.h`, `type/type.h`)

The manager and a set of `Clients` that keep the `Type*` values they get.

* **Variables.** `types_` maps a `type_name` to an address. `live` is the set of objects
  not yet freed. `obj_type` records what was last constructed at each address. `held`,
  `held_type` and `held_epoch` record each client's pointer, the type it asked for, and
  the number of `Reset`s before it asked.
* **`Get(c, t)`** follows the header's template. `std::make_unique` first allocates a
  candidate at any free address. `Get(unique_ptr)` then looks up `TypeName(t)`:
  - if the name is registered, the registered object is returned and the candidate is
    freed;
  - otherwise the candidate is registered and returned.

  The lookup is `spec_modelled`, because the `.cc` is absent.
* **`TypeName`** renders `type_name()` as a sequence of parts. An alias's name includes
  its own symbol.
* **`Reset`** clears `types_` and frees everything.
* **Addresses.** A type's identity is its address. Allocation may return any free
  address, including one freed by an earlier `Reset`. The allocator decides this, so the
  model leaves it nondeterministic.

### `CaseStatement` (`ast/case_statement.cc`, `ast/node.h`)

* `CaseStatementOf` is the constructor, and `IsValid` requires a body.
* `ToStr` is `CaseStatement::to_str`, modelled as the string it writes:
  - `make_indent` spaces;
  - `Default{`, or `Case ` followed by the selectors separated by `, ` (`SelectorsStr`)
    and then `{`;
  - the body statements at `indent + 2` (`BodyStr`);
  - the closing brace.
* `Str` is `Node::str`.
* The state holds two cases. Each is built from a default arm with an empty or null body
  (`Init`), and then gets selectors and body statements one at a time.

`DumpIdentifiesCase` checks that two different valid cases never print the same dump.
Dumps are what the tests compare. A null body prints exactly like an empty body
(`to_str` skips it), so invalid cases cannot be told apart by their dump. That case is
recorded as a hazard. `CaseStatement::Clone` passes its children through
`CloneContext`, which is not in the sample, so whether a clone keeps a nullptr body is
not modelled.

### `EntryPointData` (`ast/function.h`, `writer/msl/generator_impl_function_entry_point_data_test.cc`)

This module follows a function from its body to the MSL entry-point structs:

* a test builds a body of assignments (`AddStatement`), gives the function a stage
  (`Init`) and calls `td.Determine()` (`Determine`);
* the determiner visits each identifier expression, lhs before rhs (`Refs`,
  `DetermineIdentifier`). It records a module-scope variable with
  `add_referenced_module_variable` and `add_local_referenced_module_variable`.
  Both append only a variable that is not already included (`AddIfNotIncluded`).
  Function-scope variables are not recorded;
* `referenced_location_variables` and `referenced_builtin_variables` filter the
  referenced list in order (`SelectSeq`);
* `EmitEntryPointData` puts input locations into the in struct, and output locations
  followed by output builtins into the out struct. Input builtins are passed as
  parameters. A compute stage that references a location variable is an error. This
  is what the MSL tests expect, because the generator is not in the sample.

`EntryPointStructsMatchBody` compares the structs with the body itself. Each struct
lists exactly the variables of its kind that the body names, each once, in the order
of first reference. The tests write `foo = foo`, so each variable is named twice.

### `CloneContext` (spec 4.2, `transform/transform.cc`)

This module covers the clone context's replacement hook. `CloneContext` is not in the
sample, so `CloneStmt`, `CloneBlockNode` and `Replace` follow spec 4.2:

* before cloning, a transform registers a replacement for the body block or for single
  statements (`Replace`);
* `ctx->Clone(n)` yields n's replacement, or a clone of n whose children are cloned
  through the context.

The transform then runs `CloneWithStatementsAtStart` with a prologue (`Run`). That
operator translates `transform.cc`. It calls `ctx->Clone(s)` for each statement, but it
builds the body block itself. `SpecClone` is what spec 4.2 promises: the prologue, then
`ctx->Clone` of the body block. The module has one run, the violation below.

## 3. Runs

| Run | Module / cfg | Properties | What it shows |
|---|---|---|---|
| `hlsl_namer` | `MC_HlslNamer` | `TypeOK`, `UniqueNames`, `NoReservedOutput`, `SanitizerRefinement` | With the real 608-entry table, in every order of calls over reserved words (`float`, `int`, and `while`, the table's last entry), an ordinary name (`x`) and names shaped like generated output (`float_tint_0`, `float_tint_0_0`, `x_0`): the map stays injective and free of reserved words, each answer is fixed, and a name is kept when nothing collides. 673 distinct states. |
| `type_manager` | `MC_TypeManager` | `TypeOK`, `CanonicalIdentity` | Two clients request `i32`, `f32`, `alias a = i32` and `alias b = i32` in any interleaving, around a `Reset`. Within an epoch, equal requests share one object. Every pointer from the current epoch is live and has the requested type, so `static_cast<T*>` is sound. 13,550 distinct states, with symmetry on addresses and clients. |
| `type_manager_reset_identity` (violation) | `MC_TypeManager` / `MC_TypeManager_reuse.cfg` | `FreshIdentityAfterReset` | Spec section 8 says re-construction after `Reset` yields a new identity. TLC shows the sequence `Get(i32)`, `Reset`, `Get(i32)` returning the same address. |
| `transform_pipeline` | `MC_TransformPipeline` | `TypeOK`, `SwitchesWellFormed`, `NoCodeAfterReturn` | The passes `entry_point_io`, `prologue`, `entry_point_io` run over every input program where functions 1 and 2 each return, call and return, or switch, with any non-empty set of entry points. Each pass may succeed, warn or fail. In every valid program, each function keeps its stage decoration, each switch keeps one last default arm, and no statement follows a `return`. 4,284 distinct states. |
| `type_unwrap` | `MC_TypeUnwrap` | `TypeOK` | Types are built from `i32`, `f32`, `bool` with up to three wrappers (aliases `a`, `b`, access control, pointer). An expression's result type is never an alias or access control. 681 distinct states. |
| `function_resolver` | `MC_FunctionResolver` | `TypeOK`, `AncestorsOnce`, `ContractRefinement` | For all 512 call graphs over three functions (self-calls, cycles, diamonds, callees declared after their callers), all 8 entry-point choices, and every worklist and traversal order: resolution ends, each function's sets equal the contract's closure, and no ancestor is listed twice. About 92k distinct states, about 100 s. |
| `case_statement_dump` | `MC_CaseStatement` | `DumpIdentifiesCase` | Pairs of cases with up to two selectors from {1, 2, 12} and one `Nop`/`Kill` body statement: different valid cases have different dumps. 2,704 distinct states. |
| `entry_point_data` | `MC_EntryPointData` | `TypeOK`, `EntryPointStructsMatchBody` | Bodies of up to three assignments over `foo` (location, in), `bar` (location, out), `coord` (builtin, in), `depth` (builtin, out), a private `p` and a function-scope `l`, in each of the three stages: the in and out structs hold every interface variable the body names exactly once, in first-reference order, and a compute stage that names a location variable is an error. 1,431,444 distinct states, about 15 s. |
| `clone_context_block_hook` (violation) | `MC_CloneContext` / `MC_CloneContext_block.cfg` | `BodyReplacementHonoured` | After `Replace(Block)` and then `Run`, the cloned body holds the clone of the original statement and not the block's replacement. |

**Bounds.** The namer needs at least:

* the table's last entry (`while`) among the inputs, so that a search one entry short is caught;
* one base name, and for each base a name that equals its first renaming;
* one name that equals the renaming of that renaming.

Fewer names cannot make either `while` loop iterate more than once. Three functions is the smallest size that contains all of:

* two call paths from an entry point to one function (E→A→C together with E→C);
* a callee declared after its caller, inside a chain;
* a cycle that does not pass through the entry point.

The type manager needs:

* two aliases of the same subtype, so that a `type_name` without the alias symbol
  collides;
* five addresses: four live types plus one candidate, so that allocation never fails;
* one `Reset`, so that freed addresses come back.

The pipeline needs:

* three passes, so that an interface pass runs after a prologue pass has added a call
  (the case where stale `refs` would show);
* three functions, with a helper that is never an entry point;
* bodies that end in `return` (inserted code must stay before it) and a switch with a
  selector arm and a last default arm.

The entry-point data uses three statements. One assignment names a variable twice. Three assignments can give three first references whose order is checked, with repeats between them. It needs variables of every kind the emitter separates.

The case dump needs selectors 1, 2 and 12, because `<<1, 2>>` and `<<12>>` differ only by the separator.

Type unwrapping needs three wrappers. That is the smallest depth with an alias of an
alias, wrappers on both sides of a pointer, and a pointer to a pointer.

**Fairness.** `FunctionResolver` assumes `WF_vars(Next)`. Resolution is one sequential
call with no waits (spec 5), so it keeps taking steps until it returns. `HlslNamer` has
no liveness property: a call to `NameFor` is the caller's choice.

**Deadlock.** `MC_FunctionResolver.cfg` sets `CHECK_DEADLOCK FALSE`, because resolution
returns and its final state has no successor. `NameFor` is always enabled, so the namer
run checks deadlock.
`MC_TransformPipeline.cfg` also sets `CHECK_DEADLOCK FALSE`: the host returns after the last
pass or the first error. `SetResultType` is always enabled, so `type_unwrap` checks deadlock.
`MC_CaseStatement.cfg`, `MC_EntryPointData.cfg` and `MC_CloneContext_block.cfg` set `CHECK_DEADLOCK FALSE`. A test builds its statement and stops once the lists are full. The emitter and the transform return once they have produced their output.

**Mutants.** Each property has a fault variant of a mapped definition that TLC must
reject (listed in `PROJECT.json`):

* a binary search one entry short, caught at `while` (`NoReservedOutput`);
* the ordinary branch not checking `remapped_names_` (`UniqueNames`);
* suffixing before trying the name itself (`SanitizerRefinement`);
* a lost `_` separator (`TypeOK`);
* a worklist that does not re-queue grown callers (`ContractRefinement`);
* a traversal without a visited set (`AncestorsOnce`);
* an entry-point test that accepts every function (`TypeOK`);
* a `type_name` without the alias symbol (`TypeManager`'s `TypeOK`);
* a `Get` that never finds the registered name (`CanonicalIdentity`);
* a clone that drops function decorations (`TransformPipeline`'s `TypeOK`);
* `CaseStatement::Clone` without the selectors (`SwitchesWellFormed`);
* prologue statements appended after the body (`NoCodeAfterReturn`);
* `UnwrapIfNeeded` removing one level (`TypeUnwrap`'s `TypeOK`);
* a selector loop that drops the `, ` separator (`DumpIdentifiesCase`);
* an `add_referenced_module_variable` that appends a variable that is already included
  (`EntryPointStructsMatchBody`);
* a determiner that records a variable only as locally referenced (`EntryPointData`'s
  `TypeOK`).

## Findings

* **`Reset` identity (spec gap).** `type_manager_reset_identity` shows that pointer
  identity cannot carry the spec's promise of a new identity after `Reset()`. `Reset`
  frees the types, and the allocator may reuse their addresses for the next `Get`. A
  test that compares the two pointers can therefore fail, and a stale `Type*` can equal a
  live one of a different type.

* **Body-block replacement bypassed (spec/code divergence).** `clone_context_block_hook`
  shows that `CloneWithStatementsAtStart` (`transform.cc:46`) builds a new
  `BlockStatement` and never calls `ctx->Clone(in->body())`. A replacement that a
  transform registered for the body block is therefore ignored, although spec 4.2 says a
  registered replacement applies to the node. Replacements of single statements go
  through `ctx->Clone(s)` at `transform.cc:41`.

## 4. Not modelled, and why

* Parsers and emitters are out of the spec's scope. The sample has only their headers
  and tests, which format text. The readers' `Parse()`/`program()` protocol is declared
  in the headers with a comment each, and `ParserImpl` and `Program` are absent: a model
  could only restate those comments, so the parsers are not modelled. One emitter part
  is modelled: the choice of fields made by MSL's `EmitEntryPointData`
  (`EntryPointData`).
* `IfStatement::IsValid` and `ElseStatement::IsValid`: `if_statement.cc` is not in the
  sample. Only `if_statement_test.cc` states the rules, and a model written from the
  tests can only agree with them.
* `Type::UnwrapPtrIfNeeded` and `Type::UnwrapAll` are comments in `type.h`; see
  `TypeUnwrap`.
* The pipeline host's own loop (order, halting on an error, accumulated diagnostics,
  re-resolution after each pass) is spec 4.4 and not code under `src/`. It is modelled,
  because it drives the passes, but no property is stated about it.
* The binding queries of `function.h` (`referenced_uniform_variables` and the other
  binding and texture queries), `workgroup_size`, and `FunctionList::Find`/`HasStage` are
  declarations. The sample has no test that pins down their behaviour.
* The resolver's expression typing, overload resolution and statement checks are not
  modelled. Their source is absent, and they are per-node computations with no ordering
  hazard beyond the function pass.
* `CloneContext` is not under `src/`. Its replacement hook is modelled from spec 4.2
  (`CloneContext`). Its memo, which makes a node shared in the source shared in the
  clone, and the symbol cloning across programs are not modelled. The sample has no
  code or test that pins them down.
* `Manager`'s move constructor and move assignment are declarations. The program
  container that moves a manager from builder to program is not in the sample, so it
  is not known whether a moved-to manager frees its previous types.
* The layout queries (`MinBufferBindingSize`, `BaseAlignment`) and the `is_*`
  predicates of `type.h` are declarations without bodies in the sample.
* The cycle diagnostic itself is not modelled. The spec leaves open where it is raised.
  The model checks only that resolution ends and stays correct on a cyclic graph.

## 5. Plan

1. **Done:** `HlslNamer` + `Sanitizer` + `HlslKeywords`.
2. **Done:** `FunctionResolver` + `ResolverContract`.
3. **Done:** `TransformPipeline`. It covers cloning (`CaseStatement::Clone`,
   `CloneWithStatementsAtStart`) through the host's pass loop, and it composes
   `ResolverContract` as the cleanup.
4. **Done (partly):** `TypeManager` and `TypeUnwrap`. The move operations between
   managers are not modelled (see section 4).
5. **Done:** `CaseStatement` (validity and `to_str`).
6. **Done:** `EntryPointData` (referenced-variable lists to the MSL entry-point
   structs) and `CloneContext` (replacement hooks).
7. Compose `FunctionResolver` itself, rather than its contract, as the pipeline's
   cleanup. This needs a smaller program bound to stay within TLC's reach.
