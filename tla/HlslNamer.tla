----------------------------- MODULE HlslNamer -----------------------------
(***************************************************************************)
(* The HLSL backend's identifier namer, writer::hlsl::Namer               *)
(* (src/src/writer/hlsl/namer.cc).  NameFor(name) memoises one HLSL        *)
(* identifier per WGSL identifier: a name on the sorted reserved-word      *)
(* table kNames becomes name_tint_<i> for the first i whose result is not  *)
(* yet a key of name_map_; any other name is kept unless an earlier call   *)
(* already produced it, in which case it becomes name_<i> for the first i  *)
(* not yet produced.  Every produced name is recorded in remapped_names_.  *)
(*                                                                         *)
(* Data abstraction: an identifier is the sequence of its "_"-separated    *)
(* tokens.  The namer only ever appends "_tint_" + to_string(i) or         *)
(* "_" + to_string(i), so string concatenation is sequence concatenation   *)
(* and string equality is sequence equality, as long as no base token is   *)
(* "tint" or a numeral (the MC module's base tokens are not).  to_string   *)
(* is TLC's ToString on naturals.                                          *)
(***************************************************************************)
EXTENDS Naturals, Sequences, FiniteSets, TLC
LOCAL INSTANCE Functions

CONSTANTS
    kNames,     \* the reserved-word table, a sorted sequence of tokens
    Inputs,     \* the WGSL identifiers the generator may ask for
    NoName      \* ret before the first call

VARIABLES
    name_map,        \* name_map_: WGSL name -> HLSL name
    remapped_names,  \* remapped_names_: every HLSL name handed out
    ret              \* the value the latest NameFor call returned

vars == <<name_map, remapped_names, ret>>

\* The numerals std::to_string can produce for a suffix index: the loops
\* never count past the number of names already mapped.
Numerals == {ToString(k) : k \in 0..Cardinality(Inputs)}

\* An identifier: a base token followed by "tint" and numeral tokens.
IsName(s) ==
    /\ s \in Seq(STRING) /\ Len(s) >= 1
    /\ \A k \in 2..Len(s) : s[k] \in {"tint"} \cup Numerals

-----------------------------------------------------------------------------
(* Fault variants of the definitions below, each a plausible slip in the  *)
(* C++; substituting one for its original must make a property fail.     *)

\* binary_search over [begin, end - 1): the last table entry is missed.
IsReservedShortRange(n) == \E i \in 1..(Len(kNames) - 1) : n = <<kNames[i]>>

\* name + "_tint" + std::to_string(i): the separator before i is lost.
TintNameNoSeparator(name, i) == Append(name, "tint" \o ToString(i))

\* The non-reserved branch returns the name without checking remapped_names_.
FirstUnremappedUnchecked(name, ret_name, i) == ret_name

\* The non-reserved branch starts suffixing before trying the name itself.
FirstUnremappedAlwaysSuffix(name, ret_name, i) == Append(name, ToString(i))

-----------------------------------------------------------------------------

\* std::binary_search(std::begin(kNames), std::end(kNames), ret_name): the
\* table is sorted (checked byte-wise on the 608 entries), so the search is
\* membership in the table.
IsReserved(n) == \E i \in 1..Len(kNames) : n = <<kNames[i]>>

\* name + "_tint_" + std::to_string(i)
TintName(name, i) == name \o <<"tint", ToString(i)>>

\* name + "_" + std::to_string(i)
SuffixName(name, i) == Append(name, ToString(i))

\* Namer::IsMapped
IsMapped(name) == name \in DOMAIN name_map

\* Namer::IsRemapped
IsRemapped(name) == name \in remapped_names

\* The reserved branch's while loop: the first TintName(name, i), i = 0, 1,
\* ..., that is not a key of name_map_ (it tests name_map_, not
\* remapped_names_).  It ends: name_map_ is finite.
RECURSIVE FirstFreeTint(_, _)
FirstFreeTint(name, i) ==
    IF TintName(name, i) \in DOMAIN name_map
    THEN FirstFreeTint(name, i + 1)
    ELSE TintName(name, i)

\* The other branch's while loop: try name, then name_0, name_1, ..., and
\* stop at the first one IsRemapped rejects.
RECURSIVE FirstUnremapped(_, _, _)
FirstUnremapped(name, ret_name, i) ==
    IF ~IsRemapped(ret_name)
    THEN ret_name
    ELSE FirstUnremapped(name, SuffixName(name, i), i + 1)

\* The name NameFor computes for a name not yet in name_map_.
FreshName(name) ==
    IF IsReserved(name) THEN FirstFreeTint(name, 0)
                        ELSE FirstUnremapped(name, name, 0)

\* Namer::NameFor(name): the early return of the memoised answer, or the
\* computation, RegisterRemappedName and name_map_[name] = ret_name.
NameFor(name) ==
    \/ /\ IsMapped(name)
       /\ ret' = name_map[name]
       /\ UNCHANGED <<name_map, remapped_names>>
    \/ /\ ~IsMapped(name)
       /\ LET r == FreshName(name)
          IN /\ remapped_names' = remapped_names \cup {r}
             /\ name_map' = name_map @@ (name :> r)
             /\ ret' = r

Init ==
    /\ name_map = [n \in {} |-> n]
    /\ remapped_names = {}
    /\ ret = NoName

Next == \E name \in Inputs : NameFor(name)

Spec == Init /\ [][Next]_vars

-----------------------------------------------------------------------------

\* The reserved words as identifiers, what the table stands for.
ReservedWords == {<<kNames[i]>> : i \in 1..Len(kNames)}

TypeOK ==
    /\ DOMAIN name_map \subseteq Inputs
    /\ \A n \in DOMAIN name_map : IsName(name_map[n])
    /\ \A r \in remapped_names : IsName(r)
    /\ ret = NoName \/ IsName(ret)

\* No two WGSL identifiers are emitted as the same HLSL identifier, whatever
\* order NameFor is called in (spec section 8, "Naming collisions"); this
\* needs the reserved branch's name_map_ test and the other branch's
\* remapped_names_ test to agree on what has been produced.
UniqueNames == IsInjective(name_map)

\* No HLSL identifier NameFor has handed out is a reserved word: neither a
\* renamed one (name_<i>, name_tint_<i>) nor one kept as it is.
NoReservedOutput == \A n \in DOMAIN name_map : name_map[n] \notin ReservedWords

\* The namer implements the abstract naming service Sanitizer: answers are
\* fixed from the first call, fresh, unreserved, and a name neither
\* reserved nor already produced is kept.
Abstract == INSTANCE Sanitizer
    WITH names <- name_map, out <- ret,
         Reserved <- ReservedWords

SanitizerRefinement == Abstract!Spec
=============================================================================
