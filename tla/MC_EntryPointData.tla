------------------------- MODULE MC_EntryPointData -------------------------
(***************************************************************************)
(* The variables of the entry-point data tests: input and output location *)
(* variables foo and bar, the builtins coord (frag_coord, in) and depth    *)
(* (frag_depth, out), a private module variable p, and a function-scope   *)
(* variable l that the determiner must not record.                        *)
(***************************************************************************)
EXTENDS EntryPointData

MCIdents == {"foo", "bar", "coord", "depth", "p", "l"}

MCDecl(v) ==
    CASE v = "foo"   -> [scope |-> "module", storage_class |-> "in", decoration |-> "location"]
      [] v = "bar"   -> [scope |-> "module", storage_class |-> "out", decoration |-> "location"]
      [] v = "coord" -> [scope |-> "module", storage_class |-> "in", decoration |-> "builtin"]
      [] v = "depth" -> [scope |-> "module", storage_class |-> "out", decoration |-> "builtin"]
      [] v = "p"     -> [scope |-> "module", storage_class |-> "private", decoration |-> "none"]
      [] v = "l"     -> [scope |-> "function", storage_class |-> "function", decoration |-> "none"]

MCStages == {"vertex", "fragment", "compute"}
=============================================================================
