------------------------ MODULE MC_FunctionResolver ------------------------
(***************************************************************************)
(* Every call graph over three functions (self-calls, cycles, callers      *)
(* declared before and after their callees, diamonds) and every choice of  *)
(* entry points.  Function f's body names its own module-scope variable    *)
(* v_f, so the variable sets tell which functions' bodies were reached.    *)
(***************************************************************************)
EXTENDS FunctionResolver

MCN == 3

MCUses(f) == {f}
=============================================================================
