--------------------------- MODULE MC_HlslNamer ---------------------------
(***************************************************************************)
(* HlslNamer over the namer's whole reserved-word table.  The inputs are   *)
(* HLSL words (float, int, and while: the table's last entry), WGSL        *)
(* identifiers that look like the namer's own output (float_tint_0,        *)
(* float_tint_0_0, x_0), and an ordinary name, so every order of "a name   *)
(* and the name it would be renamed to" is explored.                       *)
(***************************************************************************)
EXTENDS HlslNamer, HlslKeywords

MCInputs == { <<"float">>, <<"float", "tint", "0">>,
              <<"float", "tint", "0", "0">>, <<"int">>, <<"while">>,
              <<"x">>, <<"x", "0">> }
=============================================================================
