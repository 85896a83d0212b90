------------------------ MODULE MC_TransformPipeline ------------------------
EXTENDS TransformPipeline

MCFuncs == 1..3
MCUses(f) == {f}
MCHelper == 3
\* an interface pass, a prologue inserting a helper call, then an
\* interface pass that must see the helper's variables
MCPasses == <<"entry_point_io", "prologue", "entry_point_io">>
=============================================================================
