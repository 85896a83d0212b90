--------------------------- MODULE MC_CaseStatement ---------------------------
(***************************************************************************)
(* Selector values 1, 2 and 12, so that the lists <<1, 2>> and <<12>>     *)
(* differ in their dump only by the separator; two selectors and one body *)
(* statement per case.                                                    *)
(***************************************************************************)
EXTENDS CaseStatement

MCValues == {1, 2, 12}
=============================================================================
