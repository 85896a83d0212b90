--------------------------- MODULE MC_TypeManager ---------------------------
(***************************************************************************)
(* Two clients, one Reset, and five heap addresses: enough for the four    *)
(* types plus the candidate of a duplicate request, so allocation never    *)
(* fails, and few enough that a freed address is handed out again.         *)
(***************************************************************************)
EXTENDS TypeManager

CONSTANTS a1, a2, a3, a4, a5, c1, c2

MCAddrs == {a1, a2, a3, a4, a5}
MCClients == {c1, c2}

\* Addresses and clients are only compared for equality.
MCSymmetry == Permutations(MCAddrs) \cup Permutations(MCClients)
=============================================================================
