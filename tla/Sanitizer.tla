----------------------------- MODULE Sanitizer -----------------------------
(***************************************************************************)
(* What a backend namer promises the emitter (spec section 6, "naming      *)
(* service"): every source identifier it is asked for gets one backend     *)
(* identifier, fixed from the first request on; two different source      *)
(* identifiers never share a backend identifier; no backend identifier is  *)
(* a reserved word; and an identifier that is neither reserved nor already *)
(* handed out is kept as it is.  Which fresh name a collision gets is left *)
(* open.                                                                   *)
(***************************************************************************)
EXTENDS TLC
LOCAL INSTANCE Functions

CONSTANTS
    Inputs,     \* the source identifiers the emitter may ask for
    Reserved,   \* the identifiers the target language reserves
    NoName      \* the answer before any request was made

VARIABLES
    names,      \* names[n]: the backend identifier given to source name n
    out         \* the answer to the latest request

vars == <<names, out>>

Init == names = [n \in {} |-> n] /\ out = NoName

\* A request for a name that already has an answer gets the same answer.
Lookup(n) ==
    /\ n \in DOMAIN names
    /\ out' = names[n]
    /\ UNCHANGED names

\* A first request fixes a fresh, unreserved answer for n.
Assign(n) ==
    /\ n \notin DOMAIN names
    /\ names' = names @@ (n :> out')
    /\ out' \notin Range(names)
    /\ out' \notin Reserved
    /\ (n \notin Reserved /\ n \notin Range(names)) => out' = n

Next == \E n \in Inputs : Lookup(n) \/ Assign(n)

Spec == Init /\ [][Next]_vars
=============================================================================
