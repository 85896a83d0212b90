---------------------------- MODULE TypeManager ----------------------------
(***************************************************************************)
(* The type manager, type::Manager (src/src/type/type_manager.h), with     *)
(* clients that keep the Type* pointers it hands out.                      *)
(*                                                                         *)
(* Get<T>(args) first allocates a candidate with std::make_unique, then    *)
(* Get(unique_ptr) looks its type_name() up in types_: an existing entry   *)
(* is returned and the candidate freed, otherwise the candidate is moved   *)
(* into types_ and its address returned.  Reset() clears types_, freeing   *)
(* every registered type.  The .cc is not under src/; the lookup and       *)
(* Reset follow spec 4.1.                                                  *)
(*                                                                         *)
(* A type object's identity is its address.  Which free address the       *)
(* allocator returns is up to the allocator, so allocation chooses any     *)
(* address not held by a live object; a freed address may come back.      *)
(***************************************************************************)
EXTENDS Naturals, Sequences, FiniteSets, TLC

CONSTANTS
    Addrs,       \* the heap addresses a type object can occupy
    Clients,     \* the code holding Type* results (resolver, transforms)
    MaxResets,   \* bound on Reset calls
    Null         \* a client holding no pointer

\* The structural types requested: two scalars and two aliases of one.
I32 == [kind |-> "i32"]
F32 == [kind |-> "f32"]
AliasA == [kind |-> "alias", name |-> "a", subtype |-> I32]
AliasB == [kind |-> "alias", name |-> "b", subtype |-> I32]
Types == {I32, F32, AliasA, AliasB}

VARIABLES
    types_,      \* types_: type_name -> address of the owned type
    live,        \* addresses of type objects not yet freed
    obj_type,    \* obj_type[a]: the type last constructed at address a
    held,        \* held[c]: the Type* client c keeps, or Null
    held_type,   \* held_type[c]: the structural type c asked for
    held_epoch,  \* held_epoch[c]: the number of Resets before c's Get
    resets       \* Reset calls so far

vars == <<types_, live, obj_type, held, held_type, held_epoch, resets>>

-----------------------------------------------------------------------------
(* Fault variants.                                                        *)

\* type_name() of an alias leaves out the alias's own symbol.
TypeNameNoSymbol(t) ==
    IF t.kind = "alias" THEN <<"__alias_">> \o <<"__" \o t.subtype.kind>>
                        ELSE <<"__" \o t.kind>>

\* Get registers every candidate without looking its name up.
LookupNone(name) == FALSE

-----------------------------------------------------------------------------

\* type_name(): "__i32", "__f32", "__alias_" + symbol + "__" + subtype's
\* name; modelled as the sequence of its parts, injective like the string.
RECURSIVE TypeName(_)
TypeName(t) ==
    IF t.kind = "alias" THEN <<"__alias_", t.name>> \o TypeName(t.subtype)
                        ELSE <<"__" \o t.kind>>

\* types_.find(name) != types_.end()
Registered(name) == name \in DOMAIN types_

\* Get<T>(args) / Get(unique_ptr): client c asks for type t.  The candidate
\* is allocated at a free address a; if the name is registered the client
\* gets the registered object and a is freed again.
Get(c, t) ==
    \E a \in Addrs \ live :
       LET name == TypeName(t)
           ptr  == IF Registered(name) THEN types_[name] ELSE a
       IN /\ types_' = IF Registered(name) THEN types_
                                           ELSE types_ @@ (name :> a)
          /\ live' = live \cup {ptr}
          /\ obj_type' = [obj_type EXCEPT ![a] = t]
          /\ held' = [held EXCEPT ![c] = ptr]
          /\ held_type' = [held_type EXCEPT ![c] = t]
          /\ held_epoch' = [held_epoch EXCEPT ![c] = resets]
          /\ UNCHANGED resets

\* Manager::Reset(): clear types_; the unique_ptrs free every type.
ClearTypes == /\ types_' = [n \in {} |-> n]
              /\ live' = {}

Reset ==
    /\ resets < MaxResets
    /\ ClearTypes
    /\ resets' = resets + 1
    /\ UNCHANGED <<obj_type, held, held_type, held_epoch>>

Init ==
    /\ types_ = [n \in {} |-> n]
    /\ live = {}
    /\ obj_type = [a \in Addrs |-> Null]
    /\ held = [c \in Clients |-> Null]
    /\ held_type = [c \in Clients |-> Null]
    /\ held_epoch = [c \in Clients |-> 0]
    /\ resets = 0

Next ==
    \/ \E c \in Clients, t \in Types : Get(c, t)
    \/ Reset

Spec == Init /\ [][Next]_vars
-----------------------------------------------------------------------------

\* Type correctness of the Type* results: every pointer a client got since
\* the last Reset points to a live object of exactly the type it asked
\* for, so Get<T>'s static_cast<T*> is sound; this rests on type_name()
\* being unique over all types (type.h), since the lookup is by name only.
TypeOK ==
    /\ DOMAIN types_ \subseteq {TypeName(t) : t \in Types}
    /\ \A n \in DOMAIN types_ : types_[n] \in Addrs
    /\ obj_type \in [Addrs -> Types \cup {Null}]
    /\ \A c \in Clients :
          held[c] # Null /\ held_epoch[c] = resets =>
             held[c] \in live /\ obj_type[held[c]] = held_type[c]
    /\ live \subseteq Addrs
    /\ held \in [Clients -> Addrs \cup {Null}]
    /\ held_type \in [Clients -> Types \cup {Null}]
    /\ held_epoch \in [Clients -> 0..MaxResets]
    /\ resets \in 0..MaxResets

\* Between two Resets, every client that asked for structurally equal types
\* holds the same object (spec 4.1 and 8, "Type canonicalization"), however
\* the requests of different clients interleave.
CanonicalIdentity ==
    \A c, d \in Clients :
        /\ held[c] # Null /\ held[d] # Null
        /\ held_epoch[c] = held_epoch[d] /\ held_type[c] = held_type[d]
        => held[c] = held[d]

\* After Reset, re-constructing a type yields a new identity (spec 8): a
\* pointer obtained after a Reset differs from every pointer obtained
\* before it.
FreshIdentityAfterReset ==
    \A c, d \in Clients :
        /\ held[c] # Null /\ held[d] # Null
        /\ held_epoch[c] < held_epoch[d]
        => held[c] # held[d]
=============================================================================
