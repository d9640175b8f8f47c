---------------------------- MODULE ImportedVTable ----------------------------
(***************************************************************************)
(* Subclassing an imported class: primary_vtable_slots                     *)
(* (crates/rustc_abi_cxx/src/vtable.rs) and build_imported_vtable_attr     *)
(* (crates/cxx_importer/src/rust_bindings.rs) write the slots of a class   *)
(* as the records of an attribute; the compiler fork reads the attribute   *)
(* back and assembles the vtable of a Rust class derived from it           *)
(* (fork/patches/0043).  All are functions of the tables VTable built.     *)
(*                                                                         *)
(* A signature has a name, when it is not an operator's, and an encoding   *)
(* of its parameters; const is in neither.                                 *)
(***************************************************************************)
EXTENDS VTable

CONSTANTS
  NameOf,    \* [Sig -> name], NoName for an operator or a conversion
  ParamsOf,  \* [Sig -> mangle_itanium_params]
  NoName

(* No method is spelled like the marker of a destructor.                     *)
ASSUME NamesAssumption ==
  /\ DOMAIN NameOf = Sig /\ DOMAIN ParamsOf = Sig
  /\ NoName # "~dtor" /\ \A s \in Sig : NameOf[s] # "~dtor"

-----------------------------------------------------------------------------
IsDtor(s) == s.kind # "Method"

(* chain_is_single_nonvirtual *)
SingleChain(c) ==
  \A d \in {c} \union Above(ctx, c) :
    Len(ctx[d].bases) <= 1 /\ \A i \in DOMAIN ctx[d].bases : ~ctx[d].bases[i].virt

Target(s) == IF IsPure(s) THEN <<"pure">> ELSE <<s.overrider, s.overIdx>>

DtorLeading(c) == tables[c].slots # << >> /\ IsDtor(Head(tables[c].slots))
HasVDtor(c) == \E s \in Range(tables[c].slots) : IsDtor(s)

Marker == [name |-> "~dtor", params |-> NoName, target |-> NoName]

(* The records of the slots: a pair of destructors that comes first has      *)
(* none, elsewhere one marker; an operator keeps its place without a name.   *)
(* The mutants drop the operators; never write the marker.                   *)
RecordsBugOf(c, s) ==
  IF IsDtor(s) THEN IF DtorLeading(c) \/ s.kind = "D0" THEN << >> ELSE <<Marker>>
  ELSE IF NameOf[SlotSig(s)] = NoName THEN << >>
  ELSE <<[name |-> NameOf[SlotSig(s)], params |-> ParamsOf[SlotSig(s)], target |-> Target(s)]>>
RecordsOf(c, s) ==
  IF IsDtor(s) THEN IF DtorLeading(c) \/ s.kind = "D0" THEN << >> ELSE <<Marker>>
  ELSE <<[name |-> NameOf[SlotSig(s)], params |-> ParamsOf[SlotSig(s)], target |-> Target(s)]>>

Records(c) ==
  FlattenSeq([i \in DOMAIN tables[c].slots |-> RecordsOf(c, tables[c].slots[i])])

(* No attribute without a slot to extend.                                    *)
HasAttr(c) ==
  tables[c].poly /\ SingleChain(c) /\ (Records(c) # << >> \/ HasVDtor(c))

-----------------------------------------------------------------------------
(* The reader.  An override takes the first record of its name that encodes  *)
(* the same parameters, and is an error when there are only others.          *)

Matches(r, over) == r.name = over.name /\ r.params = over.params
NameMatches(r, over) == r.name = over.name

Chosen(c, over) == SelectInSeq(Records(c), LAMBDA r : Matches(r, over))

Rejected(c, over) ==
  Chosen(c, over) = 0 /\ \E r \in Range(Records(c)) : NameMatches(r, over)

RustSlot == <<"rust">>

(* virtuals_on_chain for a class with one override.                          *)
Virtuals(c, over) ==
  IF Chosen(c, over) # 0
  THEN [Records(c) EXCEPT ![Chosen(c, over)] = [@ EXCEPT !.target = RustSlot]]
  ELSE Append(Records(c), [name |-> over.name, params |-> over.params, target |-> RustSlot])

(* emit_vtable: the pair of the derived class at the marker, or first when   *)
(* there is none and the chain has a virtual destructor.                     *)
DtorSlots(c) == IF HasVDtor(c) THEN <<<<"D1">>, <<"D0">>>> ELSE << >>

Assembled(c, over) ==
  LET v == Virtuals(c, over)
      positional == \E i \in DOMAIN v : v[i].name = "~dtor"
  IN (IF positional THEN << >> ELSE DtorSlots(c))
     \o FlattenSeq([i \in DOMAIN v |->
          IF v[i].name = "~dtor" THEN DtorSlots(c) ELSE <<v[i].target>>])

-----------------------------------------------------------------------------
(* What C++ dispatch through a pointer to c expects in the slots of c.       *)
Expected(c, over) ==
  [i \in DOMAIN tables[c].slots |->
     LET s == tables[c].slots[i]
     IN IF IsDtor(s) THEN <<s.kind>>
        ELSE IF NameOf[SlotSig(s)] = over.name /\ ParamsOf[SlotSig(s)] = over.params
             THEN RustSlot ELSE Target(s)]

Overriding == {[name |-> NameOf[s], params |-> ParamsOf[s]] : s \in {t \in Sig : NameOf[t] # NoName}}

(* The records tell the functions of the table apart: no overloads that      *)
(* differ in their const alone.                                              *)
ToldApart(c) ==
  \A s, t \in Range(tables[c].slots) :
    /\ ~IsDtor(s) /\ ~IsDtor(t)
    /\ NameOf[SlotSig(s)] # NoName
    /\ NameOf[SlotSig(s)] = NameOf[SlotSig(t)] /\ ParamsOf[SlotSig(s)] = ParamsOf[SlotSig(t)]
    => SlotSig(s) = SlotSig(t)

(* The attribute and its reader rebuild the vtable the C++ compiler made,    *)
(* slot for slot, wherever the destructor and the operators stand: the pair  *)
(* at its place, the Rust override where C++ would put it, every other slot  *)
(* unchanged; a new virtual function comes after all of them.                *)
AttrRebuildsTable ==
  \A c \in ClassIds : HasAttr(c) /\ ToldApart(c) =>
    \A over \in Overriding : ~Rejected(c, over) =>
      /\ Len(Assembled(c, over))
           = Len(tables[c].slots) + IF Chosen(c, over) = 0 THEN 1 ELSE 0
      /\ SubSeq(Assembled(c, over), 1, Len(tables[c].slots)) = Expected(c, over)
===============================================================================
