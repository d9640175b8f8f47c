-------------------------------- MODULE VTable --------------------------------
(***************************************************************************)
(* The Itanium vtable builder, crates/rustc_abi_cxx/src/vtable.rs, and the *)
(* importer's populate_vtable_indices, which reads its result back into    *)
(* the methods of the class (crates/cxx_importer/src/import.rs).           *)
(*                                                                         *)
(* The classes of one program get their tables in dependency order.  The   *)
(* primary slots of a class are built by walking its chain of first        *)
(* non-virtual bases from the root, one method at a time; then each        *)
(* further polymorphic base, and each polymorphic virtual base, gets a     *)
(* sub-table; then the ranks are stamped on the methods.                   *)
(*                                                                         *)
(* `sig' is what signatures_match compares: name, cv, result, parameters.  *)
(* Mangled symbols are the function they name; the leading vbase-offset,   *)
(* offset-to-top and RTTI entries are left out of the tables.              *)
(***************************************************************************)
EXTENDS Naturals, Sequences, SequencesExt, FiniteSets

CONSTANTS
  Sig,       \* signatures of virtual and other methods
  Programs   \* sequences of classes

Base == [class: Nat, virt: BOOLEAN]
Method == [sig: Sig, virtuality: {"NonVirtual", "Virtual", "PureVirtual"}, dtor: BOOLEAN]
Class == [bases: Seq(Base), methods: Seq(Method)]

Above(prog, c) ==
  LET up[d \in 1 .. c] ==
        UNION {{b.class} \union up[b.class] : b \in Range(prog[d].bases)}
  IN up[c]

(* A method with the signature of an inherited virtual is itself virtual, so *)
(* is a destructor below a virtual one, and a class declares each once.      *)
WellFormed(prog) ==
  /\ prog \in Seq(Class)
  /\ \A c \in DOMAIN prog :
       /\ \A i, j \in DOMAIN prog[c].bases :
            /\ prog[c].bases[i].class \in 1 .. (c - 1)
            /\ prog[c].bases[i].class = prog[c].bases[j].class => i = j
       /\ \A k, l \in DOMAIN prog[c].methods :
            prog[c].methods[k].sig = prog[c].methods[l].sig => k = l
       /\ \A d \in Above(prog, c) :
            \A inherited \in Range(prog[d].methods) : \A own \in Range(prog[c].methods) :
              inherited.sig = own.sig /\ inherited.virtuality # "NonVirtual"
              => own.virtuality # "NonVirtual"

ASSUME ProgramAssumption == \A prog \in Programs : WellFormed(prog)

VARIABLES
  ctx,     \* the classes; ClassId = index
  tables,  \* the VTables built so far
  phase,   \* idle, slots, subs
  at, m,   \* the class of the chain and the method the slot loop has reached
  slots,   \* build_virtual_slots so far
  subs,    \* the secondary sub-tables so far
  sub      \* the subobject the sub-table loop has reached

vars == <<ctx, tables, phase, at, m, slots, subs, sub>>

-----------------------------------------------------------------------------
ClassIds == DOMAIN tables
self == Len(tables) + 1
IsVirtual(c, k) == ctx[c].methods[k].virtuality # "NonVirtual"

(* is_polymorphic, as the importer leaves it.                                *)
Polymorphic(c) ==
  LET poly[d \in 1 .. c] ==
        \/ \E k \in DOMAIN ctx[d].methods : IsVirtual(d, k)
        \/ \E i \in DOMAIN ctx[d].bases :
             ctx[d].bases[i].virt \/ poly[ctx[d].bases[i].class]
  IN poly[c]

(* pick_primary_base *)
IsPrimaryBase(c, i) ==
  /\ Polymorphic(ctx[c].bases[i].class)
  /\ \A j \in 1 .. (i - 1) : ~Polymorphic(ctx[c].bases[j].class)

(* collect_chain: the first non-virtual base, its first non-virtual base...  *)
FirstNonVirtual(d) == SelectInSeq(ctx[d].bases, LAMBDA b : ~b.virt)

Chain(c) ==
  LET up[d \in 1 .. c] ==
        IF FirstNonVirtual(d) = 0 THEN <<d>>
        ELSE Append(up[ctx[d].bases[FirstNonVirtual(d)].class], d)
  IN up[c]

(* A slot: who introduced it, and its final overrider so far; index 0 for a  *)
(* destructor.                                                               *)
Slot(kind, origin, idx, overrider, overIdx) ==
  [kind |-> kind, origin |-> origin, idx |-> idx, overrider |-> overrider, overIdx |-> overIdx]

SlotSig(s) == ctx[s.origin].methods[s.idx].sig

-----------------------------------------------------------------------------
Init ==
  /\ ctx \in Programs
  /\ tables = << >> /\ phase = "idle"
  /\ at = 1 /\ m = 1 /\ slots = << >> /\ subs = << >> /\ sub = 1

Table(poly, index) ==
  [poly |-> poly, slots |-> IF poly THEN slots ELSE << >>,
   subs |-> IF poly THEN subs ELSE << >>, index |-> index]

NoIndex == [k \in DOMAIN ctx[self].methods |-> 0]

(* vtable_itanium returns None.                                              *)
NoVTable ==
  /\ phase = "idle" /\ self <= Len(ctx)
  /\ ~Polymorphic(self)
  /\ tables' = Append(tables, Table(FALSE, NoIndex))
  /\ UNCHANGED <<ctx, phase, at, m, slots, subs, sub>>

BeginVTable ==
  /\ phase = "idle" /\ self <= Len(ctx)
  /\ Polymorphic(self)
  /\ phase' = "slots"
  /\ at' = 1 /\ m' = 1 /\ slots' = << >> /\ subs' = << >> /\ sub' = 1
  /\ UNCHANGED <<ctx, tables>>

-----------------------------------------------------------------------------
(* build_virtual_slots. *)

Walking == phase = "slots" /\ at <= Len(Chain(self))
here == Chain(self)[at]
AtMethod == Walking /\ m <= Len(ctx[here].methods)
method == ctx[here].methods[m]

NextClass ==
  /\ Walking
  /\ m > Len(ctx[here].methods)
  /\ at' = at + 1 /\ m' = 1
  /\ UNCHANGED <<ctx, tables, phase, slots, subs, sub>>

(* Every destructor taken for the first one.                                 *)
DtorEmittedBug == FALSE
DtorEmitted == \E i \in DOMAIN slots : slots[i].kind = "D1"

(* Not in a table, or a destructor whose pair has its place already.         *)
SkipMethod ==
  /\ AtMethod
  /\ ~IsVirtual(here, m) \/ (method.dtor /\ DtorEmitted)
  /\ m' = m + 1
  /\ UNCHANGED <<ctx, tables, phase, at, slots, subs, sub>>

(* The pair, at the declaration of the first virtual destructor; first of    *)
(* all in the mutant.                                                        *)
DtorPair == <<Slot("D1", here, 0, self, 0), Slot("D0", here, 0, self, 0)>>
WithDtorBug == DtorPair \o slots
WithDtor == slots \o DtorPair

PlaceDtor ==
  /\ AtMethod
  /\ IsVirtual(here, m) /\ method.dtor /\ ~DtorEmitted
  /\ slots' = WithDtor
  /\ m' = m + 1
  /\ UNCHANGED <<ctx, tables, phase, at, subs, sub>>

(* find_override_target compares with the class that introduced the slot.    *)
Overrides(i) == slots[i].kind = "Method" /\ SlotSig(slots[i]) = method.sig

OverriddenBug(i) == [slots EXCEPT ![i].overrider = self, ![i].overIdx = m]
Overridden(i) == [slots EXCEPT ![i].overrider = here, ![i].overIdx = m]

Override ==
  /\ AtMethod
  /\ IsVirtual(here, m) /\ ~method.dtor
  /\ \E i \in DOMAIN slots :
       /\ Overrides(i)
       /\ \A j \in 1 .. (i - 1) : ~Overrides(j)
       /\ slots' = Overridden(i)
  /\ m' = m + 1
  /\ UNCHANGED <<ctx, tables, phase, at, subs, sub>>

NewSlot ==
  /\ AtMethod
  /\ IsVirtual(here, m) /\ ~method.dtor
  /\ \A i \in DOMAIN slots : ~Overrides(i)
  /\ slots' = Append(slots, Slot("Method", here, m, here, m))
  /\ m' = m + 1
  /\ UNCHANGED <<ctx, tables, phase, at, subs, sub>>

SlotsDone ==
  /\ phase = "slots"
  /\ at > Len(Chain(self))
  /\ phase' = "subs"
  /\ UNCHANGED <<ctx, tables, at, m, slots, subs, sub>>

-----------------------------------------------------------------------------
(* Sub-tables: the bases the layout placed, then the virtual bases of the    *)
(* whole hierarchy (collect_virtual_bases).                                  *)

VirtualBases(c) ==
  LET walk[d \in 1 .. c] ==
        FlattenSeq([i \in DOMAIN ctx[d].bases |->
          walk[ctx[d].bases[i].class]
          \o (IF ctx[d].bases[i].virt THEN <<ctx[d].bases[i].class>> ELSE << >>)])
  IN FoldLeft(LAMBDA seen, b : IF Contains(seen, b) THEN seen ELSE Append(seen, b),
              << >>, walk[c])

(* base_offsets, the primary base left out, then virtual_base_offsets.       *)
Subobjects ==
  FlattenSeq([i \in DOMAIN ctx[self].bases |->
    IF ctx[self].bases[i].virt \/ IsPrimaryBase(self, i) THEN << >>
    ELSE <<ctx[self].bases[i].class>>])
  \o VirtualBases(self)

(* most_derived_override: only the methods of the class itself are searched. *)
MostDerivedBug(s) == s
MostDerived(s) ==
  IF s.kind # "Method" THEN [s EXCEPT !.overrider = self, !.overIdx = 0]
  ELSE LET own == {k \in DOMAIN ctx[self].methods :
                     IsVirtual(self, k) /\ ctx[self].methods[k].sig = SlotSig(s)}
       IN IF own = {} THEN s
          ELSE [s EXCEPT !.overrider = self, !.overIdx = CHOOSE k \in own : TRUE]

IsPure(s) ==
  s.kind = "Method" /\ ctx[s.overrider].methods[s.overIdx].virtuality = "PureVirtual"

(* slot_to_secondary_entry: a thunk unless the slot is pure.                 *)
SecondaryEntry(s) == [slot |-> s, thunk |-> ~IsPure(s)]

AtSubobject == phase = "subs" /\ sub <= Len(Subobjects)

BuildSecondary ==
  /\ AtSubobject
  /\ LET b == Subobjects[sub]
     IN /\ tables[b].poly
        /\ subs' = Append(subs,
             [for |-> b,
              entries |-> [i \in DOMAIN tables[b].slots |->
                             SecondaryEntry(MostDerived(tables[b].slots[i]))]])
  /\ sub' = sub + 1
  /\ UNCHANGED <<ctx, tables, phase, at, m, slots>>

SkipSubobject ==
  /\ AtSubobject
  /\ ~tables[Subobjects[sub]].poly
  /\ sub' = sub + 1
  /\ UNCHANGED <<ctx, tables, phase, at, m, slots, subs>>

-----------------------------------------------------------------------------
(* populate_vtable_indices: the rank of each slot goes to the method of the  *)
(* class with the MethodId in the slot, the last slot winning.  The MethodId *)
(* is an index in the methods of the overrider, for a destructor the class   *)
(* itself, and the first method when it declares none.                       *)

DtorIdx(c) ==
  LET k == SelectInSeq(ctx[c].methods, LAMBDA x : x.dtor)
  IN IF k = 0 THEN 1 ELSE k

MethodId(s) == IF s.kind = "Method" THEN s.overIdx ELSE DtorIdx(s.overrider)

Rank(k) == SelectLastInSeq(slots, LAMBDA s : MethodId(s) = k)

FinishVTable ==
  /\ phase = "subs"
  /\ sub > Len(Subobjects)
  /\ tables' = Append(tables, Table(TRUE, [k \in DOMAIN ctx[self].methods |-> Rank(k)]))
  /\ phase' = "idle"
  /\ UNCHANGED <<ctx, at, m, slots, subs, sub>>

Next ==
  \/ NoVTable \/ BeginVTable
  \/ NextClass \/ SkipMethod \/ PlaceDtor \/ Override \/ NewSlot \/ SlotsDone
  \/ BuildSecondary \/ SkipSubobject \/ FinishVTable

Spec == Init /\ [][Next]_vars

-----------------------------------------------------------------------------
(* Properties. *)

Origin(s) == <<s.kind, s.origin, s.idx>>

(* A vptr of a class serves the code compiled against its base: the slots of *)
(* the base come first, in the same order, whatever the class declares.      *)
SlotsExtendBase ==
  \A c \in ClassIds : tables[c].poly /\ FirstNonVirtual(c) # 0 =>
    LET b == ctx[c].bases[FirstNonVirtual(c)].class
    IN /\ Len(tables[b].slots) <= Len(tables[c].slots)
       /\ \A i \in DOMAIN tables[b].slots :
            Origin(tables[b].slots[i]) = Origin(tables[c].slots[i])

VirtualIn(d, sig) == {k \in DOMAIN ctx[d].methods :
                        /\ IsVirtual(d, k) /\ ~ctx[d].methods[k].dtor
                        /\ ctx[d].methods[k].sig = sig}

(* Every slot of a class points at the final overrider on its chain: the     *)
(* most derived class that declares the signature.                           *)
FinalOverrider ==
  \A c \in ClassIds : tables[c].poly =>
    \A i \in DOMAIN tables[c].slots :
      LET s == tables[c].slots[i]
          chain == Chain(c)
          decls == {k \in DOMAIN chain : VirtualIn(chain[k], SlotSig(s)) # {}}
      IN s.kind = "Method" =>
           \E k \in decls :
             /\ \A l \in decls : l <= k
             /\ s.overrider = chain[k]
             /\ s.overIdx \in VirtualIn(chain[k], SlotSig(s))

(* Each virtual function of the chain has exactly one slot, however many     *)
(* classes of the chain redeclare it, and a chain with a virtual destructor  *)
(* one pair, complete then deleting, for the destructor of the class itself. *)
OneSlotEach ==
  \A c \in ClassIds : tables[c].poly =>
    LET s == tables[c].slots
        d1 == {i \in DOMAIN s : s[i].kind = "D1"}
        d0 == {i \in DOMAIN s : s[i].kind = "D0"}
        declared == UNION {{ctx[d].methods[k] : k \in {j \in DOMAIN ctx[d].methods : IsVirtual(d, j)}}
                             : d \in Range(Chain(c))}
        dtors == {x \in declared : x.dtor}
    IN /\ \A x \in declared \ dtors :
            Cardinality({i \in DOMAIN s : s[i].kind = "Method" /\ SlotSig(s[i]) = x.sig}) = 1
       /\ Cardinality(d1) = (IF dtors = {} THEN 0 ELSE 1)
       /\ d0 = {i + 1 : i \in d1}
       /\ \A i \in d1 \union d0 : s[i].overrider = c

(* A call through a base that is not the primary one reaches what the class  *)
(* itself overrides, with `this' adjusted, its destructor included.          *)
SecondaryOverridden ==
  \A c \in ClassIds : \A t \in Range(tables[c].subs) : \A i \in DOMAIN t.entries :
    LET e == t.entries[i]
    IN /\ Origin(e.slot) = Origin(tables[t.for].slots[i])
       /\ IF e.slot.kind # "Method" THEN e.slot.overrider = c /\ e.thunk
          ELSE VirtualIn(c, SlotSig(e.slot)) # {} =>
                 /\ e.slot.overrider = c
                 /\ e.slot.overIdx \in VirtualIn(c, SlotSig(e.slot))
                 /\ e.thunk <=> ~IsPure(e.slot)

(* import.rs, populate_vtable_indices: a class's method is stamped with the  *)
(* rank of a slot it owns, and only then.  Refuted: a slot an ancestor still *)
(* owns stamps the method that has the same index.                           *)
IndexIsSlot ==
  \A c \in ClassIds : \A k \in DOMAIN ctx[c].methods :
    LET r == tables[c].index[k]
    IN r # 0 => tables[c].slots[r].overrider = c /\ IsVirtual(c, k)
===============================================================================
