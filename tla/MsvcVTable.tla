------------------------------- MODULE MsvcVTable -------------------------------
(***************************************************************************)
(* The vftables of the MSVC ABI, crates/rustc_abi_cxx/src/vtable_msvc.rs:  *)
(* a function of the same class declarations, with its own chain, its own  *)
(* order of slots and one slot for the destructor.                         *)
(***************************************************************************)
EXTENDS VTable

CONSTANT MsvcNameOf   \* [Sig -> name]

ASSUME MsvcNamesAssumption == DOMAIN MsvcNameOf = Sig

(* The chain follows the first polymorphic non-virtual base.                 *)
MsvcPrimary(d) == SelectInSeq(ctx[d].bases, LAMBDA b : ~b.virt /\ Polymorphic(b.class))

MsvcChain(c) ==
  LET up[d \in 1 .. c] ==
        IF MsvcPrimary(d) = 0 THEN <<d>>
        ELSE Append(up[ctx[d].bases[MsvcPrimary(d)].class], d)
  IN up[c]

(* methods_override *)
MsvcOverrides(base, derived) ==
  (base.dtor /\ derived.dtor) \/ (~base.dtor /\ ~derived.dtor /\ base.sig = derived.sig)

Declared(s) == ctx[s.in].methods[s.idx]

(* A new slot goes before the run of slots the same class has just added for *)
(* overloads of the same name.  The mutant looks past the class.             *)
SameRunBug(slot, c, k) ==
  MsvcNameOf[Declared(slot).sig] = MsvcNameOf[ctx[c].methods[k].sig]
SameRun(slot, c, k) ==
  slot.in = c /\ MsvcNameOf[Declared(slot).sig] = MsvcNameOf[ctx[c].methods[k].sig]

SlotPlace(seq, c, k) ==
  1 + SelectLastInSeq(seq, LAMBDA s : ~SameRun(s, c, k))

AddMethod(seq, c, k) ==
  IF ~IsVirtual(c, k) \/ \E s \in Range(seq) : MsvcOverrides(Declared(s), ctx[c].methods[k])
  THEN seq
  ELSE InsertAt(seq, SlotPlace(seq, c, k), [in |-> c, idx |-> k])

(* compute_slots: the methods of each class of the chain, in order.          *)
WithMethods(seq, d) ==
  LET run[k \in 0 .. Len(ctx[d].methods)] ==
        IF k = 0 THEN seq ELSE AddMethod(run[k - 1], d, k)
  IN run[Len(ctx[d].methods)]

MsvcSlots(c) ==
  LET run[n \in 0 .. Len(MsvcChain(c))] ==
        IF n = 0 THEN << >> ELSE WithMethods(run[n - 1], MsvcChain(c)[n])
  IN run[Len(MsvcChain(c))]

(* find_overrider, the destructor being always the class's own.              *)
MsvcTarget(c, s) ==
  IF Declared(s).dtor THEN c
  ELSE LET chain == MsvcChain(c)
           last == SelectLastInSeq(chain, LAMBDA d :
                     \E m1 \in Range(ctx[d].methods) : MsvcOverrides(Declared(s), m1))
       IN chain[last]

MsvcTable(c) ==
  [i \in DOMAIN MsvcSlots(c) |->
     [slot |-> MsvcSlots(c)[i], target |-> MsvcTarget(c, MsvcSlots(c)[i])]]

(* vtable_msvc: each further polymorphic base gets a sub-table, filled with  *)
(* the slots of the most derived class.                                      *)
MsvcSubTables(c) ==
  LET bs == ctx[c].bases
      further == SelectSeq([i \in DOMAIN bs |-> i],
                   LAMBDA i : ~bs[i].virt /\ Polymorphic(bs[i].class) /\ i # MsvcPrimary(c))
  IN [k \in DOMAIN further |->
        [for |-> bs[further[k]].class, entries |-> MsvcTable(c)]]

-----------------------------------------------------------------------------
(* A vptr to a class serves the code compiled against its primary base: the  *)
(* reversed overloads of a class never move a slot of its base, each virtual *)
(* function of the chain has one slot, and a slot reaches the most derived   *)
(* class that declares it, the destructor's the class itself.                *)
MsvcTableExtendsBase ==
  Len(tables) = Len(ctx) =>
    \A c \in ClassIds : Polymorphic(c) =>
      LET t == MsvcTable(c)
          chain == MsvcChain(c)
          Declares(d, s) == \E x \in Range(ctx[d].methods) : MsvcOverrides(Declared(s), x)
      IN /\ MsvcPrimary(c) # 0 => IsPrefix(MsvcSlots(ctx[c].bases[MsvcPrimary(c)].class), MsvcSlots(c))
         /\ \A d \in Range(chain) : \A k \in DOMAIN ctx[d].methods : IsVirtual(d, k) =>
              Cardinality({i \in DOMAIN t : MsvcOverrides(Declared(t[i].slot), ctx[d].methods[k])}) = 1
         /\ \A i \in DOMAIN t :
              IF Declared(t[i].slot).dtor THEN t[i].target = c
              ELSE \E j \in DOMAIN chain :
                     /\ t[i].target = chain[j] /\ Declares(chain[j], t[i].slot)
                     /\ \A l \in j + 1 .. Len(chain) : ~Declares(chain[l], t[i].slot)
===============================================================================
