---------------------------------- MODULE Vtt ----------------------------------
(***************************************************************************)
(* The table of vtables that constructors of classes with virtual bases    *)
(* walk: vtt and construction_vtables, crates/rustc_abi_cxx/src/vtt.rs.    *)
(* Functions of the tables VTable built; an entry names a sub-table of the *)
(* class's own vtable (of = 0) or of the construction vtable of a base.    *)
(***************************************************************************)
EXTENDS VTable

HasVirtualBase(c) == VirtualBases(c) # << >>

(* The direct bases that get a construction vtable.                          *)
ConstructionBases(c) ==
  LET bs == ctx[c].bases
  IN FlattenSeq([i \in DOMAIN bs |->
       IF bs[i].virt \/ ~HasVirtualBase(bs[i].class) THEN << >> ELSE <<bs[i].class>>])

Entry(of, subTable) == [of |-> of, subTable |-> subTable]

SecondaryVtts(c) ==
  LET bs == ConstructionBases(c)
  IN FlattenSeq([i \in DOMAIN bs |->
       [k \in 1 .. (1 + Len(VirtualBases(bs[i]))) |-> Entry(bs[i], k - 1)]])

(* The sub-tables of the own vtable are numbered from 0, the primary one;    *)
(* those of virtual bases come first here, then the others.                  *)
PositionOf(c, b) == SelectInSeq(tables[c].subs, LAMBDA t : t.for = b)

OwnVirtual(c) ==
  LET vbs == VirtualBases(c)
  IN FlattenSeq([i \in DOMAIN vbs |->
       IF PositionOf(c, vbs[i]) = 0 THEN << >> ELSE <<Entry(0, PositionOf(c, vbs[i]))>>])

(* The mutant forgets that the virtual bases are there already.              *)
OwnSecondaryBug(c) == [i \in DOMAIN tables[c].subs |-> Entry(0, i)]
OwnSecondary(c) ==
  FlattenSeq([i \in DOMAIN tables[c].subs |->
    IF Contains(VirtualBases(c), tables[c].subs[i].for) THEN << >> ELSE <<Entry(0, i)>>])

VttOf(c) == <<Entry(0, 0)>> \o SecondaryVtts(c) \o OwnVirtual(c) \o OwnSecondary(c)

HasVtt(c) == tables[c].poly /\ HasVirtualBase(c)

-----------------------------------------------------------------------------
(* A class that is a base in both ways has one name for two subobjects.      *)
BothWays(c) ==
  \E i \in DOMAIN ctx[c].bases :
    ~ctx[c].bases[i].virt /\ Contains(VirtualBases(c), ctx[c].bases[i].class)

(* The constructor sets every vptr of the object from one entry: each        *)
(* sub-table of the vtable is named exactly once, the primary one first, and *)
(* each construction vtable has its primary entry and one for every virtual  *)
(* base its class shares with the whole object.                              *)
VttCoversTables ==
  \A c \in ClassIds : HasVtt(c) /\ ~BothWays(c) =>
    LET v == VttOf(c)
    IN /\ v[1] = Entry(0, 0)
       /\ \A i \in 0 .. Len(tables[c].subs) :
            Cardinality({k \in DOMAIN v : v[k] = Entry(0, i)}) = 1
       /\ \A b \in Range(ConstructionBases(c)) :
            Cardinality({k \in DOMAIN v : v[k].of = b})
              = 1 + Cardinality(Range(VirtualBases(b)) \intersect Range(VirtualBases(c)))
===============================================================================
