---------------------------- MODULE ItaniumLayout ----------------------------
(***************************************************************************)
(* The Itanium record-layout engine, crates/rustc_abi_cxx/src/layout.rs.   *)
(*                                                                         *)
(* compute_layout(ctx, c) is a pure function of the class declarations     *)
(* in ctx that calls itself on the bases and record-typed members of c.    *)
(* The specification runs it as a state machine over one program: the      *)
(* classes of `ctx' are laid out in dependency order, `classes' holds the  *)
(* RecordLayout of those already done (what a recursive call returns), the *)
(* other variables are the LayoutState of the class in hand, and every     *)
(* call that mutates the LayoutState is one action.                        *)
(*                                                                         *)
(* Offsets of placed subobjects are in bits so that bit-fields and bytes   *)
(* share one unit; sizes and alignments are in bytes as in the source.     *)
(***************************************************************************)
EXTENDS Naturals, Sequences, FiniteSets

CONSTANTS
  PtrSize,   \* pointer_size(ctx), in bytes
  Programs   \* the type contexts to lay out, each a sequence of ClassDefs

(* A member: of a scalar type, or of class `rec' when rec # 0; an array of  *)
(* `len' of them; explicit_align (0 when absent); a bit-field or not.        *)
Member == [rec: Nat, size: Nat \ {0}, align: Nat \ {0}, ref: BOOLEAN, sized: BOOLEAN,
           len: Nat \ {0}, explicit: Nat, bitfield: BOOLEAN, width: Nat]

Base == [class: Nat, virt: BOOLEAN]

(* The special members a class declares: none; only such as leave it trivial *)
(* for the purposes of calls, as another constructor does; or a copy or move *)
(* constructor or a destructor of its own.                                   *)
Special == {"none", "trivial", "nontrivial"}

ClassDef == [kind: {"class", "union"}, poly: BOOLEAN, special: Special, align: Nat,
             packed: BOOLEAN, bases: Seq(Base), fields: Seq(Member)]

(* Dependencies come first, a class is named as a direct base once, and      *)
(* is_polymorphic is closed the way the importer closes it: over bases, and  *)
(* over virtual bases.  A reference is no array, no bit-field and no record. *)
WellFormed(prog) ==
  /\ prog \in Seq(ClassDef)
  /\ \A c \in DOMAIN prog :
       /\ \A i \in DOMAIN prog[c].bases :
            /\ prog[c].bases[i].class \in 1 .. (c - 1)
            /\ prog[c].bases[i].virt \/ prog[prog[c].bases[i].class].poly
                 => prog[c].poly
            /\ \A j \in DOMAIN prog[c].bases :
                 prog[c].bases[i].class = prog[c].bases[j].class => i = j
       /\ \A k \in DOMAIN prog[c].fields :
            /\ prog[c].fields[k].rec \in 0 .. (c - 1)
            /\ prog[c].fields[k].ref =>
                 prog[c].fields[k].rec = 0 /\ prog[c].fields[k].len = 1 /\ ~prog[c].fields[k].bitfield
       /\ prog[c].kind = "union" => ~prog[c].poly /\ prog[c].bases = << >>

(* What the alignments of a program are made of: 1, a pointer, alignas on a   *)
(* class or a member, and the alignment type_size_align gives a scalar.      *)
Alignments(prog) ==
  ({1, PtrSize} \union {prog[c].align : c \in DOMAIN prog}
     \union UNION {UNION {{prog[c].fields[k].align, prog[c].fields[k].explicit} :
                            k \in DOMAIN prog[c].fields} : c \in DOMAIN prog}) \ {0}

(* Each is a power of two, so one of any two divides the other; and the type *)
(* of a bit-field is a scalar, which type_size_align makes as wide as its    *)
(* alignment.                                                                *)
WellAligned(prog) ==
  /\ \A a, b \in Alignments(prog) : a % b = 0 \/ b % a = 0
  /\ \A c \in DOMAIN prog : \A k \in DOMAIN prog[c].fields :
       LET m == prog[c].fields[k]
       IN m.bitfield => m.rec = 0 /\ m.len = 1 /\ m.size = m.align

ASSUME PtrAssumption == PtrSize \in Nat \ {0}
ASSUME ProgramAssumption == \A prog \in Programs : WellFormed(prog)
ASSUME AlignmentAssumption == \A prog \in Programs : WellAligned(prog)

VARIABLES
  ctx,       \* the program
  classes,   \* its classes laid out so far; ClassId = index
  phase,     \* the step of compute_layout the current class has reached
  pod,       \* is_pod_for_layout over what has been read so far
  fields,    \* how many members have been placed
  size, align, dsize, hasVptr,   \* LayoutState
  placed,    \* field_offsets, base_offsets, virtual_base_offsets as pieces
  empties,   \* LayoutState.empty_subobjects
  au,        \* LayoutState.bitfield_au
  next,      \* the base the current loop has reached
  vnext,     \* the position among that base's own virtual bases
  vbases,    \* virtual bases placed, in order
  nv,        \* snapshot of the non-virtual portion
  vend       \* vbase_end

state == <<size, align, dsize, hasVptr, placed, empties, au>>
walk == <<next, vnext, vbases, nv, vend>>
vars == <<ctx, classes, phase, pod, fields, state, walk>>

-----------------------------------------------------------------------------
(* Helpers. *)

MaxOf(a, b) == IF a >= b THEN a ELSE b
MinOf(a, b) == IF a <= b THEN a ELSE b

(* Rounds down. *)
AlignUpDownBug(v, a) == IF a <= 1 THEN v ELSE (v \div a) * a
AlignUp(v, a) == IF a <= 1 THEN v ELSE ((v + a - 1) \div a) * a

ClassIds == 1 .. Len(classes)

(* The class in hand. *)
decl == ctx[Len(classes) + 1]

NoAU == [open |-> FALSE, at |-> 0, bytes |-> 0, used |-> 0]

(* A placed subobject: where it is, in bits, and the alignment it needs.     *)
(* `of' is the class of a base, the index of a member, 0 for the vptr.       *)
Piece(role, of, lo, hi, al) ==
  [role |-> role, of |-> of, lo |-> lo, hi |-> hi, align |-> al]

Bytes(role, of, off, sz, al) == Piece(role, of, 8 * off, 8 * (off + sz), al)

(* pick_primary_base: the first polymorphic base, virtual or not. *)
IsPrimary(i) ==
  /\ decl.poly
  /\ ctx[decl.bases[i].class].poly
  /\ \A j \in DOMAIN decl.bases : j < i => ~ctx[decl.bases[j].class].poly

HasPrimary == \E i \in DOMAIN decl.bases : IsPrimary(i)

(* is_empty_class; forgetting the bases. *)
IsEmptyNoBasesBug == ~decl.poly /\ decl.fields = << >>
IsEmpty ==
  /\ ~decl.poly
  /\ decl.fields = << >>
  /\ \A i \in DOMAIN decl.bases : classes[decl.bases[i].class].empty

-----------------------------------------------------------------------------
(* LayoutState::new. *)

Init ==
  /\ ctx \in Programs
  /\ classes = << >>
  /\ phase = "idle"
  /\ pod = FALSE
  /\ fields = 0
  /\ size = 0 /\ align = 1 /\ dsize = 0 /\ hasVptr = FALSE
  /\ placed = {} /\ empties = {} /\ au = NoAU
  /\ next = 1 /\ vnext = 1 /\ vbases = << >>
  /\ nv = [size |-> 0, align |-> 1]
  /\ vend = 0

(* is_pod_for_layout starts from what the class and its bases say. *)
BeginClass ==
  /\ phase = "idle"
  /\ Len(classes) < Len(ctx)
  /\ pod' = (/\ ~decl.poly
             /\ decl.special = "none"
             /\ \A i \in DOMAIN decl.bases :
                  ~decl.bases[i].virt /\ classes[decl.bases[i].class].pod)
  /\ phase' = IF decl.kind = "union" THEN "fields" ELSE "primary"
  /\ fields' = 0
  /\ size' = 0 /\ align' = 1 /\ dsize' = 0 /\ hasVptr' = FALSE
  /\ placed' = {} /\ empties' = {} /\ au' = NoAU
  /\ next' = 1
  /\ UNCHANGED <<ctx, classes, vnext, vbases, nv, vend>>

-----------------------------------------------------------------------------
(* Step 1: the primary base at offset 0, or a fresh vptr. *)

HandedUpNoneBug(b) == {}
(* What place_base keeps of the empty subobjects of a primary base.          *)
HandedUp(b) == b.empties

PlacePrimary ==
  /\ phase = "primary"
  /\ \E i \in DOMAIN decl.bases :
       LET id == decl.bases[i].class
           b == classes[id]
       IN /\ IsPrimary(i)
          /\ b.ok
          /\ size' = MaxOf(size, b.nvSize)
          /\ dsize' = MaxOf(dsize, b.nvSize)
          /\ align' = MaxOf(align, b.align)
          /\ hasVptr' = (hasVptr \/ b.hasVptr)
          /\ empties' = empties \union HandedUp(b)
          /\ placed' = placed \union {Bytes("base", id, 0, b.nvSize, b.nvAlign)}
  /\ phase' = "bases"
  /\ UNCHANGED <<ctx, classes, pod, fields, au, walk>>

AllocateVptr ==
  /\ phase = "primary"
  /\ ~HasPrimary
  /\ decl.poly
  /\ size' = PtrSize
  /\ dsize' = PtrSize
  /\ align' = MaxOf(align, PtrSize)
  /\ hasVptr' = TRUE
  /\ placed' = placed \union {Bytes("vptr", 0, 0, PtrSize, PtrSize)}
  /\ phase' = "bases"
  /\ UNCHANGED <<ctx, classes, pod, fields, empties, au, walk>>

NoVptr ==
  /\ phase = "primary"
  /\ ~HasPrimary
  /\ ~decl.poly
  /\ phase' = "bases"
  /\ UNCHANGED <<ctx, classes, pod, fields, state, walk>>

-----------------------------------------------------------------------------
(* Step 2: the remaining non-virtual bases, in declaration order. *)

AtBase == phase = "bases" /\ next <= Len(decl.bases)
ThisBase == decl.bases[next]
Deferred == ThisBase.virt \/ IsPrimary(next)

SkipBase ==
  /\ AtBase
  /\ Deferred
  /\ next' = next + 1
  /\ UNCHANGED <<ctx, classes, phase, pod, fields, state, vnext, vbases, nv, vend>>

(* place_base on a base with no data: find_empty_base_offset takes the       *)
(* lowest multiple of its alignment that no object of its type occupies.     *)
PlaceEmptyBase ==
  /\ AtBase
  /\ ~Deferred
  /\ LET id == ThisBase.class
         b == classes[id]
         step == MaxOf(b.align, 1)
     IN /\ b.ok
        /\ b.nvSize = 0
        /\ \E k \in 0 .. Cardinality(empties) :
             /\ <<id, k * step>> \notin empties
             /\ \A j \in 0 .. (k - 1) : <<id, j * step>> \in empties
             /\ empties' = empties \union {<<id, k * step>>}
             /\ placed' = placed \union {Bytes("base", id, k * step, 0, b.align)}
        /\ align' = MaxOf(align, b.align)
  /\ next' = next + 1
  /\ UNCHANGED <<ctx, classes, phase, pod, fields, size, dsize, hasVptr, au,
                 vnext, vbases, nv, vend>>

(* place_base on a base with data: its non-virtual portion at dsize. *)
PlaceNonEmptyBase ==
  /\ AtBase
  /\ ~Deferred
  /\ LET id == ThisBase.class
         b == classes[id]
         off == AlignUp(dsize, b.nvAlign)
     IN /\ b.ok
        /\ b.nvSize # 0
        /\ size' = MaxOf(size, off + b.nvSize)
        /\ dsize' = off + b.nvSize
        /\ align' = MaxOf(align, b.align)
        /\ placed' = placed \union {Bytes("base", id, off, b.nvSize, b.nvAlign)}
  /\ next' = next + 1
  /\ UNCHANGED <<ctx, classes, phase, pod, fields, hasVptr, empties, au,
                 vnext, vbases, nv, vend>>

BasesDone ==
  /\ phase = "bases"
  /\ next > Len(decl.bases)
  /\ phase' = "fields"
  /\ UNCHANGED <<ctx, classes, pod, fields, state, walk>>

-----------------------------------------------------------------------------
(* Step 3: the members, in declaration order. *)

AtMember == phase = "fields" /\ fields < Len(decl.fields)
ThisMember == decl.fields[fields + 1]

(* type_size_align *)
TypeOk(m) == IF m.rec = 0 THEN m.sized ELSE classes[m.rec].ok
TypeSize(m) == m.len * (IF m.rec = 0 THEN m.size ELSE classes[m.rec].size)
TypeAlign(m) == IF m.rec = 0 THEN m.align ELSE classes[m.rec].align

(* is_pod_for_layout on one member: a reference or a non-POD record taints   *)
(* the class, an array of non-POD records does not.                          *)
Taints(m) == m.len = 1 /\ IF m.rec = 0 THEN m.ref ELSE ~classes[m.rec].pod

NaturalAlign(m) == MaxOf(MaxOf(m.explicit, TypeAlign(m)), 1)

(* place_field: at dsize, so that it may sit in the tail padding of a        *)
(* non-POD base; it closes the open bit-field unit.                          *)
PlaceField ==
  /\ AtMember
  /\ decl.kind = "class"
  /\ ~ThisMember.bitfield
  /\ TypeOk(ThisMember)
  /\ LET al == IF decl.packed THEN MaxOf(ThisMember.explicit, 1)
               ELSE NaturalAlign(ThisMember)
         off == AlignUp(dsize, al)
         end == off + TypeSize(ThisMember)
     IN /\ size' = MaxOf(size, end)
        /\ dsize' = end
        /\ align' = MaxOf(align, al)
        /\ placed' = placed \union
             {Bytes("field", fields + 1, off, TypeSize(ThisMember), al)}
  /\ au' = NoAU
  /\ fields' = fields + 1
  /\ pod' = (pod /\ ~Taints(ThisMember))
  /\ UNCHANGED <<ctx, classes, phase, hasVptr, empties, walk>>

(* place_bitfield: packing is not consulted. *)
AtBitfield ==
  /\ AtMember
  /\ decl.kind = "class"
  /\ ThisMember.bitfield
  /\ TypeOk(ThisMember)

UnitBits == 8 * TypeSize(ThisMember)

(* Packs whenever the unit has a bit left. *)
FitsOpenUnitBug == au.open /\ au.bytes = TypeSize(ThisMember) /\ au.used < UnitBits

FitsOpenUnit ==
  /\ au.open
  /\ au.bytes = TypeSize(ThisMember)
  /\ au.used + ThisMember.width <= UnitBits

Bits(off, bit, w) ==
  Piece("bits", fields + 1, 8 * off + bit, 8 * off + bit + w, TypeSize(ThisMember))

CloseOrKeep(off, used) ==
  IF used >= UnitBits THEN NoAU
  ELSE [open |-> TRUE, at |-> off, bytes |-> TypeSize(ThisMember), used |-> used]

(* Width 0 closes the open unit and reserves no bits. *)
PlaceZeroWidth ==
  /\ AtBitfield
  /\ ThisMember.width = 0
  /\ LET d == IF au.open THEN MaxOf(dsize, au.at + au.bytes) ELSE dsize
         off == AlignUp(d, NaturalAlign(ThisMember))
     IN /\ dsize' = d
        /\ size' = MaxOf(size, off)
        /\ placed' = placed \union {Bits(off, 0, 0)}
  /\ au' = NoAU
  /\ align' = MaxOf(align, NaturalAlign(ThisMember))
  /\ fields' = fields + 1
  /\ UNCHANGED <<ctx, classes, phase, pod, hasVptr, empties, walk>>

PackBitfield ==
  /\ AtBitfield
  /\ ThisMember.width # 0
  /\ FitsOpenUnit
  /\ LET used == au.used + ThisMember.width
         end == au.at + au.bytes
     IN /\ placed' = placed \union
             {Bits(au.at + (au.used \div 8), au.used % 8, ThisMember.width)}
        /\ au' = CloseOrKeep(au.at, used)
        /\ size' = MaxOf(size, end)
        /\ dsize' = MaxOf(dsize, end)
  /\ align' = MaxOf(align, NaturalAlign(ThisMember))
  /\ fields' = fields + 1
  /\ UNCHANGED <<ctx, classes, phase, pod, hasVptr, empties, walk>>

(* A width beyond the unit is clamped to it. *)
OpenUnit ==
  /\ AtBitfield
  /\ ThisMember.width # 0
  /\ ~FitsOpenUnit
  /\ LET off == AlignUp(dsize, NaturalAlign(ThisMember))
         used == MinOf(ThisMember.width, UnitBits)
         end == off + TypeSize(ThisMember)
     IN /\ placed' = placed \union {Bits(off, 0, used)}
        /\ au' = CloseOrKeep(off, used)
        /\ size' = MaxOf(size, end)
        /\ dsize' = MaxOf(dsize, end)
  /\ align' = MaxOf(align, NaturalAlign(ThisMember))
  /\ fields' = fields + 1
  /\ UNCHANGED <<ctx, classes, phase, pod, hasVptr, empties, walk>>

(* place_union_field: every member at 0; packing is not consulted. *)
PlaceUnionField ==
  /\ AtMember
  /\ decl.kind = "union"
  /\ TypeOk(ThisMember)
  /\ size' = MaxOf(size, TypeSize(ThisMember))
  /\ align' = MaxOf(align, NaturalAlign(ThisMember))
  /\ placed' = placed \union
       {Bytes("field", fields + 1, 0, TypeSize(ThisMember), NaturalAlign(ThisMember))}
  /\ fields' = fields + 1
  /\ pod' = (pod /\ ~Taints(ThisMember))
  /\ UNCHANGED <<ctx, classes, phase, dsize, hasVptr, empties, au, walk>>

-----------------------------------------------------------------------------
(* Steps 4 and 5: alignas, the snapshot of the non-virtual portion, and the  *)
(* virtual bases past its end.                                               *)

(* alignas on the class only ever raises its alignment. *)
SourceAlignBug == decl.align
SourceAlign == MaxOf(align, decl.align)

(* nv_size_for_bases, for a data size d and an alignment a. *)
NonVirtualSize(d, a) ==
  IF IsEmpty THEN 0 ELSE IF pod THEN AlignUp(d, a) ELSE d

SnapshotNonVirtual ==
  /\ phase = "fields"
  /\ fields = Len(decl.fields)
  /\ dsize' = IF decl.kind = "union" THEN size ELSE dsize
  /\ align' = SourceAlign
  /\ nv' = [size |-> NonVirtualSize(dsize', align'), align |-> align']
  /\ vend' = dsize'
  /\ vbases' = << >>
  /\ next' = 1 /\ vnext' = 1
  /\ phase' = "vbases"
  /\ UNCHANGED <<ctx, classes, pod, fields, size, hasVptr, placed, empties, au>>

(* collect_virtual_bases walks each base post-order: the virtual bases of    *)
(* the base, then the base itself when it is virtual.                        *)
Candidates ==
  classes[ThisBase.class].vbases \o (IF ThisBase.virt THEN <<ThisBase.class>> ELSE << >>)

Collected(id) == \E i \in DOMAIN vbases : vbases[i] = id

Walking == phase = "vbases" /\ next <= Len(decl.bases)

NextBase ==
  /\ Walking
  /\ vnext > Len(Candidates)
  /\ next' = next + 1
  /\ vnext' = 1
  /\ UNCHANGED <<ctx, classes, phase, pod, fields, state, vbases, nv, vend>>

SkipCollected ==
  /\ Walking
  /\ vnext <= Len(Candidates)
  /\ Collected(Candidates[vnext])
  /\ vnext' = vnext + 1
  /\ UNCHANGED <<ctx, classes, phase, pod, fields, state, next, vbases, nv, vend>>

PlaceVirtualBase ==
  /\ Walking
  /\ vnext <= Len(Candidates)
  /\ ~Collected(Candidates[vnext])
  /\ LET id == Candidates[vnext]
         b == classes[id]
         off == AlignUp(vend, b.nvAlign)
     IN /\ b.ok
        /\ vbases' = Append(vbases, id)
        /\ placed' = placed \union {Bytes("vbase", id, off, b.nvSize, b.nvAlign)}
        /\ vend' = off + b.nvSize
        /\ size' = MaxOf(size, off + b.nvSize)
        /\ align' = MaxOf(align, b.align)
  /\ vnext' = vnext + 1
  /\ UNCHANGED <<ctx, classes, phase, pod, fields, dsize, hasVptr, empties, au, next, nv>>

-----------------------------------------------------------------------------
(* Step 6: the size of the complete object, and the RecordLayout. *)

Layout(ok, sz, al, ds, nvSz, nvAl, vptr, pieces, emp, vbs) ==
  [ok |-> ok, size |-> sz, align |-> al, dsize |-> ds, nvSize |-> nvSz,
   nvAlign |-> nvAl, hasVptr |-> vptr, placed |-> pieces, empties |-> emp,
   vbases |-> vbs, pod |-> pod, empty |-> IsEmpty]

Finalize ==
  /\ phase = "vbases"
  /\ next > Len(decl.bases)
  /\ LET raw == MaxOf(size, dsize)
         sz == AlignUp(MaxOf(raw, 1), align)
     IN classes' = Append(classes,
                     Layout(TRUE, sz, align, IF pod THEN sz ELSE raw, nv.size, nv.align,
                            hasVptr, placed, empties, vbases))
  /\ phase' = "idle"
  /\ UNCHANGED <<ctx, pod, fields, state, walk>>

(* An unsized member, or a base whose own layout failed: `?' returns the     *)
(* LayoutError, and every class built on this one fails in turn.             *)
LayoutError ==
  \/ /\ phase = "primary"
     /\ \E i \in DOMAIN decl.bases : IsPrimary(i) /\ ~classes[decl.bases[i].class].ok
  \/ AtBase /\ ~Deferred /\ ~classes[ThisBase.class].ok
  \/ AtMember /\ ~TypeOk(ThisMember)
  \/ /\ Walking
     /\ vnext <= Len(Candidates)
     /\ ~Collected(Candidates[vnext])
     /\ ~classes[Candidates[vnext]].ok

Fail ==
  /\ LayoutError
  /\ classes' = Append(classes,
                  Layout(FALSE, 0, 1, 0, 0, 1, FALSE, {}, {}, << >>))
  /\ phase' = "idle"
  /\ UNCHANGED <<ctx, pod, fields, state, walk>>

Next ==
  \/ BeginClass
  \/ PlacePrimary \/ AllocateVptr \/ NoVptr
  \/ SkipBase \/ PlaceEmptyBase \/ PlaceNonEmptyBase \/ BasesDone
  \/ PlaceField \/ PlaceZeroWidth \/ PackBitfield \/ OpenUnit \/ PlaceUnionField
  \/ SnapshotNonVirtual
  \/ NextBase \/ SkipCollected \/ PlaceVirtualBase
  \/ Finalize \/ Fail

Spec == Init /\ [][Next]_vars

-----------------------------------------------------------------------------
(* Properties. *)

Role == {"vptr", "base", "vbase", "field", "bits"}

PieceType == [role: Role, of: Nat, lo: Nat, hi: Nat, align: Nat]

LayoutType ==
  [ok: BOOLEAN, size: Nat, align: Nat \ {0}, dsize: Nat, nvSize: Nat,
   nvAlign: Nat \ {0}, hasVptr: BOOLEAN, placed: SUBSET PieceType,
   empties: SUBSET (Nat \X Nat), vbases: Seq(Nat), pod: BOOLEAN, empty: BOOLEAN]

CtxOK ==
  /\ ctx \in Programs
  /\ classes \in Seq(LayoutType)
  /\ Len(classes) <= Len(ctx)
  /\ \A c \in ClassIds : \A i \in 1 .. Len(classes[c].vbases) :
       classes[c].vbases[i] \in 1 .. (c - 1)

PhaseOK ==
  /\ phase \in {"idle", "primary", "bases", "fields", "vbases"}
  /\ phase # "idle" => Len(classes) < Len(ctx)

StateOK ==
  /\ size \in Nat /\ dsize \in Nat /\ align \in Nat \ {0}
  /\ hasVptr \in BOOLEAN /\ pod \in BOOLEAN
  /\ fields \in Nat
  /\ placed \in SUBSET PieceType
  /\ empties \in SUBSET (Nat \X Nat)
  /\ au \in [open: BOOLEAN, at: Nat, bytes: Nat, used: Nat]

WalkOK ==
  /\ next \in Nat \ {0} /\ vnext \in Nat \ {0}
  /\ vbases \in Seq(Nat)
  /\ \A i \in 1 .. Len(vbases) : vbases[i] \in ClassIds
  /\ nv \in [size: Nat, align: Nat \ {0}]
  /\ vend \in Nat

(* Type correctness: the LayoutState is well typed and every finished class  *)
(* has a layout of the right shape whose virtual bases are earlier classes.  *)
TypeOK == CtxOK /\ PhaseOK /\ StateOK /\ WalkOK

Occupies(p) == p.hi > p.lo
Disjoint(p, q) == p.hi <= q.lo \/ q.hi <= p.lo

(* No two subobjects of a class share a bit: not the vptr, the bases (up to  *)
(* their non-virtual size), the members, the bit-fields of one storage unit, *)
(* nor the virtual bases.  Bases reuse tail padding and bit-fields share     *)
(* bytes, so this relates every placement to all earlier ones.               *)
SubobjectsDisjoint ==
  \A c \in ClassIds : ctx[c].kind = "class" =>
    \A p, q \in classes[c].placed :
      p # q /\ Occupies(p) /\ Occupies(q) => Disjoint(p, q)

(* What a derived class relies on when it places this class by nvSize, and   *)
(* an array or a member by size: the non-virtual subobjects end within       *)
(* nvSize, every subobject within size.                                      *)
SubobjectsInside ==
  \A c \in ClassIds : classes[c].ok =>
    /\ classes[c].nvSize <= classes[c].size
    /\ classes[c].dsize <= classes[c].size
    /\ \A p \in classes[c].placed :
         Occupies(p) => p.hi <= 8 * (IF p.role = "vbase" THEN classes[c].size
                                     ELSE classes[c].nvSize)

(* Every subobject is aligned for its own type in every array element: its   *)
(* offset, and the size of the class, are multiples of its alignment; and a  *)
(* bit-field never straddles two storage units of its declared type, so that *)
(* one load of that type reads it whole.                                     *)
SubobjectsAligned ==
  \A c \in ClassIds : classes[c].ok =>
    /\ classes[c].size % classes[c].align = 0
    /\ \A p \in classes[c].placed :
         IF p.role = "bits"
         THEN Occupies(p) => p.lo \div (8 * p.align) = (p.hi - 1) \div (8 * p.align)
         ELSE p.lo % (8 * p.align) = 0 /\ classes[c].align % p.align = 0

(* The base of class c that is the first polymorphic one: its primary base.  *)
FirstPoly(c, id) ==
  \E i \in DOMAIN ctx[c].bases :
    /\ ctx[c].bases[i].class = id /\ ctx[id].poly
    /\ \A j \in 1 .. (i - 1) : ~ctx[ctx[c].bases[j].class].poly

DirectBases(c) == {p \in classes[c].placed : p.role = "base"}

(* The empty bases of class c that empty_subobjects knows of, each with the  *)
(* path to it, its class and its offset.                                     *)
Inherited(id, known) == {<< <<id>> \o s[1], s[2], s[3]>> : s \in known}

Recorded[c \in ClassIds] ==
  {<< <<p.of>>, p.of, p.lo>> : p \in {q \in DirectBases(c) : classes[q.of].nvSize = 0}}
    \cup (UNION {Inherited(p.of, Recorded[p.of]) :
                    p \in {q \in DirectBases(c) : q.lo = 0 /\ FirstPoly(c, q.of)}})

(* place_base, find_empty_base_offset: two objects of one empty class have   *)
(* two addresses, among the bases a class places itself and those it inherits*)
(* through the chain of primary bases.  (What lies inside another base is    *)
(* not recorded, and may coincide.)                                          *)
EmptyBasesApart ==
  \A c \in ClassIds : \A s, t \in Recorded[c] : s # t /\ s[2] = t[2] => s[3] # t[3]
=============================================================================
