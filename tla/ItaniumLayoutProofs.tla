------------------------- MODULE ItaniumLayoutProofs -------------------------
(* Every reachable state of ItaniumLayout is well typed; and where the layout *)
(* engine puts subobjects, proved for every program: the occupied subobjects  *)
(* of a class stay inside it and never overlap, and each is aligned for its   *)
(* type.  Then what others take from a finished layout: the accessors of its  *)
(* bit-fields read back what they wrote (BitfieldsCorrect), calls that pass   *)
(* and return its classes agree with their callees (CallsCorrect), and empty  *)
(* bases of one class have different addresses in the classes derived from it *)
(* (EmptiesCorrect); and the layouts of the MSVC engine (MsvcCorrect).        *)
EXTENDS MsvcLayout, BitfieldAccess, Codegen, SequenceLemmas

-----------------------------------------------------------------------------
(* Rounding up. *)

LEMMA DivBounds ==
  ASSUME NEW x \in Nat, NEW a \in Nat \ {0}
  PROVE  /\ x \div a \in Nat
         /\ (x \div a) * a <= x
         /\ x < (x \div a) * a + a
  OBVIOUS

LEMMA AlignUpGrows ==
  ASSUME NEW v \in Nat, NEW a \in Nat
  PROVE  AlignUp(v, a) \in Nat /\ AlignUp(v, a) >= v /\ AlignUp(v,a) < v + MaxOf(a,1)
  <1>1. CASE a <= 1
    BY <1>1 DEF AlignUp, MaxOf
  <1>2. CASE a > 1
    <2>1. v + a - 1 \in Nat /\ a \in Nat \ {0}
      BY <1>2
    <2> DEFINE q == (v + a - 1) \div a
    <2>2. q \in Nat /\ q * a <= v + a - 1 /\ v + a - 1 < q * a + a
      BY <2>1, DivBounds
    <2>3. AlignUp(v, a) = q * a
      BY <1>2 DEF AlignUp
    <2>4. q * a \in Nat
      BY <2>2
    <2> HIDE DEF q
    <2>5. QED BY <2>2, <2>3, <2>4, <1>2 DEF MaxOf
  <1>3. QED BY <1>1, <1>2

LEMMA MultipleMod ==
  ASSUME NEW q \in Nat, NEW a \in Nat \ {0}
  PROVE  (q * a) % a = 0
  OBVIOUS

LEMMA AlignUpAligned ==
  ASSUME NEW v \in Nat, NEW a \in Nat \ {0}
  PROVE  AlignUp(v, a) % a = 0
  <1>1. CASE a = 1
    BY <1>1 DEF AlignUp
  <1>2. CASE a > 1
    <2> DEFINE q == (v + a - 1) \div a
    <2>1. q \in Nat
      BY <1>2, DivBounds
    <2>2. AlignUp(v, a) = q * a
      BY <1>2 DEF AlignUp
    <2> HIDE DEF q
    <2>3. QED BY <2>1, <2>2, MultipleMod
  <1>3. QED BY <1>1, <1>2

-----------------------------------------------------------------------------
(* What the class in hand and its bases look like. *)

LEMMA DeclTyped ==
  ASSUME CtxOK, Len(classes) < Len(ctx)
  PROVE  /\ decl \in ClassDef
         /\ decl.bases \in Seq(Base) /\ decl.fields \in Seq(Member)
         /\ \A i \in 1 .. Len(decl.bases) : decl.bases[i].class \in ClassIds
         /\ \A k \in 1 .. Len(decl.fields) : decl.fields[k].rec \in {0} \union ClassIds
  <1>1. ctx \in Programs /\ Len(classes) \in Nat
    BY DEF CtxOK
  <1>2. WellFormed(ctx)
    BY <1>1, ProgramAssumption
  <1>3. ctx \in Seq(ClassDef)
    BY <1>2 DEF WellFormed
  <1>4. Len(classes) + 1 \in DOMAIN ctx
    BY <1>1, <1>3
  <1>5. decl \in ClassDef
    BY <1>3, <1>4 DEF decl
  <1>6. decl.bases \in Seq(Base) /\ decl.fields \in Seq(Member)
    BY <1>5 DEF ClassDef
  <1>7. \A i \in 1 .. Len(decl.bases) : decl.bases[i].class \in ClassIds
    BY <1>1, <1>2, <1>4, <1>6 DEF WellFormed, decl, ClassIds
  <1>8. \A k \in 1 .. Len(decl.fields) : decl.fields[k].rec \in {0} \union ClassIds
    BY <1>1, <1>2, <1>4, <1>6 DEF WellFormed, decl, ClassIds
  <1>9. QED
    BY <1>5, <1>6, <1>7, <1>8

LEMMA ClassTyped ==
  ASSUME CtxOK, NEW c \in ClassIds
  PROVE  /\ c \in Nat /\ classes[c] \in LayoutType
         /\ classes[c].size \in Nat /\ classes[c].align \in Nat \ {0}
         /\ classes[c].dsize \in Nat /\ classes[c].nvSize \in Nat
         /\ classes[c].nvAlign \in Nat \ {0} /\ classes[c].hasVptr \in BOOLEAN
         /\ classes[c].placed \in SUBSET PieceType
         /\ classes[c].empties \in SUBSET (Nat \X Nat)
         /\ classes[c].vbases \in Seq(Nat)
         /\ classes[c].pod \in BOOLEAN /\ classes[c].ok \in BOOLEAN
         /\ classes[c].empty \in BOOLEAN
  <1>1. c \in Nat /\ classes[c] \in LayoutType
    BY DEF CtxOK, ClassIds
  <1>2. QED
    BY <1>1 DEF LayoutType

(* The class of a base still to be placed, and the type of the next member. *)
LEMMA BaseTyped ==
  ASSUME CtxOK, Len(classes) < Len(ctx), NEW i \in DOMAIN decl.bases
  PROVE  decl.bases[i].class \in ClassIds
  BY DeclTyped

LEMMA MemberTyped ==
  ASSUME CtxOK, StateOK, Len(classes) < Len(ctx), fields < Len(decl.fields)
  PROVE  /\ ThisMember \in Member
         /\ TypeSize(ThisMember) \in Nat
         /\ NaturalAlign(ThisMember) \in Nat \ {0}
         /\ Taints(ThisMember) \in BOOLEAN
  <1>1. ThisMember \in Member /\ ThisMember.rec \in {0} \union ClassIds
    BY DeclTyped DEF ThisMember, StateOK
  <1>2. /\ ThisMember.len \in Nat /\ ThisMember.size \in Nat
        /\ ThisMember.align \in Nat /\ ThisMember.explicit \in Nat
        /\ ThisMember.ref \in BOOLEAN
    BY <1>1 DEF Member
  <1>3. ThisMember.rec # 0 => ThisMember.rec \in ClassIds
    BY <1>1
  <1>4. TypeSize(ThisMember) \in Nat
    BY <1>2, <1>3, ClassTyped DEF TypeSize
  <1>5. TypeAlign(ThisMember) \in Nat
    BY <1>2, <1>3, ClassTyped DEF TypeAlign
  <1>6. NaturalAlign(ThisMember) \in Nat \ {0}
    BY <1>2, <1>5 DEF NaturalAlign, MaxOf
  <1>7. QED
    BY <1>1, <1>4, <1>6, <1>2, <1>3, ClassTyped DEF Taints

LEMMA BytesTyped ==
  ASSUME NEW r \in Role, NEW of \in Nat, NEW off \in Nat, NEW sz \in Nat, NEW al \in Nat
  PROVE  Bytes(r, of, off, sz, al) \in PieceType
  BY DEF Bytes, Piece, PieceType

LEMMA BitsTyped ==
  ASSUME NEW off \in Nat, NEW bit \in Nat, NEW w \in Nat, fields \in Nat,
         TypeSize(ThisMember) \in Nat
  PROVE  Bits(off, bit, w) \in PieceType
  BY DEF Bits, Piece, PieceType, Role

LEMMA MaxOfTyped ==
  ASSUME NEW a \in Nat, NEW b \in Nat
  PROVE  /\ MaxOf(a, b) \in Nat /\ MaxOf(a, b) >= a /\ MaxOf(a, b) >= b
         /\ a # 0 => MaxOf(a, b) \in Nat \ {0}
  BY DEF MaxOf

LEMMA NoAUTyped == NoAU \in [open: BOOLEAN, at: Nat, bytes: Nat, used: Nat]
  BY DEF NoAU

-----------------------------------------------------------------------------
(* A part of the state that no variable of it changes keeps its type. *)

LEMMA CtxStutter == ASSUME UNCHANGED <<ctx, classes>>, CtxOK PROVE CtxOK'
  BY DEF CtxOK, ClassIds
LEMMA PhaseStutter == ASSUME UNCHANGED <<ctx, classes, phase>>, PhaseOK PROVE PhaseOK'
  BY DEF PhaseOK
LEMMA StateStutter == ASSUME UNCHANGED <<state, pod, fields>>, StateOK PROVE StateOK'
  BY DEF StateOK, state
LEMMA WalkStutter == ASSUME UNCHANGED <<classes, walk>>, WalkOK PROVE WalkOK'
  BY DEF WalkOK, walk, ClassIds

(* A phase change of the class in hand. *)
LEMMA PhaseStep ==
  ASSUME PhaseOK, UNCHANGED <<ctx, classes>>, Len(classes) < Len(ctx),
         phase' \in {"primary", "bases", "fields", "vbases"}
  PROVE  PhaseOK'
  BY DEF PhaseOK

-----------------------------------------------------------------------------
(* Type correctness, one lemma per group of actions. *)

LEMMA InitTyped == Init => TypeOK
  <1> SUFFICES ASSUME Init PROVE TypeOK
    OBVIOUS
  <1>1. WellFormed(ctx) /\ ctx \in Programs
    BY ProgramAssumption DEF Init
  <1>2. ctx \in Seq(ClassDef)
    BY <1>1 DEF WellFormed
  <1>3. CtxOK /\ PhaseOK
    BY <1>1, <1>2 DEF Init, CtxOK, PhaseOK, ClassIds
  <1>4. StateOK
    <2>1. size \in Nat /\ dsize \in Nat /\ align \in Nat \ {0} /\ fields \in Nat
      BY DEF Init
    <2>2. hasVptr \in BOOLEAN /\ pod \in BOOLEAN
      BY DEF Init
    <2>3. placed \in SUBSET PieceType /\ empties \in SUBSET (Nat \X Nat)
      BY DEF Init
    <2>4. au \in [open: BOOLEAN, at: Nat, bytes: Nat, used: Nat]
      BY NoAUTyped DEF Init
    <2>5. QED
      BY <2>1, <2>2, <2>3, <2>4 DEF StateOK
  <1>5. WalkOK
    <2>1. vbases = << >> /\ vbases \in Seq(Nat)
      BY DEF Init
    <2>2. \A i \in 1 .. Len(vbases) : vbases[i] \in ClassIds
      BY <2>1
    <2>3. QED
      BY <2>1, <2>2 DEF Init, WalkOK
  <1>6. QED
    BY <1>3, <1>4, <1>5 DEF TypeOK

LEMMA BeginTyped == TypeOK /\ BeginClass => TypeOK'
  <1> SUFFICES ASSUME CtxOK, PhaseOK, StateOK, WalkOK, BeginClass PROVE TypeOK'
    BY DEF TypeOK
  <1>1. CtxOK'
    BY CtxStutter DEF BeginClass
  <1>2. PhaseOK'
    BY DEF PhaseOK, BeginClass
  <1>3. StateOK'
    <2>1. pod' \in BOOLEAN
      BY Zenon DEF BeginClass
    <2>2. /\ size' \in Nat /\ dsize' \in Nat /\ align' \in Nat \ {0} /\ fields' \in Nat
          /\ placed' = {} /\ empties' = {} /\ hasVptr' = FALSE /\ au' = NoAU
      BY DEF BeginClass
    <2>3. placed' \in SUBSET PieceType /\ empties' \in SUBSET (Nat \X Nat)
      BY <2>2
    <2>4. QED
      BY <2>1, <2>2, <2>3, NoAUTyped DEF StateOK
  <1>4. WalkOK'
    BY DEF WalkOK, BeginClass, ClassIds
  <1>5. QED
    BY <1>1, <1>2, <1>3, <1>4 DEF TypeOK

LEMMA PrimaryTyped == TypeOK /\ (PlacePrimary \/ AllocateVptr \/ NoVptr) => TypeOK'
  <1> SUFFICES ASSUME CtxOK, PhaseOK, StateOK, WalkOK,
                      PlacePrimary \/ AllocateVptr \/ NoVptr
               PROVE  TypeOK'
    BY DEF TypeOK
  <1>1. /\ UNCHANGED <<ctx, classes, walk>>
        /\ phase = "primary" /\ phase' = "bases"
    BY DEF PlacePrimary, AllocateVptr, NoVptr
  <1>2. Len(classes) < Len(ctx)
    BY <1>1 DEF PhaseOK
  <1>3. CtxOK' /\ WalkOK' /\ PhaseOK'
    BY <1>1, <1>2, CtxStutter, WalkStutter, PhaseStep
  <1>4. ASSUME PlacePrimary PROVE StateOK'
    <2>1. PICK i \in DOMAIN decl.bases : PlacePrimary!2!(i)
      BY <1>4 DEF PlacePrimary
    <2> DEFINE id == decl.bases[i].class
    <2>2. id \in ClassIds
      BY <1>2, BaseTyped
    <2>3. Bytes("base", id, 0, classes[id].nvSize, classes[id].nvAlign) \in PieceType
      BY <2>2, ClassTyped, BytesTyped DEF Role
    <2>4. UNCHANGED <<pod, fields, au>>
      BY <1>4 DEF PlacePrimary
    <2> HIDE DEF id
    <2>5. size' \in Nat /\ dsize' \in Nat /\ align' \in Nat \ {0}
      BY <2>1, <2>2, ClassTyped, MaxOfTyped DEF StateOK, id
    <2>6. QED
      BY <2>1, <2>2, <2>3, <2>4, <2>5, ClassTyped DEF StateOK, HandedUp, id
  <1>5. ASSUME AllocateVptr PROVE StateOK'
    <2>1. Bytes("vptr", 0, 0, PtrSize, PtrSize) \in PieceType
      BY PtrAssumption, BytesTyped DEF Role
    <2>2. MaxOf(align, PtrSize) \in Nat \ {0}
      BY PtrAssumption, MaxOfTyped DEF StateOK
    <2>3. QED
      BY <1>5, <2>1, <2>2, PtrAssumption DEF AllocateVptr, StateOK
  <1>6. ASSUME NoVptr PROVE StateOK'
    BY <1>6, StateStutter DEF NoVptr
  <1>7. QED
    BY <1>3, <1>4, <1>5, <1>6 DEF TypeOK

(* StateOK of the next state, from what an action that keeps `pod' and        *)
(* `fields' makes of the rest.                                               *)
LEMMA BaseStateStep ==
  ASSUME StateOK, UNCHANGED <<pod, fields, au>>,
         size' \in Nat, dsize' \in Nat, align' \in Nat \ {0},
         hasVptr' = hasVptr,
         empties' \in SUBSET (Nat \X Nat),
         NEW piece \in PieceType, placed' = placed \union {piece}
  PROVE  StateOK'
  BY DEF StateOK

LEMMA BasesTyped ==
  TypeOK /\ (SkipBase \/ PlaceEmptyBase \/ PlaceNonEmptyBase \/ BasesDone) => TypeOK'
  <1> SUFFICES ASSUME CtxOK, PhaseOK, StateOK, WalkOK,
                      SkipBase \/ PlaceEmptyBase \/ PlaceNonEmptyBase \/ BasesDone
               PROVE  TypeOK'
    BY DEF TypeOK
  <1>1. /\ UNCHANGED <<ctx, classes, vnext, vbases, nv, vend>>
        /\ phase = "bases" /\ phase' \in {"bases", "fields"}
    BY DEF SkipBase, PlaceEmptyBase, PlaceNonEmptyBase, BasesDone, AtBase, walk
  <1>2. Len(classes) < Len(ctx)
    BY <1>1 DEF PhaseOK
  <1>3. next' = next \/ next' = next + 1
    BY DEF SkipBase, PlaceEmptyBase, PlaceNonEmptyBase, BasesDone, walk
  <1>4. CtxOK' /\ PhaseOK'
    BY <1>1, <1>2, CtxStutter, PhaseStep
  <1>5. WalkOK'
    BY <1>1, <1>3 DEF WalkOK, ClassIds
  <1>6. ASSUME SkipBase \/ BasesDone PROVE StateOK'
    BY <1>6, StateStutter DEF SkipBase, BasesDone
  <1>7. ASSUME AtBase PROVE ThisBase.class \in ClassIds
    BY <1>2, <1>7, DeclTyped DEF AtBase, ThisBase, WalkOK
  <1>8. ASSUME PlaceNonEmptyBase PROVE StateOK'
    <2> DEFINE id == ThisBase.class
               b == classes[id]
               off == AlignUp(dsize, b.nvAlign)
    <2>1. id \in ClassIds
      BY <1>7, <1>8 DEF PlaceNonEmptyBase
    <2>2. /\ b.nvAlign \in Nat /\ b.nvSize \in Nat /\ b.align \in Nat /\ id \in Nat
      BY <2>1, ClassTyped
    <2>3. off \in Nat
      BY <2>2, AlignUpGrows DEF StateOK
    <2>4. Bytes("base", id, off, b.nvSize, b.nvAlign) \in PieceType
      BY <2>2, <2>3, BytesTyped DEF Role
    <2>5. /\ size' = MaxOf(size, off + b.nvSize) /\ dsize' = off + b.nvSize
          /\ align' = MaxOf(align, b.align)
          /\ placed' = placed \union {Bytes("base", id, off, b.nvSize, b.nvAlign)}
          /\ UNCHANGED <<pod, fields, au, hasVptr, empties>>
      BY <1>8 DEF PlaceNonEmptyBase
    <2> HIDE DEF id, b, off
    <2>6. size \in Nat /\ dsize \in Nat /\ align \in Nat \ {0}
      BY DEF StateOK
    <2>7. off + b.nvSize \in Nat
      BY <2>2, <2>3
    <2>8. size' \in Nat /\ dsize' \in Nat
      BY <2>6, <2>7, <2>5, MaxOfTyped
    <2>9. align' \in Nat \ {0}
      BY <2>6, <2>2, <2>5, MaxOfTyped
    <2>10. size' \in Nat /\ dsize' \in Nat /\ align' \in Nat \ {0}
      BY <2>8, <2>9
    <2>11. empties' \in SUBSET (Nat \X Nat) /\ hasVptr' = hasVptr
      BY <2>5 DEF StateOK
    <2>12. QED
      BY <2>4, <2>5, <2>10, <2>11, BaseStateStep
  <1>9. ASSUME PlaceEmptyBase PROVE StateOK'
    <2> DEFINE id == ThisBase.class
               b == classes[id]
               step == MaxOf(b.align, 1)
    <2>1. id \in ClassIds
      BY <1>7, <1>9 DEF PlaceEmptyBase
    <2>2. /\ b.align \in Nat /\ id \in Nat /\ step \in Nat
      BY <2>1, ClassTyped, MaxOfTyped
    <2>3. PICK k \in 0 .. Cardinality(empties) :
            /\ empties' = empties \union {<<id, k * step>>}
            /\ placed' = placed \union {Bytes("base", id, k * step, 0, b.align)}
      BY <1>9 DEF PlaceEmptyBase
    <2>4. /\ align' = MaxOf(align, b.align)
          /\ size' = size /\ dsize' = dsize
          /\ UNCHANGED <<pod, fields, au, hasVptr>>
      BY <1>9 DEF PlaceEmptyBase
    <2> HIDE DEF id, b, step
    <2>5. k \in Nat /\ k * step \in Nat
      BY <2>2, <2>3
    <2>6. Bytes("base", id, k * step, 0, b.align) \in PieceType
      BY <2>2, <2>5, BytesTyped DEF Role
    <2>7. size \in Nat /\ dsize \in Nat /\ align \in Nat \ {0}
      BY DEF StateOK
    <2>8. empties' \in SUBSET (Nat \X Nat)
      BY <2>2, <2>3, <2>5 DEF StateOK
    <2>9. align' \in Nat \ {0}
      BY <2>2, <2>4, <2>7, MaxOfTyped
    <2>10. UNCHANGED <<pod, fields, au, hasVptr>>
      BY <2>4
    <2>11. QED
      BY <2>3, <2>4, <2>6, <2>7, <2>8, <2>9, <2>10, BaseStateStep
  <1>10. QED
    BY <1>4, <1>5, <1>6, <1>8, <1>9 DEF TypeOK

(* The same for an action that places one more member. *)
LEMMA MemberStateStep ==
  ASSUME StateOK, fields' = fields + 1, hasVptr' = hasVptr, empties' = empties,
         pod' \in BOOLEAN,
         size' \in Nat, dsize' \in Nat, align' \in Nat \ {0},
         au' \in [open: BOOLEAN, at: Nat, bytes: Nat, used: Nat],
         NEW piece \in PieceType, placed' = placed \union {piece}
  PROVE  StateOK'
  BY DEF StateOK

LEMMA CloseOrKeepTyped ==
  ASSUME NEW off \in Nat, NEW used \in Nat, TypeSize(ThisMember) \in Nat
  PROVE  CloseOrKeep(off, used) \in [open: BOOLEAN, at: Nat, bytes: Nat, used: Nat]
  BY NoAUTyped DEF CloseOrKeep

(* What every member action leaves alone. *)
LEMMA MemberFrame ==
  ASSUME CtxOK, PhaseOK, StateOK, WalkOK,
         UNCHANGED <<ctx, classes, phase, walk>>, AtMember
  PROVE  /\ CtxOK' /\ PhaseOK' /\ WalkOK'
         /\ ThisMember \in Member /\ TypeSize(ThisMember) \in Nat
         /\ NaturalAlign(ThisMember) \in Nat \ {0}
         /\ Taints(ThisMember) \in BOOLEAN
         /\ size \in Nat /\ dsize \in Nat /\ align \in Nat \ {0} /\ fields \in Nat
         /\ fields + 1 \in Nat
         /\ pod \in BOOLEAN /\ (pod /\ ~Taints(ThisMember)) \in BOOLEAN
         /\ au \in [open: BOOLEAN, at: Nat, bytes: Nat, used: Nat]
  <1>1. phase = "fields" /\ fields < Len(decl.fields) /\ Len(classes) < Len(ctx)
    BY DEF AtMember, PhaseOK
  <1>2. CtxOK' /\ PhaseOK' /\ WalkOK'
    BY CtxStutter, PhaseStutter, WalkStutter
  <1>3. /\ size \in Nat /\ dsize \in Nat /\ align \in Nat \ {0} /\ fields \in Nat
        /\ pod \in BOOLEAN
        /\ au \in [open: BOOLEAN, at: Nat, bytes: Nat, used: Nat]
    BY DEF StateOK
  <1>4. fields + 1 \in Nat
    BY <1>3
  <1>5. (pod /\ ~Taints(ThisMember)) \in BOOLEAN
    OBVIOUS
  <1>6. QED
    BY <1>1, <1>2, <1>3, <1>4, <1>5, MemberTyped

LEMMA FieldTyped == TypeOK /\ PlaceField => TypeOK'
  <1> SUFFICES ASSUME CtxOK, PhaseOK, StateOK, WalkOK, PlaceField PROVE TypeOK'
    BY DEF TypeOK
  <1> DEFINE al == IF decl.packed THEN MaxOf(ThisMember.explicit, 1)
                   ELSE NaturalAlign(ThisMember)
             off == AlignUp(dsize, al)
             end == off + TypeSize(ThisMember)
  <1>1. UNCHANGED <<ctx, classes, phase, walk>> /\ AtMember
    BY DEF PlaceField
  <1>2. /\ CtxOK' /\ PhaseOK' /\ WalkOK'
        /\ TypeSize(ThisMember) \in Nat /\ NaturalAlign(ThisMember) \in Nat \ {0}
        /\ ThisMember \in Member
        /\ size \in Nat /\ dsize \in Nat /\ align \in Nat \ {0} /\ fields + 1 \in Nat
        /\ (pod /\ ~Taints(ThisMember)) \in BOOLEAN
    BY <1>1, MemberFrame
  <1>3. al \in Nat \ {0}
    BY <1>2, MaxOfTyped DEF Member, MaxOf
  <1>4. /\ size' = MaxOf(size, end) /\ dsize' = end /\ align' = MaxOf(align, al)
        /\ placed' = placed \union {Bytes("field", fields + 1, off, TypeSize(ThisMember), al)}
        /\ au' = NoAU /\ fields' = fields + 1 /\ hasVptr' = hasVptr /\ empties' = empties
    BY DEF PlaceField
  <1>5. pod' = (pod /\ ~Taints(ThisMember))
    BY DEF PlaceField
  <1> HIDE DEF al
  <1>6. off \in Nat
    BY <1>2, <1>3, AlignUpGrows
  <1> HIDE DEF off
  <1>7. end \in Nat
    BY <1>2, <1>6
  <1> HIDE DEF end
  <1>8. size' \in Nat /\ dsize' \in Nat
    BY <1>2, <1>4, <1>7, MaxOfTyped
  <1>9. align' \in Nat \ {0}
    BY <1>2, <1>3, <1>4, MaxOfTyped
  <1>10. Bytes("field", fields + 1, off, TypeSize(ThisMember), al) \in PieceType
    BY <1>2, <1>3, <1>6, BytesTyped DEF Role
  <1>11. pod' \in BOOLEAN
    BY <1>2, <1>5
  <1>12. StateOK'
    BY <1>4, <1>8, <1>9, <1>10, <1>11, NoAUTyped, MemberStateStep
  <1>13. QED
    BY <1>2, <1>12 DEF TypeOK

LEMMA UnionFieldTyped == TypeOK /\ PlaceUnionField => TypeOK'
  <1> SUFFICES ASSUME CtxOK, PhaseOK, StateOK, WalkOK, PlaceUnionField PROVE TypeOK'
    BY DEF TypeOK
  <1> DEFINE al == NaturalAlign(ThisMember)
             sz == TypeSize(ThisMember)
  <1>1. UNCHANGED <<ctx, classes, phase, walk>> /\ AtMember
    BY DEF PlaceUnionField
  <1>2. /\ CtxOK' /\ PhaseOK' /\ WalkOK' /\ sz \in Nat /\ al \in Nat \ {0}
        /\ size \in Nat /\ dsize \in Nat /\ align \in Nat \ {0} /\ fields + 1 \in Nat
        /\ (pod /\ ~Taints(ThisMember)) \in BOOLEAN
        /\ au \in [open: BOOLEAN, at: Nat, bytes: Nat, used: Nat]
    BY <1>1, MemberFrame
  <1>3. /\ size' = MaxOf(size, sz) /\ dsize' = dsize /\ align' = MaxOf(align, al)
        /\ placed' = placed \union {Bytes("field", fields + 1, 0, sz, al)}
        /\ au' = au /\ fields' = fields + 1 /\ hasVptr' = hasVptr /\ empties' = empties
    BY DEF PlaceUnionField
  <1>4. pod' = (pod /\ ~Taints(ThisMember))
    BY DEF PlaceUnionField
  <1> HIDE DEF al, sz
  <1>5. size' \in Nat /\ dsize' \in Nat
    BY <1>2, <1>3, MaxOfTyped
  <1>6. align' \in Nat \ {0}
    BY <1>2, <1>3, MaxOfTyped
  <1>7. Bytes("field", fields + 1, 0, sz, al) \in PieceType
    BY <1>2, BytesTyped DEF Role
  <1>8. pod' \in BOOLEAN
    BY <1>2, <1>4
  <1>9. StateOK'
    BY <1>2, <1>3, <1>5, <1>6, <1>7, <1>8, MemberStateStep
  <1>10. QED
    BY <1>2, <1>9 DEF TypeOK

LEMMA BitfieldTyped ==
  TypeOK /\ (PlaceZeroWidth \/ PackBitfield \/ OpenUnit) => TypeOK'
  <1> SUFFICES ASSUME CtxOK, PhaseOK, StateOK, WalkOK,
                      PlaceZeroWidth \/ PackBitfield \/ OpenUnit
               PROVE  TypeOK'
    BY DEF TypeOK
  <1> DEFINE al == NaturalAlign(ThisMember)
             sz == TypeSize(ThisMember)
  <1>1. /\ UNCHANGED <<ctx, classes, phase, walk>> /\ AtMember
        /\ fields' = fields + 1 /\ hasVptr' = hasVptr /\ empties' = empties
        /\ align' = MaxOf(align, al)
    BY DEF PlaceZeroWidth, PackBitfield, OpenUnit, AtBitfield
  <1>2. /\ CtxOK' /\ PhaseOK' /\ WalkOK' /\ sz \in Nat /\ al \in Nat \ {0}
        /\ ThisMember \in Member /\ size \in Nat /\ dsize \in Nat /\ align \in Nat \ {0}
        /\ fields \in Nat /\ pod \in BOOLEAN
        /\ au \in [open: BOOLEAN, at: Nat, bytes: Nat, used: Nat]
    BY <1>1, MemberFrame
  <1>3. /\ au.at \in Nat /\ au.bytes \in Nat /\ au.used \in Nat
        /\ ThisMember.width \in Nat /\ UnitBits \in Nat
    BY <1>2 DEF Member, UnitBits
  <1>4. pod' \in BOOLEAN
    BY <1>2 DEF PlaceZeroWidth, PackBitfield, OpenUnit
  <1> HIDE DEF al
  <1>5. align' \in Nat \ {0}
    BY <1>1, <1>2, MaxOfTyped
  <1>6. ASSUME NEW off \in Nat, NEW bit \in Nat, NEW w \in Nat
        PROVE  Bits(off, bit, w) \in PieceType
    BY <1>2, BitsTyped
  <1>7. ASSUME PlaceZeroWidth PROVE StateOK'
    <2> DEFINE d == IF au.open THEN MaxOf(dsize, au.at + au.bytes) ELSE dsize
               off == AlignUp(d, al)
    <2>1. /\ dsize' = d /\ size' = MaxOf(size, off) /\ au' = NoAU
          /\ placed' = placed \union {Bits(off, 0, 0)}
      BY <1>7 DEF PlaceZeroWidth, al
    <2>2. au.at + au.bytes \in Nat
      BY <1>3
    <2>3. d \in Nat
      BY <1>2, <2>2, MaxOfTyped
    <2> HIDE DEF d
    <2>4. off \in Nat
      BY <1>2, <2>3, AlignUpGrows
    <2> HIDE DEF off
    <2>5. size' \in Nat /\ dsize' \in Nat
      BY <1>2, <2>1, <2>3, <2>4, MaxOfTyped
    <2>6. Bits(off, 0, 0) \in PieceType
      BY <1>6, <2>4
    <2>7. QED
      BY <1>1, <1>4, <1>5, <2>1, <2>5, <2>6, NoAUTyped, MemberStateStep
  <1>8. ASSUME PackBitfield PROVE StateOK'
    <2> DEFINE used == au.used + ThisMember.width
               end == au.at + au.bytes
               piece == Bits(au.at + (au.used \div 8), au.used % 8, ThisMember.width)
    <2>1. /\ placed' = placed \union {piece} /\ au' = CloseOrKeep(au.at, used)
          /\ size' = MaxOf(size, end) /\ dsize' = MaxOf(dsize, end)
      BY <1>8 DEF PackBitfield
    <2>2. au.at + (au.used \div 8) \in Nat /\ au.used % 8 \in Nat
      BY <1>3
    <2>3. piece \in PieceType
      BY <1>3, <1>6, <2>2
    <2>4. used \in Nat /\ end \in Nat
      BY <1>3
    <2> HIDE DEF used, end, piece
    <2>5. size' \in Nat /\ dsize' \in Nat
      BY <1>2, <2>1, <2>4, MaxOfTyped
    <2>6. au' \in [open: BOOLEAN, at: Nat, bytes: Nat, used: Nat]
      BY <1>2, <1>3, <2>1, <2>4, CloseOrKeepTyped
    <2>7. QED
      BY <1>1, <1>4, <1>5, <2>1, <2>3, <2>5, <2>6, MemberStateStep
  <1>9. ASSUME OpenUnit PROVE StateOK'
    <2> DEFINE off == AlignUp(dsize, al)
               used == MinOf(ThisMember.width, UnitBits)
               end == off + sz
    <2>1. /\ placed' = placed \union {Bits(off, 0, used)} /\ au' = CloseOrKeep(off, used)
          /\ size' = MaxOf(size, end) /\ dsize' = MaxOf(dsize, end)
      BY <1>9 DEF OpenUnit, al
    <2>2. off \in Nat
      BY <1>2, AlignUpGrows
    <2>3. used \in Nat
      BY <1>3 DEF MinOf
    <2> HIDE DEF off, used
    <2>4. end \in Nat
      BY <1>2, <2>2
    <2>5. Bits(off, 0, used) \in PieceType
      BY <1>6, <2>2, <2>3
    <2> HIDE DEF end
    <2>6. size' \in Nat /\ dsize' \in Nat
      BY <1>2, <2>1, <2>4, MaxOfTyped
    <2>7. au' \in [open: BOOLEAN, at: Nat, bytes: Nat, used: Nat]
      BY <1>2, <2>1, <2>2, <2>3, CloseOrKeepTyped
    <2>8. QED
      BY <1>1, <1>4, <1>5, <2>1, <2>5, <2>6, <2>7, MemberStateStep
  <1>10. QED
    BY <1>2, <1>7, <1>8, <1>9 DEF TypeOK

LEMMA SnapshotTyped == TypeOK /\ SnapshotNonVirtual => TypeOK'
  <1> SUFFICES ASSUME CtxOK, PhaseOK, StateOK, WalkOK, SnapshotNonVirtual PROVE TypeOK'
    BY DEF TypeOK
  <1>1. /\ UNCHANGED <<ctx, classes>> /\ phase = "fields" /\ phase' = "vbases"
        /\ UNCHANGED <<pod, fields, size, hasVptr, placed, empties, au>>
        /\ next' = 1 /\ vnext' = 1 /\ vbases' = << >> /\ vend' = dsize'
    BY DEF SnapshotNonVirtual
  <1>2. Len(classes) < Len(ctx)
    BY <1>1 DEF PhaseOK
  <1>3. CtxOK' /\ PhaseOK'
    BY <1>1, <1>2, CtxStutter, PhaseStep
  <1>4. size \in Nat /\ dsize \in Nat /\ align \in Nat \ {0}
    BY DEF StateOK
  <1>5. decl.align \in Nat
    BY <1>2, DeclTyped DEF ClassDef
  <1>6. dsize' \in Nat
    BY <1>4 DEF SnapshotNonVirtual
  <1>7. align' \in Nat \ {0}
    BY <1>4, <1>5, MaxOfTyped DEF SnapshotNonVirtual, SourceAlign
  <1>8. StateOK'
    BY <1>1, <1>6, <1>7 DEF StateOK
  <1>9. AlignUp(dsize', align') \in Nat
    BY <1>6, <1>7, AlignUpGrows
  <1>10. nv' = [size |-> IF IsEmpty THEN 0
                         ELSE IF pod THEN AlignUp(dsize', align') ELSE dsize',
                align |-> align']
    BY DEF SnapshotNonVirtual, NonVirtualSize
  <1>11. nv' \in [size: Nat, align: Nat \ {0}]
    BY <1>6, <1>7, <1>9, <1>10
  <1>12. vbases' \in Seq(Nat) /\ \A i \in 1 .. Len(vbases') : vbases'[i] \in ClassIds'
    BY <1>1
  <1>13. WalkOK'
    BY <1>1, <1>6, <1>11, <1>12 DEF WalkOK
  <1>14. QED
    BY <1>3, <1>8, <1>13 DEF TypeOK

(* The virtual bases a base brings along are classes laid out before.        *)
LEMMA CandidatesTyped ==
  ASSUME CtxOK, PhaseOK, WalkOK, Walking
  PROVE  /\ Candidates \in Seq(Nat)
         /\ \A i \in 1 .. Len(Candidates) : Candidates[i] \in ClassIds
  <1>1. Len(classes) < Len(ctx) /\ next \in 1 .. Len(decl.bases)
    BY DEF Walking, PhaseOK, WalkOK
  <1> DEFINE id == ThisBase.class
             own == classes[id].vbases
             self == IF ThisBase.virt THEN <<id>> ELSE << >>
  <1>2. id \in ClassIds
    BY <1>1, DeclTyped DEF ThisBase
  <1>3. id \in Nat /\ own \in Seq(Nat)
    BY <1>2, ClassTyped
  <1>4. \A i \in 1 .. Len(own) : own[i] \in ClassIds
    BY <1>2, <1>3 DEF CtxOK, ClassIds
  <1>5. Candidates = own \o self
    BY DEF Candidates
  <1> HIDE DEF id, own
  <1>6. self \in Seq(Nat) /\ \A i \in 1 .. Len(self) : self[i] \in ClassIds
    BY <1>2, <1>3
  <1> HIDE DEF self
  <1>7. QED
    BY <1>3, <1>4, <1>5, <1>6

LEMMA WalkTyped == TypeOK /\ (NextBase \/ SkipCollected) => TypeOK'
  <1> SUFFICES ASSUME CtxOK, PhaseOK, StateOK, WalkOK, NextBase \/ SkipCollected
               PROVE  TypeOK'
    BY DEF TypeOK
  <1>1. /\ UNCHANGED <<ctx, classes, phase>> /\ UNCHANGED <<state, pod, fields>>
        /\ UNCHANGED <<vbases, nv, vend>>
    BY DEF NextBase, SkipCollected
  <1>2. /\ next' = next \/ next' = next + 1
        /\ vnext' = 1 \/ vnext' = vnext + 1
    BY DEF NextBase, SkipCollected
  <1>3. CtxOK' /\ PhaseOK' /\ StateOK'
    BY <1>1, CtxStutter, PhaseStutter, StateStutter
  <1>4. WalkOK'
    BY <1>1, <1>2 DEF WalkOK, ClassIds
  <1>5. QED
    BY <1>3, <1>4 DEF TypeOK

LEMMA VirtualBaseTyped == TypeOK /\ PlaceVirtualBase => TypeOK'
  <1> SUFFICES ASSUME CtxOK, PhaseOK, StateOK, WalkOK, PlaceVirtualBase PROVE TypeOK'
    BY DEF TypeOK
  <1> DEFINE id == Candidates[vnext]
             b == classes[id]
             off == AlignUp(vend, b.nvAlign)
  <1>1. /\ UNCHANGED <<ctx, classes, phase>> /\ Walking /\ vnext <= Len(Candidates)
        /\ UNCHANGED <<pod, fields, dsize, hasVptr, empties, au, next, nv>>
        /\ vbases' = Append(vbases, id) /\ vend' = off + b.nvSize /\ vnext' = vnext + 1
        /\ placed' = placed \union {Bytes("vbase", id, off, b.nvSize, b.nvAlign)}
        /\ size' = MaxOf(size, off + b.nvSize) /\ align' = MaxOf(align, b.align)
    BY DEF PlaceVirtualBase
  <1>2. CtxOK' /\ PhaseOK'
    BY <1>1, CtxStutter, PhaseStutter
  <1>3. id \in ClassIds
    BY <1>1, CandidatesTyped DEF WalkOK
  <1>4. id \in Nat /\ b.nvAlign \in Nat /\ b.nvSize \in Nat /\ b.align \in Nat
    BY <1>3, ClassTyped
  <1>5. /\ size \in Nat /\ dsize \in Nat /\ align \in Nat \ {0} /\ vend \in Nat
    BY DEF StateOK, WalkOK
  <1> HIDE DEF id, b
  <1>6. off \in Nat
    BY <1>4, <1>5, AlignUpGrows
  <1> HIDE DEF off
  <1>7. off + b.nvSize \in Nat
    BY <1>4, <1>6
  <1>8. Bytes("vbase", id, off, b.nvSize, b.nvAlign) \in PieceType
    BY <1>4, <1>6, BytesTyped DEF Role
  <1>9. size' \in Nat /\ dsize' \in Nat
    BY <1>1, <1>5, <1>7, MaxOfTyped
  <1>10. align' \in Nat \ {0}
    BY <1>1, <1>4, <1>5, MaxOfTyped
  <1>11. hasVptr' = hasVptr /\ empties' \in SUBSET (Nat \X Nat) /\ UNCHANGED <<pod, fields, au>>
    BY <1>1 DEF StateOK
  <1>12. StateOK'
    BY <1>1, <1>8, <1>9, <1>10, <1>11, BaseStateStep
  <1>13. vbases' \in Seq(Nat) /\ \A i \in 1 .. Len(vbases') : vbases'[i] \in ClassIds
    <2>1. vbases \in Seq(Nat) /\ \A i \in 1 .. Len(vbases) : vbases[i] \in ClassIds
      BY DEF WalkOK
    <2>2. QED
      BY <2>1, <1>1, <1>3, <1>4
  <1>14. ClassIds' = ClassIds
    BY <1>1 DEF ClassIds
  <1>15. next' \in Nat \ {0} /\ vnext' \in Nat \ {0} /\ nv' \in [size: Nat, align: Nat \ {0}]
    BY <1>1 DEF WalkOK
  <1>16. WalkOK'
    BY <1>1, <1>7, <1>13, <1>14, <1>15 DEF WalkOK
  <1>17. QED
    BY <1>2, <1>12, <1>16 DEF TypeOK

(* One more finished class. *)
LEMMA FinishTyped ==
  ASSUME CtxOK, PhaseOK, StateOK, WalkOK, Len(classes) < Len(ctx), NEW l \in LayoutType,
         l.vbases = vbases \/ l.vbases = << >>,
         classes' = Append(classes, l), phase' = "idle",
         UNCHANGED <<ctx, pod, fields, state, walk>>
  PROVE  TypeOK'
  <1>1. ctx \in Programs /\ classes \in Seq(LayoutType)
    BY DEF CtxOK
  <1>2. classes' \in Seq(LayoutType) /\ Len(classes') = Len(classes) + 1
    BY <1>1
  <1>3. Len(ctx) \in Nat
    BY <1>1, ProgramAssumption DEF WellFormed
  <1>4. ASSUME NEW c \in ClassIds'
        PROVE  \A i \in 1 .. Len(classes'[c].vbases) : classes'[c].vbases[i] \in 1 .. (c - 1)
    <2>1. CASE c \in ClassIds
      <3>1. classes'[c] = classes[c]
        BY <1>1, <2>1 DEF ClassIds
      <3>2. QED
        BY <2>1, <3>1 DEF CtxOK
    <2>2. CASE c = Len(classes) + 1
      <3>1. classes'[c] = l
        BY <1>1, <2>2
      <3>2. ClassIds = 1 .. (c - 1)
        BY <1>1, <2>2 DEF ClassIds
      <3>3. CASE l.vbases = vbases
        BY <3>1, <3>2, <3>3 DEF WalkOK
      <3>4. CASE l.vbases = << >>
        BY <3>1, <3>4
      <3>5. QED
        BY <3>3, <3>4
    <2>3. QED
      BY <1>1, <1>2, <2>1, <2>2 DEF ClassIds
  <1>5. CtxOK'
    <2>1. ctx' \in Programs /\ ctx' = ctx
      BY <1>1
    <2>2. Len(classes') <= Len(ctx')
      BY <1>1, <1>2, <1>3, <2>1
    <2>3. QED
      BY <1>2, <1>4, <2>1, <2>2 DEF CtxOK
  <1>6. PhaseOK'
    BY DEF PhaseOK
  <1>7. StateOK'
    BY StateStutter
  <1>8. ClassIds \subseteq ClassIds'
    BY <1>1, <1>2 DEF ClassIds
  <1>9. WalkOK'
    BY <1>8 DEF WalkOK, walk
  <1>10. QED
    BY <1>5, <1>6, <1>7, <1>9 DEF TypeOK

LEMMA EmptyTyped == IsEmpty \in BOOLEAN
  BY Zenon DEF IsEmpty

LEMMA FinalizeTyped == TypeOK /\ Finalize => TypeOK'
  <1> SUFFICES ASSUME CtxOK, PhaseOK, StateOK, WalkOK, Finalize PROVE TypeOK'
    BY DEF TypeOK
  <1> DEFINE raw == MaxOf(size, dsize)
             sz == AlignUp(MaxOf(raw, 1), align)
             ds == IF pod THEN sz ELSE raw
             l == Layout(TRUE, sz, align, ds, nv.size, nv.align,
                         hasVptr, placed, empties, vbases)
  <1>1. /\ phase = "vbases" /\ classes' = Append(classes, l) /\ phase' = "idle"
        /\ UNCHANGED <<ctx, pod, fields, state, walk>>
    BY DEF Finalize
  <1>2. Len(classes) < Len(ctx)
    BY <1>1 DEF PhaseOK
  <1>3. /\ size \in Nat /\ dsize \in Nat /\ align \in Nat \ {0}
    BY DEF StateOK
  <1>4. raw \in Nat /\ MaxOf(raw, 1) \in Nat
    BY <1>3, MaxOfTyped
  <1>5. sz \in Nat
    BY <1>3, <1>4, AlignUpGrows
  <1> HIDE DEF sz, raw
  <1>6. ds \in Nat
    BY <1>4, <1>5
  <1> HIDE DEF ds
  <1>7. /\ hasVptr \in BOOLEAN /\ pod \in BOOLEAN /\ placed \in SUBSET PieceType
        /\ empties \in SUBSET (Nat \X Nat)
    BY DEF StateOK
  <1>8. vbases \in Seq(Nat) /\ nv.size \in Nat /\ nv.align \in Nat \ {0}
    BY DEF WalkOK
  <1>9. l \in LayoutType
    BY <1>3, <1>5, <1>6, <1>7, <1>8, EmptyTyped DEF Layout, LayoutType
  <1>10. l.vbases = vbases
    BY DEF Layout
  <1> HIDE DEF l
  <1>11. QED
    BY <1>1, <1>2, <1>9, <1>10, FinishTyped

LEMMA FailTyped == TypeOK /\ Fail => TypeOK'
  <1> SUFFICES ASSUME CtxOK, PhaseOK, StateOK, WalkOK, Fail PROVE TypeOK'
    BY DEF TypeOK
  <1> DEFINE l == Layout(FALSE, 0, 1, 0, 0, 1, FALSE, {}, {}, << >>)
  <1>1. /\ classes' = Append(classes, l) /\ phase' = "idle"
        /\ UNCHANGED <<ctx, pod, fields, state, walk>> /\ LayoutError
    BY DEF Fail
  <1>2. phase # "idle"
    BY <1>1 DEF LayoutError, AtBase, AtMember, Walking
  <1>3. Len(classes) < Len(ctx)
    BY <1>2 DEF PhaseOK
  <1>4. pod \in BOOLEAN
    BY DEF StateOK
  <1>5. {} \in SUBSET PieceType /\ {} \in SUBSET (Nat \X Nat) /\ << >> \in Seq(Nat)
    OBVIOUS
  <1>6. l \in LayoutType
    BY <1>4, <1>5, EmptyTyped DEF Layout, LayoutType
  <1>7. l.vbases = << >>
    BY DEF Layout
  <1> HIDE DEF l
  <1>8. QED
    BY <1>1, <1>3, <1>6, <1>7, FinishTyped

LEMMA StepTyped == TypeOK /\ [Next]_vars => TypeOK'
  <1>1. ASSUME TypeOK, UNCHANGED vars PROVE TypeOK'
    <2>1. /\ UNCHANGED <<ctx, classes, phase>> /\ UNCHANGED <<state, pod, fields>>
          /\ UNCHANGED walk
      BY <1>1 DEF vars
    <2>2. QED
      BY <1>1, <2>1, CtxStutter, PhaseStutter, StateStutter, WalkStutter DEF TypeOK
  <1>2. QED
    BY <1>1, BeginTyped, PrimaryTyped, BasesTyped, FieldTyped, BitfieldTyped,
       UnionFieldTyped, SnapshotTyped, WalkTyped, VirtualBaseTyped, FinalizeTyped,
       FailTyped DEF Next

(* Every reachable LayoutState and RecordLayout is well typed, for every set *)
(* of well-formed programs and every pointer size: alignments are positive,  *)
(* offsets never go negative, and the virtual bases a class reports are      *)
(* classes laid out before it.                                               *)
THEOREM TypeCorrect == Spec => []TypeOK
  <1>1. QED
    BY InitTyped, StepTyped, PTL DEF Spec

-----------------------------------------------------------------------------
(* The inductive invariant behind SubobjectsInside and SubobjectsDisjoint.   *)
(* A finished class says nothing of how it got there, so the invariant says  *)
(* it of the class in hand: all that is placed ends at `Edge', where the     *)
(* next subobject may start, and inside the open bit-field unit at the first *)
(* unused bit.                                                               *)

InHand == phase # "idle"
Record == decl.kind = "class"

Edge == IF phase = "vbases" THEN vend ELSE IF Record THEN dsize ELSE size

BelowEdge == InHand => \A p \in placed : Occupies(p) => p.hi <= 8 * Edge

BelowUnit ==
  /\ phase \in {"primary", "bases"} => ~au.open
  /\ phase = "fields" /\ Record /\ au.open =>
       \A p \in placed : Occupies(p) => p.hi <= 8 * au.at + au.used

Apart ==
  InHand /\ Record =>
    \A p, q \in placed : p # q /\ Occupies(p) /\ Occupies(q) => Disjoint(p, q)

PrimaryFirst ==
  /\ phase = "primary" => placed = {} /\ dsize = 0
  /\ phase \in {"primary", "bases"} => Record

VirtualLast ==
  phase \in {"primary", "bases", "fields"} => \A p \in placed : p.role # "vbase"

(* Once the non-virtual portion is cut off, it holds all but the virtual     *)
(* bases, and these are within the size.                                     *)
Cut ==
  phase = "vbases" =>
    /\ nv.size <= dsize \/ (pod /\ nv.size = AlignUp(dsize, align))
    /\ pod => vbases = << >>
    /\ IsEmpty => nv.size = 0
    /\ \A p \in placed :
         Occupies(p) => p.hi <= 8 * (IF p.role = "vbase" THEN size ELSE nv.size)

(* A POD class has no virtual base, so nothing realigns it after the cut; an *)
(* empty class takes no room as a base.                                      *)
PodOK ==
  /\ \A c \in ClassIds : classes[c].pod => classes[c].vbases = << >>
  /\ InHand /\ pod => \A i \in 1 .. Len(decl.bases) :
       ~decl.bases[i].virt /\ classes[decl.bases[i].class].pod

EmptyOK ==
  /\ \A c \in ClassIds : classes[c].empty => classes[c].nvSize = 0
  /\ InHand /\ IsEmpty => \A p \in placed : Occupies(p) => p.role = "vbase"

Now == BelowEdge /\ BelowUnit /\ Apart /\ PrimaryFirst /\ VirtualLast /\ Cut

Placement == Now /\ PodOK /\ EmptyOK /\ SubobjectsInside /\ SubobjectsDisjoint

-----------------------------------------------------------------------------
(* While the program and the finished classes stay as they are. *)

LEMMA DeclFrame ==
  ASSUME UNCHANGED <<ctx, classes>>
  PROVE  /\ decl' = decl /\ ClassIds' = ClassIds /\ Record' = Record
         /\ IsEmpty' = IsEmpty
  BY DEF decl, ClassIds, Record, IsEmpty

LEMMA FinishedFrame ==
  ASSUME UNCHANGED <<ctx, classes>>, SubobjectsInside, SubobjectsDisjoint
  PROVE  SubobjectsInside' /\ SubobjectsDisjoint'
  BY DEF SubobjectsInside, SubobjectsDisjoint, ClassIds, Occupies, Disjoint

LEMMA PodFrame ==
  ASSUME UNCHANGED <<ctx, classes>>, InHand, PodOK, pod' => pod
  PROVE  PodOK'
  BY DEF PodOK, InHand, ClassIds, decl

(* No data in a class that is_empty_class calls empty. *)
LEMMA EmptyFrame ==
  ASSUME UNCHANGED <<ctx, classes>>, InHand, EmptyOK,
         \A p \in placed' :
           \/ p \in placed
           \/ ~Occupies(p)
           \/ p.role = "vbase"
           \/ ~IsEmpty
  PROVE  EmptyOK'
  <1>1. \A c \in ClassIds' : classes'[c].empty => classes'[c].nvSize = 0
    BY DEF EmptyOK, ClassIds
  <1>2. ASSUME IsEmpty', NEW p \in placed', Occupies(p) PROVE p.role = "vbase"
    BY <1>2, DeclFrame DEF EmptyOK, InHand
  <1>3. QED
    BY <1>1, <1>2 DEF EmptyOK

(* A subobject that starts past all the others and ends below the new edge.  *)
LEMMA PlaceAbove ==
  ASSUME UNCHANGED <<ctx, classes>>, InHand, BelowEdge, Apart,
         placed \in SUBSET PieceType,
         NEW piece \in PieceType, placed' = placed \union {piece},
         Edge \in Nat, Edge' \in Nat, Edge' >= Edge,
         Occupies(piece) => piece.hi <= 8 * Edge',
         Occupies(piece) /\ Record => \A p \in placed : Occupies(p) => p.hi <= piece.lo
  PROVE  BelowEdge' /\ Apart'
  <1>1. ASSUME NEW p \in placed', Occupies(p) PROVE p.hi <= 8 * Edge'
    <2>1. CASE p = piece
      BY <1>1, <2>1
    <2>2. CASE p \in placed
      <3>1. p.hi <= 8 * Edge
        BY <1>1, <2>2 DEF BelowEdge
      <3>2. p.hi \in Nat
        BY <2>2 DEF PieceType
      <3>3. QED
        BY <3>1, <3>2
    <2>3. QED
      BY <2>1, <2>2
  <1>2. ASSUME Record, NEW p \in placed', NEW q \in placed',
               p # q, Occupies(p), Occupies(q)
        PROVE  Disjoint(p, q)
    <2>1. CASE p \in placed /\ q \in placed
      BY <1>2, <2>1 DEF Apart
    <2>2. CASE p = piece /\ q \in placed
      BY <1>2, <2>2 DEF Disjoint
    <2>3. CASE p \in placed /\ q = piece
      BY <1>2, <2>3 DEF Disjoint
    <2>4. QED
      BY <1>2, <2>1, <2>2, <2>3
  <1>3. QED
    BY <1>1, <1>2, DeclFrame DEF BelowEdge, Apart

(* Nothing is placed and the edge does not recede. *)
LEMMA PlaceNothing ==
  ASSUME UNCHANGED <<ctx, classes, placed>>, InHand, BelowEdge, Apart,
         placed \in SUBSET PieceType, Edge \in Nat, Edge' \in Nat, Edge' >= Edge
  PROVE  BelowEdge' /\ Apart'
  <1>1. ASSUME NEW p \in placed', Occupies(p) PROVE p.hi <= 8 * Edge'
    <2>1. p.hi \in Nat /\ p.hi <= 8 * Edge
      BY <1>1 DEF BelowEdge, PieceType
    <2>2. QED
      BY <2>1
  <1>2. Apart'
    BY DeclFrame DEF Apart, InHand
  <1>3. QED
    BY <1>1, <1>2 DEF BelowEdge

-----------------------------------------------------------------------------
(* The invariant holds at first and after every step. *)

LEMMA InitPlacement == Init => Placement
  <1> SUFFICES ASSUME Init PROVE Placement
    OBVIOUS
  <1>1. phase = "idle" /\ ClassIds = {}
    BY DEF Init, ClassIds
  <1>2. QED
    BY <1>1 DEF Placement, Now, BelowEdge, BelowUnit, Apart, PrimaryFirst, VirtualLast,
                Cut, PodOK, EmptyOK, InHand, SubobjectsInside, SubobjectsDisjoint

LEMMA BeginPlacement == TypeOK /\ Placement /\ BeginClass => Placement'
  <1> SUFFICES ASSUME TypeOK, Placement, BeginClass PROVE Placement'
    OBVIOUS
  <1>1. /\ UNCHANGED <<ctx, classes>> /\ placed' = {} /\ au' = NoAU
        /\ phase' = IF Record THEN "primary" ELSE "fields"
    <2>1. Len(classes) < Len(ctx) /\ CtxOK
      BY DEF BeginClass, TypeOK
    <2>2. decl.kind \in {"class", "union"}
      BY <2>1, DeclTyped DEF ClassDef
    <2>3. QED
      BY <2>2 DEF BeginClass, Record
  <1>2. SubobjectsInside' /\ SubobjectsDisjoint'
    BY <1>1, FinishedFrame DEF Placement
  <1>3. EmptyOK'
    BY <1>1 DEF Placement, EmptyOK, ClassIds
  <1>4. PodOK'
    <2>1. \A c \in ClassIds' : classes'[c].pod => classes'[c].vbases = << >>
      BY <1>1 DEF Placement, PodOK, ClassIds
    <2>2. ASSUME pod'
          PROVE  \A i \in 1 .. Len(decl.bases) :
                   ~decl.bases[i].virt /\ classes[decl.bases[i].class].pod
      <3>1. decl.bases \in Seq(Base)
        BY DeclTyped DEF TypeOK, BeginClass
      <3>2. \A i \in DOMAIN decl.bases :
              ~decl.bases[i].virt /\ classes[decl.bases[i].class].pod
        BY <2>2 DEF BeginClass
      <3>3. QED
        BY <3>1, <3>2
    <2>3. QED
      BY <1>1, <2>1, <2>2, DeclFrame DEF PodOK
  <1>5. Now'
    BY <1>1, DeclFrame DEF Now, BelowEdge, BelowUnit, Apart, PrimaryFirst, VirtualLast,
                           Cut, InHand, NoAU, BeginClass
  <1>6. QED
    BY <1>2, <1>3, <1>4, <1>5 DEF Placement

LEMMA Sizes ==
  ASSUME TypeOK
  PROVE  /\ CtxOK /\ PhaseOK /\ StateOK /\ WalkOK
         /\ size \in Nat /\ dsize \in Nat /\ vend \in Nat /\ align \in Nat \ {0}
         /\ placed \in SUBSET PieceType /\ Edge \in Nat
  BY DEF TypeOK, StateOK, WalkOK, Edge

LEMMA TypedNext == ASSUME TypeOK, Next PROVE TypeOK'
  BY StepTyped

LEMMA NothingAtPrimary ==
  ASSUME phase = "primary", Placement
  PROVE  placed = {} /\ Record /\ InHand /\ Edge = dsize /\ ~au.open
  BY DEF Placement, Now, PrimaryFirst, BelowUnit, InHand, Edge

LEMMA PrimaryPlacement ==
  TypeOK /\ TypeOK' /\ Placement /\ (PlacePrimary \/ AllocateVptr \/ NoVptr) => Placement'
  <1> SUFFICES ASSUME TypeOK, TypeOK', Placement, PlacePrimary \/ AllocateVptr \/ NoVptr
               PROVE  Placement'
    OBVIOUS
  <1>1. /\ UNCHANGED <<ctx, classes>> /\ au' = au /\ pod' = pod
        /\ phase = "primary" /\ phase' = "bases"
    BY DEF PlacePrimary, AllocateVptr, NoVptr, state
  <1>2. /\ placed = {} /\ Record /\ InHand /\ InHand' /\ Edge = dsize /\ Edge' = dsize'
        /\ ~au.open /\ Edge \in Nat /\ Edge' \in Nat
    BY <1>1, NothingAtPrimary, DeclFrame, Sizes DEF InHand, Edge, TypeOK, StateOK
  <1>3. \/ NoVptr /\ placed' = placed /\ dsize' = dsize
        \/ \E piece \in PieceType :
             /\ decl.poly /\ placed' = placed \union {piece}
             /\ piece.role # "vbase" /\ dsize' >= dsize /\ piece.hi <= 8 * dsize'
    <2>1. CASE NoVptr
      BY <2>1 DEF NoVptr, state
    <2>2. CASE AllocateVptr
      <3> DEFINE piece == Bytes("vptr", 0, 0, PtrSize, PtrSize)
      <3>1. piece \in PieceType
        BY PtrAssumption, BytesTyped DEF Role
      <3>2. /\ decl.poly /\ dsize' = PtrSize /\ placed' = placed \union {piece}
        BY <2>2 DEF AllocateVptr
      <3>3. piece.role = "vptr" /\ piece.hi = 8 * PtrSize
        BY PtrAssumption DEF Bytes, Piece
      <3>4. dsize <= PtrSize
        BY <1>1, PtrAssumption DEF Placement, Now, PrimaryFirst
      <3> HIDE DEF piece
      <3>5. QED
        BY <3>1, <3>2, <3>3, <3>4, PtrAssumption
    <2>3. CASE PlacePrimary
      <3>1. PICK k \in DOMAIN decl.bases : PlacePrimary!2!(k)
        BY <2>3 DEF PlacePrimary
      <3> DEFINE id == decl.bases[k].class
                 b == classes[id]
                 piece == Bytes("base", id, 0, b.nvSize, b.nvAlign)
      <3>2. id \in ClassIds
        BY <1>1, BaseTyped DEF TypeOK, PhaseOK
      <3>3. id \in Nat /\ b.nvSize \in Nat /\ b.nvAlign \in Nat
        BY <3>2, ClassTyped DEF TypeOK
      <3>4. piece \in PieceType
        BY <3>3, BytesTyped DEF Role
      <3>5. decl.poly
        BY <3>1 DEF IsPrimary
      <3>6. dsize' = MaxOf(dsize, b.nvSize) /\ placed' = placed \union {piece}
        BY <3>1
      <3>7. piece.role = "base" /\ piece.hi = 8 * (0 + b.nvSize)
        BY DEF Bytes, Piece
      <3> HIDE DEF id, b, piece
      <3>8. dsize' >= dsize /\ dsize' >= b.nvSize /\ dsize' \in Nat
        BY <1>2, <3>3, <3>6, MaxOfTyped
      <3>9. QED
        BY <3>3, <3>4, <3>5, <3>6, <3>7, <3>8
    <2>4. QED
      BY <2>1, <2>2, <2>3
  <1>4. BelowEdge' /\ Apart' /\ VirtualLast' /\ EmptyOK'
    <2>1. CASE NoVptr /\ placed' = placed /\ dsize' = dsize
      <3>1. BelowEdge' /\ Apart'
        BY <1>1, <1>2, <2>1, PlaceNothing, Sizes DEF Placement, Now
      <3>2. EmptyOK'
        BY <1>1, <1>2, <2>1, EmptyFrame DEF Placement
      <3>3. QED
        BY <1>2, <2>1, <3>1, <3>2 DEF VirtualLast
    <2>2. CASE \E piece \in PieceType :
                 /\ decl.poly /\ placed' = placed \union {piece}
                 /\ piece.role # "vbase" /\ dsize' >= dsize /\ piece.hi <= 8 * dsize'
      <3>1. PICK piece \in PieceType :
                 /\ decl.poly /\ placed' = placed \union {piece}
                 /\ piece.role # "vbase" /\ dsize' >= dsize /\ piece.hi <= 8 * dsize'
        BY <2>2
      <3>2. BelowEdge' /\ Apart'
        BY <1>1, <1>2, <3>1, PlaceAbove, Sizes DEF Placement, Now
      <3>3. EmptyOK'
        BY <1>1, <1>2, <3>1, EmptyFrame DEF Placement, IsEmpty
      <3>4. QED
        BY <1>2, <3>1, <3>2, <3>3 DEF VirtualLast
    <2>3. QED
      BY <1>3, <2>1, <2>2
  <1>5. Now'
    BY <1>1, <1>2, <1>4, DeclFrame DEF Now, BelowUnit, PrimaryFirst, Cut
  <1>6. QED
    BY <1>1, <1>2, <1>4, <1>5, FinishedFrame, PodFrame DEF Placement

(* A step that places one subobject of the non-virtual portion.              *)
LEMMA PlaceStep ==
  ASSUME TypeOK, TypeOK', Placement, UNCHANGED <<ctx, classes, phase>>,
         phase \in {"bases", "fields"}, pod' => pod, BelowUnit',
         NEW piece \in PieceType, placed' = placed \union {piece}, piece.role # "vbase",
         Edge' >= Edge,
         Occupies(piece) => piece.hi <= 8 * Edge',
         Occupies(piece) /\ Record => \A p \in placed : Occupies(p) => p.hi <= piece.lo,
         Occupies(piece) => ~IsEmpty
  PROVE  Placement'
  <1>1. InHand /\ InHand' /\ Edge \in Nat /\ Edge' \in Nat
    BY Sizes DEF InHand, Edge, TypeOK, StateOK, WalkOK
  <1>2. BelowEdge' /\ Apart'
    BY <1>1, Sizes, PlaceAbove DEF Placement, Now
  <1>3. EmptyOK'
    BY <1>1, EmptyFrame DEF Placement
  <1>4. PodOK' /\ SubobjectsInside' /\ SubobjectsDisjoint'
    BY <1>1, PodFrame, FinishedFrame DEF Placement
  <1>5. VirtualLast'
    BY DEF Placement, Now, VirtualLast
  <1>6. PrimaryFirst' /\ Cut'
    BY DeclFrame DEF Placement, Now, PrimaryFirst, Cut
  <1>7. QED
    BY <1>2, <1>3, <1>4, <1>5, <1>6 DEF Placement, Now

(* A step that places none.                                                  *)
LEMMA PassStep ==
  ASSUME TypeOK, TypeOK', Placement, UNCHANGED <<ctx, classes, pod, placed, state>>,
         phase = "bases", phase' \in {"bases", "fields"}
  PROVE  Placement'
  <1>1. InHand /\ InHand' /\ Record /\ dsize' = dsize /\ au' = au /\ ~au.open
    BY DEF InHand, Placement, Now, PrimaryFirst, BelowUnit, state
  <1>2. Edge \in Nat /\ Edge' \in Nat /\ Edge' >= Edge
    BY <1>1, Sizes, DeclFrame DEF Edge
  <1>3. BelowEdge' /\ Apart'
    BY <1>1, <1>2, Sizes, PlaceNothing DEF Placement, Now
  <1>4. EmptyOK' /\ PodOK' /\ SubobjectsInside' /\ SubobjectsDisjoint'
    BY <1>1, EmptyFrame, PodFrame, FinishedFrame DEF Placement
  <1>5. VirtualLast' /\ PrimaryFirst' /\ Cut' /\ BelowUnit'
    BY <1>1, DeclFrame DEF Placement, Now, VirtualLast, PrimaryFirst, Cut, BelowUnit
  <1>6. QED
    BY <1>3, <1>4, <1>5 DEF Placement, Now

LEMMA AboveEdge ==
  ASSUME TypeOK, BelowEdge, InHand, NEW x \in Nat, x >= 8 * Edge,
         NEW p \in placed, Occupies(p)
  PROVE  p.hi <= x
  <1>1. p.hi \in Nat /\ p.hi <= 8 * Edge /\ Edge \in Nat
    BY Sizes DEF BelowEdge, PieceType
  <1>2. QED
    BY <1>1

LEMMA BasesPlacement ==
  TypeOK /\ TypeOK' /\ Placement
    /\ (SkipBase \/ PlaceEmptyBase \/ PlaceNonEmptyBase \/ BasesDone) => Placement'
  <1> SUFFICES ASSUME TypeOK, TypeOK', Placement,
                      SkipBase \/ PlaceEmptyBase \/ PlaceNonEmptyBase \/ BasesDone
               PROVE  Placement'
    OBVIOUS
  <1>1. CASE SkipBase \/ BasesDone
    <2>1. /\ UNCHANGED <<ctx, classes, pod, placed, state>>
          /\ phase = "bases" /\ phase' \in {"bases", "fields"}
      BY <1>1 DEF SkipBase, BasesDone, AtBase, state
    <2>2. QED
      BY <2>1, PassStep
  <1>2. ASSUME PlaceEmptyBase \/ PlaceNonEmptyBase
        PROVE  /\ UNCHANGED <<ctx, classes, phase>> /\ pod' = pod /\ phase = "bases"
               /\ AtBase /\ Record /\ InHand /\ BelowUnit' /\ Edge = dsize /\ Edge' = dsize'
    <2>1. /\ UNCHANGED <<ctx, classes, phase>> /\ pod' = pod /\ phase = "bases" /\ AtBase
          /\ au' = au
      BY <1>2 DEF PlaceEmptyBase, PlaceNonEmptyBase, AtBase
    <2>2. Record /\ InHand /\ ~au.open
      BY <2>1 DEF Placement, Now, PrimaryFirst, BelowUnit, InHand
    <2>3. QED
      BY <2>1, <2>2, DeclFrame DEF BelowUnit, Edge
  <1> DEFINE id == ThisBase.class
             b == classes[id]
  <1>3. ASSUME AtBase
        PROVE  /\ next \in DOMAIN decl.bases /\ id \in ClassIds
               /\ id \in Nat /\ b.align \in Nat /\ b.nvAlign \in Nat /\ b.nvSize \in Nat
    <2>1. Len(classes) < Len(ctx)
      BY <1>3 DEF AtBase, TypeOK, PhaseOK
    <2>2. next \in DOMAIN decl.bases
      BY <1>3, <2>1, DeclTyped DEF AtBase, TypeOK, WalkOK
    <2>3. id \in ClassIds
      BY <2>1, <2>2, BaseTyped DEF ThisBase, TypeOK
    <2>4. QED
      BY <2>2, <2>3, ClassTyped DEF TypeOK
  <1>4. CASE PlaceEmptyBase
    <2> DEFINE step == MaxOf(b.align, 1)
    <2>1. AtBase /\ dsize' = dsize
      BY <1>4 DEF PlaceEmptyBase
    <2>2. PICK k \in 0 .. Cardinality(empties) :
            placed' = placed \union {Bytes("base", id, k * step, 0, b.align)}
      BY <1>4 DEF PlaceEmptyBase
    <2>3. step \in Nat /\ id \in Nat /\ b.align \in Nat
      BY <1>3, <2>1, MaxOfTyped
    <2> HIDE DEF id, b, step
    <2>4. k \in Nat /\ k * step \in Nat
      BY <2>2, <2>3
    <2> DEFINE piece == Bytes("base", id, k * step, 0, b.align)
    <2>5. piece \in PieceType
      BY <2>3, <2>4, BytesTyped DEF Role
    <2>6. piece.role = "base" /\ ~Occupies(piece)
      BY <2>4 DEF Bytes, Piece, Occupies
    <2>7. Edge' >= Edge
      BY <1>2, <1>4, <2>1, Sizes
    <2> HIDE DEF piece
    <2>8. placed' = placed \union {piece}
      BY <2>2 DEF piece
    <2>9. QED
      BY <1>2, <1>4, <2>5, <2>6, <2>7, <2>8, PlaceStep
  <1>5. CASE PlaceNonEmptyBase
    <2> DEFINE off == AlignUp(dsize, b.nvAlign)
               piece == Bytes("base", id, off, b.nvSize, b.nvAlign)
    <2>1. /\ AtBase /\ dsize' = off + b.nvSize /\ b.nvSize # 0
          /\ placed' = placed \union {piece}
      BY <1>5 DEF PlaceNonEmptyBase
    <2>2. /\ next \in DOMAIN decl.bases /\ id \in ClassIds /\ id \in Nat
          /\ b.nvAlign \in Nat /\ b.nvSize \in Nat
      BY <1>3, <2>1
    <2>3. off \in Nat /\ off >= dsize
      BY <2>2, AlignUpGrows, Sizes
    <2>4. ~IsEmpty
      BY <2>1, <2>2 DEF IsEmpty, Placement, EmptyOK, ThisBase
    <2> HIDE DEF id, b, off
    <2>5. piece \in PieceType
      BY <2>2, <2>3, BytesTyped DEF Role
    <2>6. piece.role = "base" /\ piece.lo = 8 * off /\ piece.hi = 8 * (off + b.nvSize)
      BY DEF Bytes, Piece
    <2> HIDE DEF piece
    <2>7. Edge' >= Edge /\ piece.hi <= 8 * Edge'
      BY <1>2, <1>5, <2>1, <2>2, <2>3, <2>6, Sizes
    <2>8. piece.lo \in Nat /\ piece.lo >= 8 * Edge
      BY <1>2, <1>5, <2>3, <2>6, Sizes
    <2>9. \A p \in placed : Occupies(p) => p.hi <= piece.lo
      BY <1>2, <1>5, <2>8, AboveEdge DEF Placement, Now
    <2>10. QED
      BY <1>2, <1>5, <2>1, <2>4, <2>5, <2>6, <2>7, <2>9, PlaceStep
  <1>6. QED
    BY <1>1, <1>4, <1>5

(* What the member actions share.                                            *)
LEMMA AtMemberFacts ==
  ASSUME TypeOK, Placement, AtMember
  PROVE  /\ phase = "fields" /\ InHand /\ ~IsEmpty
         /\ ThisMember \in Member /\ TypeSize(ThisMember) \in Nat
         /\ NaturalAlign(ThisMember) \in Nat \ {0}
         /\ size \in Nat /\ dsize \in Nat /\ fields \in Nat /\ fields + 1 \in Nat
         /\ Edge = IF Record THEN dsize ELSE size
  <1>1. /\ phase = "fields" /\ fields < Len(decl.fields) /\ Len(classes) < Len(ctx)
        /\ CtxOK /\ StateOK
    BY DEF AtMember, TypeOK, PhaseOK
  <1>2. fields \in Nat /\ fields + 1 \in Nat
    BY <1>1 DEF StateOK
  <1>3. decl.fields # << >>
    BY <1>1, <1>2
  <1>4. ~IsEmpty
    BY <1>3 DEF IsEmpty
  <1>5. QED
    BY <1>1, <1>2, <1>4, MemberTyped, Sizes DEF InHand, Edge

LEMMA FieldPlacement == TypeOK /\ TypeOK' /\ Placement /\ PlaceField => Placement'
  <1> SUFFICES ASSUME TypeOK, TypeOK', Placement, PlaceField PROVE Placement'
    OBVIOUS
  <1> DEFINE al == IF decl.packed THEN MaxOf(ThisMember.explicit, 1)
                   ELSE NaturalAlign(ThisMember)
             sz == TypeSize(ThisMember)
             off == AlignUp(dsize, al)
             piece == Bytes("field", fields + 1, off, sz, al)
  <1>1. /\ UNCHANGED <<ctx, classes, phase>> /\ AtMember /\ Record
        /\ dsize' = off + sz /\ au' = NoAU /\ placed' = placed \union {piece}
    BY DEF PlaceField, Record
  <1>2. pod' => pod
    BY DEF PlaceField
  <1>3. /\ phase = "fields" /\ InHand /\ ~IsEmpty /\ ThisMember \in Member
        /\ sz \in Nat /\ NaturalAlign(ThisMember) \in Nat
        /\ dsize \in Nat /\ fields + 1 \in Nat /\ Edge = dsize
    BY <1>1, AtMemberFacts
  <1>4. al \in Nat
    BY <1>3, MaxOfTyped DEF Member
  <1>5. off \in Nat /\ off >= dsize
    BY <1>3, <1>4, AlignUpGrows
  <1> HIDE DEF al, sz, off
  <1>6. piece \in PieceType
    BY <1>3, <1>4, <1>5, BytesTyped DEF Role
  <1>7. piece.role = "field" /\ piece.lo = 8 * off /\ piece.hi = 8 * (off + sz)
    BY DEF Bytes, Piece
  <1> HIDE DEF piece
  <1>8. Edge' = dsize'
    BY <1>1, <1>3, DeclFrame DEF Edge
  <1>9. Edge' >= Edge /\ piece.hi <= 8 * Edge' /\ piece.lo \in Nat /\ piece.lo >= 8 * Edge
    BY <1>1, <1>3, <1>5, <1>7, <1>8
  <1>10. \A p \in placed : Occupies(p) => p.hi <= piece.lo
    BY <1>3, <1>9, AboveEdge DEF Placement, Now
  <1>11. BelowUnit'
    BY <1>1, <1>3 DEF BelowUnit, NoAU
  <1>12. QED
    BY <1>1, <1>2, <1>3, <1>6, <1>7, <1>9, <1>10, <1>11, PlaceStep

LEMMA UnionPlacement == TypeOK /\ TypeOK' /\ Placement /\ PlaceUnionField => Placement'
  <1> SUFFICES ASSUME TypeOK, TypeOK', Placement, PlaceUnionField PROVE Placement'
    OBVIOUS
  <1> DEFINE al == NaturalAlign(ThisMember)
             sz == TypeSize(ThisMember)
             piece == Bytes("field", fields + 1, 0, sz, al)
  <1>1. /\ UNCHANGED <<ctx, classes, phase>> /\ AtMember /\ ~Record
        /\ size' = MaxOf(size, sz) /\ placed' = placed \union {piece}
    BY DEF PlaceUnionField, Record
  <1>2. pod' => pod
    BY DEF PlaceUnionField
  <1>3. /\ phase = "fields" /\ ~IsEmpty /\ sz \in Nat /\ al \in Nat
        /\ size \in Nat /\ fields + 1 \in Nat /\ Edge = size
    BY <1>1, AtMemberFacts
  <1> HIDE DEF al, sz
  <1>4. piece \in PieceType
    BY <1>3, BytesTyped DEF Role
  <1>5. piece.role = "field" /\ piece.hi = 8 * (0 + sz)
    BY DEF Bytes, Piece
  <1> HIDE DEF piece
  <1>6. Edge' = size'
    BY <1>1, <1>3, DeclFrame DEF Edge
  <1>7. size' >= size /\ size' >= sz /\ size' \in Nat
    BY <1>1, <1>3, MaxOfTyped
  <1>8. Edge' >= Edge /\ piece.hi <= 8 * Edge'
    <2>1. sz \in Nat /\ piece.hi <= 8 * sz
      BY <1>3, <1>5
    <2>2. Edge' = size' /\ Edge = size /\ size \in Nat
      BY <1>3, <1>6
    <2>3. Edge' >= Edge
      BY <1>7, <2>2
    <2>4. sz <= Edge' /\ Edge' \in Nat
      BY <1>7, <2>2
    <2>5. piece.hi \in Nat
      BY <1>4 DEF PieceType
    <2>6. piece.hi <= 8 * Edge'
      BY <2>1, <2>4, <2>5
    <2>7. QED
      BY <2>3, <2>6
  <1>9. BelowUnit'
    BY <1>1, <1>3, DeclFrame DEF BelowUnit
  <1>10. QED
    BY <1>1, <1>2, <1>3, <1>4, <1>5, <1>8, <1>9, PlaceStep

LEMMA BitfieldPlacement ==
  TypeOK /\ TypeOK' /\ Placement /\ (PlaceZeroWidth \/ PackBitfield \/ OpenUnit) => Placement'
  <1> SUFFICES ASSUME TypeOK, TypeOK', Placement, PlaceZeroWidth \/ PackBitfield \/ OpenUnit
               PROVE  Placement'
    OBVIOUS
  <1> DEFINE al == NaturalAlign(ThisMember)
             sz == TypeSize(ThisMember)
  <1>1. /\ UNCHANGED <<ctx, classes, phase>> /\ AtMember /\ Record /\ pod' = pod
    BY DEF PlaceZeroWidth, PackBitfield, OpenUnit, AtBitfield, Record
  <1>2. /\ phase = "fields" /\ InHand /\ ~IsEmpty /\ ThisMember \in Member
        /\ sz \in Nat /\ al \in Nat \ {0} /\ dsize \in Nat /\ fields \in Nat /\ Edge = dsize
    BY <1>1, AtMemberFacts
  <1>3. /\ ThisMember.width \in Nat /\ UnitBits = 8 * sz
        /\ au.at \in Nat /\ au.bytes \in Nat /\ au.used \in Nat
    BY <1>2 DEF Member, UnitBits, TypeOK, StateOK
  <1>4. Edge' = dsize'
    BY <1>1, <1>2, DeclFrame DEF Edge
  <1>5. ASSUME NEW off \in Nat, NEW bit \in Nat, NEW w \in Nat
        PROVE  /\ Bits(off, bit, w) \in PieceType
               /\ Bits(off, bit, w).role = "bits"
               /\ Bits(off, bit, w).lo = 8 * off + bit
               /\ Bits(off, bit, w).hi = 8 * off + bit + w
               /\ Bits(off, bit, w).lo \in Nat
    <2>1. Bits(off, bit, w) \in PieceType
      BY <1>2, BitsTyped
    <2>2. /\ Bits(off, bit, w).role = "bits"
          /\ Bits(off, bit, w).lo = 8 * off + bit
          /\ Bits(off, bit, w).hi = 8 * off + bit + w
      BY DEF Bits, Piece
    <2>3. QED
      BY <2>1, <2>2
  <1>6. \A p \in placed : Occupies(p) => p.hi \in Nat /\ p.hi <= 8 * dsize
    BY <1>2, Sizes DEF Placement, Now, BelowEdge, PieceType
  <1>7. CASE PlaceZeroWidth
    <2> DEFINE d == IF au.open THEN MaxOf(dsize, au.at + au.bytes) ELSE dsize
               off == AlignUp(d, al)
               piece == Bits(off, 0, 0)
    <2>1. dsize' = d /\ au' = NoAU /\ placed' = placed \union {piece}
      BY <1>7 DEF PlaceZeroWidth
    <2>2. d \in Nat /\ d >= dsize
      <3>1. au.at + au.bytes \in Nat /\ dsize \in Nat /\ dsize >= dsize
        BY <1>2, <1>3
      <3>2. CASE au.open
        BY <3>1, <3>2, MaxOfTyped
      <3>3. CASE ~au.open
        BY <3>1, <3>3
      <3>4. QED
        BY <3>2, <3>3
    <2> HIDE DEF d, al
    <2>3. off \in Nat
      BY <1>2, <2>2, AlignUpGrows
    <2> HIDE DEF off
    <2>4. piece \in PieceType /\ piece.role = "bits" /\ ~Occupies(piece)
      BY <1>5, <2>3 DEF Occupies
    <2> HIDE DEF piece
    <2>5. BelowUnit'
      BY <1>1, <1>2, <2>1 DEF BelowUnit, NoAU
    <2>6. Edge' >= Edge
      BY <1>2, <1>4, <2>1, <2>2
    <2>7. QED
      BY <1>1, <1>2, <2>1, <2>4, <2>5, <2>6, PlaceStep
  <1>8. CASE PackBitfield
    <2> DEFINE used == au.used + ThisMember.width
               end == au.at + au.bytes
               piece == Bits(au.at + (au.used \div 8), au.used % 8, ThisMember.width)
    <2>1. /\ placed' = placed \union {piece} /\ au' = CloseOrKeep(au.at, used)
          /\ dsize' = MaxOf(dsize, end)
          /\ au.open /\ au.bytes = sz /\ used <= 8 * sz
      BY <1>3, <1>8 DEF PackBitfield, FitsOpenUnit
    <2>2. /\ au.used \div 8 \in Nat /\ au.used % 8 \in Nat
          /\ 8 * (au.used \div 8) + (au.used % 8) = au.used
          /\ au.at + (au.used \div 8) \in Nat
      BY <1>3
    <2>3. /\ piece \in PieceType /\ piece.role = "bits" /\ piece.lo \in Nat
          /\ piece.lo = 8 * au.at + au.used /\ piece.hi = 8 * au.at + used
      <3> DEFINE o == au.at + (au.used \div 8)
                 r == au.used % 8
                 w == ThisMember.width
      <3>1. o \in Nat /\ r \in Nat /\ w \in Nat
        BY <1>3, <2>2
      <3>2. 8 * o + r = 8 * au.at + au.used
        BY <1>3, <2>2
      <3> HIDE DEF o, r, w
      <3>3. /\ Bits(o, r, w) \in PieceType /\ Bits(o, r, w).role = "bits"
            /\ Bits(o, r, w).lo = 8 * o + r /\ Bits(o, r, w).hi = 8 * o + r + w
            /\ Bits(o, r, w).lo \in Nat
        BY <1>5, <3>1
      <3>4. piece = Bits(o, r, w) /\ used = au.used + w
        BY DEF o, r, w
      <3> HIDE DEF piece, used
      <3>5. piece.hi = 8 * au.at + used
        BY <1>3, <3>1, <3>2, <3>3, <3>4
      <3>6. QED
        BY <3>2, <3>3, <3>4, <3>5
    <2>4. \A p \in placed : Occupies(p) => p.hi <= piece.lo
      BY <1>1, <1>2, <2>1, <2>3 DEF Placement, Now, BelowUnit
    <2>5. used \in Nat /\ used >= au.used /\ end \in Nat
      BY <1>3
    <2> HIDE DEF piece, used
    <2>6. dsize' >= dsize /\ dsize' >= end /\ dsize' \in Nat
      BY <1>2, <2>1, <2>5, MaxOfTyped
    <2>7. Edge' >= Edge /\ piece.hi <= 8 * Edge'
      BY <1>2, <1>3, <1>4, <2>1, <2>3, <2>5, <2>6
    <2>8. BelowUnit'
      <3>1. ASSUME au'.open, NEW p \in placed', Occupies(p)
            PROVE  p.hi <= 8 * au'.at + au'.used
        <4>1. au'.at = au.at /\ au'.used = used
          BY <2>1, <3>1 DEF CloseOrKeep, NoAU
        <4>2. CASE p = piece
          BY <1>3, <2>3, <2>5, <4>1, <4>2
        <4>3. CASE p \in placed
          BY <1>3, <1>6, <2>3, <2>4, <2>5, <3>1, <4>1, <4>3
        <4>4. QED
          BY <2>1, <4>2, <4>3
      <3>2. QED
        BY <1>1, <1>2, <3>1 DEF BelowUnit
    <2>9. QED
      BY <1>1, <1>2, <2>1, <2>3, <2>4, <2>7, <2>8, PlaceStep
  <1>9. CASE OpenUnit
    <2> DEFINE off == AlignUp(dsize, al)
               used == MinOf(ThisMember.width, UnitBits)
               end == off + sz
               piece == Bits(off, 0, used)
    <2>1. /\ placed' = placed \union {piece} /\ au' = CloseOrKeep(off, used)
          /\ dsize' = MaxOf(dsize, end)
      BY <1>9 DEF OpenUnit
    <2>2. off \in Nat /\ off >= dsize
      BY <1>2, AlignUpGrows
    <2>3. used \in Nat /\ used <= 8 * sz
      BY <1>2, <1>3 DEF MinOf
    <2> HIDE DEF off, used
    <2>4. end \in Nat
      BY <1>2, <2>2
    <2>5. /\ piece \in PieceType /\ piece.role = "bits" /\ piece.lo \in Nat
          /\ piece.lo = 8 * off /\ piece.hi = 8 * off + used
      <3>1. piece \in PieceType
        BY <1>2, <2>2, <2>3, BitsTyped
      <3>2. piece.role = "bits" /\ piece.lo = 8 * off + 0 /\ piece.hi = 8 * off + 0 + used
        BY DEF Bits, Piece
      <3> HIDE DEF piece
      <3>3. QED
        BY <2>2, <2>3, <3>1, <3>2
    <2> HIDE DEF piece
    <2>6. dsize' >= dsize /\ dsize' >= end /\ dsize' \in Nat
      BY <1>2, <2>1, <2>4, MaxOfTyped
    <2>7. Edge' >= Edge /\ piece.hi <= 8 * Edge'
      <3>1. sz \in Nat /\ dsize \in Nat /\ Edge = dsize /\ Edge' = dsize'
        BY <1>2, <1>4
      <3> HIDE DEF sz
      <3>2. Edge' >= Edge
        BY <2>6, <3>1
      <3>3. piece.hi <= 8 * end
        BY <2>2, <2>3, <2>5, <3>1
      <3> HIDE DEF end
      <3>4. end <= Edge' /\ Edge' \in Nat
        BY <2>6, <3>1
      <3>5. piece.hi \in Nat
        BY <2>5 DEF PieceType
      <3>6. QED
        BY <2>4, <3>2, <3>3, <3>4, <3>5
    <2>8. \A p \in placed : Occupies(p) => p.hi <= piece.lo
      BY <1>2, <1>6, <2>2, <2>5
    <2>9. BelowUnit'
      <3>1. ASSUME au'.open, NEW p \in placed', Occupies(p)
            PROVE  p.hi <= 8 * au'.at + au'.used
        <4>1. au'.at = off /\ au'.used = used
          BY <2>1, <3>1 DEF CloseOrKeep, NoAU
        <4>2. CASE p = piece
          BY <2>2, <2>3, <2>5, <4>1, <4>2
        <4>3. CASE p \in placed
          BY <1>2, <1>6, <2>2, <2>3, <3>1, <4>1, <4>3
        <4>4. QED
          BY <2>1, <4>2, <4>3
      <3>2. QED
        BY <1>1, <1>2, <3>1 DEF BelowUnit
    <2>10. QED
      BY <1>1, <1>2, <2>1, <2>5, <2>7, <2>8, <2>9, PlaceStep
  <1>10. QED
    BY <1>7, <1>8, <1>9

LEMMA SnapshotPlacement ==
  TypeOK /\ TypeOK' /\ Placement /\ SnapshotNonVirtual => Placement'
  <1> SUFFICES ASSUME TypeOK, TypeOK', Placement, SnapshotNonVirtual PROVE Placement'
    OBVIOUS
  <1>1. /\ UNCHANGED <<ctx, classes, placed>> /\ pod' = pod
        /\ phase = "fields" /\ phase' = "vbases" /\ vend' = dsize' /\ vbases' = << >>
    BY DEF SnapshotNonVirtual
  <1>2. decl.kind \in {"class", "union"}
    BY <1>1, DeclTyped DEF TypeOK, PhaseOK, ClassDef
  <1>3. InHand /\ InHand' /\ dsize' = Edge /\ Edge' = Edge
    BY <1>1, <1>2 DEF SnapshotNonVirtual, InHand, Edge, Record
  <1>4. Edge \in Nat /\ Edge' \in Nat /\ Edge' >= Edge
    BY <1>3, Sizes
  <1>5. BelowEdge' /\ Apart'
    BY <1>1, <1>3, <1>4, PlaceNothing, Sizes DEF Placement, Now
  <1>6. EmptyOK' /\ PodOK' /\ SubobjectsInside' /\ SubobjectsDisjoint'
    BY <1>1, <1>3, EmptyFrame, PodFrame, FinishedFrame DEF Placement
  <1>7. nv'.size = IF IsEmpty THEN 0
                   ELSE IF pod THEN AlignUp(dsize', align') ELSE dsize'
    BY DEF SnapshotNonVirtual, NonVirtualSize
  <1>8. dsize' \in Nat /\ align' \in Nat
    BY DEF TypeOK, StateOK
  <1>9. AlignUp(dsize', align') \in Nat /\ AlignUp(dsize', align') >= dsize'
    BY <1>8, AlignUpGrows
  <1>10. nv'.size <= dsize' \/ (pod' /\ nv'.size = AlignUp(dsize', align'))
    BY <1>1, <1>7, <1>8
  <1>11. ASSUME NEW p \in placed', Occupies(p)
         PROVE  p.role # "vbase" /\ p.hi <= 8 * nv'.size
    <2>1. p.role # "vbase"
      BY <1>1, <1>11 DEF Placement, Now, VirtualLast
    <2>2. ~IsEmpty
      BY <1>1, <1>3, <1>11, <2>1 DEF Placement, EmptyOK
    <2>3. nv'.size >= dsize' /\ nv'.size \in Nat
      BY <1>7, <1>8, <1>9, <2>2
    <2>4. p.hi \in Nat /\ p.hi <= 8 * dsize'
      BY <1>1, <1>3, <1>11, Sizes DEF Placement, Now, BelowEdge, PieceType
    <2>5. QED
      BY <1>8, <2>1, <2>3, <2>4
  <1>12. Cut'
    BY <1>1, <1>7, <1>10, <1>11, DeclFrame DEF Cut
  <1>13. VirtualLast' /\ BelowUnit' /\ PrimaryFirst'
    BY <1>1 DEF VirtualLast, BelowUnit, PrimaryFirst
  <1>14. QED
    BY <1>5, <1>6, <1>12, <1>13 DEF Placement, Now

LEMMA WalkPlacement ==
  TypeOK /\ TypeOK' /\ Placement /\ (NextBase \/ SkipCollected) => Placement'
  <1> SUFFICES ASSUME TypeOK, TypeOK', Placement, NextBase \/ SkipCollected PROVE Placement'
    OBVIOUS
  <1>1. /\ UNCHANGED <<ctx, classes, placed>> /\ UNCHANGED <<size, align, dsize, vbases, nv, vend>>
        /\ pod' = pod /\ phase = "vbases" /\ phase' = "vbases"
    BY DEF NextBase, SkipCollected, Walking, state
  <1>2. InHand /\ InHand' /\ Edge = vend /\ Edge' = vend' /\ vend \in Nat
    BY <1>1, Sizes DEF InHand, Edge
  <1>3. Edge \in Nat /\ Edge' \in Nat /\ Edge' >= Edge
    BY <1>1, <1>2
  <1>4. BelowEdge' /\ Apart'
    BY <1>1, <1>2, <1>3, PlaceNothing, Sizes DEF Placement, Now
  <1>5. EmptyOK' /\ PodOK' /\ SubobjectsInside' /\ SubobjectsDisjoint'
    BY <1>1, <1>2, EmptyFrame, PodFrame, FinishedFrame DEF Placement
  <1>6. Cut'
    BY <1>1, DeclFrame DEF Placement, Now, Cut
  <1>7. VirtualLast' /\ BelowUnit' /\ PrimaryFirst'
    BY <1>1 DEF VirtualLast, BelowUnit, PrimaryFirst
  <1>8. QED
    BY <1>4, <1>5, <1>6, <1>7 DEF Placement, Now

(* A POD class has no virtual base to place.                                 *)
LEMMA PodWalksNothing ==
  ASSUME TypeOK, Placement, Walking, pod
  PROVE  Candidates = << >>
  <1>1. /\ InHand /\ next \in 1 .. Len(decl.bases) /\ Len(classes) < Len(ctx)
    BY DEF Walking, InHand, TypeOK, WalkOK, PhaseOK
  <1>2. ~ThisBase.virt /\ classes[ThisBase.class].pod
    BY <1>1 DEF Placement, PodOK, ThisBase
  <1>3. ThisBase.class \in ClassIds
    BY <1>1, DeclTyped DEF ThisBase, TypeOK
  <1>4. classes[ThisBase.class].vbases = << >>
    BY <1>2, <1>3 DEF Placement, PodOK
  <1>5. QED
    BY <1>2, <1>4 DEF Candidates

LEMMA VirtualBasePlacement ==
  TypeOK /\ TypeOK' /\ Placement /\ PlaceVirtualBase => Placement'
  <1> SUFFICES ASSUME TypeOK, TypeOK', Placement, PlaceVirtualBase PROVE Placement'
    OBVIOUS
  <1> DEFINE id == Candidates[vnext]
             b == classes[id]
             off == AlignUp(vend, b.nvAlign)
             end == off + b.nvSize
             piece == Bytes("vbase", id, off, b.nvSize, b.nvAlign)
  <1>1. /\ UNCHANGED <<ctx, classes, phase, dsize, nv>> /\ pod' = pod
        /\ Walking /\ vnext <= Len(Candidates) /\ phase = "vbases"
        /\ vend' = end /\ placed' = placed \union {piece} /\ size' = MaxOf(size, end)
    BY DEF PlaceVirtualBase, Walking
  <1>2. InHand /\ InHand' /\ Edge = vend /\ Edge' = vend' /\ vend \in Nat /\ size \in Nat
    BY <1>1, Sizes DEF InHand, Edge
  <1>3. vnext \in 1 .. Len(Candidates)
    BY <1>1 DEF TypeOK, WalkOK
  <1>4. ~pod
    BY <1>1, <1>3, PodWalksNothing
  <1>5. id \in ClassIds
    BY <1>1, <1>3, CandidatesTyped DEF TypeOK
  <1>6. id \in Nat /\ b.nvAlign \in Nat /\ b.nvSize \in Nat
    BY <1>5, ClassTyped DEF TypeOK
  <1> HIDE DEF id, b
  <1>7. off \in Nat /\ off >= vend
    BY <1>2, <1>6, AlignUpGrows
  <1> HIDE DEF off
  <1>8. end \in Nat /\ end >= off
    BY <1>6, <1>7
  <1>9. piece \in PieceType
    BY <1>6, <1>7, BytesTyped DEF Role
  <1>10. piece.role = "vbase" /\ piece.lo = 8 * off /\ piece.hi = 8 * end
    BY DEF Bytes, Piece
  <1> HIDE DEF end, piece
  <1>11. Edge \in Nat /\ Edge' \in Nat /\ Edge' = end /\ Edge' >= Edge
    BY <1>1, <1>2, <1>7, <1>8
  <1>12. piece.hi \in Nat /\ piece.lo \in Nat /\ piece.hi <= 8 * Edge' /\ piece.lo >= 8 * Edge
    BY <1>2, <1>7, <1>8, <1>10, <1>11
  <1>13. \A p \in placed : Occupies(p) => p.hi <= piece.lo
    BY <1>2, <1>12, AboveEdge DEF Placement, Now
  <1>14. BelowEdge' /\ Apart'
    BY <1>1, <1>2, <1>9, <1>11, <1>12, <1>13, PlaceAbove, Sizes DEF Placement, Now
  <1>15. EmptyOK' /\ PodOK' /\ SubobjectsInside' /\ SubobjectsDisjoint'
    BY <1>1, <1>2, <1>10, EmptyFrame, PodFrame, FinishedFrame DEF Placement
  <1>16. size' \in Nat /\ size' >= size /\ size' >= end
    BY <1>1, <1>2, <1>8, MaxOfTyped
  <1>17. ASSUME NEW p \in placed', Occupies(p)
         PROVE  p.hi <= 8 * (IF p.role = "vbase" THEN size' ELSE nv.size)
    <2>1. CASE p = piece
      BY <1>8, <1>10, <1>16, <2>1
    <2>2. CASE p \in placed
      <3>1. /\ p.hi <= 8 * (IF p.role = "vbase" THEN size ELSE nv.size) /\ p.hi \in Nat
        BY <1>1, <1>17, <2>2, Sizes DEF Placement, Now, Cut, PieceType
      <3>2. QED
        BY <1>2, <1>16, <3>1
    <2>3. QED
      BY <1>1, <2>1, <2>2
  <1>18. nv.size <= dsize /\ (IsEmpty => nv.size = 0)
    BY <1>1, <1>4 DEF Placement, Now, Cut
  <1>19. Cut'
    BY <1>1, <1>4, <1>17, <1>18, DeclFrame DEF Cut
  <1>20. VirtualLast' /\ BelowUnit' /\ PrimaryFirst'
    BY <1>1 DEF VirtualLast, BelowUnit, PrimaryFirst
  <1>21. QED
    BY <1>14, <1>15, <1>19, <1>20 DEF Placement, Now

LEMMA MulLess ==
  ASSUME NEW p \in Nat, NEW q \in Nat, NEW a \in Nat \ {0}, p * a < q * a + a
  PROVE  p * a <= q * a
  <1>1. SUFFICES ASSUME p >= q + 1 PROVE FALSE
    <2>1. CASE p <= q
      <3>1. PICK d \in Nat : q = p + d
        <4>1. q - p \in Nat /\ q = p + (q - p)
          BY <2>1
        <4>2. QED
          BY <4>1
      <3>2. q * a = p * a + d * a /\ d * a \in Nat /\ p * a \in Nat
        BY <3>1
      <3>3. QED
        BY <3>2
    <2>2. QED
      BY <1>1, <2>1
  <1>2. PICK d \in Nat : p = (q + 1) + d
    <2>1. p - (q + 1) \in Nat /\ p = (q + 1) + (p - (q + 1))
      BY <1>1
    <2>2. QED
      BY <2>1
  <1>3. p * a = q * a + a + d * a /\ d * a \in Nat /\ q * a \in Nat
    BY <1>2
  <1>4. QED
    BY <1>3

(* Rounding up preserves order.                                              *)
LEMMA AlignUpMonotone ==
  ASSUME NEW v \in Nat, NEW w \in Nat, NEW a \in Nat \ {0}, v <= w
  PROVE  AlignUp(v, a) <= AlignUp(w, a)
  <1>1. CASE a = 1
    BY <1>1 DEF AlignUp
  <1>2. CASE a > 1
    <2> DEFINE p == (v + a - 1) \div a
               q == (w + a - 1) \div a
    <2>1. v + a - 1 \in Nat /\ w + a - 1 \in Nat
      BY <1>2
    <2>2. /\ p \in Nat /\ p * a <= v + a - 1
          /\ q \in Nat /\ w + a - 1 < q * a + a
      BY <2>1, DivBounds
    <2>3. AlignUp(v, a) = p * a /\ AlignUp(w, a) = q * a
      BY <1>2 DEF AlignUp
    <2> HIDE DEF p, q
    <2>4. p * a \in Nat /\ q * a \in Nat
      BY <2>2
    <2>5. p * a < q * a + a
      BY <2>2, <2>4
    <2>6. QED
      BY <2>2, <2>3, <2>5, MulLess
  <1>3. QED
    BY <1>1, <1>2

Bounds(l) ==
  /\ l.nvSize <= l.size
  /\ l.dsize <= l.size
  /\ \A p \in l.placed :
       Occupies(p) => p.hi <= 8 * (IF p.role = "vbase" THEN l.size ELSE l.nvSize)

DisjointPieces(l) ==
  \A p, q \in l.placed : p # q /\ Occupies(p) /\ Occupies(q) => Disjoint(p, q)

(* One more finished class, sound in itself.                                 *)
LEMMA FinishPlacement ==
  ASSUME TypeOK, Placement, InHand, phase' = "idle", ctx' = ctx,
         NEW l \in LayoutType, classes' = Append(classes, l),
         l.pod => l.vbases = << >>,
         l.empty => l.nvSize = 0,
         l.ok => Bounds(l),
         Record => DisjointPieces(l)
  PROVE  Placement'
  <1>1. classes \in Seq(LayoutType) /\ Len(classes) \in Nat
    BY DEF TypeOK, CtxOK
  <1>2. ASSUME NEW c \in ClassIds'
        PROVE  \/ c \in ClassIds /\ classes'[c] = classes[c]
               \/ c = Len(classes) + 1 /\ classes'[c] = l
    BY <1>1, <1>2 DEF ClassIds
  <1>3. SubobjectsInside'
    <2>1. ASSUME NEW c \in ClassIds', classes'[c].ok PROVE Bounds(classes'[c])
      <3>1. CASE c \in ClassIds /\ classes'[c] = classes[c]
        BY <2>1, <3>1 DEF Placement, SubobjectsInside, Bounds
      <3>2. CASE classes'[c] = l
        BY <2>1, <3>2
      <3>3. QED
        BY <1>2, <3>1, <3>2
    <2>2. QED
      BY <2>1 DEF SubobjectsInside, Bounds, Occupies
  <1>4. SubobjectsDisjoint'
    <2>1. ASSUME NEW c \in ClassIds', ctx[c].kind = "class" PROVE DisjointPieces(classes'[c])
      <3>1. CASE c \in ClassIds /\ classes'[c] = classes[c]
        BY <2>1, <3>1 DEF Placement, SubobjectsDisjoint, DisjointPieces
      <3>2. CASE c = Len(classes) + 1 /\ classes'[c] = l
        BY <2>1, <3>2 DEF Record, decl
      <3>3. QED
        BY <1>2, <3>1, <3>2
    <2>2. QED
      BY <2>1 DEF SubobjectsDisjoint, DisjointPieces, Occupies, Disjoint
  <1>5. PodOK'
    BY <1>2 DEF Placement, PodOK, InHand
  <1>6. EmptyOK'
    BY <1>2 DEF Placement, EmptyOK, InHand
  <1>7. Now'
    BY DEF Now, BelowEdge, BelowUnit, Apart, PrimaryFirst, VirtualLast, Cut, InHand
  <1>8. QED
    BY <1>3, <1>4, <1>5, <1>6, <1>7 DEF Placement

LEMMA FinalizePlacement == TypeOK /\ Placement /\ Finalize => Placement'
  <1> SUFFICES ASSUME TypeOK, Placement, Finalize PROVE Placement'
    OBVIOUS
  <1> DEFINE raw == MaxOf(size, dsize)
             sz == AlignUp(MaxOf(raw, 1), align)
             ds == IF pod THEN sz ELSE raw
             l == Layout(TRUE, sz, align, ds, nv.size, nv.align,
                         hasVptr, placed, empties, vbases)
  <1>1. phase = "vbases" /\ classes' = Append(classes, l) /\ phase' = "idle" /\ ctx' = ctx
    BY DEF Finalize
  <1>2. InHand /\ Cut /\ Apart
    BY <1>1 DEF InHand, Placement, Now
  <1>3. size \in Nat /\ dsize \in Nat /\ align \in Nat \ {0} /\ placed \in SUBSET PieceType
    BY Sizes
  <1>4. /\ raw \in Nat /\ raw >= size /\ raw >= dsize
        /\ MaxOf(raw, 1) \in Nat /\ MaxOf(raw, 1) >= raw
    BY <1>3, MaxOfTyped
  <1>5. sz \in Nat /\ sz >= MaxOf(raw, 1)
    BY <1>3, <1>4, AlignUpGrows
  <1>6. MaxOf(raw, 1) >= dsize
    BY <1>3, <1>4
  <1>7. AlignUp(dsize, align) <= sz
    BY <1>3, <1>4, <1>6, AlignUpMonotone
  <1>8. sz >= size /\ sz >= raw /\ sz >= dsize
    BY <1>3, <1>4, <1>5, <1>6
  <1> HIDE DEF raw, sz
  <1>9. ds \in Nat /\ ds <= sz
    <2>1. CASE pod
      BY <1>5, <2>1
    <2>2. CASE ~pod
      BY <1>4, <1>5, <1>8, <2>2
    <2>3. QED
      BY <2>1, <2>2
  <1>10. nv.size \in Nat /\ nv.align \in Nat \ {0} /\ vbases \in Seq(Nat)
    BY DEF TypeOK, WalkOK
  <1>11. nv.size <= sz
    BY <1>1, <1>2, <1>3, <1>5, <1>7, <1>8, <1>10 DEF Cut
  <1>12. ASSUME NEW p \in placed, Occupies(p)
         PROVE  p.hi <= 8 * (IF p.role = "vbase" THEN sz ELSE nv.size)
    <2>1. p.hi <= 8 * (IF p.role = "vbase" THEN size ELSE nv.size) /\ p.hi \in Nat
      BY <1>1, <1>2, <1>3, <1>12 DEF Cut, PieceType
    <2>2. QED
      BY <1>3, <1>5, <1>8, <2>1
  <1> HIDE DEF ds
  <1>13. /\ l.size = sz /\ l.dsize = ds /\ l.nvSize = nv.size /\ l.placed = placed
         /\ l.pod = pod /\ l.vbases = vbases /\ l.empty = IsEmpty
    BY DEF Layout
  <1>14. l \in LayoutType
    <2>1. /\ hasVptr \in BOOLEAN /\ pod \in BOOLEAN /\ empties \in SUBSET (Nat \X Nat)
      BY DEF TypeOK, StateOK
    <2>2. QED
      BY <1>3, <1>5, <1>9, <1>10, <2>1, EmptyTyped DEF Layout, LayoutType
  <1> HIDE DEF l
  <1>15. Bounds(l)
    BY <1>9, <1>11, <1>12, <1>13 DEF Bounds
  <1>16. Record => DisjointPieces(l)
    BY <1>2, <1>13 DEF Apart, DisjointPieces
  <1>17. (l.pod => l.vbases = << >>) /\ (l.empty => l.nvSize = 0)
    BY <1>1, <1>2, <1>13 DEF Cut
  <1>18. QED
    BY <1>1, <1>2, <1>14, <1>15, <1>16, <1>17, FinishPlacement

LEMMA FailPlacement == TypeOK /\ Placement /\ Fail => Placement'
  <1> SUFFICES ASSUME TypeOK, Placement, Fail PROVE Placement'
    OBVIOUS
  <1> DEFINE l == Layout(FALSE, 0, 1, 0, 0, 1, FALSE, {}, {}, << >>)
  <1>1. classes' = Append(classes, l) /\ phase' = "idle" /\ ctx' = ctx /\ InHand
    BY DEF Fail, LayoutError, InHand, AtBase, AtMember, Walking
  <1>2. l \in LayoutType
    <2>1. pod \in BOOLEAN
      BY DEF TypeOK, StateOK
    <2>2. {} \in SUBSET PieceType /\ {} \in SUBSET (Nat \X Nat) /\ << >> \in Seq(Nat)
      OBVIOUS
    <2>3. QED
      BY <2>1, <2>2, EmptyTyped DEF Layout, LayoutType
  <1>3. l.ok = FALSE /\ l.vbases = << >> /\ l.nvSize = 0 /\ l.placed = {}
    BY DEF Layout
  <1> HIDE DEF l
  <1>4. QED
    BY <1>1, <1>2, <1>3, FinishPlacement DEF DisjointPieces

LEMMA StepPlacement == TypeOK /\ Placement /\ [Next]_vars => Placement'
  <1> SUFFICES ASSUME TypeOK, Placement, [Next]_vars PROVE Placement'
    OBVIOUS
  <1>1. TypeOK'
    BY StepTyped
  <1>2. CASE UNCHANGED vars
    <2>1. UNCHANGED <<ctx, classes, phase, pod, state, walk>>
      BY <1>2 DEF vars
    <2>2. UNCHANGED <<ctx, classes, phase, pod, size, align, dsize, placed, au,
                      vbases, nv, vend>>
      BY <2>1 DEF state, walk
    <2>3. QED
      BY <2>2 DEF Placement, Now, BelowEdge, BelowUnit, Apart, PrimaryFirst, VirtualLast,
                  Cut, PodOK, EmptyOK, InHand, Record, Edge, decl, ClassIds, IsEmpty,
                  SubobjectsInside, SubobjectsDisjoint, Occupies, Disjoint
  <1>3. CASE Next
    BY <1>1, <1>3, BeginPlacement, PrimaryPlacement, BasesPlacement, FieldPlacement,
       BitfieldPlacement, UnionPlacement, SnapshotPlacement, WalkPlacement,
       VirtualBasePlacement, FinalizePlacement, FailPlacement DEF Next
  <1>4. QED
    BY <1>2, <1>3

LEMMA AlwaysPlacement == Spec => [](TypeOK /\ Placement)
  <1>1. Init => TypeOK /\ Placement
    BY InitTyped, InitPlacement
  <1>2. (TypeOK /\ Placement) /\ [Next]_vars => (TypeOK /\ Placement)'
    BY StepTyped, StepPlacement
  <1>3. QED
    BY <1>1, <1>2, PTL DEF Spec

(* For every program and pointer size, every subobject that occupies storage *)
(* ends inside the part of the object its class promises it: a derived class *)
(* that places the class by its non-virtual size overwrites nothing of it.   *)
THEOREM InsideCorrect == Spec => []SubobjectsInside
  <1>1. TypeOK /\ Placement => SubobjectsInside
    BY DEF Placement
  <1>2. QED
    BY <1>1, AlwaysPlacement, PTL

(* For every program and pointer size, no two subobjects of a class share a  *)
(* bit, tail-padding reuse, empty bases and bit-field packing included.      *)
THEOREM DisjointCorrect == Spec => []SubobjectsDisjoint
  <1>1. TypeOK /\ Placement => SubobjectsDisjoint
    BY DEF Placement
  <1>2. QED
    BY <1>1, AlwaysPlacement, PTL

-----------------------------------------------------------------------------
(* Divisibility, for the alignment of a subobject inside its class. *)

(* Of two alignments the larger is a multiple of the smaller.                *)
LEMMA Nested ==
  ASSUME NEW a \in Nat \ {0}, NEW b \in Nat \ {0}, b <= a, a % b = 0 \/ b % a = 0
  PROVE  a % b = 0
  <1>1. CASE b = a
    <2>1. (1 * b) % b = 0
      BY MultipleMod
    <2>2. QED
      BY <1>1, <2>1
  <1>2. CASE b < a
    <2>1. b % a = b
      BY <1>2
    <2>2. QED
      BY <2>1
  <1>3. QED
    BY <1>1, <1>2

(* A multiple of a, as a product.                                            *)
LEMMA Quotient ==
  ASSUME NEW v \in Nat, NEW a \in Nat \ {0}, v % a = 0
  PROVE  \E q \in Nat : v = q * a
  <1>1. v \div a \in Nat /\ v = (v \div a) * a + (v % a)
    OBVIOUS
  <1>2. QED
    BY <1>1

(* From bytes to bits.                                                       *)
LEMMA Scaled ==
  ASSUME NEW v \in Nat, NEW a \in Nat \ {0}, v % a = 0
  PROVE  (8 * v) % (8 * a) = 0
  <1>1. PICK q \in Nat : v = q * a
    BY Quotient
  <1>2. 8 * v = q * (8 * a) /\ 8 * a \in Nat \ {0}
    BY <1>1
  <1>3. QED
    BY <1>2, MultipleMod

(* A multiple of a is one of whatever divides a.                             *)
LEMMA DividesTrans ==
  ASSUME NEW v \in Nat, NEW a \in Nat \ {0}, NEW b \in Nat \ {0}, v % a = 0, a % b = 0
  PROVE  v % b = 0
  <1>1. PICK q \in Nat : v = q * a
    BY Quotient
  <1>2. PICK r \in Nat : a = r * b
    BY Quotient
  <1>3. v = (q * r) * b /\ q * r \in Nat
    BY <1>1, <1>2
  <1>4. QED
    BY <1>3, MultipleMod

(* An address inside the q-th unit of a bytes.                               *)
LEMMA InUnit ==
  ASSUME NEW q \in Nat, NEW a \in Nat \ {0}, NEW x \in Nat, q * a <= x, x < q * a + a
  PROVE  x \div a = q
  <1> DEFINE d == x \div a
  <1>1. d \in Nat /\ d * a <= x /\ x < d * a + a
    BY DivBounds
  <1> HIDE DEF d
  <1>2. d * a \in Nat /\ q * a \in Nat
    BY <1>1
  <1>3. d * a < q * a + a /\ q * a < d * a + a
    BY <1>1, <1>2
  <1>4. d * a <= q * a /\ q * a <= d * a
    BY <1>1, <1>3, MulLess
  <1>5. d * a = q * a
    BY <1>2, <1>4
  <1>6. d = q
    BY <1>1, <1>5
  <1>7. QED
    BY <1>6 DEF d

-----------------------------------------------------------------------------
(* The inductive invariant behind SubobjectsAligned.  That a class is        *)
(* aligned for each of its subobjects must hold while it is being laid out:  *)
(* the alignment in hand is the largest of those placed so far, and all are  *)
(* alignments of the program, of which one of any two divides the other.     *)

(* A subobject of a class aligned to `al', As being the program's alignments.*)
InOneUnit(p) ==
  Occupies(p) => p.lo \div (8 * p.align) = (p.hi - 1) \div (8 * p.align)

PieceAligned(p, As, al) ==
  IF p.role = "bits" THEN InOneUnit(p)
  ELSE p.align \in As /\ p.align <= al /\ p.lo % (8 * p.align) = 0

(* A derived class is aligned to a base's align but places it by nvAlign.    *)
ClassAligns ==
  \A c \in ClassIds :
    /\ classes[c].align \in Alignments(ctx) /\ classes[c].nvAlign \in Alignments(ctx)
    /\ classes[c].nvAlign <= classes[c].align

HandAligns ==
  InHand =>
    /\ align \in Alignments(ctx)
    /\ \A p \in placed : PieceAligned(p, Alignments(ctx), align)

(* The open bit-field unit is a whole unit of its type.                      *)
UnitAligned == InHand /\ au.open => au.bytes # 0 /\ au.at % au.bytes = 0

CutAligned == phase = "vbases" => nv.align \in Alignments(ctx) /\ nv.align <= align

AlignsOK == ClassAligns /\ HandAligns /\ UnitAligned /\ CutAligned /\ SubobjectsAligned

-----------------------------------------------------------------------------
(* The alignments of the program. *)

(* They are positive, and the larger of two is a multiple of the smaller.    *)
LEMMA AlignmentsFacts ==
  ASSUME CtxOK
  PROVE  /\ Alignments(ctx) \subseteq Nat \ {0}
         /\ 1 \in Alignments(ctx) /\ PtrSize \in Alignments(ctx)
         /\ \A a, b \in Alignments(ctx) : a >= b => a % b = 0
  <1>1. /\ ctx \in Programs /\ WellFormed(ctx) /\ WellAligned(ctx) /\ ctx \in Seq(ClassDef)
    BY ProgramAssumption, AlignmentAssumption DEF CtxOK, WellFormed
  <1>2. ASSUME NEW a \in Alignments(ctx) PROVE a \in Nat \ {0}
    <2>1. a # 0 /\ (\/ a \in {1, PtrSize}
                    \/ \E c \in DOMAIN ctx : a = ctx[c].align
                    \/ \E c \in DOMAIN ctx : \E k \in DOMAIN ctx[c].fields :
                         a \in {ctx[c].fields[k].align, ctx[c].fields[k].explicit})
      BY <1>2 DEF Alignments
    <2>2. CASE a \in {1, PtrSize}
      BY <2>2, PtrAssumption
    <2>3. CASE \E c \in DOMAIN ctx : a = ctx[c].align
      <3>1. PICK c \in DOMAIN ctx : a = ctx[c].align
        BY <2>3
      <3>2. ctx[c] \in ClassDef
        BY <1>1
      <3>3. ctx[c].align \in Nat
        BY <3>2 DEF ClassDef
      <3>4. QED
        BY <2>1, <3>1, <3>3
    <2>4. CASE \E c \in DOMAIN ctx : \E k \in DOMAIN ctx[c].fields :
                 a \in {ctx[c].fields[k].align, ctx[c].fields[k].explicit}
      <3>1. PICK c \in DOMAIN ctx : \E k \in DOMAIN ctx[c].fields :
                 a \in {ctx[c].fields[k].align, ctx[c].fields[k].explicit}
        BY <2>4
      <3>2. PICK k \in DOMAIN ctx[c].fields :
                 a \in {ctx[c].fields[k].align, ctx[c].fields[k].explicit}
        BY <3>1
      <3>3. ctx[c] \in ClassDef
        BY <1>1
      <3>4. ctx[c].fields[k] \in Member
        BY <3>2, <3>3 DEF ClassDef
      <3>5. ctx[c].fields[k].align \in Nat /\ ctx[c].fields[k].explicit \in Nat
        BY <3>4 DEF Member
      <3>6. QED
        BY <2>1, <3>2, <3>5
    <2>5. QED
      BY <2>1, <2>2, <2>3, <2>4
  <1>3. 1 \in Alignments(ctx) /\ PtrSize \in Alignments(ctx)
    BY PtrAssumption DEF Alignments
  <1>4. ASSUME NEW a \in Alignments(ctx), NEW b \in Alignments(ctx), a >= b PROVE a % b = 0
    <2>1. a % b = 0 \/ b % a = 0
      BY <1>1 DEF WellAligned
    <2>2. QED
      BY <1>2, <1>4, <2>1, Nested
  <1>5. QED
    BY <1>2, <1>3, <1>4

(* The larger of two alignments of a program is one of them. *)
LEMMA MaxOfAlignments ==
  ASSUME CtxOK, NEW a \in Alignments(ctx), NEW b \in Alignments(ctx)
  PROVE  /\ MaxOf(a, b) \in Alignments(ctx)
         /\ MaxOf(a, b) >= a /\ MaxOf(a, b) >= b
         /\ MaxOf(a, b) % b = 0
  <1>1. a \in Nat /\ b \in Nat
    BY AlignmentsFacts
  <1>2. MaxOf(a, b) \in Alignments(ctx) /\ MaxOf(a, b) >= a /\ MaxOf(a, b) >= b
    BY <1>1 DEF MaxOf
  <1>3. QED
    BY <1>2, AlignmentsFacts

(* The class in hand and its members. *)
LEMMA DeclAligns ==
  ASSUME CtxOK, Len(classes) < Len(ctx)
  PROVE  /\ decl.align = 0 \/ decl.align \in Alignments(ctx)
         /\ \A k \in DOMAIN decl.fields :
              LET m == decl.fields[k]
              IN /\ m.align \in Alignments(ctx)
                 /\ m.explicit = 0 \/ m.explicit \in Alignments(ctx)
                 /\ m.bitfield => m.rec = 0 /\ m.len = 1 /\ m.size = m.align
  <1>1. /\ ctx \in Programs /\ WellFormed(ctx) /\ WellAligned(ctx) /\ ctx \in Seq(ClassDef)
        /\ Len(classes) \in Nat
    BY ProgramAssumption, AlignmentAssumption DEF CtxOK, WellFormed
  <1> DEFINE c == Len(classes) + 1
  <1>2. c \in DOMAIN ctx /\ decl = ctx[c] /\ decl.fields \in Seq(Member)
    BY <1>1, DeclTyped DEF decl
  <1> HIDE DEF c
  <1>3. decl.align # 0 => decl.align \in Alignments(ctx)
    BY <1>2 DEF Alignments
  <1>4. ASSUME NEW k \in DOMAIN decl.fields
        PROVE  /\ decl.fields[k].align \in Alignments(ctx)
               /\ decl.fields[k].explicit # 0 => decl.fields[k].explicit \in Alignments(ctx)
    <2>1. decl.fields[k] \in Member
      BY <1>2, <1>4
    <2>2. decl.fields[k].align # 0
      BY <2>1 DEF Member
    <2>3. \A a \in {decl.fields[k].align, decl.fields[k].explicit} :
            a # 0 => a \in Alignments(ctx)
      BY <1>2, <1>4 DEF Alignments
    <2>4. QED
      BY <2>2, <2>3
  <1>5. ASSUME NEW k \in DOMAIN decl.fields, decl.fields[k].bitfield
        PROVE  /\ decl.fields[k].rec = 0 /\ decl.fields[k].len = 1
               /\ decl.fields[k].size = decl.fields[k].align
    BY <1>1, <1>2, <1>5 DEF WellAligned
  <1>6. QED
    BY <1>3, <1>4, <1>5

(* The next member: its alignment, explicit or not, and a bit-field's unit.  *)
LEMMA MemberAligns ==
  ASSUME TypeOK, ClassAligns, AtMember
  PROVE  /\ ThisMember \in Member /\ TypeSize(ThisMember) \in Nat
         /\ MaxOf(ThisMember.explicit, 1) \in Alignments(ctx)
         /\ NaturalAlign(ThisMember) \in Alignments(ctx)
         /\ ThisMember.bitfield =>
              TypeSize(ThisMember) \in Nat \ {0} /\ NaturalAlign(ThisMember) % TypeSize(ThisMember) = 0
  <1> DEFINE m == ThisMember
             As == Alignments(ctx)
  <1>1. CtxOK /\ Len(classes) < Len(ctx) /\ StateOK /\ fields < Len(decl.fields)
    BY DEF TypeOK, PhaseOK, AtMember
  <1>2. decl.fields \in Seq(Member) /\ fields + 1 \in DOMAIN decl.fields
    BY <1>1, DeclTyped DEF StateOK
  <1>3. m \in Member /\ TypeSize(m) \in Nat
    BY <1>1, MemberTyped
  <1>4. m.rec = 0 \/ m.rec \in ClassIds
    BY <1>1, <1>2, DeclTyped DEF ThisMember
  <1>5. /\ m.align \in As
        /\ m.explicit = 0 \/ m.explicit \in As
        /\ m.bitfield => m.rec = 0 /\ m.len = 1 /\ m.size = m.align
    BY <1>1, <1>2, DeclAligns DEF ThisMember
  <1>6. TypeAlign(m) \in As
    BY <1>4, <1>5 DEF TypeAlign, ClassAligns
  <1>7. As \subseteq Nat \ {0} /\ 1 \in As /\ \A a, b \in As : a >= b => a % b = 0
    BY <1>1, AlignmentsFacts
  <1>8. m.bitfield => TypeSize(m) = TypeAlign(m)
    <2>1. m.align \in Nat
      BY <1>5, <1>7
    <2> HIDE DEF m
    <2>2. m.bitfield => TypeSize(m) = 1 * m.align /\ TypeAlign(m) = m.align
      BY <1>5 DEF TypeSize, TypeAlign
    <2>3. QED
      BY <2>1, <2>2
  <1> HIDE DEF m, As
  <1>9. MaxOf(m.explicit, 1) \in As
    <2>1. CASE m.explicit = 0
      BY <1>7, <2>1 DEF MaxOf
    <2>2. CASE m.explicit \in As
      BY <1>7, <2>2 DEF MaxOf
    <2>3. QED
      BY <1>5, <2>1, <2>2
  <1> DEFINE t == TypeAlign(m)
             x == MaxOf(m.explicit, t)
  <1> HIDE DEF t
  <1>10. x \in As /\ x >= t
    <2>1. t \in As /\ t \in Nat /\ t # 0
      BY <1>6, <1>7 DEF t
    <2>2. CASE m.explicit = 0
      BY <2>1, <2>2 DEF MaxOf
    <2>3. CASE m.explicit \in As
      <3>1. m.explicit \in Nat
        BY <1>7, <2>3
      <3>2. QED
        BY <2>1, <2>3, <3>1 DEF MaxOf
    <2>4. QED
      BY <1>5, <2>2, <2>3
  <1> HIDE DEF x
  <1>11. NaturalAlign(m) \in As /\ NaturalAlign(m) >= TypeAlign(m)
    <2>1. x \in Nat /\ x # 0
      BY <1>7, <1>10
    <2>2. MaxOf(x, 1) = x
      BY <2>1 DEF MaxOf
    <2>3. NaturalAlign(m) = x
      BY <2>2 DEF NaturalAlign, x, t
    <2>4. QED
      BY <1>10, <2>3 DEF t
  <1>12. NaturalAlign(m) % TypeAlign(m) = 0
    BY <1>6, <1>7, <1>11
  <1>13. m.bitfield => TypeSize(m) \in Nat \ {0} /\ NaturalAlign(m) % TypeSize(m) = 0
    BY <1>6, <1>7, <1>8, <1>12
  <1>14. QED
    BY <1>3, <1>9, <1>11, <1>13 DEF m, As

-----------------------------------------------------------------------------
(* How a step keeps the invariant. *)

(* A step that leaves the finished classes alone.                            *)
LEMMA AlignFrame ==
  ASSUME UNCHANGED <<ctx, classes>>, ClassAligns, SubobjectsAligned
  PROVE  ClassAligns' /\ SubobjectsAligned'
  BY DEF ClassAligns, SubobjectsAligned, ClassIds, Occupies

(* A subobject stays aligned in a class whose alignment grows.               *)
LEMMA PieceGrows ==
  ASSUME NEW p \in PieceType, NEW As, NEW al \in Nat, NEW al2 \in Nat, al <= al2,
         PieceAligned(p, As, al)
  PROVE  PieceAligned(p, As, al2)
  BY DEF PieceAligned, PieceType, InOneUnit, Occupies

(* A step of the class in hand that raises the alignment to a member of the  *)
(* program's and places at most one subobject, aligned.                      *)
LEMMA AlignStep ==
  ASSUME TypeOK, TypeOK', AlignsOK, InHand, UNCHANGED <<ctx, classes>>,
         align' \in Alignments(ctx), align' >= align, UnitAligned', CutAligned',
         \A p \in placed' : p \in placed \/ PieceAligned(p, Alignments(ctx), align')
  PROVE  AlignsOK'
  <1>1. align \in Nat /\ align' \in Nat /\ placed \in SUBSET PieceType
    BY DEF TypeOK, StateOK
  <1>2. ASSUME NEW p \in placed' PROVE PieceAligned(p, Alignments(ctx), align')
    <2>1. CASE p \in placed
      <3>1. PieceAligned(p, Alignments(ctx), align) /\ p \in PieceType
        BY <1>1, <2>1 DEF AlignsOK, HandAligns
      <3>2. QED
        BY <1>1, <3>1, PieceGrows
    <2>2. QED
      BY <1>2, <2>1
  <1>3. HandAligns'
    BY <1>2 DEF HandAligns, PieceAligned, InOneUnit, Occupies
  <1>4. QED
    BY <1>3, AlignFrame DEF AlignsOK

(* A subobject at a byte offset that is a multiple of its alignment. *)
LEMMA BytesAligned ==
  ASSUME NEW r \in Role \ {"bits"}, NEW of, NEW off \in Nat, NEW sz \in Nat,
         NEW al \in Nat \ {0}, off % al = 0, NEW As, al \in As, NEW top \in Nat, al <= top
  PROVE  PieceAligned(Bytes(r, of, off, sz, al), As, top)
  <1>1. (8 * off) % (8 * al) = 0
    BY Scaled
  <1>2. QED
    BY <1>1 DEF PieceAligned, Bytes, Piece

-----------------------------------------------------------------------------
(* The invariant holds at first and after every step. *)

LEMMA InitAligns == Init => AlignsOK
  <1> SUFFICES ASSUME Init PROVE AlignsOK
    OBVIOUS
  <1>1. phase = "idle" /\ ClassIds = {}
    BY DEF Init, ClassIds
  <1>2. QED
    BY <1>1 DEF AlignsOK, ClassAligns, HandAligns, UnitAligned, CutAligned, InHand,
                SubobjectsAligned

LEMMA BeginAligns == TypeOK /\ AlignsOK /\ BeginClass => AlignsOK'
  <1> SUFFICES ASSUME TypeOK, AlignsOK, BeginClass PROVE AlignsOK'
    OBVIOUS
  <1>1. /\ UNCHANGED <<ctx, classes>> /\ placed' = {} /\ au' = NoAU /\ align' = 1
        /\ phase' \in {"primary", "fields"}
    BY DEF BeginClass
  <1>2. 1 \in Alignments(ctx)
    BY AlignmentsFacts DEF TypeOK
  <1>3. HandAligns' /\ UnitAligned' /\ CutAligned'
    BY <1>1, <1>2 DEF HandAligns, UnitAligned, CutAligned, NoAU
  <1>4. QED
    BY <1>1, <1>3, AlignFrame DEF AlignsOK

(* A finished class that another builds on. *)
LEMMA ClassAlignsFacts ==
  ASSUME TypeOK, AlignsOK, NEW c \in ClassIds
  PROVE  /\ c \in Nat /\ classes[c].nvSize \in Nat
         /\ classes[c].align \in Alignments(ctx) /\ classes[c].align \in Nat \ {0}
         /\ classes[c].nvAlign \in Alignments(ctx) /\ classes[c].nvAlign \in Nat \ {0}
         /\ classes[c].nvAlign <= classes[c].align
  BY ClassTyped DEF AlignsOK, ClassAligns, TypeOK

(* Its alignment joins that of the class in hand. *)
LEMMA JoinAlign ==
  ASSUME TypeOK, AlignsOK, InHand, NEW a \in Alignments(ctx), align' = MaxOf(align, a)
  PROVE  /\ align' \in Alignments(ctx) /\ align' >= align /\ align' >= a
         /\ align' \in Nat /\ align \in Nat /\ a \in Nat \ {0}
  <1>1. CtxOK /\ align \in Alignments(ctx)
    BY DEF TypeOK, AlignsOK, HandAligns
  <1>2. Alignments(ctx) \subseteq Nat \ {0}
    BY <1>1, AlignmentsFacts
  <1>3. /\ MaxOf(align, a) \in Alignments(ctx)
        /\ MaxOf(align, a) >= align /\ MaxOf(align, a) >= a
    BY <1>1, MaxOfAlignments
  <1>4. QED
    BY <1>1, <1>2, <1>3

LEMMA PrimaryAligns ==
  TypeOK /\ TypeOK' /\ AlignsOK /\ (PlacePrimary \/ AllocateVptr \/ NoVptr) => AlignsOK'
  <1> SUFFICES ASSUME TypeOK, TypeOK', AlignsOK, PlacePrimary \/ AllocateVptr \/ NoVptr
               PROVE  AlignsOK'
    OBVIOUS
  <1>1. /\ UNCHANGED <<ctx, classes>> /\ au' = au
        /\ phase = "primary" /\ phase' = "bases" /\ InHand /\ InHand'
    BY DEF PlacePrimary, AllocateVptr, NoVptr, state, InHand
  <1>2. UnitAligned' /\ CutAligned'
    BY <1>1 DEF AlignsOK, UnitAligned, CutAligned
  <1>3. CASE NoVptr
    <2>1. placed' = placed /\ align' = align /\ align \in Alignments(ctx) /\ align \in Nat
      BY <1>1, <1>3 DEF NoVptr, state, AlignsOK, HandAligns, TypeOK, StateOK
    <2>2. align' \in Alignments(ctx) /\ align' >= align
      BY <2>1
    <2>3. QED
      BY <1>1, <1>2, <2>1, <2>2, AlignStep
  <1>4. CASE AllocateVptr
    <2> DEFINE piece == Bytes("vptr", 0, 0, PtrSize, PtrSize)
    <2>1. align' = MaxOf(align, PtrSize) /\ placed' = placed \union {piece}
      BY <1>4 DEF AllocateVptr
    <2>2. PtrSize \in Alignments(ctx)
      BY AlignmentsFacts DEF TypeOK
    <2>3. /\ align' \in Alignments(ctx) /\ align' >= align /\ align' >= PtrSize
          /\ align' \in Nat
      BY <1>1, <2>1, <2>2, JoinAlign
    <2>4. 0 % PtrSize = 0
      BY PtrAssumption
    <2>5. PieceAligned(piece, Alignments(ctx), align')
      BY <2>2, <2>3, <2>4, PtrAssumption, BytesAligned DEF Role
    <2>6. QED
      BY <1>1, <1>2, <2>1, <2>3, <2>5, AlignStep
  <1>5. CASE PlacePrimary
    <2>1. PICK k \in DOMAIN decl.bases : PlacePrimary!2!(k)
      BY <1>5 DEF PlacePrimary
    <2> DEFINE id == decl.bases[k].class
               b == classes[id]
               piece == Bytes("base", id, 0, b.nvSize, b.nvAlign)
    <2>2. id \in ClassIds
      BY <1>1, BaseTyped DEF TypeOK, PhaseOK
    <2>3. align' = MaxOf(align, b.align) /\ placed' = placed \union {piece}
      BY <2>1
    <2>4. /\ b.nvSize \in Nat /\ b.align \in Alignments(ctx) /\ b.align \in Nat
          /\ b.nvAlign \in Alignments(ctx) /\ b.nvAlign \in Nat \ {0} /\ b.nvAlign <= b.align
      BY <2>2, ClassAlignsFacts
    <2> HIDE DEF id, b
    <2>5. /\ align' \in Alignments(ctx) /\ align' >= align /\ align' >= b.align
          /\ align' \in Nat
      BY <1>1, <2>3, <2>4, JoinAlign
    <2>6. b.nvAlign <= align' /\ 0 % b.nvAlign = 0
      BY <2>4, <2>5
    <2>7. PieceAligned(piece, Alignments(ctx), align')
      BY <2>4, <2>5, <2>6, BytesAligned DEF Role
    <2>8. QED
      BY <1>1, <1>2, <2>3, <2>5, <2>7, AlignStep
  <1>6. QED
    BY <1>3, <1>4, <1>5

LEMMA BasesAligns ==
  TypeOK /\ TypeOK' /\ AlignsOK
    /\ (SkipBase \/ PlaceEmptyBase \/ PlaceNonEmptyBase \/ BasesDone) => AlignsOK'
  <1> SUFFICES ASSUME TypeOK, TypeOK', AlignsOK,
                      SkipBase \/ PlaceEmptyBase \/ PlaceNonEmptyBase \/ BasesDone
               PROVE  AlignsOK'
    OBVIOUS
  <1>1. /\ UNCHANGED <<ctx, classes>> /\ au' = au
        /\ phase = "bases" /\ phase' \in {"bases", "fields"} /\ InHand /\ InHand'
    BY DEF SkipBase, PlaceEmptyBase, PlaceNonEmptyBase, BasesDone, AtBase, state, InHand
  <1>2. UnitAligned' /\ CutAligned'
    BY <1>1 DEF AlignsOK, UnitAligned, CutAligned
  <1>3. CASE SkipBase \/ BasesDone
    <2>1. placed' = placed /\ align' = align /\ align \in Alignments(ctx) /\ align \in Nat
      BY <1>1, <1>3 DEF SkipBase, BasesDone, state, AlignsOK, HandAligns, TypeOK, StateOK
    <2>2. align' \in Alignments(ctx) /\ align' >= align
      BY <2>1
    <2>3. QED
      BY <1>1, <1>2, <2>1, <2>2, AlignStep
  <1> DEFINE id == ThisBase.class
             b == classes[id]
  <1>4. ASSUME PlaceEmptyBase \/ PlaceNonEmptyBase
        PROVE  /\ id \in Nat /\ b.nvSize \in Nat
               /\ b.align \in Alignments(ctx) /\ b.align \in Nat \ {0}
               /\ b.nvAlign \in Alignments(ctx) /\ b.nvAlign \in Nat \ {0}
               /\ b.nvAlign <= align'
               /\ align' \in Alignments(ctx) /\ align' >= align /\ align' >= b.align
               /\ align' \in Nat
    <2>1. AtBase /\ align' = MaxOf(align, b.align)
      BY <1>4 DEF PlaceEmptyBase, PlaceNonEmptyBase
    <2>2. Len(classes) < Len(ctx) /\ CtxOK
      BY <2>1 DEF AtBase, TypeOK, PhaseOK
    <2>3. next \in DOMAIN decl.bases
      BY <2>1, <2>2, DeclTyped DEF AtBase, TypeOK, WalkOK
    <2>4. id \in ClassIds
      BY <2>2, <2>3, BaseTyped DEF ThisBase
    <2>5. /\ id \in Nat /\ b.nvSize \in Nat
          /\ b.align \in Alignments(ctx) /\ b.align \in Nat \ {0}
          /\ b.nvAlign \in Alignments(ctx) /\ b.nvAlign \in Nat \ {0}
          /\ b.nvAlign <= b.align
      BY <2>4, ClassAlignsFacts
    <2> HIDE DEF b, id
    <2>6. /\ align' \in Alignments(ctx) /\ align' >= align /\ align' >= b.align
          /\ align' \in Nat
      BY <1>1, <2>1, <2>5, JoinAlign
    <2>7. QED
      BY <2>5, <2>6
  <1>5. CASE PlaceEmptyBase
    <2>1. PICK k \in 0 .. Cardinality(empties) :
            placed' = placed \union {Bytes("base", id, k * MaxOf(b.align, 1), 0, b.align)}
      BY <1>5 DEF PlaceEmptyBase
    <2> DEFINE al == b.align
               piece == Bytes("base", id, k * MaxOf(al, 1), 0, al)
    <2>2. al \in Nat \ {0} /\ al \in Alignments(ctx) /\ al <= align' /\ align' \in Nat
      BY <1>4, <1>5
    <2>3. placed' = placed \union {piece} /\ k \in Nat
      BY <2>1
    <2> HIDE DEF al
    <2>4. MaxOf(al, 1) = al
      BY <2>2 DEF MaxOf
    <2>5. k * al \in Nat /\ (k * al) % al = 0
      BY <2>2, <2>3, MultipleMod
    <2>6. piece = Bytes("base", id, k * al, 0, al)
      BY <2>4
    <2> HIDE DEF piece
    <2>7. PieceAligned(piece, Alignments(ctx), align')
      BY <2>2, <2>5, <2>6, BytesAligned DEF Role
    <2>8. align' \in Alignments(ctx) /\ align' >= align
      BY <1>4, <1>5
    <2>9. QED
      BY <1>1, <1>2, <2>3, <2>7, <2>8, AlignStep
  <1>6. CASE PlaceNonEmptyBase
    <2> DEFINE off == AlignUp(dsize, b.nvAlign)
               piece == Bytes("base", id, off, b.nvSize, b.nvAlign)
    <2>1. placed' = placed \union {piece}
      BY <1>6 DEF PlaceNonEmptyBase
    <2>2. /\ b.nvSize \in Nat /\ b.nvAlign \in Alignments(ctx) /\ b.nvAlign \in Nat \ {0}
          /\ b.nvAlign <= align' /\ align' \in Nat
      BY <1>4, <1>6
    <2>3. off \in Nat /\ off % b.nvAlign = 0
      BY <2>2, AlignUpGrows, AlignUpAligned, Sizes
    <2> HIDE DEF off, id, b
    <2>4. PieceAligned(piece, Alignments(ctx), align')
      BY <2>2, <2>3, BytesAligned DEF Role
    <2>5. align' \in Alignments(ctx) /\ align' >= align
      BY <1>4, <1>6
    <2>6. QED
      BY <1>1, <1>2, <2>1, <2>4, <2>5, AlignStep
  <1>7. QED
    BY <1>3, <1>5, <1>6

(* A member: a class's at the next multiple of its alignment, a union's at 0. *)
LEMMA FieldAligns ==
  TypeOK /\ TypeOK' /\ AlignsOK /\ (PlaceField \/ PlaceUnionField) => AlignsOK'
  <1> SUFFICES ASSUME TypeOK, TypeOK', AlignsOK, PlaceField \/ PlaceUnionField
               PROVE  AlignsOK'
    OBVIOUS
  <1>1. /\ UNCHANGED <<ctx, classes>> /\ phase = "fields" /\ phase' = "fields"
        /\ InHand /\ AtMember /\ (au' = NoAU \/ au' = au)
    BY DEF PlaceField, PlaceUnionField, AtMember, InHand
  <1>2. UnitAligned' /\ CutAligned'
    BY <1>1 DEF AlignsOK, UnitAligned, CutAligned, InHand, NoAU
  <1>3. PICK al \in Alignments(ctx), off \in Nat :
          /\ off % al = 0 /\ align' = MaxOf(align, al)
          /\ placed' = placed \union
               {Bytes("field", fields + 1, off, TypeSize(ThisMember), al)}
    <2>1. Alignments(ctx) \subseteq Nat \ {0} /\ dsize \in Nat
      BY AlignmentsFacts, Sizes
    <2>2. /\ MaxOf(ThisMember.explicit, 1) \in Alignments(ctx)
          /\ NaturalAlign(ThisMember) \in Alignments(ctx)
      BY <1>1, MemberAligns DEF AlignsOK
    <2>3. CASE PlaceField
      <3> DEFINE al == IF decl.packed THEN MaxOf(ThisMember.explicit, 1)
                       ELSE NaturalAlign(ThisMember)
      <3>1. /\ align' = MaxOf(align, al)
            /\ placed' = placed \union {Bytes("field", fields + 1, AlignUp(dsize, al),
                                              TypeSize(ThisMember), al)}
        BY <2>3 DEF PlaceField
      <3>2. al \in Alignments(ctx) /\ al \in Nat \ {0}
        BY <2>1, <2>2
      <3> HIDE DEF al
      <3>3. AlignUp(dsize, al) \in Nat /\ AlignUp(dsize, al) % al = 0
        BY <2>1, <3>2, AlignUpGrows, AlignUpAligned
      <3>4. QED
        BY <3>1, <3>2, <3>3
    <2>4. CASE PlaceUnionField
      <3> DEFINE al == NaturalAlign(ThisMember)
      <3>1. /\ align' = MaxOf(align, al)
            /\ placed' = placed \union {Bytes("field", fields + 1, 0,
                                              TypeSize(ThisMember), al)}
        BY <2>4 DEF PlaceUnionField
      <3>2. al \in Alignments(ctx) /\ al \in Nat \ {0}
        BY <2>1, <2>2
      <3> HIDE DEF al
      <3>3. 0 % al = 0
        BY <3>2
      <3>4. QED
        BY <3>1, <3>2, <3>3
    <2>5. QED
      BY <2>3, <2>4
  <1> DEFINE piece == Bytes("field", fields + 1, off, TypeSize(ThisMember), al)
  <1>4. /\ align' \in Alignments(ctx) /\ align' >= align /\ align' >= al
        /\ align' \in Nat /\ al \in Nat \ {0}
    BY <1>1, <1>3, JoinAlign
  <1>5. TypeSize(ThisMember) \in Nat
    BY <1>1, MemberAligns DEF AlignsOK
  <1>6. al <= align'
    BY <1>4
  <1>7. PieceAligned(piece, Alignments(ctx), align')
    BY <1>3, <1>4, <1>5, <1>6, BytesAligned DEF Role
  <1>8. QED
    BY <1>1, <1>2, <1>3, <1>4, <1>7, AlignStep

(* Bits of one unit of `s' bytes whose offset is a multiple of s. *)
LEMMA BitsInUnit ==
  ASSUME NEW s \in Nat \ {0}, NEW at \in Nat, at % s = 0, NEW p \in PieceType,
         p.role = "bits", p.align = s, 8 * at <= p.lo, p.hi <= 8 * at + 8 * s,
         NEW As, NEW al
  PROVE  PieceAligned(p, As, al)
  <1>1. p.lo \in Nat /\ p.hi \in Nat
    BY DEF PieceType
  <1>2. PICK q \in Nat : at = q * s
    BY Quotient
  <1> DEFINE u == 8 * s
  <1>3. u \in Nat \ {0} /\ q * u = 8 * at /\ q * u \in Nat
    BY <1>2
  <1>4. ASSUME p.hi > p.lo PROVE p.lo \div u = (p.hi - 1) \div u
    <2> DEFINE lo == p.lo
               hi == p.hi - 1
    <2>1. /\ lo \in Nat /\ hi \in Nat /\ q * u <= lo /\ lo <= hi /\ hi < q * u + u
      BY <1>1, <1>3, <1>4
    <2> HIDE DEF u, lo, hi
    <2>2. lo < q * u + u /\ q * u <= hi
      BY <1>3, <2>1
    <2>3. lo \div u = q /\ hi \div u = q
      BY <1>3, <2>1, <2>2, InUnit
    <2>4. QED
      BY <2>3 DEF lo, hi
  <1>5. QED
    BY <1>4 DEF PieceAligned, InOneUnit, Occupies

LEMMA BitfieldAligns ==
  TypeOK /\ TypeOK' /\ AlignsOK /\ (PlaceZeroWidth \/ PackBitfield \/ OpenUnit) => AlignsOK'
  <1> SUFFICES ASSUME TypeOK, TypeOK', AlignsOK, PlaceZeroWidth \/ PackBitfield \/ OpenUnit
               PROVE  AlignsOK'
    OBVIOUS
  <1> DEFINE al == NaturalAlign(ThisMember)
             s == TypeSize(ThisMember)
  <1>1. /\ UNCHANGED <<ctx, classes, phase>> /\ AtMember /\ phase = "fields" /\ InHand
        /\ ThisMember.bitfield /\ align' = MaxOf(align, al)
    BY DEF PlaceZeroWidth, PackBitfield, OpenUnit, AtBitfield, AtMember, InHand
  <1>2. /\ ThisMember \in Member /\ al \in Alignments(ctx) /\ s \in Nat \ {0} /\ al % s = 0
    BY <1>1, MemberAligns DEF AlignsOK
  <1>3. /\ ThisMember.width \in Nat /\ UnitBits = 8 * s
        /\ au.at \in Nat /\ au.bytes \in Nat /\ au.used \in Nat
        /\ dsize \in Nat /\ fields \in Nat /\ al \in Nat \ {0}
    BY <1>2, AlignmentsFacts DEF Member, UnitBits, TypeOK, StateOK
  <1>4. align' \in Alignments(ctx) /\ align' >= align
    BY <1>1, <1>2, JoinAlign
  <1>5. CutAligned'
    BY <1>1 DEF CutAligned
  <1>6. ASSUME NEW off \in Nat, NEW bit \in Nat, NEW w \in Nat
        PROVE  /\ Bits(off, bit, w) \in PieceType
               /\ Bits(off, bit, w).role = "bits" /\ Bits(off, bit, w).align = s
               /\ Bits(off, bit, w).lo = 8 * off + bit
               /\ Bits(off, bit, w).hi = 8 * off + bit + w
    <2>1. Bits(off, bit, w) \in PieceType
      BY <1>2, <1>3, BitsTyped
    <2>2. /\ Bits(off, bit, w).role = "bits" /\ Bits(off, bit, w).align = s
          /\ Bits(off, bit, w).lo = 8 * off + bit
          /\ Bits(off, bit, w).hi = 8 * off + bit + w
      BY DEF Bits, Piece
    <2>3. QED
      BY <2>1, <2>2
  <1>7. ASSUME NEW off \in Nat, NEW used, off % s = 0, au' = CloseOrKeep(off, used)
        PROVE  UnitAligned'
    BY <1>2, <1>7 DEF UnitAligned, CloseOrKeep, NoAU
  <1>8. CASE PlaceZeroWidth
    <2> DEFINE d == IF au.open THEN MaxOf(dsize, au.at + au.bytes) ELSE dsize
               off == AlignUp(d, al)
               piece == Bits(off, 0, 0)
    <2>1. au' = NoAU /\ placed' = placed \union {piece}
      BY <1>8 DEF PlaceZeroWidth
    <2>2. d \in Nat
      <3>1. au.at + au.bytes \in Nat
        BY <1>3
      <3>2. QED
        BY <1>3, <3>1, MaxOfTyped
    <2> HIDE DEF d
    <2>3. off \in Nat
      BY <1>3, <2>2, AlignUpGrows
    <2> HIDE DEF off
    <2>4. piece.role = "bits" /\ ~Occupies(piece)
      BY <1>6, <2>3 DEF Occupies
    <2> HIDE DEF piece
    <2>5. PieceAligned(piece, Alignments(ctx), align')
      BY <2>4 DEF PieceAligned, InOneUnit
    <2>6. UnitAligned'
      BY <2>1 DEF UnitAligned, NoAU
    <2>7. QED
      BY <1>1, <1>4, <1>5, <2>1, <2>5, <2>6, AlignStep
  <1>9. CASE PackBitfield
    <2> DEFINE used == au.used + ThisMember.width
               o == au.at + (au.used \div 8)
               r == au.used % 8
               w == ThisMember.width
               piece == Bits(o, r, w)
    <2>1. /\ placed' = placed \union {piece} /\ au' = CloseOrKeep(au.at, used)
          /\ au.open /\ au.bytes = s /\ au.used + w <= 8 * s
      BY <1>3, <1>9 DEF PackBitfield, FitsOpenUnit
    <2>2. au.at % s = 0
      BY <1>1, <2>1 DEF AlignsOK, UnitAligned
    <2>3. /\ au.used \div 8 \in Nat /\ r \in Nat /\ w \in Nat
          /\ 8 * (au.used \div 8) + r = au.used
      BY <1>3
    <2>4. o \in Nat /\ 8 * o + r = 8 * au.at + au.used
      BY <1>3, <2>3
    <2>5. UnitAligned'
      BY <1>3, <1>7, <2>1, <2>2
    <2> HIDE DEF o, r, w, s
    <2>6. o \in Nat /\ r \in Nat /\ w \in Nat
      BY <2>3, <2>4
    <2>7. /\ piece \in PieceType /\ piece.role = "bits" /\ piece.align = s
          /\ piece.lo = 8 * o + r /\ piece.hi = 8 * o + r + w
      BY <1>6, <2>6
    <2> HIDE DEF piece
    <2>8. 8 * au.at <= piece.lo /\ piece.hi <= 8 * au.at + 8 * s
      BY <1>2, <1>3, <2>1, <2>3, <2>4, <2>7
    <2>9. PieceAligned(piece, Alignments(ctx), align')
      BY <1>2, <1>3, <2>2, <2>7, <2>8, BitsInUnit
    <2>10. QED
      BY <1>1, <1>4, <1>5, <2>1, <2>5, <2>9, AlignStep
  <1>10. CASE OpenUnit
    <2> DEFINE off == AlignUp(dsize, al)
               used == MinOf(ThisMember.width, UnitBits)
               piece == Bits(off, 0, used)
    <2>1. placed' = placed \union {piece} /\ au' = CloseOrKeep(off, used)
      BY <1>10 DEF OpenUnit
    <2>2. off \in Nat /\ off % al = 0
      BY <1>3, AlignUpGrows, AlignUpAligned
    <2>3. used \in Nat /\ used <= 8 * s
      BY <1>2, <1>3 DEF MinOf
    <2> HIDE DEF off, used, s, al
    <2>4. off % s = 0
      BY <1>2, <1>3, <2>2, DividesTrans
    <2>5. UnitAligned'
      BY <1>7, <2>1, <2>2, <2>4
    <2>6. /\ piece \in PieceType /\ piece.role = "bits" /\ piece.align = s
          /\ piece.lo = 8 * off + 0 /\ piece.hi = 8 * off + 0 + used
      BY <1>6, <2>2, <2>3
    <2> HIDE DEF piece
    <2>7. 8 * off <= piece.lo /\ piece.hi <= 8 * off + 8 * s
      BY <1>2, <2>2, <2>3, <2>6
    <2>8. PieceAligned(piece, Alignments(ctx), align')
      BY <1>2, <2>2, <2>4, <2>6, <2>7, BitsInUnit
    <2>9. QED
      BY <1>1, <1>4, <1>5, <2>1, <2>5, <2>8, AlignStep
  <1>11. QED
    BY <1>8, <1>9, <1>10

LEMMA SnapshotAligns == TypeOK /\ TypeOK' /\ AlignsOK /\ SnapshotNonVirtual => AlignsOK'
  <1> SUFFICES ASSUME TypeOK, TypeOK', AlignsOK, SnapshotNonVirtual PROVE AlignsOK'
    OBVIOUS
  <1>1. /\ UNCHANGED <<ctx, classes, placed, au>> /\ phase = "fields" /\ InHand
        /\ align' = MaxOf(align, decl.align) /\ nv'.align = align'
    BY DEF SnapshotNonVirtual, SourceAlign, InHand
  <1>2. decl.align = 0 \/ decl.align \in Alignments(ctx)
    BY <1>1, DeclAligns DEF TypeOK, PhaseOK
  <1>3. align' \in Alignments(ctx) /\ align' >= align /\ align' \in Nat
    <2>1. CASE decl.align = 0
      <3>1. align \in Nat /\ align \in Alignments(ctx)
        BY <1>1 DEF TypeOK, StateOK, AlignsOK, HandAligns
      <3>2. align' = align
        BY <1>1, <2>1, <3>1 DEF MaxOf
      <3>3. QED
        BY <3>1, <3>2
    <2>2. CASE decl.align \in Alignments(ctx)
      BY <1>1, <2>2, JoinAlign
    <2>3. QED
      BY <1>2, <2>1, <2>2
  <1>4. UnitAligned' /\ CutAligned'
    BY <1>1, <1>3 DEF AlignsOK, UnitAligned, CutAligned
  <1>5. QED
    BY <1>1, <1>3, <1>4, AlignStep

LEMMA WalkAligns == TypeOK /\ TypeOK' /\ AlignsOK /\ (NextBase \/ SkipCollected) => AlignsOK'
  <1> SUFFICES ASSUME TypeOK, TypeOK', AlignsOK, NextBase \/ SkipCollected PROVE AlignsOK'
    OBVIOUS
  <1>1. /\ UNCHANGED <<ctx, classes, phase, placed, align, au, nv>> /\ InHand
    BY DEF NextBase, SkipCollected, Walking, state, InHand
  <1>2. UnitAligned' /\ CutAligned' /\ HandAligns'
    BY <1>1 DEF AlignsOK, UnitAligned, CutAligned, HandAligns, InHand
  <1>3. QED
    BY <1>1, <1>2, AlignFrame DEF AlignsOK

LEMMA VirtualBaseAligns == TypeOK /\ TypeOK' /\ AlignsOK /\ PlaceVirtualBase => AlignsOK'
  <1> SUFFICES ASSUME TypeOK, TypeOK', AlignsOK, PlaceVirtualBase PROVE AlignsOK'
    OBVIOUS
  <1> DEFINE id == Candidates[vnext]
             b == classes[id]
             off == AlignUp(vend, b.nvAlign)
             piece == Bytes("vbase", id, off, b.nvSize, b.nvAlign)
  <1>1. /\ UNCHANGED <<ctx, classes, phase, au, nv>> /\ phase = "vbases" /\ InHand
        /\ Walking /\ vnext <= Len(Candidates)
        /\ align' = MaxOf(align, b.align) /\ placed' = placed \union {piece}
    BY DEF PlaceVirtualBase, Walking, InHand
  <1>2. vnext \in 1 .. Len(Candidates)
    BY <1>1 DEF TypeOK, WalkOK
  <1>3. id \in ClassIds
    BY <1>1, <1>2, CandidatesTyped DEF TypeOK
  <1>4. /\ b.nvSize \in Nat /\ b.align \in Alignments(ctx) /\ b.align \in Nat
        /\ b.nvAlign \in Alignments(ctx) /\ b.nvAlign \in Nat \ {0} /\ b.nvAlign <= b.align
    BY <1>3, ClassAlignsFacts
  <1> HIDE DEF id, b
  <1>5. /\ align' \in Alignments(ctx) /\ align' >= align /\ align' >= b.align
        /\ align' \in Nat /\ align \in Nat
    BY <1>1, <1>4, JoinAlign
  <1>6. off \in Nat /\ off % b.nvAlign = 0
    BY <1>4, AlignUpGrows, AlignUpAligned, Sizes
  <1>7. b.nvAlign <= align'
    BY <1>4, <1>5
  <1> HIDE DEF off
  <1>8. PieceAligned(piece, Alignments(ctx), align')
    BY <1>4, <1>5, <1>6, <1>7, BytesAligned DEF Role
  <1>9. UnitAligned'
    BY <1>1 DEF AlignsOK, UnitAligned, InHand
  <1>10. CutAligned'
    <2>1. nv.align \in Alignments(ctx) /\ nv.align <= align /\ nv.align \in Nat
      BY <1>1 DEF AlignsOK, CutAligned, TypeOK, WalkOK
    <2>2. nv.align <= align'
      BY <1>5, <2>1
    <2>3. QED
      BY <1>1, <2>1, <2>2 DEF CutAligned
  <1>11. QED
    BY <1>1, <1>5, <1>8, <1>9, <1>10, AlignStep

AlignedPieces(l) ==
  /\ l.size % l.align = 0
  /\ \A p \in l.placed :
       IF p.role = "bits" THEN InOneUnit(p)
       ELSE p.lo % (8 * p.align) = 0 /\ l.align % p.align = 0

(* One more finished class, aligned in itself.                               *)
LEMMA FinishAligns ==
  ASSUME TypeOK, AlignsOK, InHand, phase' = "idle", ctx' = ctx,
         NEW l, classes' = Append(classes, l),
         l.align \in Alignments(ctx), l.nvAlign \in Alignments(ctx), l.nvAlign <= l.align,
         l.ok => AlignedPieces(l)
  PROVE  AlignsOK'
  <1>1. classes \in Seq(LayoutType) /\ Len(classes) \in Nat
    BY DEF TypeOK, CtxOK
  <1>2. ASSUME NEW c \in ClassIds'
        PROVE  \/ c \in ClassIds /\ classes'[c] = classes[c]
               \/ classes'[c] = l
    BY <1>1, <1>2 DEF ClassIds
  <1>3. ClassAligns'
    BY <1>2 DEF AlignsOK, ClassAligns
  <1>4. ASSUME NEW c \in ClassIds', classes'[c].ok PROVE AlignedPieces(classes'[c])
    BY <1>2, <1>4 DEF AlignsOK, SubobjectsAligned, AlignedPieces, InOneUnit
  <1>5. SubobjectsAligned'
    BY <1>4 DEF SubobjectsAligned, AlignedPieces, InOneUnit, Occupies
  <1>6. HandAligns' /\ UnitAligned' /\ CutAligned'
    BY DEF HandAligns, UnitAligned, CutAligned, InHand
  <1>7. QED
    BY <1>3, <1>5, <1>6 DEF AlignsOK

LEMMA FinalizeAligns == TypeOK /\ AlignsOK /\ Finalize => AlignsOK'
  <1> SUFFICES ASSUME TypeOK, AlignsOK, Finalize PROVE AlignsOK'
    OBVIOUS
  <1> DEFINE raw == MaxOf(size, dsize)
             sz == AlignUp(MaxOf(raw, 1), align)
             l == Layout(TRUE, sz, align, IF pod THEN sz ELSE raw, nv.size, nv.align,
                         hasVptr, placed, empties, vbases)
  <1>1. phase = "vbases" /\ classes' = Append(classes, l) /\ phase' = "idle" /\ ctx' = ctx
        /\ InHand
    BY DEF Finalize, InHand
  <1>2. size \in Nat /\ dsize \in Nat /\ align \in Nat \ {0} /\ placed \in SUBSET PieceType
    BY Sizes
  <1>3. MaxOf(raw, 1) \in Nat
    BY <1>2, MaxOfTyped
  <1>4. sz % align = 0
    BY <1>2, <1>3, AlignUpAligned
  <1>5. /\ align \in Alignments(ctx) /\ nv.align \in Alignments(ctx) /\ nv.align <= align
    BY <1>1 DEF AlignsOK, HandAligns, CutAligned
  <1> HIDE DEF sz, raw
  <1>6. /\ l.size = sz /\ l.align = align /\ l.nvAlign = nv.align /\ l.placed = placed
    BY DEF Layout
  <1>7. ASSUME NEW p \in placed
        PROVE  IF p.role = "bits" THEN InOneUnit(p)
               ELSE p.lo % (8 * p.align) = 0 /\ align % p.align = 0
    <2>1. PieceAligned(p, Alignments(ctx), align)
      BY <1>1, <1>7 DEF AlignsOK, HandAligns
    <2>2. CASE p.role = "bits"
      BY <2>1, <2>2 DEF PieceAligned
    <2>3. CASE p.role # "bits"
      <3>1. p.align \in Alignments(ctx) /\ p.align <= align /\ p.lo % (8 * p.align) = 0
        BY <2>1, <2>3 DEF PieceAligned
      <3>2. p.align \in Nat
        BY <1>2, <1>7 DEF PieceType
      <3>3. align >= p.align
        BY <1>2, <3>1, <3>2
      <3>4. align % p.align = 0
        BY <1>5, <3>1, <3>3, AlignmentsFacts DEF TypeOK
      <3>5. QED
        BY <2>3, <3>1, <3>4
    <2>4. QED
      BY <2>2, <2>3
  <1> HIDE DEF l
  <1>8. AlignedPieces(l)
    BY <1>4, <1>6, <1>7 DEF AlignedPieces
  <1>9. QED
    BY <1>1, <1>5, <1>6, <1>8, FinishAligns

LEMMA FailAligns == TypeOK /\ AlignsOK /\ Fail => AlignsOK'
  <1> SUFFICES ASSUME TypeOK, AlignsOK, Fail PROVE AlignsOK'
    OBVIOUS
  <1> DEFINE l == Layout(FALSE, 0, 1, 0, 0, 1, FALSE, {}, {}, << >>)
  <1>1. classes' = Append(classes, l) /\ phase' = "idle" /\ ctx' = ctx /\ InHand
    BY DEF Fail, LayoutError, InHand, AtBase, AtMember, Walking
  <1>2. l.ok = FALSE /\ l.align = 1 /\ l.nvAlign = 1
    BY DEF Layout
  <1>3. 1 \in Alignments(ctx)
    BY AlignmentsFacts DEF TypeOK
  <1> HIDE DEF l
  <1>4. l.align \in Alignments(ctx) /\ l.nvAlign \in Alignments(ctx) /\ l.nvAlign <= l.align
    BY <1>2, <1>3
  <1>5. QED
    BY <1>1, <1>2, <1>4, FinishAligns

LEMMA StepAligns == TypeOK /\ AlignsOK /\ [Next]_vars => AlignsOK'
  <1> SUFFICES ASSUME TypeOK, AlignsOK, [Next]_vars PROVE AlignsOK'
    OBVIOUS
  <1>1. TypeOK'
    BY StepTyped
  <1>2. CASE UNCHANGED vars
    <2>1. UNCHANGED <<ctx, classes, phase, state, walk>>
      BY <1>2 DEF vars
    <2>2. UNCHANGED <<ctx, classes, phase, align, placed, au, nv>>
      BY <2>1 DEF state, walk
    <2>3. HandAligns' /\ UnitAligned' /\ CutAligned'
      BY <2>2 DEF AlignsOK, HandAligns, UnitAligned, CutAligned, InHand
    <2>4. QED
      BY <2>2, <2>3, AlignFrame DEF AlignsOK
  <1>3. CASE Next
    BY <1>1, <1>3, BeginAligns, PrimaryAligns, BasesAligns, FieldAligns, BitfieldAligns,
       SnapshotAligns, WalkAligns, VirtualBaseAligns, FinalizeAligns, FailAligns DEF Next
  <1>4. QED
    BY <1>2, <1>3

(* For every program whose alignments are powers of two, every subobject of  *)
(* a finished class, virtual bases and reused tail padding included, is      *)
(* aligned for its own type in every element of an array of the class, and   *)
(* no bit-field straddles two units of its declared type.                    *)
THEOREM AlignedCorrect == Spec => []SubobjectsAligned
  <1>1. Init => TypeOK /\ AlignsOK
    BY InitTyped, InitAligns
  <1>2. (TypeOK /\ AlignsOK) /\ [Next]_vars => (TypeOK /\ AlignsOK)'
    BY StepTyped, StepAligns
  <1>3. TypeOK /\ AlignsOK => SubobjectsAligned
    BY DEF AlignsOK
  <1>4. QED
    BY <1>1, <1>2, <1>3, PTL DEF Spec

-----------------------------------------------------------------------------
(* Integers as sets of bits. *)

(* What a shift leaves, bit by bit.                                          *)
LEMMA ShiftBits ==
  ASSUME NEW x \in SUBSET Nat, NEW n \in Nat, NEW bits \in Nat \ {0}, NEW k \in Nat
  PROVE  /\ k \in Shl(x, n, bits) <=> k < bits /\ k >= n /\ k - n \in x
         /\ k \in Shr(x, n) <=> k + n \in x
         /\ n <= bits =>
              (k \in Sar(x, n, bits) <=> k + n \in x \/ (bits - 1 \in x /\ k >= bits - n /\ k < bits))
<1>1. k \in Shl(x, n, bits) <=> k < bits /\ k >= n /\ k - n \in x
  <2>1. k \in {b + n : b \in x} <=> k >= n /\ k - n \in x
    <3>1. ASSUME k \in {b + n : b \in x} PROVE k >= n /\ k - n \in x
      <4>1. PICK b \in x : k = b + n
        BY <3>1
      <4> QED BY <4>1
    <3>2. ASSUME k >= n, k - n \in x PROVE k \in {b + n : b \in x}
      <4>1. k = (k - n) + n
        OBVIOUS
      <4> QED BY <3>2, <4>1
    <3> QED BY <3>1, <3>2
  <2>2. k \in 0 .. bits - 1 <=> k < bits
    OBVIOUS
  <2> QED BY <2>1, <2>2 DEF Shl
<1>2. k \in Shr(x, n) <=> k + n \in x
  <2>1. ASSUME k \in Shr(x, n) PROVE k + n \in x
    <3>1. PICK b \in {c \in x : c >= n} : k = b - n
      BY <2>1 DEF Shr
    <3>2. b \in Nat /\ k + n = b
      BY <3>1
    <3> QED BY <3>1, <3>2
  <2>2. ASSUME k + n \in x PROVE k \in Shr(x, n)
    <3>1. k + n >= n /\ k = (k + n) - n
      OBVIOUS
    <3> QED BY <2>2, <3>1 DEF Shr
  <2> QED BY <2>1, <2>2
<1>3. ASSUME n <= bits
      PROVE  k \in Sar(x, n, bits) <=> k + n \in x \/ (bits - 1 \in x /\ k >= bits - n /\ k < bits)
  <2>1. k \in bits - n .. bits - 1 <=> k >= bits - n /\ k < bits
    BY <1>3
  <2> QED BY <1>2, <2>1 DEF Sar
<1> QED BY <1>1, <1>2, <1>3

(* Shifted and masked words are words.                                       *)
LEMMA ShiftTyped ==
  ASSUME NEW x \in SUBSET Nat, NEW n \in Nat, NEW bits \in Nat \ {0}
  PROVE  /\ Shl(x, n, bits) \in SUBSET Nat
         /\ Shr(x, n) \in SUBSET Nat
         /\ n <= bits => Sar(x, n, bits) \in SUBSET Nat
<1>1. Shl(x, n, bits) \in SUBSET Nat
  BY DEF Shl
<1>2. Shr(x, n) \in SUBSET Nat
  BY DEF Shr
<1>3. ASSUME n <= bits PROVE bits - n .. bits - 1 \in SUBSET Nat
  BY <1>3
<1> QED BY <1>1, <1>2, <1>3 DEF Sar

-----------------------------------------------------------------------------
(* A field whose bits lie within one container that starts at its byte. *)

Reachable(c, i) ==
  /\ FieldPiece(c, i).lo \in Nat
  /\ Width(c, i) \in Nat \ {0} /\ ContainerBits(c, i) \in Nat \ {0}
  /\ Width(c, i) < ContainerBits(c, i)
  /\ BitOffset(c, i) + Width(c, i) <= ContainerBits(c, i)

(* What a field an accessor can reach gives in numbers.                      *)
LEMMA ReachableFacts ==
  ASSUME NEW c, NEW i, Reachable(c, i)
  PROVE  /\ ByteOffset(c, i) \in Nat /\ BitOffset(c, i) \in Nat
         /\ FieldPiece(c, i).lo = 8 * ByteOffset(c, i) + BitOffset(c, i)
         /\ FieldMask(c, i) \in SUBSET Nat
         /\ \A k \in Nat : k \in FieldMask(c, i) <=> k < Width(c, i)
<1>1. ASSUME NEW lo \in Nat
      PROVE  lo \div 8 \in Nat /\ lo % 8 \in Nat /\ lo = 8 * (lo \div 8) + (lo % 8)
  OBVIOUS
<1>2. \A w \in Nat : 0 .. w - 1 \in SUBSET Nat /\ \A k \in Nat : (k \in 0 .. w - 1 <=> k < w)
  <2>1. ASSUME NEW w \in Nat, NEW k \in Nat PROVE k \in 0 .. w - 1 <=> k < w
    OBVIOUS
  <2>2. ASSUME NEW w \in Nat PROVE 0 .. w - 1 \in SUBSET Nat
    OBVIOUS
  <2> QED BY <2>1, <2>2
<1>3. FieldPiece(c, i).lo \in Nat /\ Width(c, i) \in Nat
  BY DEF Reachable
<1>4. FieldMask(c, i) \in SUBSET Nat /\ \A k \in Nat : k \in FieldMask(c, i) <=> k < Width(c, i)
  BY <1>2, <1>3 DEF FieldMask
<1>5. /\ ByteOffset(c, i) \in Nat /\ BitOffset(c, i) \in Nat
      /\ FieldPiece(c, i).lo = 8 * ByteOffset(c, i) + BitOffset(c, i)
  BY <1>1, <1>3 DEF ByteOffset, BitOffset
<1> QED BY <1>4, <1>5

(* A container, bit by bit.                                                  *)
LEMMA ContainerRead ==
  ASSUME NEW c, NEW i, Reachable(c, i), NEW mem \in SUBSET Nat, NEW k \in Nat
  PROVE  /\ ReadContainer(mem, c, i) \in SUBSET Nat
         /\ k \in ReadContainer(mem, c, i) <=>
              k < ContainerBits(c, i) /\ k + 8 * ByteOffset(c, i) \in mem
<1> DEFINE at == 8 * ByteOffset(c, i)
<1>1. at \in Nat /\ ContainerBits(c, i) \in Nat \ {0}
  BY ReachableFacts DEF Reachable
<1> HIDE DEF at
<1>2. k \in Shr(mem, at) <=> k + at \in mem
  BY <1>1, ShiftBits
<1>3. ReadContainer(mem, c, i) = Shr(mem, at) \intersect (0 .. ContainerBits(c, i) - 1)
  BY DEF ReadContainer, at
<1>4. k \in 0 .. ContainerBits(c, i) - 1 <=> k < ContainerBits(c, i)
  BY <1>1
<1>5. ReadContainer(mem, c, i) \in SUBSET Nat
  BY <1>1, <1>3
<1> QED BY <1>2, <1>3, <1>4, <1>5 DEF at

(* A setter, bit by bit: the field's bits are those of v, the rest stay.      *)
LEMMA SetBits ==
  ASSUME NEW c, NEW i, Reachable(c, i), NEW mem \in SUBSET Nat, NEW v \in SUBSET Nat,
         NEW k \in Nat
  PROVE  /\ Set(mem, c, i, v) \in SUBSET Nat
         /\ k \in Set(mem, c, i, v) <=>
              IF k >= FieldPiece(c, i).lo /\ k < FieldPiece(c, i).lo + Width(c, i)
              THEN k - FieldPiece(c, i).lo \in v ELSE k \in mem
<1> DEFINE at == 8 * ByteOffset(c, i)
           bits == ContainerBits(c, i)
           w == Width(c, i)
           o == BitOffset(c, i)
           lo == FieldPiece(c, i).lo
           raw == ReadContainer(mem, c, i)
           maskV == Shl(FieldMask(c, i), o, bits)
           vBits == Shl(v \intersect FieldMask(c, i), o, bits)
           new == (raw \intersect Complement(maskV, bits)) \union vBits
           after == (mem \ (at .. at + bits - 1)) \union {b + at : b \in new}
<1>1. /\ at \in Nat /\ o \in Nat /\ lo = at + o /\ lo \in Nat
      /\ bits \in Nat \ {0} /\ w \in Nat \ {0} /\ o + w <= bits
  BY ReachableFacts DEF Reachable
<1>2. Set(mem, c, i, v) = after
  BY DEF Set, WriteContainer
<1>3. FieldMask(c, i) \in SUBSET Nat /\ \A j \in Nat : j \in FieldMask(c, i) <=> j < w
  BY ReachableFacts
<1> HIDE DEF at, bits, w, o, lo
<1>4. raw \in SUBSET Nat /\ \A j \in Nat : j \in raw <=> j < bits /\ j + at \in mem
  BY ContainerRead DEF at, bits
<1>5. \A j \in Nat : j \in maskV <=> j >= o /\ j < o + w
  <2>1. ASSUME NEW j \in Nat PROVE j \in maskV <=> j < bits /\ j >= o /\ j - o \in FieldMask(c, i)
    BY <1>1, <1>3, ShiftBits
  <2>2. ASSUME NEW j \in Nat, j >= o PROVE j - o \in FieldMask(c, i) <=> j < o + w
    BY <1>1, <1>3, <2>2
  <2> HIDE DEF maskV
  <2> QED BY <1>1, <2>1, <2>2
<1>6. vBits \in SUBSET Nat /\ \A j \in Nat : j \in vBits <=> j >= o /\ j < o + w /\ j - o \in v
  <2>1. v \intersect FieldMask(c, i) \in SUBSET Nat
    OBVIOUS
  <2>2. ASSUME NEW j \in Nat
        PROVE  j \in vBits <=> j < bits /\ j >= o /\ j - o \in v \intersect FieldMask(c, i)
    BY <1>1, <2>1, ShiftBits
  <2>3. ASSUME NEW j \in Nat, j >= o PROVE j - o \in FieldMask(c, i) <=> j < o + w
    BY <1>1, <1>3, <2>3
  <2>4. vBits \in SUBSET Nat
    BY <1>1, <2>1, ShiftTyped
  <2> HIDE DEF vBits
  <2> QED BY <1>1, <2>2, <2>3, <2>4
<1> HIDE DEF raw, maskV, vBits
<1>7. /\ new \in SUBSET Nat
      /\ \A j \in Nat : j \in new <=> IF j >= o /\ j < o + w THEN j - o \in v
                                      ELSE j < bits /\ j + at \in mem
  <2>1. \A j \in Nat : j \in Complement(maskV, bits) <=> j < bits /\ j \notin maskV
    BY <1>1 DEF Complement
  <2>2. new \in SUBSET Nat
    BY <1>4, <1>6
  <2> QED BY <1>1, <1>4, <1>5, <1>6, <2>1, <2>2
<1> HIDE DEF new
<1>8. k \in {b + at : b \in new} <=> k >= at /\ k - at \in new
  <2>1. ASSUME k \in {b + at : b \in new} PROVE k >= at /\ k - at \in new
    <3>1. PICK b \in new : k = b + at
      BY <2>1
    <3>2. b \in Nat
      BY <1>7, <3>1
    <3> QED BY <1>1, <3>1, <3>2
  <2>2. ASSUME k >= at, k - at \in new PROVE k \in {b + at : b \in new}
    <3>1. k = (k - at) + at
      BY <1>1
    <3> QED BY <2>2, <3>1
  <2> QED BY <2>1, <2>2
<1>9. k \in after <=> (k \in mem /\ ~(k >= at /\ k < at + bits)) \/ (k >= at /\ k - at \in new)
  <2>1. k \in at .. at + bits - 1 <=> k >= at /\ k < at + bits
    BY <1>1
  <2> QED BY <1>8, <2>1
<1>10. after \in SUBSET Nat
  <2>1. ASSUME NEW b \in new PROVE b + at \in Nat
    BY <1>1, <1>7
  <2> QED BY <2>1
<1> HIDE DEF after
<1>11. k \in after <=> IF k >= lo /\ k < lo + w THEN k - lo \in v ELSE k \in mem
  <2>1. CASE k < at
    BY <1>1, <1>9, <2>1
  <2>2. CASE k >= at
    <3>1. k - at \in Nat /\ (k - at) + at = k
      BY <1>1, <2>2
    <3>2. k - at \in new <=> IF k - at >= o /\ k - at < o + w THEN (k - at) - o \in v
                             ELSE k - at < bits /\ (k - at) + at \in mem
      BY <1>7, <3>1
    <3>3. /\ (k - at >= o <=> k >= lo) /\ (k - at < o + w <=> k < lo + w)
          /\ (k - at) - o = k - lo /\ (k - at < bits <=> k < at + bits)
      BY <1>1, <2>2
    <3>4. k - at \in new <=> IF k >= lo /\ k < lo + w THEN k - lo \in v
                             ELSE k < at + bits /\ k \in mem
      BY <3>1, <3>2, <3>3
    <3>5. k >= lo /\ k < lo + w => k < at + bits
      BY <1>1
    <3> QED BY <1>9, <2>2, <3>4, <3>5
  <2> QED BY <1>1, <2>1, <2>2
<1> QED BY <1>2, <1>10, <1>11 DEF lo, w

(* A getter, bit by bit.                                                     *)
LEMMA GetBits ==
  ASSUME NEW c, NEW i, Reachable(c, i), NEW mem \in SUBSET Nat, NEW k \in Nat
  PROVE  /\ Get(mem, c, i, FALSE) \in SUBSET Nat
         /\ Get(mem, c, i, TRUE) \in SUBSET Nat
         /\ k \in Get(mem, c, i, FALSE) <=> k < Width(c, i) /\ k + FieldPiece(c, i).lo \in mem
         /\ k \in Get(mem, c, i, TRUE) <=>
              \/ k < Width(c, i) /\ k + FieldPiece(c, i).lo \in mem
              \/ /\ k >= Width(c, i) /\ k < ContainerBits(c, i)
                 /\ (Width(c, i) - 1) + FieldPiece(c, i).lo \in mem
<1> DEFINE at == 8 * ByteOffset(c, i)
           bits == ContainerBits(c, i)
           w == Width(c, i)
           o == BitOffset(c, i)
           lo == FieldPiece(c, i).lo
           raw == ReadContainer(mem, c, i)
<1>1. /\ at \in Nat /\ o \in Nat /\ lo = at + o /\ lo \in Nat
      /\ bits \in Nat \ {0} /\ w \in Nat \ {0} /\ o + w <= bits /\ w < bits
  BY ReachableFacts DEF Reachable
<1>2. /\ Get(mem, c, i, FALSE) = Shr(raw, o) \intersect FieldMask(c, i)
      /\ Get(mem, c, i, TRUE) = Sar(Shl(raw, (bits - w) - o, bits), bits - w, bits)
  BY DEF Get, GetUnsigned, GetSigned
<1>3. FieldMask(c, i) \in SUBSET Nat /\ \A j \in Nat : j \in FieldMask(c, i) <=> j < w
  BY ReachableFacts
<1> HIDE DEF at, bits, w, o, lo
<1>4. raw \in SUBSET Nat /\ \A j \in Nat : j \in raw <=> j < bits /\ j + at \in mem
  BY ContainerRead DEF at, bits
<1> HIDE DEF raw
<1>5. ASSUME NEW j \in Nat, j < w PROVE j + o \in raw <=> j + lo \in mem
  <2>1. j + o \in Nat /\ j + o < bits /\ (j + o) + at = j + lo
    BY <1>1, <1>5
  <2> QED BY <1>4, <2>1
<1>6. k \in Get(mem, c, i, FALSE) <=> k < w /\ k + lo \in mem
  <2>1. k \in Shr(raw, o) <=> k + o \in raw
    BY <1>1, <1>4, ShiftBits
  <2> QED BY <1>2, <1>3, <1>5, <2>1
<1> DEFINE up == (bits - w) - o
           back == bits - w
           left == Shl(raw, up, bits)
<1>7. up \in Nat /\ back \in Nat /\ back <= bits
  BY <1>1
<1>8. left \in SUBSET Nat
  BY <1>1, <1>4, <1>7, ShiftTyped
<1>9. ASSUME NEW j \in Nat, j < w PROVE j + back \in left <=> j + lo \in mem
  <2>1. /\ j + back \in Nat /\ j + back < bits /\ j + back >= up
        /\ (j + back) - up = j + o
    BY <1>1, <1>7, <1>9
  <2> HIDE DEF up, back
  <2>2. j + back \in left <=>
          j + back < bits /\ j + back >= up /\ (j + back) - up \in raw
    BY <1>1, <1>4, <1>7, <2>1, ShiftBits
  <2> QED BY <1>5, <1>9, <2>1, <2>2
<1>10. ASSUME NEW j \in Nat, j >= w PROVE j + back \notin left
  <2>1. j + back \in Nat /\ ~(j + back < bits)
    BY <1>1, <1>7, <1>10
  <2> HIDE DEF up, back
  <2> QED BY <1>1, <1>4, <1>7, <2>1, ShiftBits
<1>11. bits - 1 \in left <=> (w - 1) + lo \in mem
  <2>1. w - 1 \in Nat /\ w - 1 < w /\ (w - 1) + back = bits - 1
    BY <1>1
  <2> HIDE DEF left, back
  <2>2. (w - 1) + back \in left <=> (w - 1) + lo \in mem
    BY <1>9, <2>1
  <2> QED BY <2>1, <2>2
<1>12. bits - back = w
  BY <1>1
<1>13. k \in Sar(left, back, bits) <=>
         k + back \in left \/ (bits - 1 \in left /\ k >= bits - back /\ k < bits)
  <2> HIDE DEF left, back
  <2> QED BY <1>1, <1>7, <1>8, ShiftBits
<1>14. Get(mem, c, i, TRUE) = Sar(left, back, bits)
  BY <1>2
<1>15. Get(mem, c, i, TRUE) \in SUBSET Nat
  <2>1. Sar(left, back, bits) \in SUBSET Nat
    <3> HIDE DEF up, left, back
    <3> QED BY <1>1, <1>7, <1>8, ShiftTyped
  <2> HIDE DEF up, left, back
  <2> QED BY <1>14, <2>1
<1> HIDE DEF up, back, left
<1>16. k \in Get(mem, c, i, TRUE) <=>
         (k < w /\ k + lo \in mem) \/ (k >= w /\ k < bits /\ (w - 1) + lo \in mem)
  <2>1. k + back \in left <=> k < w /\ k + lo \in mem
    BY <1>1, <1>9, <1>10
  <2> QED BY <1>11, <1>12, <1>13, <1>14, <2>1
<1>17. Get(mem, c, i, FALSE) \in SUBSET Nat
  BY <1>2, <1>3
<1> QED BY <1>6, <1>15, <1>16, <1>17 DEF lo, w, bits

ReadsBack(c, i, mem, v) ==
  LET after == Set(mem, c, i, v)
      own == {b \in mem \union after :
                b >= FieldPiece(c, i).lo /\ b < FieldPiece(c, i).lo + Width(c, i)}
  IN /\ \A signed \in BOOLEAN : Get(after, c, i, signed) = Held(v, c, i, signed)
     /\ mem \ own = after \ own

(* A setter and then a getter, for every memory and every value.             *)
LEMMA ReadBack ==
  ASSUME NEW c, NEW i, Reachable(c, i), NEW mem \in SUBSET Nat, NEW v \in SUBSET Nat
  PROVE  ReadsBack(c, i, mem, v)
<1> DEFINE after == Set(mem, c, i, v)
           w == Width(c, i)
           lo == FieldPiece(c, i).lo
           bits == ContainerBits(c, i)
           own == {b \in mem \union after : b >= lo /\ b < lo + w}
<1>1. lo \in Nat /\ w \in Nat \ {0} /\ bits \in Nat \ {0} /\ w < bits
  BY DEF Reachable
<1>2. FieldMask(c, i) \in SUBSET Nat /\ \A j \in Nat : j \in FieldMask(c, i) <=> j < w
  BY ReachableFacts
<1> HIDE DEF w, lo, bits
<1>3. /\ after \in SUBSET Nat
      /\ \A k \in Nat : k \in after <=> IF k >= lo /\ k < lo + w THEN k - lo \in v ELSE k \in mem
  BY SetBits DEF w, lo
<1> HIDE DEF after
<1>4. ASSUME NEW j \in Nat, j < w PROVE j + lo \in after <=> j \in v
  <2>1. j + lo \in Nat /\ j + lo >= lo /\ j + lo < lo + w /\ (j + lo) - lo = j
    BY <1>1, <1>4
  <2> QED BY <1>3, <2>1
<1>5. Get(after, c, i, FALSE) = Held(v, c, i, FALSE)
  <2>1. Get(after, c, i, FALSE) \in SUBSET Nat /\ Held(v, c, i, FALSE) \in SUBSET Nat
    BY <1>3, GetBits DEF Held
  <2>2. ASSUME NEW k \in Nat PROVE k \in Get(after, c, i, FALSE) <=> k < w /\ k + lo \in after
    BY <1>3, GetBits DEF w, lo
  <2>3. ASSUME NEW k \in Nat PROVE k \in Held(v, c, i, FALSE) <=> k < w /\ k \in v
    BY <1>2 DEF Held
  <2> QED BY <1>4, <2>1, <2>2, <2>3
<1>6. Get(after, c, i, TRUE) = Held(v, c, i, TRUE)
  <2>1. w - 1 \in Nat /\ w - 1 < w
    BY <1>1
  <2>2. w .. bits - 1 \in SUBSET Nat /\ \A k \in Nat : k \in w .. bits - 1 <=> k >= w /\ k < bits
    BY <1>1
  <2>3. Get(after, c, i, TRUE) \in SUBSET Nat
    BY <1>3, GetBits
  <2>4. Held(v, c, i, TRUE) =
          IF w - 1 \in v \intersect FieldMask(c, i)
          THEN (v \intersect FieldMask(c, i)) \union (w .. bits - 1) ELSE v \intersect FieldMask(c, i)
    BY DEF Held, w, bits
  <2>5. w - 1 \in v \intersect FieldMask(c, i) <=> (w - 1) + lo \in after
    BY <1>2, <1>4, <2>1
  <2>6. Held(v, c, i, TRUE) \in SUBSET Nat
    BY <2>2, <2>4
  <2>7. ASSUME NEW k \in Nat
        PROVE  k \in Get(after, c, i, TRUE) <=>
                 (k < w /\ k + lo \in after) \/ (k >= w /\ k < bits /\ (w - 1) + lo \in after)
    BY <1>3, GetBits DEF w, lo, bits
  <2>8. ASSUME NEW k \in Nat
        PROVE  k \in Held(v, c, i, TRUE) <=>
                 (k < w /\ k \in v) \/ (k >= w /\ k < bits /\ (w - 1) + lo \in after)
    <3>1. k \in v \intersect FieldMask(c, i) <=> k < w /\ k \in v
      BY <1>2
    <3> QED BY <2>2, <2>4, <2>5, <3>1
  <2> QED BY <1>4, <2>3, <2>6, <2>7, <2>8
<1>7. mem \ own = after \ own
  <2>1. ASSUME NEW k \in Nat PROVE k \in mem \ own <=> k \in after \ own
    BY <1>3
  <2> QED BY <1>3, <2>1
<1> QED BY <1>5, <1>6, <1>7 DEF after, w, lo, own, ReadsBack

-----------------------------------------------------------------------------
(* The inductive invariant behind BitfieldsReadBack: every member laid out   *)
(* has a piece, and that of a bit-field ends within one container from the   *)
(* byte it starts in.                                                        *)

IsPieceOf(p, i) == p.role \in {"bits", "field"} /\ p.of = i

Reaches(p, m) ==
  m.bitfield /\ m.width < 8 * m.size => (p.lo % 8) + m.width <= 8 * m.size

(* The pieces of the first n members of the class d.                         *)
MembersPlaced(pieces, d, n) ==
  \A i \in 1 .. n :
    /\ \E p \in pieces : IsPieceOf(p, i)
    /\ \A p \in pieces : IsPieceOf(p, i) => Reaches(p, d.fields[i])

NoneLater(pieces, n) ==
  \A p \in pieces : p.role \in {"bits", "field"} => p.of <= n

HandMembers ==
  InHand =>
    /\ fields <= Len(decl.fields)
    /\ phase = "vbases" => fields = Len(decl.fields)
    /\ MembersPlaced(placed, decl, fields)
    /\ NoneLater(placed, fields)

DoneMembers ==
  \A c \in ClassIds :
    classes[c].ok => MembersPlaced(classes[c].placed, ctx[c], Len(ctx[c].fields))

Members == HandMembers /\ DoneMembers

(* The invariant holds before the first class is begun.                      *)
LEMMA InitMembers == Init => Members
  BY DEF Init, Members, HandMembers, DoneMembers, InHand, ClassIds

(* Finished classes keep their members while no class is added.              *)
LEMMA DoneFrame ==
  ASSUME DoneMembers, UNCHANGED <<ctx, classes>>
  PROVE  DoneMembers'
  BY DEF DoneMembers, MembersPlaced, IsPieceOf, Reaches, ClassIds

(* A step that places no member.                                             *)
LEMMA OtherPiece ==
  ASSUME TypeOK, Members, InHand, UNCHANGED <<ctx, classes, fields>>,
         phase' = "vbases" => phase = "vbases" \/ fields = Len(decl.fields),
         \A p \in placed : p \in placed',
         \A p \in placed' : p \in placed \/ p.role \notin {"bits", "field"}
  PROVE  Members'
<1>1. decl' = decl
  BY DEF decl
<1>2. MembersPlaced(placed', decl, fields)
  BY DEF Members, HandMembers, MembersPlaced, IsPieceOf
<1>3. NoneLater(placed', fields)
  BY DEF Members, HandMembers, NoneLater
<1>4. HandMembers'
  <2>1. fields <= Len(decl.fields) /\ (phase' = "vbases" => fields = Len(decl.fields))
    BY DEF Members, HandMembers
  <2>2. MembersPlaced(placed, decl, fields)' /\ NoneLater(placed, fields)'
    BY <1>1, <1>2, <1>3 DEF MembersPlaced, NoneLater, IsPieceOf, Reaches
  <2> QED BY <1>1, <2>1, <2>2 DEF HandMembers
<1> QED BY <1>4, DoneFrame DEF Members

(* A step that places the next member.                                       *)
LEMMA NextPiece ==
  ASSUME TypeOK, Members, AtMember, UNCHANGED <<ctx, classes, phase>>, fields' = fields + 1,
         NEW p \in PieceType, placed' = placed \union {p},
         p.role \in {"bits", "field"}, p.of = fields + 1, Reaches(p, ThisMember)
  PROVE  Members'
<1>1. /\ decl' = decl /\ InHand /\ fields \in Nat /\ fields < Len(decl.fields)
      /\ phase = "fields" /\ placed \subseteq PieceType
  BY DEF decl, AtMember, InHand, TypeOK, StateOK
<1>2. MembersPlaced(placed, decl, fields) /\ NoneLater(placed, fields)
  BY <1>1 DEF Members, HandMembers
<1>3. ASSUME NEW i \in 1 .. fields + 1
      PROVE  /\ \E q \in placed' : IsPieceOf(q, i)
             /\ \A q \in placed' : IsPieceOf(q, i) => Reaches(q, decl.fields[i])
  <2>1. CASE i = fields + 1
    <3>1. IsPieceOf(p, i)
      BY <2>1 DEF IsPieceOf
    <3>2. ASSUME NEW q \in placed PROVE ~IsPieceOf(q, i)
      <4>1. q.of \in Nat
        BY <1>1 DEF PieceType
      <4> QED BY <1>1, <1>2, <2>1, <4>1 DEF NoneLater, IsPieceOf
    <3> QED BY <2>1, <3>1, <3>2 DEF ThisMember
  <2>2. CASE i # fields + 1
    <3>1. i \in 1 .. fields
      BY <1>1, <2>2
    <3>2. ~IsPieceOf(p, i)
      BY <1>1, <2>2 DEF IsPieceOf
    <3> QED BY <1>2, <3>1, <3>2 DEF MembersPlaced
  <2> QED BY <2>1, <2>2
<1>4. MembersPlaced(placed', decl, fields + 1)
  BY <1>3 DEF MembersPlaced
<1>5. NoneLater(placed', fields + 1)
  <2>1. ASSUME NEW q \in placed', q.role \in {"bits", "field"} PROVE q.of <= fields + 1
    <3>1. CASE q = p
      BY <1>1, <3>1
    <3>2. CASE q \in placed
      <4>1. q.of \in Nat /\ q.of <= fields
        BY <1>1, <1>2, <2>1, <3>2 DEF NoneLater, PieceType
      <4> QED BY <1>1, <4>1
    <3> QED BY <3>1, <3>2
  <2> QED BY <2>1 DEF NoneLater
<1>6. HandMembers'
  <2>1. MembersPlaced(placed, decl, fields)' /\ NoneLater(placed, fields)'
    BY <1>1, <1>4, <1>5 DEF MembersPlaced, NoneLater, IsPieceOf, Reaches
  <2>2. fields' <= Len(decl.fields') /\ phase' # "vbases"
    <3>1. Len(decl.fields) \in Nat
      BY <1>1, DeclTyped DEF TypeOK, PhaseOK, InHand
    <3> QED BY <1>1, <3>1
  <2> QED BY <1>1, <2>1, <2>2 DEF HandMembers
<1> QED BY <1>6, DoneFrame DEF Members

(* The bases and the vptr are no members, and the rest places nothing.       *)
LEMMA OthersMembers ==
  TypeOK /\ Members /\
    (\/ PlacePrimary \/ AllocateVptr \/ NoVptr
     \/ SkipBase \/ PlaceEmptyBase \/ PlaceNonEmptyBase \/ BasesDone
     \/ SnapshotNonVirtual \/ NextBase \/ SkipCollected \/ PlaceVirtualBase) => Members'
<1> SUFFICES ASSUME TypeOK, Members,
                    \/ PlacePrimary \/ AllocateVptr \/ NoVptr
                    \/ SkipBase \/ PlaceEmptyBase \/ PlaceNonEmptyBase \/ BasesDone
                    \/ SnapshotNonVirtual \/ NextBase \/ SkipCollected \/ PlaceVirtualBase
             PROVE  Members'
  OBVIOUS
<1>1. ASSUME NEW r, NEW of, NEW off, NEW sz, NEW al
      PROVE  Bytes(r, of, off, sz, al).role = r
  BY DEF Bytes, Piece
<1>2. CASE PlacePrimary
  <2>1. PICK i \in DOMAIN decl.bases :
          LET b == classes[decl.bases[i].class]
          IN placed' = placed \union {Bytes("base", decl.bases[i].class, 0, b.nvSize, b.nvAlign)}
    BY <1>2 DEF PlacePrimary
  <2>2. phase = "primary" /\ phase' = "bases" /\ UNCHANGED <<ctx, classes, fields>>
    BY <1>2 DEF PlacePrimary
  <2> QED BY <1>1, <2>1, <2>2, OtherPiece DEF InHand
<1>3. CASE AllocateVptr \/ NoVptr
  BY <1>1, <1>3, OtherPiece DEF AllocateVptr, NoVptr, InHand, state
<1>4. CASE SkipBase \/ BasesDone
  BY <1>4, OtherPiece DEF SkipBase, BasesDone, AtBase, InHand, state
<1>5. CASE PlaceEmptyBase
  BY <1>1, <1>5, OtherPiece DEF PlaceEmptyBase, AtBase, InHand
<1>6. CASE PlaceNonEmptyBase
  BY <1>1, <1>6, OtherPiece DEF PlaceNonEmptyBase, AtBase, InHand
<1>7. CASE SnapshotNonVirtual
  BY <1>7, OtherPiece DEF SnapshotNonVirtual, InHand
<1>8. CASE NextBase \/ SkipCollected
  BY <1>8, OtherPiece DEF NextBase, SkipCollected, Walking, InHand, state
<1>9. CASE PlaceVirtualBase
  BY <1>1, <1>9, OtherPiece DEF PlaceVirtualBase, Walking, InHand
<1> QED BY <1>2, <1>3, <1>4, <1>5, <1>6, <1>7, <1>8, <1>9

(* The container of a bit-field is that of its type.                         *)
LEMMA ContainerOfMember ==
  ASSUME TypeOK, AtMember, ThisMember.bitfield
  PROVE  /\ ThisMember \in Member /\ TypeSize(ThisMember) = ThisMember.size
         /\ ThisMember.size \in Nat \ {0} /\ ThisMember.width \in Nat
<1>1. CtxOK /\ StateOK /\ Len(classes) < Len(ctx) /\ fields < Len(decl.fields)
  BY DEF TypeOK, PhaseOK, AtMember
<1>2. ThisMember \in Member
  BY <1>1, MemberTyped
<1>3. fields + 1 \in DOMAIN decl.fields
  BY <1>1, DeclTyped DEF StateOK
<1>4. ThisMember.rec = 0 /\ ThisMember.len = 1
  BY <1>1, <1>3, DeclAligns DEF ThisMember
<1>5. ThisMember.size \in Nat \ {0} /\ ThisMember.width \in Nat
  BY <1>2 DEF Member
<1> QED BY <1>2, <1>4, <1>5 DEF TypeSize

(* Placing a member, a bit-field or the last of them.                        *)
LEMMA MembersMembers ==
  TypeOK /\ Members /\
    (PlaceField \/ PlaceUnionField \/ PlaceZeroWidth \/ PackBitfield \/ OpenUnit) => Members'
<1> SUFFICES ASSUME TypeOK, Members,
                    PlaceField \/ PlaceUnionField \/ PlaceZeroWidth \/ PackBitfield \/ OpenUnit
             PROVE  Members'
  OBVIOUS
<1>1. /\ AtMember /\ UNCHANGED <<ctx, classes, phase>> /\ fields' = fields + 1
      /\ CtxOK /\ StateOK /\ Len(classes) < Len(ctx) /\ fields < Len(decl.fields)
  BY DEF PlaceField, PlaceUnionField, PlaceZeroWidth, PackBitfield, OpenUnit, AtBitfield, AtMember,
         TypeOK, PhaseOK
<1>2. /\ ThisMember \in Member /\ TypeSize(ThisMember) \in Nat
      /\ NaturalAlign(ThisMember) \in Nat \ {0} /\ ThisMember.explicit \in Nat
      /\ fields \in Nat /\ dsize \in Nat
  BY <1>1, MemberTyped DEF StateOK, Member
<1>3. CASE PlaceField
  <2> DEFINE al == IF decl.packed THEN MaxOf(ThisMember.explicit, 1) ELSE NaturalAlign(ThisMember)
             off == AlignUp(dsize, al)
             p == Bytes("field", fields + 1, off, TypeSize(ThisMember), al)
  <2>1. placed' = placed \union {p} /\ ~ThisMember.bitfield
    BY <1>3 DEF PlaceField
  <2>2. al \in Nat \ {0}
    BY <1>2 DEF MaxOf
  <2> HIDE DEF al
  <2>3. off \in Nat
    BY <1>2, <2>2, AlignUpGrows
  <2> HIDE DEF off
  <2>4. p \in PieceType /\ p.role = "field" /\ p.of = fields + 1
    <3>1. "field" \in Role /\ fields + 1 \in Nat
      BY <1>2 DEF Role
    <3>2. p \in PieceType
      BY <1>2, <2>2, <2>3, <3>1, BytesTyped
    <3> QED BY <3>2 DEF Bytes, Piece
  <2> HIDE DEF p
  <2> QED BY <1>1, <2>1, <2>4, NextPiece DEF Reaches
<1>4. CASE PlaceUnionField
  <2> DEFINE p == Bytes("field", fields + 1, 0, TypeSize(ThisMember), NaturalAlign(ThisMember))
  <2>1. placed' = placed \union {p}
    BY <1>4 DEF PlaceUnionField
  <2>2. p \in PieceType /\ p.role = "field" /\ p.of = fields + 1 /\ p.lo = 0
    <3>1. "field" \in Role /\ fields + 1 \in Nat
      BY <1>2 DEF Role
    <3>2. p \in PieceType
      BY <1>2, <3>1, BytesTyped
    <3> QED BY <3>2 DEF Bytes, Piece
  <2> HIDE DEF p
  <2>3. Reaches(p, ThisMember)
    <3>1. ASSUME ThisMember.bitfield, ThisMember.width < 8 * ThisMember.size
          PROVE  (p.lo % 8) + ThisMember.width <= 8 * ThisMember.size
      BY <1>1, <2>2, <3>1, ContainerOfMember
    <3> QED BY <3>1 DEF Reaches
  <2> QED BY <1>1, <2>1, <2>2, <2>3, NextPiece
<1>5. ASSUME NEW off \in Nat, NEW bit \in Nat, NEW w \in Nat, ThisMember.bitfield,
             placed' = placed \union {Bits(off, bit, w)}, bit < 8,
             ThisMember.width < 8 * ThisMember.size
               => bit + ThisMember.width <= 8 * ThisMember.size
      PROVE  Members'
  <2> DEFINE p == Bits(off, bit, w)
  <2>1. p \in PieceType /\ p.role = "bits" /\ p.of = fields + 1 /\ p.lo = 8 * off + bit
    <3>1. p \in PieceType
      BY <1>2, BitsTyped
    <3> QED BY <3>1 DEF Bits, Piece
  <2>2. (8 * off + bit) % 8 = bit
    BY <1>5
  <2> HIDE DEF p
  <2>3. Reaches(p, ThisMember)
    BY <1>5, <2>1, <2>2 DEF Reaches
  <2> QED BY <1>1, <1>5, <2>1, <2>3, NextPiece DEF p
<1>6. CASE PlaceZeroWidth
  <2> DEFINE d == IF au.open THEN MaxOf(dsize, au.at + au.bytes) ELSE dsize
             off == AlignUp(d, NaturalAlign(ThisMember))
  <2>1. placed' = placed \union {Bits(off, 0, 0)} /\ ThisMember.bitfield
    BY <1>6 DEF PlaceZeroWidth, AtBitfield
  <2>2. d \in Nat
    <3>1. au.at + au.bytes \in Nat
      BY <1>1 DEF StateOK
    <3> QED BY <1>2, <3>1, MaxOfTyped
  <2> HIDE DEF d
  <2>3. off \in Nat
    BY <1>2, <2>2, AlignUpGrows
  <2> HIDE DEF off
  <2>4. ThisMember.width < 8 * ThisMember.size => 0 + ThisMember.width <= 8 * ThisMember.size
    BY <1>1, <2>1, ContainerOfMember
  <2> QED BY <1>5, <2>1, <2>3, <2>4
<1>7. CASE PackBitfield
  <2>1. /\ placed' = placed \union {Bits(au.at + (au.used \div 8), au.used % 8, ThisMember.width)}
        /\ ThisMember.bitfield /\ au.used + ThisMember.width <= UnitBits
    BY <1>7 DEF PackBitfield, AtBitfield, FitsOpenUnit
  <2>2. /\ ThisMember.width \in Nat /\ ThisMember.size \in Nat \ {0}
        /\ UnitBits = 8 * ThisMember.size
    BY <1>1, <2>1, ContainerOfMember DEF UnitBits
  <2>3. au.used \in Nat /\ au.at \in Nat
    BY <1>1 DEF StateOK
  <2>4. /\ au.used \div 8 \in Nat /\ au.used % 8 \in Nat /\ au.used % 8 < 8
        /\ au.used % 8 <= au.used
    BY <2>3
  <2>5. au.at + (au.used \div 8) \in Nat
    BY <2>3, <2>4
  <2>6. (au.used % 8) + ThisMember.width <= 8 * ThisMember.size
    BY <2>1, <2>2, <2>3, <2>4
  <2> QED BY <1>5, <2>1, <2>2, <2>4, <2>5, <2>6
<1>8. CASE OpenUnit
  <2> DEFINE off == AlignUp(dsize, NaturalAlign(ThisMember))
             used == MinOf(ThisMember.width, UnitBits)
  <2>1. placed' = placed \union {Bits(off, 0, used)} /\ ThisMember.bitfield
    BY <1>8 DEF OpenUnit, AtBitfield
  <2>2. /\ ThisMember.width \in Nat /\ ThisMember.size \in Nat \ {0}
        /\ UnitBits = 8 * ThisMember.size
    BY <1>1, <2>1, ContainerOfMember DEF UnitBits
  <2>3. off \in Nat
    BY <1>2, AlignUpGrows
  <2>4. used \in Nat
    BY <2>2 DEF MinOf
  <2> HIDE DEF off, used
  <2> QED BY <1>5, <2>1, <2>2, <2>3, <2>4
<1> QED BY <1>3, <1>4, <1>6, <1>7, <1>8

(* A class begins with no member placed.                                     *)
LEMMA BeginMembers == TypeOK /\ Members /\ BeginClass => Members'
<1> SUFFICES ASSUME TypeOK, Members, BeginClass PROVE Members'
  OBVIOUS
<1>1. /\ UNCHANGED <<ctx, classes>> /\ fields' = 0 /\ placed' = {} /\ phase' # "vbases"
      /\ Len(classes) < Len(ctx) /\ decl' = decl
  BY DEF BeginClass, decl
<1>2. Len(decl.fields) \in Nat
  BY <1>1, DeclTyped DEF TypeOK
<1>3. HandMembers'
  BY <1>1, <1>2 DEF HandMembers, MembersPlaced, NoneLater
<1> QED BY <1>1, <1>3, DoneFrame DEF Members

(* A finished class has all its members; one that fails has no layout.       *)
LEMMA FinishMembers == TypeOK /\ Members /\ (Finalize \/ Fail) => Members'
<1> SUFFICES ASSUME TypeOK, Members, Finalize \/ Fail PROVE Members'
  OBVIOUS
<1>1. phase' = "idle" /\ ctx' = ctx /\ classes \in Seq(LayoutType)
  BY DEF Finalize, Fail, TypeOK, CtxOK
<1>2. PICK l : /\ classes' = Append(classes, l)
               /\ l.ok => Finalize /\ l.placed = placed
  BY DEF Finalize, Fail, Layout
<1>3. ASSUME NEW c \in ClassIds', classes'[c].ok
      PROVE  MembersPlaced(classes'[c].placed, ctx[c], Len(ctx[c].fields))
  <2>1. CASE c = Len(classes) + 1
    <3>1. classes'[c] = l /\ ctx[c] = decl
      BY <1>1, <1>2, <2>1 DEF decl
    <3>2. Finalize /\ l.placed = placed
      BY <1>2, <1>3, <3>1
    <3>3. phase = "vbases" /\ InHand
      BY <3>2 DEF Finalize, InHand
    <3> QED BY <3>1, <3>2, <3>3 DEF Members, HandMembers
  <2>2. CASE c # Len(classes) + 1
    <3>1. c \in ClassIds /\ classes'[c] = classes[c]
      BY <1>1, <1>2, <2>2 DEF ClassIds
    <3> QED BY <1>3, <3>1 DEF Members, DoneMembers
  <2> QED BY <2>1, <2>2
<1>4. DoneMembers'
  BY <1>1, <1>3 DEF DoneMembers, MembersPlaced, IsPieceOf, Reaches
<1> QED BY <1>1, <1>4 DEF Members, HandMembers, InHand

(* Members is inductive.                                                     *)
LEMMA StepMembers == TypeOK /\ Members /\ [Next]_vars => Members'
<1> SUFFICES ASSUME TypeOK, Members, [Next]_vars PROVE Members'
  OBVIOUS
<1>1. CASE UNCHANGED vars
  <2>1. UNCHANGED <<ctx, classes, phase, fields, placed>>
    BY <1>1 DEF vars, state
  <2>2. DoneMembers'
    BY <2>1, DoneFrame DEF Members
  <2> QED BY <2>1, <2>2 DEF Members, HandMembers, MembersPlaced, NoneLater, IsPieceOf, Reaches,
             InHand, decl
<1>2. CASE Next
  BY <1>2, BeginMembers, OthersMembers, MembersMembers, FinishMembers DEF Next
<1> QED BY <1>1, <1>2

(* A bit-field of a class that compiles, read through its container.         *)
LEMMA FieldsReachable ==
  ASSUME TypeOK, Members, NEW c \in ClassIds, Compiles(c), NEW i \in Accessible(c)
  PROVE  Reachable(c, i)
<1>1. /\ classes[c].ok /\ i \in DOMAIN ctx[c].fields /\ ctx[c].fields[i].bitfield
      /\ Width(c, i) > 0 /\ Width(c, i) < ContainerBits(c, i)
  BY DEF Accessible, Compiles
<1>2. ctx \in Seq(ClassDef) /\ c \in DOMAIN ctx
  <2>1. WellFormed(ctx)
    BY ProgramAssumption DEF TypeOK, CtxOK
  <2>2. Len(classes) \in Nat /\ Len(classes) <= Len(ctx) /\ Len(ctx) \in Nat
    BY <2>1 DEF TypeOK, CtxOK, WellFormed
  <2> QED BY <2>1, <2>2 DEF WellFormed, ClassIds
<1>3. ctx[c].fields \in Seq(Member)
  <2>1. ctx[c] \in ClassDef
    BY <1>2
  <2> QED BY <2>1 DEF ClassDef
<1>4. ctx[c].fields[i] \in Member /\ i \in 1 .. Len(ctx[c].fields)
  BY <1>1, <1>3
<1>5. /\ Width(c, i) \in Nat \ {0} /\ ContainerBits(c, i) \in Nat \ {0}
      /\ ctx[c].fields[i].size \in Nat \ {0}
  BY <1>1, <1>4 DEF Member, Width, ContainerBits
<1>6. MembersPlaced(classes[c].placed, ctx[c], Len(ctx[c].fields))
  BY <1>1 DEF Members, DoneMembers
<1> DEFINE p == FieldPiece(c, i)
<1>7. p \in classes[c].placed /\ IsPieceOf(p, i)
  BY <1>4, <1>6 DEF MembersPlaced, FieldPiece, IsPieceOf
<1>8. p \in PieceType
  BY <1>7, ClassTyped DEF TypeOK
<1>9. p.lo \in Nat
  BY <1>8 DEF PieceType
<1>10. Reaches(p, ctx[c].fields[i])
  BY <1>4, <1>6, <1>7 DEF MembersPlaced
<1>11. BitOffset(c, i) + Width(c, i) <= ContainerBits(c, i)
  BY <1>1, <1>10 DEF Reaches, BitOffset, Width, ContainerBits
<1> QED BY <1>1, <1>5, <1>9, <1>11 DEF Reachable

(* For every program, a bit-field read back after it was written gives the   *)
(* value cut to its width and extended by its sign, and nothing else has     *)
(* changed, whatever the memory held (ReadBack), which the invariant of a    *)
(* run can try on a few memories and values only.                            *)
THEOREM BitfieldsCorrect == Spec => []BitfieldsReadBack
<1>1. Init => TypeOK /\ Members
  BY InitTyped, InitMembers
<1>2. (TypeOK /\ Members) /\ [Next]_vars => (TypeOK /\ Members)'
  BY StepTyped, StepMembers
<1>3. TypeOK /\ Members => BitfieldsReadBack
  <2> SUFFICES ASSUME TypeOK, Members, NEW c \in {Len(classes)} \ {0}, phase = "idle", Compiles(c),
                      NEW i \in Accessible(c), NEW mem \in Memories(c, i), NEW v \in Values(c, i)
               PROVE  ReadsBack(c, i, mem, v)
    BY DEF BitfieldsReadBack, ReadsBack
  <2>1. c \in ClassIds /\ Len(classes) \in Nat
    BY DEF ClassIds, TypeOK, CtxOK
  <2>2. Reachable(c, i)
    BY <2>1, FieldsReachable
  <2>3. mem \in SUBSET Nat
    <3>1. classes[c].size \in Nat /\ ContainerBits(c, i) \in Nat
      BY <2>1, <2>2, ClassTyped DEF Reachable, TypeOK
    <3> QED BY <3>1 DEF Memories
  <2>4. v \in SUBSET Nat
    <3>1. Width(c, i) \in Nat \ {0} /\ ContainerBits(c, i) \in Nat \ {0}
      BY <2>2 DEF Reachable
    <3>2. /\ 0 .. ContainerBits(c, i) - 1 \in SUBSET Nat /\ 0 .. Width(c, i) - 2 \in SUBSET Nat
          /\ Width(c, i) - 1 \in Nat
      BY <3>1
    <3> QED BY <3>1, <3>2 DEF Values
  <2> QED BY <2>2, <2>3, <2>4, ReadBack
<1> QED BY <1>1, <1>2, <1>3, PTL DEF Spec

-----------------------------------------------------------------------------
(* The inductive invariant behind LoweredCallsFit: is_pod_for_layout of a    *)
(* class, computed on the way, depends on its own declaration and the flags  *)
(* of its bases and members, all of which have a layout.                     *)

OwnPod(d) ==
  /\ ~d.poly /\ d.special = "none"
  /\ \A i \in DOMAIN d.bases : ~d.bases[i].virt /\ classes[d.bases[i].class].pod

BaseOk(i) == classes[decl.bases[i].class].ok

HandPod ==
  InHand =>
    /\ pod <=> OwnPod(decl) /\ \A k \in 1 .. fields : ~Taints(decl.fields[k])
    /\ \A k \in 1 .. fields : TypeOk(decl.fields[k])
    /\ phase = "primary" => next = 1
    /\ phase = "bases" => \A i \in DOMAIN decl.bases : IsPrimary(i) => BaseOk(i)
    /\ phase = "bases" => \A i \in DOMAIN decl.bases : i < next /\ ~decl.bases[i].virt => BaseOk(i)
    /\ phase \in {"fields", "vbases"} =>
         \A i \in DOMAIN decl.bases : ~decl.bases[i].virt => BaseOk(i)

DonePod ==
  \A c \in ClassIds : classes[c].ok =>
    /\ classes[c].pod <=> OwnPod(ctx[c]) /\ \A k \in DOMAIN ctx[c].fields : ~Taints(ctx[c].fields[k])
    /\ \A k \in DOMAIN ctx[c].fields : TypeOk(ctx[c].fields[k])
    /\ \A i \in DOMAIN ctx[c].bases : ~ctx[c].bases[i].virt => classes[ctx[c].bases[i].class].ok

Pods == HandPod /\ DonePod

(* The invariant holds before the first class is begun.                      *)
LEMMA InitPods == Init => Pods
  BY DEF Init, Pods, HandPod, DonePod, InHand, ClassIds

(* The flags of finished classes stay while no class is added.               *)
LEMMA PodsFrame ==
  ASSUME DonePod, UNCHANGED <<ctx, classes>>
  PROVE  DonePod'
  BY DEF DonePod, OwnPod, Taints, TypeOk, ClassIds

(* What it says of the class in hand does not change with the step.          *)
LEMMA HandFrame ==
  ASSUME UNCHANGED <<ctx, classes>>
  PROVE  /\ decl' = decl
         /\ OwnPod(decl)' <=> OwnPod(decl)
         /\ \A k : (Taints(decl.fields[k])' <=> Taints(decl.fields[k]))
                   /\ (TypeOk(decl.fields[k])' <=> TypeOk(decl.fields[k]))
         /\ \A i : (BaseOk(i)' <=> BaseOk(i)) /\ (IsPrimary(i)' <=> IsPrimary(i))
  BY DEF decl, OwnPod, Taints, TypeOk, BaseOk, IsPrimary

(* A class begins with what its declaration alone says of it.                *)
LEMMA BeginPods == TypeOK /\ Pods /\ BeginClass => Pods'
<1> SUFFICES ASSUME TypeOK, Pods, BeginClass PROVE Pods'
  OBVIOUS
<1>1. /\ UNCHANGED <<ctx, classes>> /\ fields' = 0
      /\ phase' = IF decl.kind = "union" THEN "fields" ELSE "primary"
      /\ pod' <=> OwnPod(decl)
  BY DEF BeginClass, OwnPod
<1>2. decl.kind = "union" => decl.bases = << >>
  <2>1. Len(classes) < Len(ctx) /\ Len(classes) \in Nat /\ ctx \in Programs
    BY DEF BeginClass, TypeOK, CtxOK
  <2>2. WellFormed(ctx) /\ Len(classes) + 1 \in DOMAIN ctx
    BY <2>1, ProgramAssumption DEF WellFormed
  <2> QED BY <2>2 DEF WellFormed, decl
<1>3. \A k \in 1 .. fields' : FALSE
  BY <1>1
<1>4. phase' = "fields" => DOMAIN decl.bases = {}
  BY <1>1, <1>2
<1>5. phase' \notin {"bases", "vbases"} /\ next' = 1
  BY <1>1 DEF BeginClass
<1>6. HandPod'
  BY <1>1, <1>3, <1>4, <1>5, HandFrame DEF HandPod
<1> QED BY <1>1, <1>6, PodsFrame DEF Pods

(* The primary base and the vptr change no flag.                             *)
LEMMA PrimaryPods == TypeOK /\ Pods /\ (PlacePrimary \/ AllocateVptr \/ NoVptr) => Pods'
<1> SUFFICES ASSUME TypeOK, Pods, PlacePrimary \/ AllocateVptr \/ NoVptr PROVE Pods'
  OBVIOUS
<1>1. /\ UNCHANGED <<ctx, classes, fields, pod, next>> /\ phase = "primary" /\ phase' = "bases"
      /\ InHand
  BY DEF PlacePrimary, AllocateVptr, NoVptr, InHand, walk
<1>2. ASSUME NEW i \in DOMAIN decl.bases, IsPrimary(i) PROVE BaseOk(i)
  <2>1. PlacePrimary
    BY <1>2 DEF HasPrimary, AllocateVptr, NoVptr
  <2>2. PICK j \in DOMAIN decl.bases : IsPrimary(j) /\ BaseOk(j)
    BY <2>1 DEF PlacePrimary, BaseOk
  <2>3. decl.bases \in Seq(Base)
    BY <1>1, DeclTyped DEF TypeOK, PhaseOK, InHand
  <2>4. i = j
    BY <1>2, <2>2, <2>3 DEF IsPrimary
  <2> QED BY <2>2, <2>4
<1>3. decl.bases \in Seq(Base) /\ next = 1
  BY <1>1, DeclTyped DEF TypeOK, PhaseOK, InHand, Pods, HandPod
<1>4. \A i \in DOMAIN decl.bases : ~(i < next)
  BY <1>3
<1>5. HandPod'
  BY <1>1, <1>2, <1>4, HandFrame DEF HandPod, Pods, InHand
<1> QED BY <1>1, <1>5, PodsFrame DEF Pods

(* A base placed has a layout, and its flag is already counted.              *)
LEMMA BasesPods ==
  TypeOK /\ Pods /\ (SkipBase \/ PlaceEmptyBase \/ PlaceNonEmptyBase \/ BasesDone) => Pods'
<1> SUFFICES ASSUME TypeOK, Pods, SkipBase \/ PlaceEmptyBase \/ PlaceNonEmptyBase \/ BasesDone
             PROVE  Pods'
  OBVIOUS
<1>1. /\ UNCHANGED <<ctx, classes, fields, pod>> /\ phase = "bases" /\ InHand
      /\ decl.bases \in Seq(Base) /\ next \in Nat \ {0}
  <2>1. UNCHANGED <<ctx, classes, fields, pod>> /\ phase = "bases" /\ InHand
    BY DEF SkipBase, PlaceEmptyBase, PlaceNonEmptyBase, BasesDone, AtBase, InHand
  <2> QED BY <2>1, DeclTyped DEF TypeOK, PhaseOK, WalkOK, InHand
<1>2. CASE BasesDone
  <2>1. next > Len(decl.bases) /\ phase' = "fields"
    BY <1>2 DEF BasesDone
  <2>2. \A i \in DOMAIN decl.bases : i < next
    BY <1>1, <2>1
  <2>3. HandPod'
    BY <1>1, <2>1, <2>2, HandFrame DEF HandPod, Pods, InHand
  <2> QED BY <1>1, <2>3, PodsFrame DEF Pods
<1>3. CASE SkipBase \/ PlaceEmptyBase \/ PlaceNonEmptyBase
  <2>1. next' = next + 1 /\ phase' = "bases" /\ next \in DOMAIN decl.bases
    BY <1>1, <1>3 DEF SkipBase, PlaceEmptyBase, PlaceNonEmptyBase, AtBase
  <2>2. ~decl.bases[next].virt => BaseOk(next)
    <3>1. CASE SkipBase
      BY <1>1, <2>1, <3>1 DEF SkipBase, Deferred, ThisBase, Pods, HandPod, InHand
    <3>2. CASE PlaceEmptyBase \/ PlaceNonEmptyBase
      BY <3>2 DEF PlaceEmptyBase, PlaceNonEmptyBase, ThisBase, BaseOk
    <3> QED BY <1>3, <3>1, <3>2
  <2>3. ASSUME NEW i \in DOMAIN decl.bases, i < next + 1, ~decl.bases[i].virt PROVE BaseOk(i)
    <3>1. i < next \/ i = next
      BY <1>1, <2>3
    <3> QED BY <1>1, <2>2, <2>3, <3>1 DEF Pods, HandPod
  <2>4. HandPod'
    BY <1>1, <2>1, <2>3, HandFrame DEF HandPod, Pods, InHand
  <2> QED BY <1>1, <2>4, PodsFrame DEF Pods
<1> QED BY <1>2, <1>3

(* A member read: the flag takes its taint, which a bit-field does not have. *)
LEMMA MembersPods ==
  TypeOK /\ Pods /\
    (PlaceField \/ PlaceUnionField \/ PlaceZeroWidth \/ PackBitfield \/ OpenUnit) => Pods'
<1> SUFFICES ASSUME TypeOK, Pods,
                    PlaceField \/ PlaceUnionField \/ PlaceZeroWidth \/ PackBitfield \/ OpenUnit
             PROVE  Pods'
  OBVIOUS
<1>1. /\ UNCHANGED <<ctx, classes, phase>> /\ fields' = fields + 1 /\ AtMember
      /\ TypeOk(ThisMember) /\ InHand /\ phase = "fields"
  BY DEF PlaceField, PlaceUnionField, PlaceZeroWidth, PackBitfield, OpenUnit, AtBitfield, AtMember,
         InHand
<1>2. /\ fields \in Nat /\ fields + 1 \in DOMAIN decl.fields /\ CtxOK
      /\ Len(classes) < Len(ctx) /\ ThisMember = decl.fields[fields + 1]
  <2>1. fields \in Nat /\ CtxOK /\ Len(classes) < Len(ctx) /\ fields < Len(decl.fields)
    BY <1>1 DEF TypeOK, StateOK, PhaseOK, AtMember
  <2>2. decl.fields \in Seq(Member)
    BY <2>1, DeclTyped
  <2> QED BY <2>1, <2>2 DEF ThisMember
<1>3. ThisMember.bitfield => ~Taints(ThisMember)
  <2>1. ThisMember.ref => ~ThisMember.bitfield
    <3>1. WellFormed(ctx) /\ Len(classes) \in Nat
      BY <1>2, ProgramAssumption DEF CtxOK
    <3>2. Len(classes) + 1 \in DOMAIN ctx
      BY <1>2, <3>1 DEF WellFormed
    <3> QED BY <1>2, <3>1, <3>2 DEF WellFormed, decl
  <2>2. ThisMember.bitfield => ThisMember.rec = 0
    BY <1>2, DeclAligns
  <2> QED BY <2>1, <2>2 DEF Taints
<1>4. pod' <=> pod /\ ~Taints(ThisMember)
  <2>1. CASE PlaceField \/ PlaceUnionField
    BY <2>1 DEF PlaceField, PlaceUnionField
  <2>2. CASE PlaceZeroWidth \/ PackBitfield \/ OpenUnit
    BY <1>3, <2>2 DEF PlaceZeroWidth, PackBitfield, OpenUnit, AtBitfield
  <2> QED BY <2>1, <2>2
<1>5. \A k \in 1 .. fields + 1 : k \in 1 .. fields \/ k = fields + 1
  BY <1>2
<1>6. 1 .. fields \subseteq 1 .. fields + 1 /\ fields + 1 \in 1 .. fields + 1
  BY <1>2
<1>7. pod' <=> OwnPod(decl) /\ \A k \in 1 .. fields + 1 : ~Taints(decl.fields[k])
  <2>1. pod <=> OwnPod(decl) /\ \A k \in 1 .. fields : ~Taints(decl.fields[k])
    BY <1>1 DEF Pods, HandPod
  <2> QED BY <1>2, <1>4, <1>5, <1>6, <2>1
<1>8. \A k \in 1 .. fields + 1 : TypeOk(decl.fields[k])
  BY <1>1, <1>2, <1>5 DEF Pods, HandPod
<1>9. HandPod'
  BY <1>1, <1>7, <1>8, HandFrame DEF HandPod, Pods, InHand
<1> QED BY <1>1, <1>9, PodsFrame DEF Pods

(* The virtual bases leave the flag alone.                                   *)
LEMMA WalkPods ==
  TypeOK /\ Pods /\ (SnapshotNonVirtual \/ NextBase \/ SkipCollected \/ PlaceVirtualBase) => Pods'
<1> SUFFICES ASSUME TypeOK, Pods,
                    SnapshotNonVirtual \/ NextBase \/ SkipCollected \/ PlaceVirtualBase
             PROVE  Pods'
  OBVIOUS
<1>1. /\ UNCHANGED <<ctx, classes, fields, pod>> /\ phase \in {"fields", "vbases"}
      /\ phase' = "vbases" /\ InHand
  BY DEF SnapshotNonVirtual, NextBase, SkipCollected, PlaceVirtualBase, Walking, InHand
<1>2. HandPod'
  BY <1>1, HandFrame DEF HandPod, Pods, InHand
<1> QED BY <1>1, <1>2, PodsFrame DEF Pods

(* A finished class is recorded with the flag it has in hand.                *)
LEMMA FinishPods == TypeOK /\ Members /\ Pods /\ (Finalize \/ Fail) => Pods'
<1> SUFFICES ASSUME TypeOK, Members, Pods, Finalize \/ Fail PROVE Pods'
  OBVIOUS
<1>1. /\ phase' = "idle" /\ ctx' = ctx /\ classes \in Seq(LayoutType) /\ Len(classes) \in Nat
      /\ InHand /\ Len(classes) < Len(ctx)
  <2>1. phase' = "idle" /\ ctx' = ctx /\ InHand
    BY DEF Finalize, Fail, LayoutError, InHand, AtBase, AtMember, Walking
  <2> QED BY <2>1 DEF TypeOK, CtxOK, PhaseOK, InHand
<1>2. PICK l : classes' = Append(classes, l) /\ (l.ok => Finalize) /\ l.pod = pod
  <2>1. CASE Finalize
    BY <2>1 DEF Finalize, Layout
  <2>2. CASE Fail
    <3> DEFINE l == Layout(FALSE, 0, 1, 0, 0, 1, FALSE, {}, {}, << >>)
    <3>1. classes' = Append(classes, l)
      BY <2>2 DEF Fail
    <3>2. l.ok = FALSE /\ l.pod = pod
      BY DEF Layout
    <3> QED BY <3>1, <3>2
  <2> QED BY <2>1, <2>2
<1>3. ASSUME NEW c \in ClassIds PROVE classes'[c] = classes[c]
  BY <1>1, <1>2 DEF ClassIds
<1>4. WellFormed(ctx)
  BY ProgramAssumption DEF TypeOK, CtxOK
<1>5. ASSUME NEW c \in ClassIds \union {Len(classes) + 1}
      PROVE  /\ \A i \in DOMAIN ctx[c].bases : classes'[ctx[c].bases[i].class] = classes[ctx[c].bases[i].class]
             /\ \A k \in DOMAIN ctx[c].fields :
                  /\ Taints(ctx[c].fields[k])' <=> Taints(ctx[c].fields[k])
                  /\ TypeOk(ctx[c].fields[k])' <=> TypeOk(ctx[c].fields[k])
             /\ OwnPod(ctx[c])' <=> OwnPod(ctx[c])
  <2>1. c \in DOMAIN ctx /\ c \in Nat
    BY <1>1, <1>4 DEF ClassIds, WellFormed
  <2>2. 1 .. c - 1 \subseteq ClassIds
    BY <1>1 DEF ClassIds
  <2>3. ASSUME NEW i \in DOMAIN ctx[c].bases
        PROVE  classes'[ctx[c].bases[i].class] = classes[ctx[c].bases[i].class]
    BY <1>3, <1>4, <2>1, <2>2 DEF WellFormed
  <2>4. ASSUME NEW k \in DOMAIN ctx[c].fields
        PROVE  /\ Taints(ctx[c].fields[k])' <=> Taints(ctx[c].fields[k])
               /\ TypeOk(ctx[c].fields[k])' <=> TypeOk(ctx[c].fields[k])
    <3>1. ctx[c].fields[k].rec \in 0 .. (c - 1)
      BY <1>4, <2>1 DEF WellFormed
    <3>2. ctx[c].fields[k].rec # 0 => ctx[c].fields[k].rec \in ClassIds
      BY <2>1, <2>2, <3>1
    <3>3. ctx[c].fields[k].rec # 0 => classes'[ctx[c].fields[k].rec] = classes[ctx[c].fields[k].rec]
      BY <1>3, <3>2
    <3> QED BY <1>1, <3>3 DEF Taints, TypeOk
  <2>5. OwnPod(ctx[c])' <=> OwnPod(ctx[c])
    BY <1>1, <2>3 DEF OwnPod
  <2> QED BY <2>3, <2>4, <2>5
<1>6. ASSUME NEW c \in ClassIds', classes'[c].ok
      PROVE  /\ classes'[c].pod <=> OwnPod(ctx[c]) /\ \A k \in DOMAIN ctx[c].fields : ~Taints(ctx[c].fields[k])
             /\ \A k \in DOMAIN ctx[c].fields : TypeOk(ctx[c].fields[k])
             /\ \A i \in DOMAIN ctx[c].bases :
                  ~ctx[c].bases[i].virt => classes[ctx[c].bases[i].class].ok
  <2>1. CASE c = Len(classes) + 1
    <3>1. classes'[c] = l /\ ctx[c] = decl
      BY <1>1, <1>2, <2>1 DEF decl
    <3>2. Finalize /\ classes'[c].pod = pod
      BY <1>2, <1>6, <3>1
    <3>3. phase = "vbases"
      BY <3>2 DEF Finalize
    <3>4. fields = Len(decl.fields)
      BY <1>1, <3>3 DEF Members, HandMembers
    <3>5. decl.fields \in Seq(Member)
      BY <1>1, DeclTyped DEF TypeOK
    <3>6. DOMAIN decl.fields = 1 .. fields
      BY <3>4, <3>5
    <3>7. /\ pod <=> OwnPod(decl) /\ \A k \in 1 .. fields : ~Taints(decl.fields[k])
          /\ \A k \in 1 .. fields : TypeOk(decl.fields[k])
          /\ \A i \in DOMAIN decl.bases : ~decl.bases[i].virt => BaseOk(i)
      BY <1>1, <3>3 DEF Pods, HandPod
    <3> QED BY <3>1, <3>2, <3>6, <3>7 DEF BaseOk
  <2>2. CASE c # Len(classes) + 1
    <3>1. c \in ClassIds
      BY <1>1, <1>2, <2>2 DEF ClassIds
    <3> QED BY <1>3, <1>6, <3>1 DEF Pods, DonePod
  <2> QED BY <2>1, <2>2
<1>7. ClassIds' \subseteq ClassIds \union {Len(classes) + 1}
  BY <1>1, <1>2 DEF ClassIds
<1>8. DonePod'
  BY <1>1, <1>5, <1>6, <1>7 DEF DonePod
<1> QED BY <1>1, <1>8 DEF Pods, HandPod, InHand

(* Pods is inductive.                                                        *)
LEMMA StepPods == TypeOK /\ Members /\ Pods /\ [Next]_vars => Pods'
<1> SUFFICES ASSUME TypeOK, Members, Pods, [Next]_vars PROVE Pods'
  OBVIOUS
<1>1. CASE UNCHANGED vars
  <2>1. UNCHANGED <<ctx, classes, phase, fields, pod, next>>
    BY <1>1 DEF vars, walk
  <2>2. DonePod'
    BY <2>1, PodsFrame DEF Pods
  <2>3. HandPod'
    BY <2>1, HandFrame DEF Pods, HandPod, InHand
  <2> QED BY <2>2, <2>3 DEF Pods
<1>2. CASE Next
  BY <1>2, BeginPods, PrimaryPods, BasesPods, MembersPods, WalkPods, FinishPods DEF Next
<1> QED BY <1>1, <1>2

-----------------------------------------------------------------------------
(* Induction over the classes of a program. *)

(* What PartsOf and AllParts compute of class c from what they compute of    *)
(* earlier ones; len is the lengths of the arrays they look into.            *)
PartsAt(f, c, len) ==
  {c} \cup (UNION {f[ctx[c].bases[i].class] : i \in DOMAIN ctx[c].bases})
      \cup (UNION {f[r] : r \in Records(c, len)})

IsParts(f, n, len) == f = [c \in 1 .. n |-> PartsAt(f, c, len)]

(* Bases and members are earlier classes.                                    *)
LEMMA Earlier ==
  ASSUME TypeOK, NEW c \in 1 .. Len(ctx)
  PROVE  /\ c \in Nat
         /\ \A i \in DOMAIN ctx[c].bases : ctx[c].bases[i].class \in 1 .. (c - 1)
         /\ \A i \in DOMAIN ctx[c].fields :
              ctx[c].fields[i].rec # 0 => ctx[c].fields[i].rec \in 1 .. (c - 1)
<1>1. WellFormed(ctx)
  BY ProgramAssumption DEF TypeOK, CtxOK
<1>2. c \in DOMAIN ctx /\ Len(ctx) \in Nat /\ c \in Nat
  BY <1>1 DEF WellFormed
<1>3. \A i \in DOMAIN ctx[c].bases : ctx[c].bases[i].class \in 1 .. (c - 1)
  BY <1>1, <1>2 DEF WellFormed
<1>4. \A i \in DOMAIN ctx[c].fields : ctx[c].fields[i].rec \in 0 .. (c - 1)
  BY <1>1, <1>2 DEF WellFormed
<1> QED BY <1>2, <1>3, <1>4

(* The recursive function exists.                                            *)
LEMMA PartsExist ==
  ASSUME TypeOK, NEW n \in Nat, n <= Len(ctx), NEW len
  PROVE  \E f : IsParts(f, n, len)
<1> DEFINE T == {j \in Nat : j <= Len(ctx) => \E f : IsParts(f, j, len)}
<1>1. ASSUME NEW j \in Nat, \A k \in Nat : k < j => k \in T PROVE j \in T
  <2> SUFFICES ASSUME j <= Len(ctx) PROVE \E f : IsParts(f, j, len)
    OBVIOUS
  <2>1. Len(ctx) \in Nat
    <3>1. WellFormed(ctx)
      BY ProgramAssumption DEF TypeOK, CtxOK
    <3> QED BY <3>1 DEF WellFormed
  <2>2. CASE j = 0
    <3>1. IsParts([c \in 1 .. 0 |-> {}], 0, len)
      BY DEF IsParts
    <3> QED BY <2>2, <3>1
  <2>3. CASE j # 0
    <3>1. j - 1 \in Nat /\ j - 1 < j /\ j - 1 <= Len(ctx)
      BY <2>1, <2>3
    <3>2. PICK f : IsParts(f, j - 1, len)
      BY <1>1, <3>1
    <3> DEFINE g == [c \in 1 .. j |-> PartsAt(f, c, len)]
    <3>3. ASSUME NEW c \in 1 .. (j - 1) PROVE g[c] = f[c]
      <4>1. c \in 1 .. j
        BY <3>1
      <4>2. f[c] = PartsAt(f, c, len)
        BY <3>2 DEF IsParts
      <4> QED BY <4>1, <4>2
    <3>4. ASSUME NEW c \in 1 .. j PROVE PartsAt(g, c, len) = PartsAt(f, c, len)
      <4>1. c \in 1 .. Len(ctx) /\ 1 .. (c - 1) \subseteq 1 .. (j - 1)
        BY <2>1, <3>1
      <4> HIDE DEF g
      <4>2. \A i \in DOMAIN ctx[c].bases : g[ctx[c].bases[i].class] = f[ctx[c].bases[i].class]
        BY <3>3, <4>1, Earlier
      <4>3. \A i \in DOMAIN ctx[c].fields :
              ctx[c].fields[i].rec # 0 => g[ctx[c].fields[i].rec] = f[ctx[c].fields[i].rec]
        BY <3>3, <4>1, Earlier
      <4> QED BY <4>2, <4>3 DEF PartsAt, Records
    <3>5. g = [c \in 1 .. j |-> PartsAt(g, c, len)]
      BY <3>4
    <3> HIDE DEF g
    <3>6. IsParts(g, j, len)
      BY <3>5 DEF IsParts
    <3> QED BY <3>6
  <2> QED BY <2>2, <2>3
<1>2. Nat \subseteq T
  <2> HIDE DEF T
  <2> QED BY <1>1, Induct
<1> QED BY <1>2

(* Both satisfy their own equations at every class of the program.           *)
LEMMA PartsEquation ==
  ASSUME TypeOK, NEW c \in 1 .. Len(ctx)
  PROVE  /\ PartsOf[c] = PartsAt(PartsOf, c, {1})
         /\ AllParts[c] = PartsAt(AllParts, c, Nat)
<1>1. Len(ctx) \in Nat
  <2>1. WellFormed(ctx)
    BY ProgramAssumption DEF TypeOK, CtxOK
  <2> QED BY <2>1 DEF WellFormed
<1>2. PartsOf[c] = PartsAt(PartsOf, c, {1})
  <2>1. \E f : IsParts(f, Len(ctx), {1})
    BY <1>1, PartsExist
  <2>2. PartsOf = CHOOSE f : IsParts(f, Len(ctx), {1})
    BY DEF PartsOf, IsParts, PartsAt
  <2>3. IsParts(PartsOf, Len(ctx), {1})
    BY <2>1, <2>2
  <2> QED BY <2>3 DEF IsParts
<1>3. AllParts[c] = PartsAt(AllParts, c, Nat)
  <2>1. \E f : IsParts(f, Len(ctx), Nat)
    BY <1>1, PartsExist
  <2>2. AllParts = CHOOSE f : IsParts(f, Len(ctx), Nat)
    BY DEF AllParts, IsParts, PartsAt
  <2>3. IsParts(AllParts, Len(ctx), Nat)
    BY <2>1, <2>2
  <2> QED BY <2>3 DEF IsParts
<1> QED BY <1>2, <1>3

(* What is found without looking into arrays is among all the parts.         *)
LEMMA PartsAmongAll ==
  ASSUME TypeOK, NEW c \in 1 .. Len(ctx)
  PROVE  PartsOf[c] \subseteq AllParts[c] /\ PartsOf[c] \subseteq 1 .. Len(ctx)
<1> DEFINE Among(n) == PartsOf[n] \subseteq AllParts[n] /\ PartsOf[n] \subseteq 1 .. Len(ctx)
           T == {n \in Nat : n \in 1 .. Len(ctx) => Among(n)}
<1>1. ASSUME NEW n \in Nat, \A k \in Nat : k < n => k \in T PROVE n \in T
  <2> SUFFICES ASSUME n \in 1 .. Len(ctx) PROVE Among(n)
    OBVIOUS
  <2>1. Len(ctx) \in Nat
    BY ProgramAssumption DEF TypeOK, CtxOK, WellFormed
  <2>2. ASSUME NEW k \in 1 .. (n - 1) PROVE Among(k)
    <3>1. k \in Nat /\ k < n /\ k \in 1 .. Len(ctx)
      BY <2>1
    <3> QED BY <1>1, <3>1
  <2>3. \A i \in DOMAIN ctx[n].bases : Among(ctx[n].bases[i].class)
    BY <2>2, Earlier
  <2>4. \A r \in Records(n, {1}) : Among(r) /\ r \in Records(n, Nat)
    <3>1. \A r \in Records(n, {1}) : r \in 1 .. (n - 1)
      BY Earlier DEF Records
    <3>2. Records(n, {1}) \subseteq Records(n, Nat)
      BY DEF Records
    <3> QED BY <2>2, <3>1, <3>2
  <2>5. /\ PartsOf[n] = PartsAt(PartsOf, n, {1})
        /\ AllParts[n] = PartsAt(AllParts, n, Nat)
    BY PartsEquation
  <2> QED BY <2>3, <2>4, <2>5 DEF PartsAt
<1>2. Nat \subseteq T
  <2> HIDE DEF T
  <2> QED BY <1>1, Induct
<1>3. c \in Nat
  OBVIOUS
<1> QED BY <1>2, <1>3

(* What makes a class not plain data to is_pod_for_layout.                   *)
Complicated(d) ==
  \/ d.special # "none" \/ d.poly
  \/ \E i \in DOMAIN d.bases : d.bases[i].virt
  \/ \E i \in DOMAIN d.fields : d.fields[i].ref

(* The flag of a class says whether anything it is made of is complicated.   *)
PodExact(c) == classes[c].ok => (classes[c].pod <=> \A d \in PartsOf[c] : ~Complicated(ctx[d]))

(* The flag of a finished class says whether any part of it is complicated.  *)
LEMMA PodParts ==
  ASSUME TypeOK, Pods, NEW c \in ClassIds
  PROVE  PodExact(c)
<1> DEFINE T == {n \in Nat : n \in ClassIds => PodExact(n)}
<1>1. ASSUME NEW n \in Nat, \A k \in Nat : k < n => k \in T PROVE n \in T
  <2> SUFFICES ASSUME n \in ClassIds, classes[n].ok
               PROVE  classes[n].pod <=> \A d \in PartsOf[n] : ~Complicated(ctx[d])
    BY DEF PodExact
  <2>1. n \in 1 .. Len(ctx) /\ 1 .. (n - 1) \subseteq ClassIds /\ ctx[n].fields \in Seq(Member)
    <3>1. WellFormed(ctx)
      BY ProgramAssumption DEF TypeOK, CtxOK
    <3>2. Len(classes) \in Nat /\ Len(ctx) \in Nat /\ Len(classes) <= Len(ctx)
      BY <3>1 DEF TypeOK, CtxOK, WellFormed
    <3>3. n \in 1 .. Len(ctx) /\ 1 .. (n - 1) \subseteq ClassIds
      BY <3>2 DEF ClassIds
    <3>4. ctx[n] \in ClassDef
      BY <3>1, <3>3 DEF WellFormed
    <3> QED BY <3>3, <3>4 DEF ClassDef
  <2>2. /\ classes[n].pod <=> OwnPod(ctx[n]) /\ \A k \in DOMAIN ctx[n].fields : ~Taints(ctx[n].fields[k])
        /\ \A k \in DOMAIN ctx[n].fields : TypeOk(ctx[n].fields[k])
        /\ \A i \in DOMAIN ctx[n].bases : ~ctx[n].bases[i].virt => classes[ctx[n].bases[i].class].ok
    BY DEF Pods, DonePod
  <2>3. PartsOf[n] = PartsAt(PartsOf, n, {1})
    BY <2>1, PartsEquation
  <2>4. ASSUME NEW b \in 1 .. (n - 1), classes[b].ok
        PROVE  classes[b].pod <=> \A d \in PartsOf[b] : ~Complicated(ctx[d])
    <3>1. b \in Nat /\ b < n /\ b \in ClassIds
      BY <2>1
    <3> QED BY <1>1, <2>4, <3>1 DEF PodExact
  <2>5. ASSUME NEW i \in DOMAIN ctx[n].bases, ~ctx[n].bases[i].virt
        PROVE  classes[ctx[n].bases[i].class].pod
                 <=> \A d \in PartsOf[ctx[n].bases[i].class] : ~Complicated(ctx[d])
    BY <2>1, <2>2, <2>4, <2>5, Earlier
  <2>6. ASSUME NEW k \in DOMAIN ctx[n].fields
        PROVE  ~Taints(ctx[n].fields[k]) <=>
                 /\ ~ctx[n].fields[k].ref
                 /\ ctx[n].fields[k].rec # 0 /\ ctx[n].fields[k].len = 1
                      => \A d \in PartsOf[ctx[n].fields[k].rec] : ~Complicated(ctx[d])
    <3> DEFINE m == ctx[n].fields[k]
    <3>1. m.ref => m.rec = 0 /\ m.len = 1
      <4>1. WellFormed(ctx) /\ n \in DOMAIN ctx
        BY <2>1, ProgramAssumption DEF TypeOK, CtxOK, WellFormed
      <4> QED BY <4>1 DEF WellFormed
    <3>2. m.rec # 0 => m.rec \in 1 .. (n - 1) /\ classes[m.rec].ok
      BY <2>1, <2>2, Earlier DEF TypeOk
    <3>3. m.rec # 0 => (classes[m.rec].pod <=> \A d \in PartsOf[m.rec] : ~Complicated(ctx[d]))
      BY <2>4, <3>2
    <3> HIDE DEF m
    <3>4. ~Taints(m) <=> ~m.ref /\ (m.rec # 0 /\ m.len = 1 => \A d \in PartsOf[m.rec] : ~Complicated(ctx[d]))
      BY <3>1, <3>3 DEF Taints
    <3> QED BY <3>4 DEF m
  <2>7. ~Complicated(ctx[n]) <=>
          /\ ctx[n].special = "none" /\ ~ctx[n].poly
          /\ \A i \in DOMAIN ctx[n].bases : ~ctx[n].bases[i].virt
          /\ \A k \in DOMAIN ctx[n].fields : ~ctx[n].fields[k].ref
    BY DEF Complicated
  <2> DEFINE All(S) == \A d \in S : ~Complicated(ctx[d])
             Recs == {k \in DOMAIN ctx[n].fields : ctx[n].fields[k].rec # 0 /\ ctx[n].fields[k].len = 1}
  <2>8. All(PartsOf[n]) <=>
          /\ ~Complicated(ctx[n])
          /\ \A i \in DOMAIN ctx[n].bases : All(PartsOf[ctx[n].bases[i].class])
          /\ \A k \in Recs : All(PartsOf[ctx[n].fields[k].rec])
    <3> DEFINE Bs == UNION {PartsOf[ctx[n].bases[i].class] : i \in DOMAIN ctx[n].bases}
               Fs == UNION {PartsOf[r] : r \in Records(n, {1})}
    <3>1. PartsOf[n] = {n} \cup Bs \cup Fs
      BY <2>3 DEF PartsAt
    <3>2. All(Bs) <=> \A i \in DOMAIN ctx[n].bases : All(PartsOf[ctx[n].bases[i].class])
      <4>1. \A d : d \in Bs <=> \E i \in DOMAIN ctx[n].bases : d \in PartsOf[ctx[n].bases[i].class]
        OBVIOUS
      <4> HIDE DEF Bs
      <4> QED BY <4>1
    <3>3. All(Fs) <=> \A k \in Recs : All(PartsOf[ctx[n].fields[k].rec])
      <4>1. Records(n, {1}) = {ctx[n].fields[k].rec : k \in Recs}
        BY DEF Records
      <4>2. \A d : d \in Fs <=> \E k \in Recs : d \in PartsOf[ctx[n].fields[k].rec]
        <5> HIDE DEF Recs
        <5> QED BY <4>1
      <4> HIDE DEF Fs, Recs
      <4> QED BY <4>2
    <3> HIDE DEF Bs, Fs
    <3>4. All(PartsOf[n]) <=> ~Complicated(ctx[n]) /\ All(Bs) /\ All(Fs)
      BY <3>1
    <3> HIDE DEF All
    <3> QED BY <3>2, <3>3, <3>4
  <2>9. classes[n].pod <=>
          /\ ~Complicated(ctx[n])
          /\ \A i \in DOMAIN ctx[n].bases : All(PartsOf[ctx[n].bases[i].class])
          /\ \A k \in Recs : All(PartsOf[ctx[n].fields[k].rec])
    BY <2>2, <2>5, <2>6, <2>7 DEF OwnPod
  <2> QED BY <2>8, <2>9
<1>2. Nat \subseteq T
  <2> HIDE DEF T
  <2> QED BY <1>1, Induct
<1>3. c \in Nat
  BY DEF ClassIds
<1> QED BY <1>2, <1>3

-----------------------------------------------------------------------------
(* Calls. *)

(* An entry of a list of methods once its return type is filled in.          *)
LEMMA Entry ==
  ASSUME NEW list, Callable(list), NEW ret, NEW j \in DOMAIN list
  PROVE  LET m == Returning(list, ret)[j]
         IN /\ m.name = list[j].name /\ m.special = list[j].special
            /\ m.virtual = list[j].virtual /\ m.static = list[j].static
            /\ m.params = list[j].params
            /\ m.ret = IF m.special = "none" THEN ret ELSE [k |-> "scalar"]
            /\ m.special \in Ctors \cup {"Dtor", "none"} /\ m.static \in BOOLEAN
            /\ m.virtual \in BOOLEAN /\ m.name.k \in {"id", "op"}
<1>1. PICK r : r = list[j]
  OBVIOUS
<1>2. r \in Method
  BY <1>1 DEF Callable
<1>3. Returning(list, ret)[j] = [r EXCEPT !.ret = IF r.special = "none" THEN ret ELSE @]
  BY <1>1 DEF Returning
<1>4. LET m == [r EXCEPT !.ret = IF r.special = "none" THEN ret ELSE @]
      IN /\ m.name = r.name /\ m.special = r.special
         /\ m.virtual = r.virtual /\ m.static = r.static
         /\ m.params = r.params
         /\ m.ret = IF r.special = "none" THEN ret ELSE r.ret
  BY <1>2 DEF Method
<1>5. /\ r.ret = [k |-> "scalar"] /\ r.special \in Ctors \cup {"Dtor", "none"}
      /\ r.static \in BOOLEAN /\ r.virtual \in BOOLEAN
  BY <1>2 DEF Method
<1>6. r.name.k \in {"id", "op"}
  BY <1>2 DEF Method
<1> QED BY <1>1, <1>3, <1>4, <1>5, <1>6

(* A name resolves to a method of that name.                                 *)
LEMMA ResolvedNamed ==
  ASSUME NEW list, Callable(list), NEW ret, NEW id, Named(Returning(list, ret), id) # {}
  PROVE  \E j \in DOMAIN list : /\ Resolved(Returning(list, ret), id) = Returning(list, ret)[j]
                                /\ list[j].name = [k |-> "id", id |-> id]
<1> DEFINE methods == Returning(list, ret)
           S == Named(methods, id)
<1>1. DOMAIN methods = DOMAIN list /\ list \in Seq(Method)
  BY DEF Returning, Callable
<1>2. S \subseteq DOMAIN list /\ S \in SUBSET Nat
  BY <1>1 DEF Named
<1>3. PICK j \in S : \A k \in S : j <= k
  BY <1>2, Least
<1>4. PICK first : first = CHOOSE i \in S : \A k \in S : i <= k
  OBVIOUS
<1>5. first \in S
  BY <1>3, <1>4
<1>6. Resolved(methods, id) = methods[first]
  BY <1>4 DEF Resolved
<1>7. methods[first].name = [k |-> "id", id |-> id]
  BY <1>5 DEF Named
<1>8. methods[first].name = list[first].name
  BY <1>2, <1>5, Entry
<1> QED BY <1>2, <1>5, <1>6, <1>7, <1>8

(* Where the declarations of a class show how it is returned, and nowhere    *)
(* else, the flag and the ABI agree on it.                                   *)
LEMMA FlagTells ==
  ASSUME TypeOK, Pods, NEW c \in ClassIds, classes[c].ok
  PROVE  (classes[c].pod <=> TrivialForCalls(c)) <=> Apparent(c)
<1>1. c \in 1 .. Len(ctx) /\ ctx \in Seq(ClassDef) /\ Len(ctx) \in Nat
  <2>1. WellFormed(ctx)
    BY ProgramAssumption DEF TypeOK, CtxOK
  <2>2. Len(classes) \in Nat /\ Len(ctx) \in Nat /\ Len(classes) <= Len(ctx)
    BY <2>1 DEF TypeOK, CtxOK, WellFormed
  <2> QED BY <2>1, <2>2 DEF WellFormed, ClassIds
<1>2. classes[c].pod <=> \A d \in PartsOf[c] : ~Complicated(ctx[d])
  BY PodParts DEF PodExact
<1>3. ASSUME NEW d \in PartsOf[c]
      PROVE  /\ d \in AllParts[c] /\ ctx[d].special \in Special
             /\ Complicated(ctx[d]) <=> ~CopiedPlainly(ctx[d]) \/ Declares(ctx[d])
  <2>1. d \in AllParts[c] /\ d \in 1 .. Len(ctx)
    BY <1>1, PartsAmongAll
  <2>2. ctx[d] \in ClassDef
    BY <1>1, <2>1
  <2>3. ctx[d].special \in Special
    BY <2>2 DEF ClassDef
  <2> QED BY <2>1, <2>3 DEF Special, Complicated, CopiedPlainly, Declares
<1>4. CASE TrivialForCalls(c)
  <2>1. \A d \in PartsOf[c] : Complicated(ctx[d]) <=> Declares(ctx[d])
    BY <1>3, <1>4 DEF TrivialForCalls
  <2>2. classes[c].pod <=> \A d \in PartsOf[c] : ~Declares(ctx[d])
    BY <1>2, <2>1
  <2> QED BY <1>4, <2>2 DEF Apparent
<1>5. CASE ~TrivialForCalls(c)
  <2>1. classes[c].pod <=> ~\E d \in PartsOf[c] : ~CopiedPlainly(ctx[d]) \/ Declares(ctx[d])
    BY <1>2, <1>3
  <2> QED BY <1>5, <2>1 DEF Apparent
<1> QED BY <1>4, <1>5

(* A result is returned in registers or through a slot of its size, and the  *)
(* way the callee returns it exactly where its class shows it.               *)
LEMMA Classified ==
  ASSUME TypeOK, Pods, AlignsOK, NEW ret \in Rets
  PROVE  /\ ret.k = "record" /\ ~classes[ret.class].ok => ClassifyReturn(ret) = Err("Layout")
         /\ ~(ret.k = "record" /\ ~classes[ret.class].ok) =>
              /\ \/ ClassifyReturn(ret) = ByValue
                 \/ /\ ClassifyReturn(ret) = Sret(classes[ret.class].size, classes[ret.class].align)
                    /\ classes[ret.class].size % classes[ret.class].align = 0
              /\ (ClassifyReturn(ret) # ByValue <=> InMemory(ret)) <=> Shown(ret)
<1>1. CASE ret = [k |-> "scalar"]
  <2>1. ret.k = "scalar"
    BY <1>1
  <2> QED BY <2>1 DEF ClassifyReturn, InMemory, Shown
<1>2. CASE ret \in {[k |-> "record", class |-> c] : c \in ClassIds}
  <2>1. PICK c \in ClassIds : ret.k = "record" /\ ret.class = c
    BY <1>2
  <2>2. classes[c].size \in Nat /\ classes[c].pod \in BOOLEAN /\ classes[c].ok \in BOOLEAN
    BY ClassTyped DEF TypeOK
  <2>3. classes[c].ok => ((classes[c].pod <=> TrivialForCalls(c)) <=> Apparent(c))
    BY FlagTells
  <2>4. classes[c].ok => classes[c].size % classes[c].align = 0
    BY DEF AlignsOK, SubobjectsAligned
  <2>5. ClassifyReturn(ret) =
          IF ~classes[c].ok THEN Err("Layout")
          ELSE IF classes[c].size <= 16 /\ classes[c].pod THEN ByValue
               ELSE Sret(classes[c].size, classes[c].align)
    BY <2>1 DEF ClassifyReturn
  <2>6. Sret(classes[c].size, classes[c].align) # ByValue
    <3>1. Sret(classes[c].size, classes[c].align).k = "Sret" /\ ByValue.k = "ByValue"
      BY DEF Sret, ByValue
    <3> QED BY <3>1
  <2>7. classes[c].ok =>
          ((InMemory(ret) <=> ~(classes[c].size <= 16 /\ classes[c].pod)) <=> Shown(ret))
    BY <2>1, <2>2, <2>3 DEF InMemory, Shown
  <2> QED BY <2>1, <2>4, <2>5, <2>6, <2>7
<1> QED BY <1>1, <1>2 DEF Rets

(* A call with the result of m and this when m takes it.                     *)
LEMMA CallFits ==
  ASSUME TypeOK, Pods, AlignsOK, NEW ret \in Rets, NEW m, NEW symbol, NEW this,
         m.ret = IF m.special = "none" THEN ret ELSE [k |-> "scalar"],
         m.static \in BOOLEAN, this = IF m.static THEN << >> ELSE <<"this">>,
         symbol.k = "method" => ~m.virtual /\ m.name.k = "id"
  PROVE  LET call == LoweredCall(symbol, ClassifyReturn(m.ret), this, m.params)
         IN FitsCall(ret, call, m) /\ ~(call.k = "Err" /\ call.error # "Layout")
<1> DEFINE conv == ClassifyReturn(m.ret)
           call == LoweredCall(symbol, conv, this, m.params)
           bad == ret.k = "record" /\ m.special = "none" /\ ~classes[ret.class].ok
           slot == Sret(classes[ret.class].size, classes[ret.class].align)
<1>1. m.special # "none" => conv = ByValue
  <2>1. m.special # "none" => m.ret.k = "scalar"
    OBVIOUS
  <2> QED BY <2>1 DEF ClassifyReturn
<1>2. bad => conv = Err("Layout")
  BY Classified
<1>3. ~bad => /\ \/ conv = ByValue
                 \/ conv = slot /\ classes[ret.class].size % classes[ret.class].align = 0
              /\ m.special = "none" => ((conv # ByValue <=> InMemory(ret)) <=> Shown(ret))
  BY <1>1, Classified
<1>4. slot.k = "Sret" /\ slot.size = classes[ret.class].size /\ slot.align = classes[ret.class].align
      /\ ByValue.k = "ByValue"
  BY DEF Sret, ByValue
<1> HIDE DEF conv, bad, slot
<1>5. CASE bad
  <2>1. call = Err("Layout")
    BY <1>2, <1>5 DEF LoweredCall, Err
  <2>2. call.error = "Layout"
    BY <2>1 DEF Err
  <2> HIDE DEF call
  <2> QED BY <1>5, <2>1, <2>2 DEF FitsCall, bad, call, conv
<1>6. CASE ~bad
  <2>1. /\ conv.k \in {"Sret", "ByValue"} /\ (conv.k = "Sret" <=> conv # ByValue)
        /\ conv.k = "Sret" => conv = slot /\ classes[ret.class].size % classes[ret.class].align = 0
    BY <1>3, <1>4, <1>6
  <2>2. call = [k |-> "call", symbol |-> symbol, ret |-> conv,
                argv |-> (IF conv.k = "Sret" THEN <<"sret">> ELSE << >>) \o this \o Formals(m.params)]
    BY <2>1 DEF LoweredCall
  <2> HIDE DEF call
  <2>3. /\ call.k = "call" /\ call.symbol = symbol /\ call.ret = conv
        /\ call.argv = (IF conv.k = "Sret" THEN <<"sret">> ELSE << >>) \o this \o Formals(m.params)
    BY <2>2
  <2>4. call.argv = Frame(m, call.ret.k = "Sret")
    BY <2>3 DEF Frame
  <2>5. call.ret.k = "Sret" =>
          /\ call.ret.size = classes[ret.class].size
          /\ call.ret.size % call.ret.align = 0
    BY <1>4, <2>1, <2>3
  <2>6. /\ m.special # "none" => call.ret.k # "Sret"
        /\ m.special = "none" => ((call.ret.k = "Sret" <=> InMemory(ret)) <=> Shown(ret))
    BY <1>1, <1>3, <1>4, <1>6, <2>1, <2>3
  <2> QED BY <1>6, <2>3, <2>4, <2>5, <2>6 DEF FitsCall, bad, call, conv
<1> QED BY <1>5, <1>6

(* A constructor's call returns nothing.                                     *)
LEMMA CtorFits ==
  ASSUME NEW ret, NEW m, m.special \in Ctors, ~m.static
  PROVE  LET call == LoweredCall(MethodSymbol(m), ByValue, <<"this">>, m.params)
         IN FitsCall(ret, call, m) /\ ~(call.k = "Err" /\ call.error # "Layout")
<1> DEFINE call == LoweredCall(MethodSymbol(m), ByValue, <<"this">>, m.params)
<1>1. m.special # "none"
  BY DEF Ctors
<1>2. call = [k |-> "call", symbol |-> MethodSymbol(m), ret |-> ByValue,
              argv |-> << >> \o <<"this">> \o Formals(m.params)]
  BY DEF LoweredCall, ByValue
<1>3. MethodSymbol(m).k = "C1"
  <2>1. MethodSymbol(m) = [k |-> "C1", of |-> m]
    BY DEF MethodSymbol, Ctors
  <2> QED BY <2>1
<1> HIDE DEF call
<1>4. /\ call.k = "call" /\ call.symbol.k = "C1" /\ call.ret.k = "ByValue"
      /\ call.argv = << >> \o <<"this">> \o Formals(m.params)
  BY <1>2, <1>3 DEF ByValue
<1>5. call.argv = Frame(m, call.ret.k = "Sret")
  BY <1>4 DEF Frame
<1> QED BY <1>1, <1>4, <1>5 DEF FitsCall, call

(* Every call by name of every method of every list fits its callee.         *)
LEMMA CallsFit ==
  ASSUME TypeOK, Pods, AlignsOK, NEW ret \in Rets, NEW list \in Overloads,
         NEW i \in DOMAIN Returning(list, ret)
  PROVE  LoweredFits(ret, Returning(list, ret), Returning(list, ret)[i])
<1> DEFINE methods == Returning(list, ret)
           m == methods[i]
<1>1. Callable(list) /\ DOMAIN methods = DOMAIN list /\ i \in DOMAIN list
  BY OverloadsAssumption DEF Returning
<1>2. /\ m.name = list[i].name /\ m.special = list[i].special
      /\ m.virtual = list[i].virtual /\ m.static = list[i].static
      /\ m.ret = IF m.special = "none" THEN ret ELSE [k |-> "scalar"]
      /\ m.special \in Ctors \cup {"Dtor", "none"} /\ m.static \in BOOLEAN
      /\ m.virtual \in BOOLEAN /\ m.name.k \in {"id", "op"}
  BY <1>1, Entry
<1>3. CASE m.name.k # "id"
  <2>1. ~m.virtual /\ m.special = "none"
    BY <1>1, <1>2, <1>3 DEF Callable
  <2> DEFINE first == [m EXCEPT !.static = TRUE]
             symbol == [k |-> "function", of |-> m]
             call == LoweredCall(symbol, ClassifyReturn(first.ret), << >>, first.params)
  <2>2. PICK r \in Method : m = [r EXCEPT !.ret = IF r.special = "none" THEN ret ELSE r.ret]
    <3>1. list[i] \in Method
      BY <1>1 DEF Callable
    <3>2. m = [list[i] EXCEPT !.ret = IF list[i].special = "none" THEN ret ELSE list[i].ret]
      BY <1>1 DEF Returning
    <3> HIDE DEF m
    <3> QED BY <3>1, <3>2
  <2>3. /\ first.virtual = m.virtual /\ first.special = m.special /\ first.name = m.name
        /\ first.ret = m.ret /\ first.params = m.params /\ first.static = TRUE
    <3> HIDE DEF m
    <3> QED BY <2>2 DEF Method
  <2>4. Lowered(methods, m) = call /\ Reached(methods, m) = first
    BY <1>3, <2>3 DEF LowerFreeFnCall, Lowered, Reached
  <2>5. symbol.k # "method"
    OBVIOUS
  <2>6. FitsCall(ret, call, first) /\ ~(call.k = "Err" /\ call.error # "Layout")
    <3>1. /\ first.ret = IF first.special = "none" THEN ret ELSE [k |-> "scalar"]
          /\ first.static \in BOOLEAN /\ << >> = IF first.static THEN << >> ELSE <<"this">>
      BY <1>2, <2>3
    <3> HIDE DEF first, symbol
    <3> QED BY <2>5, <3>1, CallFits
  <2>7. ~first.virtual
    BY <2>1, <2>3
  <2> HIDE DEF first, call, m
  <2> QED BY <2>1, <2>4, <2>6, <2>7 DEF LoweredFits, m
<1>4. CASE m.name.k = "id"
  <2> DEFINE id == m.name.id
             first == Resolved(methods, id)
  <2>1. m.name = [k |-> "id", id |-> id]
    <3>1. list[i] \in Method
      BY <1>1 DEF Callable
    <3>2. m.name \in {[k |-> "op"]} \cup [k: {"id"}, id: Names]
      BY <1>2, <3>1 DEF Method
    <3> HIDE DEF m
    <3> QED BY <1>4, <3>2
  <2>2. i \in Named(methods, id)
    <3> HIDE DEF m, id
    <3>1. methods[i].name = [k |-> "id", id |-> id]
      BY <2>1 DEF m
    <3> QED BY <1>1, <3>1 DEF Named
  <2>3. Named(methods, id) # {}
    BY <2>2
  <2> HIDE DEF id, m
  <2>4. PICK j \in DOMAIN list : first = methods[j] /\ list[j].name = [k |-> "id", id |-> id]
    BY <1>1, <2>3, ResolvedNamed
  <2>5. /\ first.name = list[j].name /\ first.special = list[j].special
        /\ first.virtual = list[j].virtual /\ first.static = list[j].static
        /\ first.ret = IF first.special = "none" THEN ret ELSE [k |-> "scalar"]
        /\ first.special \in Ctors \cup {"Dtor", "none"} /\ first.static \in BOOLEAN
        /\ first.virtual \in BOOLEAN
    BY <1>1, <2>4, Entry
  <2>6. /\ list[j].static = list[i].static
        /\ list[j].special \in Ctors <=> list[i].special \in Ctors
        /\ list[j].special # "none" => ~list[j].static
    BY <1>1, <1>2, <2>1, <2>4 DEF Callable
  <2>7. first.name.k = "id"
    BY <2>4, <2>5
  <2>8. first.static = m.static /\ (first.special \in Ctors <=> m.special \in Ctors)
    BY <1>2, <2>5, <2>6
  <2> HIDE DEF first, methods
  <2>9. CASE m.special \in Ctors
    <3>1. LowerCtorCall(methods, id) = LoweredCall(MethodSymbol(first), ByValue, <<"this">>, first.params)
      BY <2>3, <2>8, <2>9 DEF LowerCtorCall, first
    <3>2. ~first.static
      BY <2>5, <2>6, <2>8, <2>9 DEF Ctors
    <3>3. LET call == LowerCtorCall(methods, id)
          IN FitsCall(ret, call, first) /\ ~(call.k = "Err" /\ call.error # "Layout")
      BY <2>8, <2>9, <3>1, <3>2, CtorFits
    <3> QED BY <1>4, <2>9, <3>3 DEF LoweredFits, Lowered, Reached, methods, m, first, id
  <2>10. CASE m.special \notin Ctors
    <3> DEFINE this == IF m.static THEN << >> ELSE <<"this">>
               call == LowerNamed(methods, id, this)
    <3>1. (IF m.static THEN LowerStaticCall(methods, id) ELSE LowerMethodCall(methods, id)) = call
      BY DEF LowerStaticCall, LowerMethodCall
    <3>2. CASE first.virtual
      <4>1. call = Err("UnsupportedVirtual")
        BY <2>3, <3>2 DEF LowerNamed, first
      <4>2. call.k = "Err" /\ call.error # "Layout"
        <5>1. Err("UnsupportedVirtual").k = "Err" /\ Err("UnsupportedVirtual").error # "Layout"
          BY DEF Err
        <5> HIDE DEF call
        <5> QED BY <4>1, <5>1
      <4> HIDE DEF call
      <4> QED BY <1>4, <2>10, <3>1, <3>2, <4>2 DEF LoweredFits, Lowered, Reached, methods, m, first, id
    <3>3. CASE ~first.virtual
      <4>1. call = LoweredCall(MethodSymbol(first), ClassifyReturn(first.ret), this, first.params)
        BY <2>3, <3>3 DEF LowerNamed, first
      <4>2. MethodSymbol(first).k = "method" => ~first.virtual /\ first.name.k = "id"
        BY <2>7, <3>3
      <4>3. this = IF first.static THEN << >> ELSE <<"this">>
        BY <2>8
      <4> HIDE DEF call, this
      <4>4. FitsCall(ret, call, first) /\ ~(call.k = "Err" /\ call.error # "Layout")
        BY <2>5, <4>1, <4>2, <4>3, CallFits
      <4> QED BY <1>4, <2>10, <3>1, <3>3, <4>4 DEF LoweredFits, Lowered, Reached, methods, m, first, id
    <3> QED BY <2>5, <3>2, <3>3
  <2> QED BY <2>9, <2>10
<1> QED BY <1>3, <1>4

(* For every program, a call by name passes the slots of the C++ function    *)
(* behind the symbol it names, whatever the overloads are, as long as those  *)
(* of one name are called the same way (Callable); the hidden one as the ABI *)
(* has the callee expect it, for every class larger than two registers and,  *)
(* of those smaller, for exactly the ones whose declarations show it         *)
(* (Apparent).  That the flag classify_return reads speaks of every part is  *)
(* the invariant Pods and an induction over the classes the program declares *)
(* (PodParts), another joins it to the rule of the ABI, which looks into     *)
(* arrays and not at what is merely declared (PartsAmongAll, FlagTells).     *)
THEOREM CallsCorrect == Spec => []LoweredCallsFit
<1> DEFINE Inv == TypeOK /\ Members /\ Pods /\ AlignsOK
<1>1. Init => Inv
  BY InitTyped, InitMembers, InitPods, InitAligns
<1>2. Inv /\ [Next]_vars => Inv'
  BY StepTyped, StepMembers, StepPods, StepAligns
<1>3. Inv => LoweredCallsFit
  <2>1. LowerDtorCall.argv = <<"this">>
    <3>1. LowerDtorCall = [k |-> "call", symbol |-> [k |-> "D1"], ret |-> ByValue,
                           argv |-> << >> \o <<"this">> \o Formals(0)]
      BY DEF LowerDtorCall, LoweredCall, ByValue
    <3>2. Formals(0) = << >>
      BY DEF Formals
    <3>3. << >> \o <<"this">> \o << >> = <<"this">>
      OBVIOUS
    <3> HIDE DEF Inv
    <3> QED BY <3>1, <3>2, <3>3
  <2>2. ASSUME Inv, NEW ret \in Rets, NEW list \in Overloads,
                NEW i \in DOMAIN Returning(list, ret)
        PROVE  LoweredFits(ret, Returning(list, ret), Returning(list, ret)[i])
    BY <2>2, CallsFit
  <2> HIDE DEF Inv
  <2> QED BY <2>1, <2>2, Zenon DEF LoweredCallsFit
<1> QED BY <1>1, <1>2, <1>3, PTL DEF Spec

-----------------------------------------------------------------------------
(* The inductive invariant behind EmptyBasesApart.  A polymorphic class has  *)
(* data, so a primary base is never an empty one.                            *)

HandSized ==
  /\ phase = "primary" => \A p \in placed : p.role # "base"
  /\ InHand /\ decl.poly /\ phase # "primary" => dsize > 0
  /\ phase = "vbases" /\ decl.poly => nv.size > 0

DoneSized == \A c \in ClassIds : classes[c].ok /\ ctx[c].poly => classes[c].nvSize > 0

(* Of class c, with these pieces and these empty_subobjects: those of the    *)
(* primary base are among them, and every other empty base is at an offset   *)
(* that is recorded and that the primary base did not record.                *)
Kept(c, pieces, emp) ==
  \A p \in pieces : p.role = "base" =>
    /\ p.of \in 1 .. (c - 1)
    /\ FirstPoly(c, p.of) => classes[p.of].empties \subseteq emp
    /\ classes[p.of].nvSize = 0 =>
         \E k \in Nat :
           /\ p.lo = 8 * k /\ <<p.of, k>> \in emp
           /\ \A q \in pieces : q.role = "base" /\ FirstPoly(c, q.of) =>
                                  <<p.of, k>> \notin classes[q.of].empties

HandKept == InHand => Kept(Len(classes) + 1, placed, empties)
DoneKept == \A c \in ClassIds : Kept(c, classes[c].placed, classes[c].empties)

Empties == HandSized /\ DoneSized /\ HandKept /\ DoneKept

(* The invariant holds before the first class is begun.                      *)
LEMMA InitEmpties == Init => Empties
  BY DEF Init, Empties, HandSized, DoneSized, HandKept, DoneKept, InHand, ClassIds

(* Finished classes keep theirs while no class is added.                     *)
LEMMA EmptiesFrame ==
  ASSUME DoneSized, DoneKept, UNCHANGED <<ctx, classes>>
  PROVE  DoneSized' /\ DoneKept'
  BY DEF DoneSized, DoneKept, Kept, FirstPoly, ClassIds

(* A step that places no base and takes nothing from the data size.          *)
LEMMA NoBaseStep ==
  ASSUME TypeOK, Empties, InHand, UNCHANGED <<ctx, classes, empties>>,
         \A p \in placed' : p \in placed \/ p.role # "base",
         phase' # "primary", 
         decl.poly => dsize' > 0,
         phase' = "vbases" /\ decl.poly => nv'.size > 0
  PROVE  Empties'
<1>1. decl' = decl /\ InHand
  BY DEF decl
<1>2. HandKept'
  <2>1. Kept(Len(classes) + 1, placed, empties)
    BY DEF Empties, HandKept
  <2>2. Kept(Len(classes) + 1, placed', empties)
    <3> SUFFICES ASSUME NEW p \in placed', p.role = "base"
                 PROVE  /\ p \in placed
                        /\ \A q \in placed' : q.role = "base" => q \in placed
      BY <2>1 DEF Kept
    <3> QED OBVIOUS
  <2>3. Kept(Len(classes) + 1, placed, empties)'
    BY <2>2 DEF Kept, FirstPoly
  <2> QED BY <2>3 DEF HandKept
<1>3. HandSized'
  BY <1>1 DEF HandSized
<1> QED BY <1>2, <1>3, EmptiesFrame DEF Empties

(* What the program says of the class in hand.                               *)
LEMMA DeclLegal ==
  ASSUME TypeOK, InHand
  PROVE  /\ Len(classes) \in Nat /\ decl.bases \in Seq(Base)
         /\ decl.poly => decl.kind = "class" /\ ~IsEmpty
         /\ \A i \in DOMAIN decl.bases :
              /\ decl.bases[i].class \in ClassIds
              /\ ctx[decl.bases[i].class].poly => decl.poly
              /\ \A j \in DOMAIN decl.bases :
                   decl.bases[i].class = decl.bases[j].class => i = j
<1>1. WellFormed(ctx) /\ CtxOK /\ Len(classes) < Len(ctx) /\ Len(classes) \in Nat
  BY ProgramAssumption DEF TypeOK, CtxOK, PhaseOK, InHand
<1>2. Len(classes) + 1 \in DOMAIN ctx
  BY <1>1 DEF WellFormed
<1>3. /\ decl.bases \in Seq(Base) /\ decl \in ClassDef
      /\ \A i \in 1 .. Len(decl.bases) : decl.bases[i].class \in ClassIds
  BY <1>1, DeclTyped
<1>4. decl.poly => decl.kind = "class" /\ ~IsEmpty
  BY <1>1, <1>2, <1>3 DEF WellFormed, decl, ClassDef, IsEmpty
<1>5. \A i \in DOMAIN decl.bases :
        /\ ctx[decl.bases[i].class].poly => decl.poly
        /\ \A j \in DOMAIN decl.bases : decl.bases[i].class = decl.bases[j].class => i = j
  BY <1>1, <1>2 DEF WellFormed, decl
<1> QED BY <1>1, <1>3, <1>4, <1>5

(* The primary base, of the class in hand and of the program.                *)
LEMMA PrimaryIsFirst ==
  ASSUME TypeOK, InHand, NEW i \in DOMAIN decl.bases
  PROVE  IsPrimary(i) <=> FirstPoly(Len(classes) + 1, decl.bases[i].class)
<1>1. /\ decl.bases \in Seq(Base) /\ i \in Nat
      /\ ctx[decl.bases[i].class].poly => decl.poly
      /\ \A j \in DOMAIN decl.bases : decl.bases[i].class = decl.bases[j].class => i = j
  BY DeclLegal
<1>2. FirstPoly(Len(classes) + 1, decl.bases[i].class) <=>
        \E j \in DOMAIN decl.bases :
          /\ decl.bases[j].class = decl.bases[i].class /\ ctx[decl.bases[i].class].poly
          /\ \A k \in 1 .. (j - 1) : ~ctx[decl.bases[k].class].poly
  BY DEF FirstPoly, decl
<1>3. 1 .. (i - 1) = {k \in DOMAIN decl.bases : k < i}
  BY <1>1
<1> QED BY <1>1, <1>2, <1>3 DEF IsPrimary

(* A class begins with nothing placed.                                       *)
LEMMA BeginEmpties == TypeOK /\ Empties /\ BeginClass => Empties'
<1> SUFFICES ASSUME TypeOK, Empties, BeginClass PROVE Empties'
  OBVIOUS
<1>1. /\ UNCHANGED <<ctx, classes>> /\ placed' = {} /\ phase = "idle"
      /\ phase' = IF decl.kind = "union" THEN "fields" ELSE "primary"
      /\ decl' = decl /\ Len(classes) < Len(ctx)
  BY DEF BeginClass, decl
<1>2. phase' = "fields" => ~decl.poly
  <2>1. WellFormed(ctx) /\ Len(classes) + 1 \in DOMAIN ctx
    BY <1>1, ProgramAssumption DEF TypeOK, CtxOK, WellFormed
  <2> QED BY <1>1, <2>1 DEF WellFormed, decl
<1>3. HandSized'
  BY <1>1, <1>2 DEF HandSized
<1>4. HandKept'
  BY <1>1 DEF HandKept, Kept
<1> QED BY <1>1, <1>3, <1>4, EmptiesFrame DEF Empties

(* A step that places base number i of the class in hand, where PlacePrimary *)
(* or place_base puts it.                                                    *)
LEMMA BaseStep ==
  ASSUME TypeOK, Empties, phase \in {"primary", "bases"}, phase' = "bases",
         UNCHANGED <<ctx, classes>>, NEW i \in DOMAIN decl.bases,
         NEW k \in Nat, NEW p,
         p.role = "base", p.of = decl.bases[i].class, p.lo = 8 * k,
         placed' = placed \union {p}, empties \subseteq empties',
         IsPrimary(i) => /\ phase = "primary" /\ classes[p.of].nvSize > 0
                         /\ classes[p.of].empties \subseteq empties',
         ~IsPrimary(i) /\ classes[p.of].nvSize = 0 =>
           <<p.of, k>> \in empties' \ empties,
         decl.poly => dsize' > 0
  PROVE  Empties'
<1> DEFINE c == Len(classes) + 1
<1>1. InHand /\ decl' = decl /\ c - 1 = Len(classes)
  BY DeclLegal DEF InHand, decl
<1>2. p.of \in 1 .. (c - 1) /\ (FirstPoly(c, p.of) <=> IsPrimary(i))
  BY <1>1, DeclLegal, PrimaryIsFirst DEF ClassIds
<1>3. Kept(c, placed, empties)
  BY <1>1 DEF Empties, HandKept
<1>4. Kept(c, placed', empties')
  <2>1. ASSUME NEW q \in placed', q.role = "base"
        PROVE  /\ q.of \in 1 .. (c - 1)
               /\ FirstPoly(c, q.of) => classes[q.of].empties \subseteq empties'
    <3>1. CASE q = p
      BY <1>2, <3>1
    <3>2. CASE q \in placed
      BY <1>3, <2>1, <3>2 DEF Kept
    <3> QED BY <3>1, <3>2
  <2>2. ASSUME NEW q \in placed', q.role = "base", classes[q.of].nvSize = 0
        PROVE  \E n \in Nat :
                 /\ q.lo = 8 * n /\ <<q.of, n>> \in empties'
                 /\ \A r \in placed' : r.role = "base" /\ FirstPoly(c, r.of) =>
                                           <<q.of, n>> \notin classes[r.of].empties
    <3>1. CASE q = p
      <4>1. ~IsPrimary(i) /\ <<p.of, k>> \in empties' \ empties
        BY <2>2, <3>1
      <4>2. \A r \in placed' : r.role = "base" /\ FirstPoly(c, r.of) =>
                                  <<p.of, k>> \notin classes[r.of].empties
        BY <1>2, <1>3, <4>1 DEF Kept
      <4> QED BY <3>1, <4>1, <4>2
    <3>2. CASE q \in placed
      <4>1. ~IsPrimary(i)
        BY <2>2, <3>2 DEF Empties, HandSized
      <4>2. PICK n \in Nat :
              /\ q.lo = 8 * n /\ <<q.of, n>> \in empties
              /\ \A r \in placed : r.role = "base" /\ FirstPoly(c, r.of) =>
                                        <<q.of, n>> \notin classes[r.of].empties
        BY <1>3, <2>2, <3>2 DEF Kept
      <4> QED BY <1>2, <4>1, <4>2
    <3> QED BY <3>1, <3>2
  <2> QED BY <2>1, <2>2 DEF Kept
<1>5. HandKept'
  <2>1. \A id : FirstPoly(c, id)' <=> FirstPoly(c, id)
    BY DEF FirstPoly
  <2>2. Kept(c, placed, empties)'
    BY <1>4, <2>1, Zenon DEF Kept
  <2> QED BY <2>2 DEF HandKept
<1>6. HandSized'
  BY <1>1 DEF HandSized
<1> QED BY <1>5, <1>6, EmptiesFrame DEF Empties

(* The primary base, the vptr and the bases after them.                      *)
LEMMA BasesEmpties ==
  TypeOK /\ Empties /\
    (\/ PlacePrimary \/ AllocateVptr \/ NoVptr
     \/ SkipBase \/ PlaceEmptyBase \/ PlaceNonEmptyBase \/ BasesDone) => Empties'
<1> SUFFICES ASSUME TypeOK, Empties,
                    \/ PlacePrimary \/ AllocateVptr \/ NoVptr
                    \/ SkipBase \/ PlaceEmptyBase \/ PlaceNonEmptyBase \/ BasesDone
             PROVE  Empties'
  OBVIOUS
<1>1. ASSUME NEW of, NEW off, NEW sz, NEW al
      PROVE  /\ Bytes("base", of, off, sz, al).role = "base"
             /\ Bytes("base", of, off, sz, al).of = of
             /\ Bytes("base", of, off, sz, al).lo = 8 * off
             /\ Bytes("vptr", of, off, sz, al).role = "vptr"
  BY DEF Bytes, Piece
<1>2. InHand /\ CtxOK /\ dsize \in Nat /\ size \in Nat
  BY DEF PlacePrimary, AllocateVptr, NoVptr, SkipBase, PlaceEmptyBase, PlaceNonEmptyBase, BasesDone,
         AtBase, InHand, TypeOK, StateOK
<1>3. \A i \in DOMAIN decl.bases :
        LET b == classes[decl.bases[i].class]
        IN /\ b.nvSize \in Nat /\ b.nvAlign \in Nat \ {0} /\ b.align \in Nat \ {0}
           /\ b.ok /\ IsPrimary(i) => b.nvSize > 0
  <2> TAKE i \in DOMAIN decl.bases
  <2>1. decl.bases[i].class \in ClassIds
    BY <1>2, DeclLegal
  <2>2. classes[decl.bases[i].class].ok /\ IsPrimary(i) => classes[decl.bases[i].class].nvSize > 0
    BY <2>1 DEF Empties, DoneSized, IsPrimary
  <2> QED BY <1>2, <2>1, <2>2, ClassTyped
<1>4. CASE PlacePrimary
  <2>1. PICK i \in DOMAIN decl.bases :
          LET id == decl.bases[i].class
              b == classes[id]
          IN /\ IsPrimary(i) /\ b.ok
             /\ dsize' = MaxOf(dsize, b.nvSize)
             /\ empties' = empties \union HandedUp(b)
             /\ placed' = placed \union {Bytes("base", id, 0, b.nvSize, b.nvAlign)}
    BY <1>4 DEF PlacePrimary
  <2>2. phase = "primary" /\ phase' = "bases" /\ UNCHANGED <<ctx, classes>>
    BY <1>4 DEF PlacePrimary
  <2>3. classes[decl.bases[i].class].nvSize > 0 /\ dsize' > 0
    <3>1. classes[decl.bases[i].class].nvSize \in Nat /\ classes[decl.bases[i].class].nvSize > 0
      BY <1>3, <2>1
    <3> QED BY <1>2, <2>1, <3>1 DEF MaxOf
  <2> DEFINE p == Bytes("base", decl.bases[i].class, 0, classes[decl.bases[i].class].nvSize,
                        classes[decl.bases[i].class].nvAlign)
  <2>4. p.role = "base" /\ p.of = decl.bases[i].class /\ p.lo = 8 * 0
    BY <1>1
  <2>5. /\ placed' = placed \union {p} /\ empties \subseteq empties'
        /\ classes[p.of].empties \subseteq empties'
    BY <2>1, <2>4 DEF HandedUp
  <2> HIDE DEF p
  <2> QED BY <2>1, <2>2, <2>3, <2>4, <2>5, BaseStep
<1>5. CASE AllocateVptr
  <2>1. /\ UNCHANGED <<ctx, classes, empties>> /\ phase' = "bases" /\ dsize' = PtrSize
        /\ placed' = placed \union {Bytes("vptr", 0, 0, PtrSize, PtrSize)}
    BY <1>5 DEF AllocateVptr
  <2> QED BY <1>1, <1>2, <2>1, PtrAssumption, NoBaseStep
<1>6. CASE NoVptr
  <2>1. /\ UNCHANGED <<ctx, classes, empties, placed, dsize>> /\ phase' = "bases" /\ ~decl.poly
    BY <1>6 DEF NoVptr, state
  <2> QED BY <1>2, <2>1, NoBaseStep
<1>7. CASE SkipBase \/ BasesDone
  <2>1. /\ UNCHANGED <<ctx, classes, empties, placed, dsize>> /\ phase = "bases"
        /\ phase' \in {"bases", "fields"}
    BY <1>7 DEF SkipBase, BasesDone, AtBase, state
  <2>2. decl.poly => dsize > 0
    BY <1>2, <2>1 DEF Empties, HandSized
  <2> QED BY <1>2, <2>1, <2>2, NoBaseStep
<1>8. ASSUME AtBase, ~Deferred
      PROVE  next \in DOMAIN decl.bases /\ ~IsPrimary(next) /\ (decl.poly => dsize > 0)
  <2>1. next \in DOMAIN decl.bases
    BY <1>2, <1>8, DeclLegal DEF AtBase, TypeOK, WalkOK
  <2> QED BY <1>2, <1>8, <2>1 DEF Deferred, Empties, HandSized, AtBase
<1>9. CASE PlaceEmptyBase
  <2> DEFINE id == ThisBase.class
             b == classes[id]
             step == MaxOf(b.align, 1)
  <2>1. PICK k \in 0 .. Cardinality(empties) :
          /\ <<id, k * step>> \notin empties
          /\ empties' = empties \union {<<id, k * step>>}
          /\ placed' = placed \union {Bytes("base", id, k * step, 0, b.align)}
    BY <1>9 DEF PlaceEmptyBase
  <2>2. /\ AtBase /\ ~Deferred /\ phase' = "bases" /\ phase = "bases"
        /\ UNCHANGED <<ctx, classes, dsize>>
    BY <1>9 DEF PlaceEmptyBase, AtBase
  <2>3. k * step \in Nat
    <3>1. step \in Nat
      BY <1>3, <1>8, <2>2 DEF MaxOf, ThisBase
    <3> HIDE DEF step
    <3> QED BY <3>1
  <2> DEFINE p == Bytes("base", id, k * step, 0, b.align)
  <2>4. p.role = "base" /\ p.of = id /\ p.lo = 8 * (k * step) /\ id = decl.bases[next].class
    BY <1>1 DEF ThisBase
  <2>5. placed' = placed \union {p} /\ <<p.of, k * step>> \in empties' \ empties
    BY <2>1, <2>4
  <2>6. empties \subseteq empties'
    BY <2>1
  <2> HIDE DEF p, step, id
  <2> QED BY <1>8, <2>2, <2>3, <2>4, <2>5, <2>6, BaseStep
<1>10. CASE PlaceNonEmptyBase
  <2> DEFINE id == ThisBase.class
             b == classes[id]
             off == AlignUp(dsize, b.nvAlign)
             p == Bytes("base", id, off, b.nvSize, b.nvAlign)
  <2>1. /\ AtBase /\ ~Deferred /\ phase' = "bases" /\ phase = "bases"
        /\ UNCHANGED <<ctx, classes, empties>> /\ b.nvSize # 0 /\ dsize' = off + b.nvSize
        /\ placed' = placed \union {p}
    BY <1>10 DEF PlaceNonEmptyBase, AtBase
  <2>2. p.role = "base" /\ p.of = id /\ p.lo = 8 * off /\ id = decl.bases[next].class
    BY <1>1 DEF ThisBase
  <2>3. b.nvSize \in Nat /\ b.nvAlign \in Nat
    BY <1>3, <1>8, <2>1 DEF ThisBase
  <2> HIDE DEF p
  <2>4. off \in Nat /\ dsize' > 0
    <3>1. off \in Nat
      BY <1>2, <2>3, AlignUpGrows
    <3> HIDE DEF off
    <3> QED BY <2>1, <2>3, <3>1
  <2>5. classes[p.of].nvSize # 0
    BY <2>1, <2>2
  <2> HIDE DEF off, id
  <2> QED BY <1>8, <2>1, <2>2, <2>4, <2>5, BaseStep
<1> QED BY <1>4, <1>5, <1>6, <1>7, <1>9, <1>10

(* Members, the snapshot and the virtual bases.                              *)
LEMMA OthersEmpties ==
  TypeOK /\ Empties /\
    (\/ PlaceField \/ PlaceZeroWidth \/ PackBitfield \/ OpenUnit \/ PlaceUnionField
     \/ SnapshotNonVirtual \/ NextBase \/ SkipCollected \/ PlaceVirtualBase) => Empties'
<1> SUFFICES ASSUME TypeOK, Empties,
                    \/ PlaceField \/ PlaceZeroWidth \/ PackBitfield \/ OpenUnit \/ PlaceUnionField
                    \/ SnapshotNonVirtual \/ NextBase \/ SkipCollected \/ PlaceVirtualBase
             PROVE  Empties'
  OBVIOUS
<1>1. ASSUME NEW of, NEW off, NEW sz, NEW al
      PROVE  /\ Bytes("field", of, off, sz, al).role = "field"
             /\ Bytes("vbase", of, off, sz, al).role = "vbase"
             /\ Bits(of, off, sz).role = "bits"
  BY DEF Bytes, Bits, Piece
<1>2. /\ InHand /\ CtxOK /\ StateOK /\ dsize \in Nat /\ size \in Nat
      /\ phase \in {"fields", "vbases"} /\ (decl.poly => dsize > 0)
  <2>1. phase \in {"fields", "vbases"}
    BY DEF PlaceField, PlaceZeroWidth, PackBitfield, OpenUnit, PlaceUnionField, SnapshotNonVirtual,
           NextBase, SkipCollected, PlaceVirtualBase, AtBitfield, AtMember, Walking
  <2> QED BY <2>1 DEF InHand, TypeOK, StateOK, Empties, HandSized
<1>3. ASSUME AtMember
      PROVE  /\ phase = "fields" /\ phase # "vbases" /\ ThisMember \in Member
             /\ TypeSize(ThisMember) \in Nat /\ NaturalAlign(ThisMember) \in Nat
             /\ ThisMember.explicit \in Nat
  BY <1>2, <1>3, MemberTyped DEF AtMember, TypeOK, PhaseOK, Member
<1>4. CASE PlaceField
  <2> DEFINE al == IF decl.packed THEN MaxOf(ThisMember.explicit, 1) ELSE NaturalAlign(ThisMember)
             off == AlignUp(dsize, al)
  <2>1. /\ AtMember /\ UNCHANGED <<ctx, classes, phase, empties>>
        /\ dsize' = off + TypeSize(ThisMember)
        /\ placed' = placed \union {Bytes("field", fields + 1, off, TypeSize(ThisMember), al)}
    BY <1>4 DEF PlaceField
  <2>2. al \in Nat
    BY <1>3, <2>1 DEF MaxOf
  <2> HIDE DEF al
  <2>3. off \in Nat /\ off >= dsize
    BY <1>2, <2>2, AlignUpGrows
  <2> HIDE DEF off
  <2>4. decl.poly => dsize' > 0
    BY <1>2, <1>3, <2>1, <2>3
  <2> QED BY <1>1, <1>2, <1>3, <2>1, <2>4, NoBaseStep
<1>5. CASE PlaceUnionField
  <2>1. /\ AtMember /\ UNCHANGED <<ctx, classes, phase, empties, dsize>>
        /\ placed' = placed \union
             {Bytes("field", fields + 1, 0, TypeSize(ThisMember), NaturalAlign(ThisMember))}
    BY <1>5 DEF PlaceUnionField
  <2> QED BY <1>1, <1>2, <1>3, <2>1, NoBaseStep
<1>6. CASE PlaceZeroWidth
  <2>1. /\ AtMember /\ UNCHANGED <<ctx, classes, phase, empties>>
        /\ dsize' = IF au.open THEN MaxOf(dsize, au.at + au.bytes) ELSE dsize
    BY <1>6 DEF PlaceZeroWidth, AtBitfield
  <2>2. PICK off : placed' = placed \union {Bits(off, 0, 0)}
    BY <1>6 DEF PlaceZeroWidth
  <2>3. decl.poly => dsize' > 0
    <3>1. au.at + au.bytes \in Nat
      BY <1>2 DEF StateOK
    <3>2. MaxOf(dsize, au.at + au.bytes) >= dsize
      BY <1>2, <3>1 DEF MaxOf
    <3> QED BY <1>2, <2>1, <3>1, <3>2, MaxOfTyped
  <2> QED BY <1>1, <1>2, <1>3, <2>1, <2>2, <2>3, NoBaseStep
<1>7. ASSUME NEW off, NEW bit, NEW w, NEW end \in Nat,
             AtMember, UNCHANGED <<ctx, classes, phase, empties>>,
             placed' = placed \union {Bits(off, bit, w)}, dsize' = MaxOf(dsize, end)
      PROVE  Empties'
  <2>1. decl.poly => dsize' > 0
    BY <1>2, <1>7 DEF MaxOf
  <2> QED BY <1>1, <1>2, <1>3, <1>7, <2>1, NoBaseStep
<1>8. CASE PackBitfield
  <2>1. au.at + au.bytes \in Nat
    BY <1>2 DEF StateOK
  <2> QED BY <1>7, <1>8, <2>1 DEF PackBitfield, AtBitfield
<1>9. CASE OpenUnit
  <2> DEFINE off == AlignUp(dsize, NaturalAlign(ThisMember))
             end == off + TypeSize(ThisMember)
  <2>1. AtMember
    BY <1>9 DEF OpenUnit, AtBitfield
  <2>2. end \in Nat
    <3>1. off \in Nat
      BY <1>2, <1>3, <2>1, AlignUpGrows
    <3> HIDE DEF off
    <3> QED BY <1>3, <2>1, <3>1
  <2>3. /\ UNCHANGED <<ctx, classes, phase, empties>> /\ dsize' = MaxOf(dsize, end)
        /\ placed' = placed \union {Bits(off, 0, MinOf(ThisMember.width, UnitBits))}
    BY <1>9 DEF OpenUnit
  <2> HIDE DEF off, end
  <2> QED BY <1>7, <2>1, <2>2, <2>3
<1>10. CASE SnapshotNonVirtual
  <2>1. /\ UNCHANGED <<ctx, classes, empties, placed>> /\ phase' = "vbases"
        /\ dsize' = (IF decl.kind = "union" THEN size ELSE dsize)
        /\ align' = MaxOf(align, decl.align) /\ nv'.size = NonVirtualSize(dsize', align')
    BY <1>10 DEF SnapshotNonVirtual, SourceAlign
  <2>2. align' \in Nat
    <3>1. decl.align \in Nat /\ align \in Nat
      BY <1>2, DeclTyped DEF ClassDef, TypeOK, PhaseOK, InHand, StateOK
    <3> QED BY <2>1, <3>1 DEF MaxOf
  <2>3. decl.poly => dsize' = dsize /\ dsize' > 0 /\ ~IsEmpty
    BY <1>2, <2>1, DeclLegal
  <2>4. decl.poly => nv'.size > 0
    <3>1. decl.poly => AlignUp(dsize, align') > 0
      BY <1>2, <2>2, AlignUpGrows
    <3> QED BY <1>2, <2>1, <2>3, <3>1 DEF NonVirtualSize
  <2> QED BY <1>2, <2>1, <2>3, <2>4, NoBaseStep
<1>11. CASE NextBase \/ SkipCollected \/ PlaceVirtualBase
  <2>1. /\ UNCHANGED <<ctx, classes, phase, empties, dsize, nv>> /\ phase = "vbases"
        /\ \A p \in placed' : p \in placed \/ p.role # "base"
    BY <1>1, <1>11 DEF NextBase, SkipCollected, PlaceVirtualBase, Walking, state
  <2>2. decl.poly => nv.size > 0
    BY <2>1 DEF Empties, HandSized
  <2> QED BY <1>2, <2>1, <2>2, NoBaseStep
<1> QED BY <1>4, <1>5, <1>6, <1>8, <1>9, <1>10, <1>11

(* A finished class is recorded with what it has in hand; one that fails has *)
(* placed nothing.                                                           *)
LEMMA FinishEmpties == TypeOK /\ Empties /\ (Finalize \/ Fail) => Empties'
<1> SUFFICES ASSUME TypeOK, Empties, Finalize \/ Fail PROVE Empties'
  OBVIOUS
<1>1. phase' = "idle" /\ ctx' = ctx /\ classes \in Seq(LayoutType) /\ Len(classes) \in Nat
  <2>1. phase' = "idle" /\ ctx' = ctx
    BY DEF Finalize, Fail
  <2>2. classes \in Seq(LayoutType)
    BY DEF TypeOK, CtxOK
  <2> QED BY <2>1, <2>2
<1>2. PICK l : /\ classes' = Append(classes, l)
               /\ l.ok => phase = "vbases" /\ l.nvSize = nv.size
               /\ \/ l.placed = {}
                  \/ phase = "vbases" /\ l.placed = placed /\ l.empties = empties
  <2>1. CASE Finalize
    <3> DEFINE sz == AlignUp(MaxOf(MaxOf(size, dsize), 1), align)
               l == Layout(TRUE, sz, align, IF pod THEN sz ELSE MaxOf(size, dsize),
                           nv.size, nv.align, hasVptr, placed, empties, vbases)
    <3>1. classes' = Append(classes, l) /\ phase = "vbases"
      BY <2>1 DEF Finalize
    <3>2. l.nvSize = nv.size /\ l.placed = placed /\ l.empties = empties
      BY DEF Layout
    <3> HIDE DEF l
    <3> QED BY <3>1, <3>2
  <2>2. CASE Fail
    <3> DEFINE l == Layout(FALSE, 0, 1, 0, 0, 1, FALSE, {}, {}, << >>)
    <3>1. classes' = Append(classes, l)
      BY <2>2 DEF Fail
    <3>2. ~l.ok /\ l.placed = {}
      BY DEF Layout
    <3> HIDE DEF l
    <3> QED BY <3>1, <3>2
  <2> QED BY <2>1, <2>2
<1>3. /\ classes'[Len(classes) + 1] = l /\ ClassIds' = 1 .. (Len(classes) + 1)
      /\ \A c \in ClassIds : classes'[c] = classes[c]
  BY <1>1, <1>2 DEF ClassIds
<1>4. DoneSized'
  <2>1. ASSUME NEW c \in ClassIds', classes'[c].ok, ctx[c].poly PROVE classes'[c].nvSize > 0
    <3>1. CASE c = Len(classes) + 1
      BY <1>2, <1>3, <2>1, <3>1 DEF Empties, HandSized, decl
    <3>2. CASE c \in ClassIds
      BY <1>3, <2>1, <3>2 DEF Empties, DoneSized
    <3> QED BY <1>1, <1>3, <3>1, <3>2 DEF ClassIds
  <2> QED BY <1>1, <2>1 DEF DoneSized
<1>5. ASSUME NEW c \in 1 .. (Len(classes) + 1), NEW pieces, NEW emp, Kept(c, pieces, emp)
      PROVE  Kept(c, pieces, emp)'
  <2>1. \A id : FirstPoly(c, id)' <=> FirstPoly(c, id)
    BY <1>1 DEF FirstPoly
  <2>2. \A id \in 1 .. (c - 1) : classes'[id] = classes[id]
    BY <1>1, <1>3 DEF ClassIds
  <2> SUFFICES ASSUME NEW p \in pieces, p.role = "base"
               PROVE  /\ p.of \in 1 .. (c - 1)
                      /\ FirstPoly(c, p.of) => classes'[p.of].empties \subseteq emp
                      /\ classes'[p.of].nvSize = 0 =>
                           \E k \in Nat :
                             /\ p.lo = 8 * k /\ <<p.of, k>> \in emp
                             /\ \A q \in pieces : q.role = "base" /\ FirstPoly(c, q.of) =>
                                                    <<p.of, k>> \notin classes'[q.of].empties
    BY <2>1, Zenon DEF Kept
  <2>3. p.of \in 1 .. (c - 1) /\ (FirstPoly(c, p.of) => classes'[p.of].empties \subseteq emp)
    BY <1>5, <2>2 DEF Kept
  <2>4. ASSUME classes'[p.of].nvSize = 0
        PROVE  \E k \in Nat :
                 /\ p.lo = 8 * k /\ <<p.of, k>> \in emp
                 /\ \A q \in pieces : q.role = "base" /\ FirstPoly(c, q.of) =>
                                        <<p.of, k>> \notin classes'[q.of].empties
    <3>1. classes[p.of].nvSize = 0
      BY <2>2, <2>3, <2>4
    <3>2. PICK k \in Nat :
            /\ p.lo = 8 * k /\ <<p.of, k>> \in emp
            /\ \A q \in pieces : q.role = "base" /\ FirstPoly(c, q.of) =>
                                   <<p.of, k>> \notin classes[q.of].empties
      BY <1>5, <3>1 DEF Kept
    <3>3. \A q \in pieces : q.role = "base" => q.of \in 1 .. (c - 1)
      BY <1>5 DEF Kept
    <3> QED BY <2>2, <3>2, <3>3
  <2> QED BY <2>3, <2>4
<1>6. DoneKept'
  <2>1. ASSUME NEW c \in ClassIds' PROVE Kept(c, classes'[c].placed, classes'[c].empties)
    <3>1. CASE c = Len(classes) + 1
      <4>1. CASE l.placed = {}
        BY <1>3, <3>1, <4>1 DEF Kept
      <4>2. CASE l.placed # {}
        BY <1>2, <1>3, <3>1, <4>2 DEF Empties, HandKept, InHand
      <4> QED BY <4>1, <4>2
    <3>2. CASE c \in ClassIds
      BY <1>3, <3>2 DEF Empties, DoneKept
    <3> QED BY <1>1, <1>3, <3>1, <3>2 DEF ClassIds
  <2>2. ASSUME NEW c \in ClassIds' PROVE Kept(c, classes[c].placed, classes[c].empties)'
    <3> PICK pieces, emp : pieces = classes'[c].placed /\ emp = classes'[c].empties
      OBVIOUS
    <3>1. Kept(c, pieces, emp)
      BY <2>1
    <3>2. Kept(c, pieces, emp)'
      BY <1>3, <1>5, <3>1
    <3> QED BY <3>2 DEF Kept, FirstPoly
  <2> QED BY <2>2 DEF DoneKept
<1> QED BY <1>1, <1>4, <1>6 DEF Empties, HandSized, HandKept, InHand

(* Empties is inductive.                                                     *)
LEMMA StepEmpties == TypeOK /\ Empties /\ [Next]_vars => Empties'
<1> SUFFICES ASSUME TypeOK, Empties, [Next]_vars PROVE Empties'
  OBVIOUS
<1>1. CASE UNCHANGED vars
  <2>1. UNCHANGED <<ctx, classes, phase, placed, empties, dsize, nv>>
    BY <1>1 DEF vars, state, walk
  <2>2. DoneSized' /\ DoneKept'
    BY <2>1, EmptiesFrame DEF Empties
  <2>3. HandSized' /\ HandKept'
    BY <2>1 DEF Empties, HandSized, HandKept, Kept, FirstPoly, InHand, decl
  <2> QED BY <2>2, <2>3 DEF Empties
<1>2. CASE Next
  BY <1>2, BeginEmpties, BasesEmpties, OthersEmpties, FinishEmpties DEF Next
<1> QED BY <1>1, <1>2

(* What Recorded computes of class c from what it computes of earlier ones.  *)
Empty(c) == {q \in DirectBases(c) : classes[q.of].nvSize = 0}
Primary(c) == {q \in DirectBases(c) : q.lo = 0 /\ FirstPoly(c, q.of)}

RecordedAt(f, c) ==
  {<< <<p.of>>, p.of, p.lo>> : p \in Empty(c)}
    \cup (UNION {Inherited(p.of, f[p.of]) : p \in Primary(c)})

IsRecorded(f, n) == f = [c \in 1 .. n |-> RecordedAt(f, c)]

(* Direct bases are earlier classes.                                         *)
LEMMA EarlierBase ==
  ASSUME TypeOK, Empties, NEW c \in ClassIds, NEW p \in DirectBases(c)
  PROVE  c \in Nat /\ p.of \in 1 .. (c - 1) /\ Len(classes) \in Nat
<1>1. Len(classes) \in Nat
  BY DEF TypeOK, CtxOK
<1>2. c \in Nat /\ Kept(c, classes[c].placed, classes[c].empties)
  BY <1>1 DEF Empties, DoneKept, ClassIds
<1> QED BY <1>1, <1>2 DEF Kept, DirectBases

(* The recursive function exists.                                            *)
LEMMA RecordedExist ==
  ASSUME TypeOK, Empties, NEW n \in Nat, n <= Len(classes)
  PROVE  \E f : IsRecorded(f, n)
<1> DEFINE T == {j \in Nat : j <= Len(classes) => \E f : IsRecorded(f, j)}
<1>1. ASSUME NEW j \in Nat, \A k \in Nat : k < j => k \in T PROVE j \in T
  <2> SUFFICES ASSUME j <= Len(classes) PROVE \E f : IsRecorded(f, j)
    OBVIOUS
  <2>1. Len(classes) \in Nat
    BY DEF TypeOK, CtxOK
  <2>2. CASE j = 0
    <3>1. IsRecorded([c \in 1 .. 0 |-> {}], 0)
      BY DEF IsRecorded
    <3> QED BY <2>2, <3>1
  <2>3. CASE j # 0
    <3>1. j - 1 \in Nat /\ j - 1 < j /\ j - 1 <= Len(classes)
      BY <2>1, <2>3
    <3>2. PICK f : IsRecorded(f, j - 1)
      BY <1>1, <3>1
    <3> DEFINE g == [c \in 1 .. j |-> RecordedAt(f, c)]
    <3>3. ASSUME NEW c \in 1 .. (j - 1) PROVE g[c] = f[c]
      <4>1. c \in 1 .. j
        BY <3>1
      <4>2. f[c] = RecordedAt(f, c)
        BY <3>2 DEF IsRecorded
      <4> QED BY <4>1, <4>2
    <3>4. ASSUME NEW c \in 1 .. j PROVE RecordedAt(g, c) = RecordedAt(f, c)
      <4>1. c \in ClassIds /\ 1 .. (c - 1) \subseteq 1 .. (j - 1)
        BY <2>1, <3>1 DEF ClassIds
      <4> HIDE DEF g
      <4>2. \A p \in Primary(c) : g[p.of] = f[p.of]
        BY <3>3, <4>1, EarlierBase DEF Primary
      <4> QED BY <4>2 DEF RecordedAt
    <3>5. g = [c \in 1 .. j |-> RecordedAt(g, c)]
      BY <3>4
    <3> HIDE DEF g
    <3>6. IsRecorded(g, j)
      BY <3>5 DEF IsRecorded
    <3> QED BY <3>6
  <2> QED BY <2>2, <2>3
<1>2. Nat \subseteq T
  <2> HIDE DEF T
  <2> QED BY <1>1, Induct
<1> QED BY <1>2

(* Recorded satisfies its own equation at every finished class.              *)
LEMMA RecordedEquation ==
  ASSUME TypeOK, Empties, NEW c \in ClassIds
  PROVE  Recorded[c] = RecordedAt(Recorded, c)
<1>1. Len(classes) \in Nat
  BY DEF TypeOK, CtxOK
<1>2. \E f : IsRecorded(f, Len(classes))
  BY <1>1, RecordedExist
<1>3. Recorded = CHOOSE f : IsRecorded(f, Len(classes))
  BY DEF Recorded, IsRecorded, RecordedAt, Empty, Primary, ClassIds
<1>4. IsRecorded(Recorded, Len(classes))
  BY <1>2, <1>3
<1> QED BY <1>4 DEF IsRecorded, ClassIds

(* Of class c: what is recorded is in empty_subobjects, and two objects of   *)
(* one class are apart.                                                      *)
RecordedApart(c) ==
  /\ \A s \in Recorded[c] :
       \E k \in Nat : s[3] = 8 * k /\ <<s[2], k>> \in classes[c].empties
  /\ \A s, t \in Recorded[c] : s # t /\ s[2] = t[2] => s[3] # t[3]

(* One class of a chain of primary bases, from the one before it.            *)
LEMMA RecordedStep ==
  ASSUME TypeOK, Empties, NEW c \in ClassIds, \A b \in ClassIds : b < c => RecordedApart(b)
  PROVE  RecordedApart(c)
<1>1. Kept(c, classes[c].placed, classes[c].empties)
  BY DEF Empties, DoneKept
<1>2. ASSUME NEW p \in DirectBases(c)
      PROVE  p.of \in ClassIds /\ RecordedApart(p.of)
  <2>1. c \in Nat /\ p.of \in 1 .. (c - 1) /\ Len(classes) \in Nat
    BY EarlierBase
  <2> QED BY <2>1 DEF ClassIds
<1>3. \A s : s \in Recorded[c] <=>
        \/ \E p \in Empty(c) : s = << <<p.of>>, p.of, p.lo>>
        \/ \E p \in Primary(c) : \E u \in Recorded[p.of] : s = << <<p.of>> \o u[1], u[2], u[3]>>
  <2>1. Recorded[c] = RecordedAt(Recorded, c)
    BY RecordedEquation
  <2>2. \A id, known, s : s \in Inherited(id, known) <=>
          \E u \in known : s = << <<id>> \o u[1], u[2], u[3]>>
    BY DEF Inherited
  <2>3. \A s : s \in RecordedAt(Recorded, c) <=>
          \/ \E p \in Empty(c) : s = << <<p.of>>, p.of, p.lo>>
          \/ \E p \in Primary(c) : s \in Inherited(p.of, Recorded[p.of])
    BY DEF RecordedAt
  <2>4. \A s : \A p \in Primary(c) : s \in Inherited(p.of, Recorded[p.of]) <=>
          \E u \in Recorded[p.of] : s = << <<p.of>> \o u[1], u[2], u[3]>>
    BY <2>2
  <2> TAKE s
  <2>5. (\E p \in Primary(c) : s \in Inherited(p.of, Recorded[p.of])) <=>
          \E p \in Primary(c) : \E u \in Recorded[p.of] : s = << <<p.of>> \o u[1], u[2], u[3]>>
    BY <2>4, Zenon
  <2>6. s \in Recorded[c] <=> s \in RecordedAt(Recorded, c)
    BY <2>1
  <2> QED BY <2>3, <2>5, <2>6, Zenon
<1>4. ASSUME NEW p \in Empty(c)
      PROVE  \E k \in Nat :
               /\ p.lo = 8 * k /\ <<p.of, k>> \in classes[c].empties
               /\ \A q \in Primary(c) : <<p.of, k>> \notin classes[q.of].empties
  BY <1>1 DEF Kept, Empty, Primary, DirectBases
<1>5. ASSUME NEW q \in Primary(c), NEW u \in Recorded[q.of]
      PROVE  \E k \in Nat : /\ u[3] = 8 * k /\ <<u[2], k>> \in classes[q.of].empties
                             /\ <<u[2], k>> \in classes[c].empties
  <2>1. classes[q.of].empties \subseteq classes[c].empties
    BY <1>1 DEF Kept, Primary, DirectBases
  <2> QED BY <1>2, <2>1 DEF RecordedApart, Primary
<1>6. ASSUME NEW q \in Primary(c), NEW r \in Primary(c) PROVE q.of = r.of
  <2>1. PICK i \in DOMAIN ctx[c].bases :
          /\ ctx[c].bases[i].class = q.of /\ ctx[q.of].poly
          /\ \A j \in 1 .. (i - 1) : ~ctx[ctx[c].bases[j].class].poly
    BY DEF Primary, FirstPoly
  <2>2. PICK k \in DOMAIN ctx[c].bases :
          /\ ctx[c].bases[k].class = r.of /\ ctx[r.of].poly
          /\ \A j \in 1 .. (k - 1) : ~ctx[ctx[c].bases[j].class].poly
    BY DEF Primary, FirstPoly
  <2>3. i \in Nat \ {0} /\ k \in Nat \ {0}
    <3>1. WellFormed(ctx) /\ c \in DOMAIN ctx
      BY ProgramAssumption DEF TypeOK, CtxOK, WellFormed, ClassIds
    <3>2. ctx[c] \in ClassDef
      BY <3>1 DEF WellFormed
    <3>3. ctx[c].bases \in Seq(Base)
      BY <3>2 DEF ClassDef
    <3> QED BY <3>3
  <2>4. i = k
    <3>1. ~(i < k)
      BY <2>1, <2>2, <2>3
    <3>2. ~(k < i)
      BY <2>1, <2>2, <2>3
    <3> QED BY <2>3, <3>1, <3>2
  <2> QED BY <2>1, <2>2, <2>4
<1>7. ASSUME NEW s \in Recorded[c]
      PROVE  \E k \in Nat : s[3] = 8 * k /\ <<s[2], k>> \in classes[c].empties
  <2>1. CASE \E p \in Empty(c) : s = << <<p.of>>, p.of, p.lo>>
    <3>1. PICK p \in Empty(c) : s[2] = p.of /\ s[3] = p.lo
      BY <2>1
    <3> QED BY <1>4, <3>1
  <2>2. CASE \E p \in Primary(c) : \E u \in Recorded[p.of] : s = << <<p.of>> \o u[1], u[2], u[3]>>
    <3>1. PICK p \in Primary(c) : \E u \in Recorded[p.of] : s[2] = u[2] /\ s[3] = u[3]
      BY <2>2
    <3> QED BY <1>5, <3>1
  <2> QED BY <1>3, <2>1, <2>2
<1>8. ASSUME NEW p \in Empty(c), NEW q \in Primary(c), NEW u \in Recorded[q.of], p.of = u[2]
      PROVE  p.lo # u[3]
  <2>1. PICK k \in Nat : p.lo = 8 * k /\ <<p.of, k>> \notin classes[q.of].empties
    BY <1>4
  <2>2. PICK n \in Nat : u[3] = 8 * n /\ <<u[2], n>> \in classes[q.of].empties
    BY <1>5
  <2>3. k # n
    BY <1>8, <2>1, <2>2
  <2> QED BY <2>1, <2>2, <2>3
<1>9. ASSUME NEW s \in Recorded[c], NEW t \in Recorded[c], s # t, s[2] = t[2] PROVE s[3] # t[3]
  <2>1. CASE \E p \in Empty(c) : s = << <<p.of>>, p.of, p.lo>>
    <3>1. PICK p \in Empty(c) : s = << <<p.of>>, p.of, p.lo>>
      BY <2>1
    <3>2. CASE \E q \in Empty(c) : t = << <<q.of>>, q.of, q.lo>>
      <4>1. PICK q \in Empty(c) : t = << <<q.of>>, q.of, q.lo>>
        BY <3>2
      <4> QED BY <1>9, <3>1, <4>1
    <3>3. CASE \E q \in Primary(c) : \E u \in Recorded[q.of] : t = << <<q.of>> \o u[1], u[2], u[3]>>
      <4>1. PICK q \in Primary(c) : \E u \in Recorded[q.of] : t[2] = u[2] /\ t[3] = u[3]
        BY <3>3
      <4> QED BY <1>8, <1>9, <3>1, <4>1
    <3> QED BY <1>3, <3>2, <3>3
  <2>2. CASE \E p \in Primary(c) : \E u \in Recorded[p.of] : s = << <<p.of>> \o u[1], u[2], u[3]>>
    <3>1. PICK p \in Primary(c) : \E u \in Recorded[p.of] : s = << <<p.of>> \o u[1], u[2], u[3]>>
      BY <2>2
    <3>2. PICK u \in Recorded[p.of] : s = << <<p.of>> \o u[1], u[2], u[3]>>
      BY <3>1
    <3>3. CASE \E q \in Empty(c) : t = << <<q.of>>, q.of, q.lo>>
      <4>1. PICK q \in Empty(c) : t[2] = q.of /\ t[3] = q.lo
        BY <3>3
      <4> QED BY <1>8, <1>9, <3>2, <4>1
    <3>4. CASE \E q \in Primary(c) : \E v \in Recorded[q.of] : t = << <<q.of>> \o v[1], v[2], v[3]>>
      <4>1. PICK v \in Recorded[p.of] : t = << <<p.of>> \o v[1], v[2], v[3]>>
        BY <1>6, <3>4
      <4>2. u # v /\ u[2] = v[2] /\ s[3] = u[3] /\ t[3] = v[3]
        BY <1>9, <3>2, <4>1
      <4> QED BY <1>2, <4>2 DEF RecordedApart, Primary
    <3> QED BY <1>3, <3>3, <3>4
  <2> QED BY <1>3, <2>1, <2>2
<1> QED BY <1>7, <1>9 DEF RecordedApart

(* For every program, two objects of one empty class that empty_subobjects   *)
(* knows of have two addresses, whatever the depth of the chain of primary   *)
(* bases they are inherited through: place_base hands the set of the primary *)
(* base up, and find_empty_base_offset picks an offset outside it (Kept).    *)
THEOREM EmptiesCorrect == Spec => []EmptyBasesApart
<1>1. Init => TypeOK /\ Empties
  BY InitTyped, InitEmpties
<1>2. (TypeOK /\ Empties) /\ [Next]_vars => (TypeOK /\ Empties)'
  BY StepTyped, StepEmpties
<1>3. TypeOK /\ Empties => EmptyBasesApart
  <2> SUFFICES ASSUME TypeOK, Empties PROVE \A c \in ClassIds : RecordedApart(c)
    BY DEF EmptyBasesApart, RecordedApart
  <2> DEFINE T == {n \in Nat : n \in ClassIds => RecordedApart(n)}
  <2>1. ClassIds \subseteq Nat
    BY DEF ClassIds
  <2>2. ASSUME NEW n \in Nat, \A k \in Nat : k < n => k \in T PROVE n \in T
    BY <2>1, <2>2, RecordedStep
  <2>3. Nat \subseteq T
    <3> HIDE DEF T
    <3> QED BY <2>2, Induct
  <2> QED BY <2>1, <2>3
<1> QED BY <1>1, <1>2, <1>3, PTL DEF Spec

-----------------------------------------------------------------------------
(* The invariant of the loops.  `done' has the layouts of the classes before  *)
(* c; D stands for those with data, and nothing is asked of it but `Prior'.   *)
MsvcPieces ==
  [role: {"vptr", "vbptr", "base", "vbase", "field"}, of: Nat, lo: Nat, hi: Nat,
   align: Nat \ {0}]
MsvcStates == [size: Nat, align: Nat \ {0}, placed: SUBSET MsvcPieces]

Prior(c, done, D) ==
  \A b \in 1 .. (c - 1) :
    /\ done[b] \in MsvcStates
    /\ b \in D /\ EmptyBase(done, b) => done[b].size = 0

MsvcApart(p, q, done, D) ==
  LET one == Extent(p, done, D)
      other == Extent(q, done, D)
  IN p # q /\ Occupies(one) /\ Occupies(other) => Disjoint(one, other)

PieceSound(st, p, c, done, D) ==
  /\ IsBase(p) => p.of \in 1 .. (c - 1)
  /\ p.role \in {"vptr", "vbptr"} => st.size >= 8
  /\ p.role = "vbase" => HasVirtual(c)
  /\ Extent(p, done, D).hi <= 8 * st.size
  /\ p.lo % (8 * p.align) = 0 /\ p.align <= st.align

Sound(c, done, D) ==
  {st \in MsvcStates :
     /\ st.placed # {} => ~Bare(c)
     /\ \A p \in st.placed :
          /\ PieceSound(st, p, c, done, D)
          /\ \A q \in st.placed : MsvcApart(p, q, done, D)}

(* The extent of a subobject starts where the subobject does.                *)
LEMMA ExtentTyped ==
  ASSUME NEW c \in Nat, NEW done, NEW D, Prior(c, done, D), NEW p \in MsvcPieces,
         IsBase(p) => p.of \in 1 .. (c - 1)
  PROVE  /\ Extent(p, done, D).lo = p.lo /\ p.lo \in Nat /\ Extent(p, done, D).hi \in Nat
         /\ ~IsBase(p) => Extent(p, done, D).hi = p.hi
         /\ IsBase(p) /\ p.of \in D => Extent(p, done, D).hi = p.lo + 8 * done[p.of].size
         /\ IsBase(p) /\ p.of \notin D => Extent(p, done, D).hi = p.lo
<1>1. p.lo \in Nat /\ p.hi \in Nat
  BY DEF MsvcPieces
<1>2. CASE ~IsBase(p)
  BY <1>1, <1>2 DEF Extent
<1>3. CASE IsBase(p)
  <2>1. done[p.of].size \in Nat
    BY <1>3 DEF Prior, MsvcStates
  <2>2. Extent(p, done, D) = [p EXCEPT !.hi = p.lo + IF p.of \in D THEN 8 * done[p.of].size ELSE 0]
    BY <1>3 DEF Extent
  <2>3. DOMAIN p = {"role", "of", "lo", "hi", "align"}
    BY DEF MsvcPieces
  <2>4. /\ Extent(p, done, D).lo = p.lo
        /\ Extent(p, done, D).hi = p.lo + IF p.of \in D THEN 8 * done[p.of].size ELSE 0
    BY <2>2, <2>3
  <2> QED BY <1>1, <1>3, <2>1, <2>4
<1> QED BY <1>2, <1>3

(* A subobject put above all that is placed keeps the invariant.  What is    *)
(* said of the new one: where it starts, ends, and how far it is extended.   *)
LEMMA AddedSound ==
  ASSUME NEW c \in Nat, NEW done, NEW D, Prior(c, done, D), NEW st \in Sound(c, done, D),
         NEW p \in MsvcPieces, NEW sz \in Nat, NEW al \in Nat \ {0},
         8 * st.size <= p.lo, st.size <= sz, st.align <= al, ~Bare(c),
         NEW new, new = [size |-> sz, align |-> al, placed |-> st.placed \union {p}],
         PieceSound(new, p, c, done, D)
  PROVE  new \in Sound(c, done, D)
<1>1. st \in MsvcStates /\ new \in MsvcStates /\ new.size = sz /\ new.align = al
      /\ new.placed = st.placed \union {p} /\ st.size \in Nat /\ st.align \in Nat \ {0}
      /\ st.placed \subseteq MsvcPieces
  BY DEF Sound, MsvcStates
<1>2. \A q \in st.placed : PieceSound(st, q, c, done, D)
  BY DEF Sound
<1>3. \A q \in new.placed : IsBase(q) => q.of \in 1 .. (c - 1)
  BY <1>1, <1>2 DEF PieceSound
<1>4. ASSUME NEW q \in st.placed PROVE PieceSound(new, q, c, done, D)
  <2>1. q \in MsvcPieces /\ q.align \in Nat /\ Extent(q, done, D).hi \in Nat
    BY <1>1, <1>3, ExtentTyped DEF MsvcPieces
  <2> QED BY <1>1, <1>2, <2>1 DEF PieceSound
<1>5. ASSUME NEW q \in st.placed PROVE MsvcApart(p, q, done, D) /\ MsvcApart(q, p, done, D)
  <2>1. /\ q \in MsvcPieces /\ Extent(q, done, D).hi \in Nat
        /\ Extent(p, done, D).lo = p.lo /\ p.lo \in Nat
    BY <1>1, <1>3, ExtentTyped
  <2>2. Extent(q, done, D).hi <= 8 * st.size
    BY <1>2 DEF PieceSound
  <2>3. Extent(q, done, D).hi <= Extent(p, done, D).lo
    BY <1>1, <2>1, <2>2
  <2> QED BY <2>3 DEF MsvcApart, Disjoint
<1>6. \A q, r \in st.placed : MsvcApart(q, r, done, D)
  BY DEF Sound
<1>7. MsvcApart(p, p, done, D)
  BY DEF MsvcApart
<1>8. \A q \in new.placed : /\ PieceSound(new, q, c, done, D)
                            /\ \A r \in new.placed : MsvcApart(q, r, done, D)
  BY <1>1, <1>4, <1>5, <1>6, <1>7
<1> QED BY <1>1, <1>8 DEF Sound

(* #pragma pack leaves an alignment positive.                               *)
LEMMA CapTyped ==
  ASSUME NEW c \in DOMAIN ctx, NEW a \in Nat \ {0}
  PROVE  Cap(c, a) \in Nat \ {0}
  BY PackAssumption DEF Cap, MinOf

(* What may be put at the cursor of class c: n bytes of alignment a.         *)
MayPut(c, done, role, of, n, a) ==
  /\ c \in DOMAIN ctx /\ c \in Nat /\ ~Bare(c)
  /\ role \in {"vptr", "vbptr", "base", "vbase", "field"}
  /\ of \in Nat /\ n \in Nat /\ a \in Nat \ {0}
  /\ role \in {"base", "vbase"} => of \in 1 .. (c - 1) /\ n = done[of].size
  /\ role \in {"vptr", "vbptr"} => n = 8
  /\ role = "vbase" => HasVirtual(c)
(* Rounding the cursor up, then some bytes.                                  *)
LEMMA PutSound ==
  ASSUME NEW c, NEW done, NEW D, NEW st, NEW role, NEW of, NEW n, NEW a,
         Prior(c, done, D), st \in Sound(c, done, D), MayPut(c, done, role, of, n, a)
  PROVE  /\ Put(st, c, role, of, n, a) \in Sound(c, done, D)
         /\ st.placed \subseteq Put(st, c, role, of, n, a).placed
         /\ \E p \in Put(st, c, role, of, n, a).placed : p.role = role
<1> USE DEF MayPut
<1> DEFINE al == Cap(c, a)
           at == AlignUp(st.size, al)
           p == Bytes(role, of, at, n, al)
           new == Put(st, c, role, of, n, a)
<1>1. st \in MsvcStates /\ st.size \in Nat /\ st.align \in Nat \ {0}
      /\ st = [size |-> st.size, align |-> st.align, placed |-> st.placed]
  BY DEF Sound, MsvcStates
<1>2. al \in Nat \ {0}
  BY CapTyped
<1>3. at \in Nat /\ at >= st.size /\ at % al = 0
  BY <1>1, <1>2, AlignUpGrows, AlignUpAligned
<1>4. new = [size |-> at + n, align |-> MaxOf(st.align, al), placed |-> st.placed \union {p}]
  <2> HIDE DEF p
  <2>1. new = [st EXCEPT !.size = at + n, !.align = MaxOf(st.align, al),
                         !.placed = st.placed \union {p}]
    BY Zenon DEF Put, p
  <2> HIDE DEF at, al, new
  <2> QED BY <1>1, <2>1
<1> HIDE DEF at, al, new
<1>5. /\ p \in MsvcPieces /\ p.role = role /\ p.of = of /\ p.lo = 8 * at
      /\ p.hi = 8 * (at + n) /\ p.align = al
  BY <1>2, <1>3 DEF Bytes, Piece, MsvcPieces
<1> HIDE DEF p
<1>6. /\ MaxOf(st.align, al) \in Nat \ {0} /\ st.align <= MaxOf(st.align, al)
      /\ al <= MaxOf(st.align, al) /\ at + n \in Nat
  BY <1>1, <1>2, <1>3 DEF MaxOf
<1>7. PieceSound(new, p, c, done, D)
  <2>1. IsBase(p) => p.of \in 1 .. (c - 1) /\ n = done[p.of].size
    BY <1>5 DEF IsBase
  <2>2. p.role \in {"vptr", "vbptr"} => new.size >= 8
    BY <1>3, <1>4, <1>5, <1>6
  <2>3. Extent(p, done, D).hi <= 8 * (at + n)
    <3>1. CASE ~IsBase(p)
      BY <1>3, <1>5, <2>1, <3>1, ExtentTyped
    <3>2. CASE IsBase(p) /\ p.of \in D
      BY <1>3, <1>5, <2>1, <3>2, ExtentTyped
    <3>3. CASE IsBase(p) /\ p.of \notin D
      BY <1>3, <1>5, <2>1, <3>3, ExtentTyped
    <3> QED BY <3>1, <3>2, <3>3
  <2>4. p.lo % (8 * p.align) = 0
    BY <1>2, <1>3, <1>5, Scaled
  <2> QED BY <1>4, <1>5, <1>6, <2>1, <2>2, <2>3, <2>4 DEF PieceSound
<1>8. 8 * st.size <= p.lo /\ st.size <= at + n
  BY <1>1, <1>3, <1>5
<1>9. new \in Sound(c, done, D)
  BY <1>4, <1>5, <1>6, <1>7, <1>8, AddedSound
<1>10. st.placed \subseteq new.placed /\ \E q \in new.placed : q.role = role
  BY <1>4, <1>5
<1> QED BY <1>9, <1>10 DEF new

-----------------------------------------------------------------------------
(* What a context is made of.                                                *)
Legal(c) ==
  /\ c \in Nat \ {0} /\ c \in DOMAIN ctx
  /\ \E n \in Nat :
       /\ n = Len(ctx[c].bases) /\ DOMAIN ctx[c].bases = 1 .. n
       /\ \A i \in 1 .. n : ctx[c].bases[i].class \in 1 .. (c - 1)
  /\ \E n \in Nat :
       /\ n = Len(ctx[c].fields) /\ DOMAIN ctx[c].fields = 1 .. n
       /\ \A i \in 1 .. n : ctx[c].fields[i] \in Member /\ ctx[c].fields[i].rec \in 0 .. (c - 1)
  /\ ctx[c].align \in Nat

(* Every class of a program is legal.                                       *)
LEMMA ClassesLegal ==
  ASSUME ctx \in Programs
  PROVE  /\ \E n \in Nat : n = Len(ctx) /\ DOMAIN ctx = 1 .. n
         /\ \A c \in DOMAIN ctx : Legal(c)
<1>1. ctx \in Seq(ClassDef) /\ WellFormed(ctx)
  BY ProgramAssumption DEF WellFormed
<1>2. \E n \in Nat : n = Len(ctx) /\ DOMAIN ctx = 1 .. n
  BY <1>1
<1>3. ASSUME NEW c \in DOMAIN ctx PROVE Legal(c)
  <2>1. c \in Nat \ {0} /\ ctx[c] \in ClassDef
    BY <1>1
  <2>2. ctx[c].bases \in Seq(Base) /\ ctx[c].fields \in Seq(Member) /\ ctx[c].align \in Nat
    BY <2>1 DEF ClassDef
  <2>3. PICK n \in Nat : n = Len(ctx[c].bases) /\ DOMAIN ctx[c].bases = 1 .. n
    BY <2>2
  <2>4. PICK m \in Nat : m = Len(ctx[c].fields) /\ DOMAIN ctx[c].fields = 1 .. m
    BY <2>2
  <2>5. \A i \in 1 .. m : ctx[c].fields[i] \in Member
    BY <2>2, <2>4
  <2>6. /\ \A i \in DOMAIN ctx[c].bases : ctx[c].bases[i].class \in 1 .. (c - 1)
        /\ \A k \in DOMAIN ctx[c].fields : ctx[c].fields[k].rec \in 0 .. (c - 1)
    BY <1>1 DEF WellFormed
  <2> QED BY <2>1, <2>2, <2>3, <2>4, <2>5, <2>6 DEF Legal
<1> QED BY <1>2, <1>3

(* A pointer of the class is such a piece.                                  *)
LEMMA PutPointer ==
  ASSUME NEW c, Legal(c), NEW done, NEW D, Prior(c, done, D), NEW st \in Sound(c, done, D),
         ~Bare(c), NEW role \in {"vptr", "vbptr"}
  PROVE  /\ Put(st, c, role, 0, VptrBytes, VptrBytes) \in Sound(c, done, D)
         /\ st.placed \subseteq Put(st, c, role, 0, VptrBytes, VptrBytes).placed
         /\ \E p \in Put(st, c, role, 0, VptrBytes, VptrBytes).placed : p.role = role
<1>1. /\ VptrBytes = 8 /\ c \in DOMAIN ctx /\ c \in Nat
  BY DEF VptrBytes, Legal
<1>2. /\ role \in {"vptr", "vbptr", "base", "vbase", "field"}
      /\ role \notin {"base", "vbase"}
  OBVIOUS
<1>3. role # "vbase"
  BY <1>2
<1>4. MayPut(c, done, role, 0, VptrBytes, VptrBytes)
  BY <1>1, <1>2, <1>3 DEF MayPut
<1> QED BY <1>4, PutSound

(* The steps of compute_layout keep the invariant: the vptr,                *)
LEMMA VptrSound ==
  ASSUME NEW c, Legal(c), NEW done, NEW D, Prior(c, done, D)
  PROVE  Vptr(MsvcStart, c) \in Sound(c, done, D)
<1>1. MsvcStart \in Sound(c, done, D)
  BY DEF MsvcStart, Sound, MsvcStates
<1>2. ctx[c].poly => ~Bare(c)
  BY DEF Bare
<1>3. ASSUME ctx[c].poly
      PROVE  Put(MsvcStart, c, "vptr", 0, VptrBytes, VptrBytes) \in Sound(c, done, D)
  <2>1. ~Bare(c)
    BY <1>2, <1>3
  <2> QED BY <1>1, <2>1, PutPointer
<1> QED BY <1>1, <1>3, Zenon DEF Vptr

(* a non-virtual base, whether it takes room or not,                        *)
LEMMA BaseSound ==
  ASSUME NEW c, Legal(c), NEW done, NEW D, Prior(c, done, D), NEW st \in Sound(c, done, D),
         NEW i \in 1 .. Len(ctx[c].bases)
  PROVE  LET new == PlaceMsvcBase(st, c, done, ctx[c].bases[i].class)
         IN new \in Sound(c, done, D) /\ \E p \in new.placed : p.role = "base"
<1> DEFINE b == ctx[c].bases[i].class
           new == PlaceMsvcBase(st, c, done, b)
<1>1. c \in Nat /\ c \in DOMAIN ctx /\ b \in 1 .. (c - 1) /\ b \in Nat
  BY DEF Legal
<1>2. ~Bare(c)
  BY DEF Bare, Legal
<1>3. done[b] \in MsvcStates /\ done[b].size \in Nat /\ done[b].align \in Nat \ {0}
  BY <1>1 DEF Prior, MsvcStates
<1> HIDE DEF b
<1>4. CASE ~TakesNoRoom(st, done, b)
  <2>1. new = Put(st, c, "base", b, done[b].size, done[b].align)
    BY <1>4 DEF PlaceMsvcBase
  <2> HIDE DEF new
  <2>2. /\ "base" \in {"vptr", "vbptr", "base", "vbase", "field"}
        /\ "base" \notin {"vptr", "vbptr"}
    OBVIOUS
  <2>3. /\ Put(st, c, "base", b, done[b].size, done[b].align) \in Sound(c, done, D)
        /\ \E p \in Put(st, c, "base", b, done[b].size, done[b].align).placed : p.role = "base"
    <3>1. MayPut(c, done, "base", b, done[b].size, done[b].align)
      BY <1>1, <1>2, <1>3, <2>2 DEF MayPut
    <3> QED BY <3>1, PutSound
  <2> QED BY <2>1, <2>3 DEF new, b
<1>5. CASE TakesNoRoom(st, done, b)
  <2> DEFINE p == Bytes("base", b, st.size, 0, 1)
  <2>1. st \in MsvcStates /\ st.size \in Nat /\ st.align \in Nat \ {0}
        /\ st = [size |-> st.size, align |-> st.align, placed |-> st.placed]
    BY DEF Sound, MsvcStates
  <2>2. new = [st EXCEPT !.placed = st.placed \union {p}]
    BY <1>5, Zenon DEF PlaceMsvcBase
  <2>3. /\ p \in MsvcPieces /\ p.role = "base" /\ p.of = b /\ p.lo = 8 * st.size
        /\ p.hi = 8 * st.size /\ p.align = 1
    BY <1>1, <2>1 DEF Bytes, Piece, MsvcPieces
  <2> HIDE DEF p, new
  <2>4. new = [size |-> st.size, align |-> st.align, placed |-> st.placed \union {p}]
    BY <2>1, <2>2
  <2>5. IsBase(p) /\ p.of \in 1 .. (c - 1)
    BY <1>1, <2>3 DEF IsBase
  <2>6. b \in D => done[b].size = 0
    BY <1>1, <1>5 DEF Prior, TakesNoRoom
  <2>7. Extent(p, done, D).hi <= 8 * st.size
    <3>1. CASE b \in D
      BY <1>1, <2>1, <2>3, <2>5, <2>6, <3>1, ExtentTyped
    <3>2. CASE b \notin D
      BY <1>1, <2>1, <2>3, <2>5, <3>2, ExtentTyped
    <3> QED BY <3>1, <3>2
  <2>8. p.lo % (8 * p.align) = 0
    <3>1. st.size % 1 = 0
      BY <2>1
    <3> QED BY <2>1, <2>3, <3>1, Scaled
  <2>9. PieceSound(new, p, c, done, D)
    BY <2>1, <2>3, <2>4, <2>5, <2>7, <2>8 DEF PieceSound
  <2>10. new \in Sound(c, done, D)
    BY <1>1, <1>2, <2>1, <2>3, <2>4, <2>9, AddedSound
  <2>11. p \in new.placed
    BY <2>4
  <2> QED BY <2>3, <2>10, <2>11 DEF new, b
<1> QED BY <1>4, <1>5

(* the vbptr,                                                               *)
LEMMA VbptrSound ==
  ASSUME NEW c, Legal(c), NEW done, NEW D, Prior(c, done, D), NEW st \in Sound(c, done, D)
  PROVE  /\ Vbptr(st, c) \in Sound(c, done, D)
         /\ st.placed \subseteq Vbptr(st, c).placed
         /\ HasVirtual(c) /\ ~InheritsVbptr(c) =>
              \E p \in Vbptr(st, c).placed : p.role = "vbptr"
<1>1. HasVirtual(c) => ~Bare(c)
  BY DEF HasVirtual, Bare, Legal
<1> DEFINE new == Put(st, c, "vbptr", 0, VptrBytes, VptrBytes)
<1>2. ASSUME HasVirtual(c)
      PROVE  /\ new \in Sound(c, done, D)
             /\ st.placed \subseteq new.placed
             /\ \E p \in new.placed : p.role = "vbptr"
  <2>1. ~Bare(c)
    BY <1>1, <1>2
  <2> QED BY <2>1, PutPointer
<1>3. CASE HasVirtual(c) /\ ~InheritsVbptr(c)
  <2>1. Vbptr(st, c) = new
    BY <1>3 DEF Vbptr
  <2> QED BY <1>2, <1>3, <2>1
<1>4. CASE ~(HasVirtual(c) /\ ~InheritsVbptr(c))
  BY <1>4 DEF Vbptr
<1> QED BY <1>3, <1>4

(* a member,                                                                *)
LEMMA MsvcFieldSound ==
  ASSUME NEW c, Legal(c), NEW done, NEW D, Prior(c, done, D), NEW st \in Sound(c, done, D),
         NEW k \in 1 .. Len(ctx[c].fields), PtrSize \in Nat \ {0}
  PROVE  LET new == PlaceMsvcField(st, c, done, k)
         IN new \in Sound(c, done, D) /\ st.placed \subseteq new.placed
<1> DEFINE f == ctx[c].fields[k]
           n == MsvcSize(done, f)
           natural == MsvcAlign(done, f)
           a == IF f.bitfield THEN natural ELSE MaxOf(natural, f.explicit)
<1>1. c \in Nat /\ c \in DOMAIN ctx /\ f \in Member /\ f.rec \in 0 .. (c - 1) /\ k \in Nat
  BY DEF Legal
<1>2. ~Bare(c)
  BY DEF Bare, Legal
<1> HIDE DEF f
<1>3. /\ f.rec # 0 => done[f.rec].size \in Nat /\ done[f.rec].align \in Nat \ {0}
      /\ f.len \in Nat /\ f.size \in Nat /\ f.align \in Nat \ {0} /\ f.explicit \in Nat
  BY <1>1 DEF Prior, MsvcStates, Member
<1>4. n \in Nat
  <2>1. ASSUME NEW x \in Nat, NEW y \in Nat PROVE x * y \in Nat
    OBVIOUS
  <2>2. PtrSize \in Nat
    OBVIOUS
  <2>3. n = (IF f.ref THEN PtrSize
                ELSE f.len * (IF f.rec # 0 THEN done[f.rec].size
                              ELSE IF f.sized THEN f.size ELSE 0))
    BY Zenon DEF MsvcSize
  <2> HIDE DEF n
  <2>4. (IF f.rec # 0 THEN done[f.rec].size ELSE IF f.sized THEN f.size ELSE 0) \in Nat
    BY <1>3
  <2> QED BY <1>3, <2>1, <2>2, <2>3, <2>4
<1>5. natural \in Nat \ {0}
  BY <1>3 DEF MsvcAlign
<1>6. a \in Nat \ {0}
  BY <1>3, <1>5 DEF MaxOf
<1>7. PlaceMsvcField(st, c, done, k) = Put(st, c, "field", k, n, a)
  BY Zenon DEF PlaceMsvcField, f
<1> HIDE DEF n, a
<1>8. "field" \notin {"base", "vbase"} /\ "field" \notin {"vptr", "vbptr"}
  OBVIOUS
<1>9. Put(st, c, "field", k, n, a) \in Sound(c, done, D)
      /\ st.placed \subseteq Put(st, c, "field", k, n, a).placed
  <2>1. MayPut(c, done, "field", k, n, a)
    BY <1>1, <1>2, <1>4, <1>6, <1>8 DEF MayPut
  <2> QED BY <2>1, PutSound
<1> QED BY <1>7, <1>9, Zenon

(* and a virtual base.                                                      *)
LEMMA VirtualSound ==
  ASSUME NEW c, Legal(c), NEW done, NEW D, Prior(c, done, D), NEW st \in Sound(c, done, D),
         NEW i \in 1 .. Len(ctx[c].bases), NEW b, b = ctx[c].bases[i].class, ctx[c].bases[i].virt
  PROVE  LET new == Put(st, c, "vbase", b, done[b].size, done[b].align)
         IN new \in Sound(c, done, D) /\ st.placed \subseteq new.placed
<1>1. c \in Nat /\ c \in DOMAIN ctx /\ b \in 1 .. (c - 1) /\ b \in Nat
  BY DEF Legal
<1>2. ~Bare(c)
  BY DEF Bare, Legal
<1>3. done[b].size \in Nat /\ done[b].align \in Nat \ {0}
  BY <1>1 DEF Prior, MsvcStates
<1>4. "vbase" \in {"vptr", "vbptr", "base", "vbase", "field"} /\ "vbase" \notin {"vptr", "vbptr"}
  OBVIOUS
<1>5. HasVirtual(c)
  BY DEF HasVirtual, Legal
<1> DEFINE new == Put(st, c, "vbase", b, done[b].size, done[b].align)
<1>6. new \in Sound(c, done, D) /\ st.placed \subseteq new.placed
  <2>1. MayPut(c, done, "vbase", b, done[b].size, done[b].align)
    BY <1>1, <1>2, <1>3, <1>4, <1>5 DEF MayPut
  <2> QED BY <2>1, PutSound
<1> QED BY <1>6

(* Rounding the size up, and a larger alignment, move nothing.               *)
LEMMA GrownSound ==
  ASSUME NEW c, Legal(c), NEW done, NEW D, Prior(c, done, D), NEW st \in Sound(c, done, D),
         NEW sz \in Nat, NEW al \in Nat \ {0}, st.size <= sz, st.align <= al,
         NEW new, new = [size |-> sz, align |-> al, placed |-> st.placed]
  PROVE  new \in Sound(c, done, D)
<1>1. st \in MsvcStates /\ new \in MsvcStates /\ new.size = sz /\ new.align = al
      /\ new.placed = st.placed /\ st.size \in Nat /\ st.align \in Nat \ {0}
      /\ st.placed \subseteq MsvcPieces /\ c \in Nat
  BY DEF Sound, MsvcStates, Legal
<1>2. ASSUME NEW q \in st.placed PROVE PieceSound(new, q, c, done, D)
  <2>1. PieceSound(st, q, c, done, D)
    BY DEF Sound
  <2>2. q \in MsvcPieces /\ q.align \in Nat /\ Extent(q, done, D).hi \in Nat
    BY <1>1, <2>1, ExtentTyped DEF MsvcPieces, PieceSound
  <2> QED BY <1>1, <2>1, <2>2 DEF PieceSound
<1> QED BY <1>1, <1>2 DEF Sound

(* The loop over the non-virtual bases; if there is one, it is there.        *)
IsBasesRun(f, start, c, done) ==
  f = [n \in 0 .. Len(ctx[c].bases) |->
         IF n = 0 THEN start
         ELSE IF ctx[c].bases[n].virt THEN f[n - 1]
              ELSE PlaceMsvcBase(f[n - 1], c, done, ctx[c].bases[n].class)]

(* Its result keeps the invariant, turn by turn.                             *)
LEMMA BasesLoop ==
  ASSUME NEW c, Legal(c), NEW done, NEW D, Prior(c, done, D), NEW start \in Sound(c, done, D)
  PROVE  /\ AfterBases(start, c, done) \in Sound(c, done, D)
         /\ (\E i \in DOMAIN ctx[c].bases : ~ctx[c].bases[i].virt) =>
              \E p \in AfterBases(start, c, done).placed : p.role = "base"
<1> DEFINE n == Len(ctx[c].bases)
           Turn(x, i) == IF ctx[c].bases[i].virt THEN x
              ELSE PlaceMsvcBase(x, c, done, ctx[c].bases[i].class)
           T == [i \in 0 .. n |->
                   {x \in Sound(c, done, D) :
                      (\E j \in 1 .. i : ~ctx[c].bases[j].virt)
                         => \E p \in x.placed : p.role = "base"}]
           g == [i \in 1 .. n |-> [x \in T[i - 1] |-> Turn(x, i)]]
<1>1. n \in Nat /\ DOMAIN ctx[c].bases = 1 .. n
  BY DEF Legal
<1>2. \A i \in 0 .. n : T[i] \subseteq Sound(c, done, D)
  OBVIOUS
<1>3. start \in T[0]
  <2>1. 0 \in 0 .. n /\ \A j : j \notin 1 .. 0
    BY <1>1
  <2> QED BY <2>1
<1>4. ASSUME NEW i \in 1 .. n, NEW x \in T[i - 1] PROVE Turn(x, i) \in T[i]
  <2>1. i \in 0 .. n /\ i - 1 \in 0 .. n /\ x \in Sound(c, done, D)
    BY <1>1, <1>2, <1>4
  <2>2. \A j \in 1 .. i : j \in 1 .. (i - 1) \/ j = i
    OBVIOUS
  <2>3. (\E j \in 1 .. (i - 1) : ~ctx[c].bases[j].virt) => \E p \in x.placed : p.role = "base"
    BY <1>4, <2>1
  <2>4. CASE ctx[c].bases[i].virt
    BY <2>1, <2>2, <2>3, <2>4
  <2>5. CASE ~ctx[c].bases[i].virt
    <3>1. Turn(x, i) = PlaceMsvcBase(x, c, done, ctx[c].bases[i].class)
      BY <2>5
    <3>2. Turn(x, i) \in Sound(c, done, D) /\ \E p \in Turn(x, i).placed : p.role = "base"
      BY <2>1, <3>1, BaseSound
    <3> HIDE DEF Turn
    <3> QED BY <2>1, <3>2
  <2> QED BY <2>4, <2>5
<1> HIDE DEF Turn, T
<1>5. PICK f : IsRun(f, n, start, g)
  BY <1>1, Runs
<1> HIDE DEF n
<1>6. f[0] = start /\ \A i \in 1 .. n : f[i] = g[i][f[i - 1]]
  <2>1. 0 \in 0 .. n /\ \A i \in 1 .. n : i \in 0 .. n /\ i # 0
    BY <1>1
  <2> HIDE DEF g
  <2> QED BY <1>5, <2>1, Zenon DEF IsRun
<1>7. \A i \in 1 .. n : f[i - 1] \in T[i - 1] => f[i] = Turn(f[i - 1], i)
  BY <1>6
<1>8. \A i \in 0 .. n : f[i] \in T[i]
  <2>1. f[0] \in T[0] /\ \A i \in 1 .. n : f[i - 1] \in T[i - 1] => f[i] \in T[i]
    BY <1>3, <1>4, <1>6, <1>7
  <2> QED BY <1>1, <2>1, RunStays
<1>9. \E h : IsBasesRun(h, start, c, done)
  <2>1. f = [i \in 0 .. n |-> IF i = 0 THEN start ELSE Turn(f[i - 1], i)]
    <3>1. ASSUME NEW i \in 0 .. n, i # 0 PROVE g[i][f[i - 1]] = Turn(f[i - 1], i)
      <4>1. i \in 1 .. n /\ i - 1 \in 0 .. n
        BY <1>1, <3>1
      <4> QED BY <1>8, <4>1
    <3> HIDE DEF g
    <3> QED BY <1>5, <3>1, Zenon DEF IsRun
  <2> QED BY <2>1, Zenon DEF IsBasesRun, Turn, n
<1> DEFINE F == CHOOSE h : IsBasesRun(h, start, c, done)
<1>10. IsBasesRun(F, start, c, done)
  BY <1>9, Zenon
<1>11. AfterBases(start, c, done) = F[n]
  BY Zenon DEF AfterBases, IsBasesRun, n
<1> HIDE DEF F
<1>12. F[0] = start /\ \A i \in 1 .. n : F[i] = Turn(F[i - 1], i)
  <2>1. 0 \in 0 .. n /\ \A i \in 1 .. n : i \in 0 .. n /\ i # 0
    BY <1>1
  <2> QED BY <1>10, <2>1, Zenon DEF IsBasesRun, Turn, n
<1>13. F[0] \in T[0] /\ \A i \in 1 .. n : F[i - 1] \in T[i - 1] => F[i] \in T[i]
  BY <1>3, <1>4, <1>12
<1> HIDE DEF g
<1>14. \A i \in 0 .. n : F[i] \in T[i]
  BY <1>1, <1>13, RunStays
<1>15. n \in 0 .. n
  BY <1>1
<1> QED BY <1>1, <1>11, <1>14, <1>15 DEF T

(* The loops over the members and the virtual bases.  A class with a virtual *)
(* base has a pointer to it or a base that may hold one.                     *)
IsFieldsRun(f, start, c, done) ==
  f = [n \in 0 .. Len(ctx[c].fields) |->
         IF n = 0 THEN start
         ELSE PlaceMsvcField(f[n - 1], c, done, n)]

(* Its result keeps the invariant, turn by turn.                             *)
LEMMA FieldsLoop ==
  ASSUME NEW c, Legal(c), NEW done, NEW D, Prior(c, done, D), NEW start \in Sound(c, done, D),
         HasVirtual(c) => \E p \in start.placed : p.role \in {"base", "vbptr"}
  PROVE  LET new == AfterFields(start, c, done)
         IN /\ new \in Sound(c, done, D)
            /\ HasVirtual(c) => \E p \in new.placed : p.role \in {"base", "vbptr"}
<1> DEFINE n == Len(ctx[c].fields)
           Turn(x, i) == PlaceMsvcField(x, c, done, i)
           T == [i \in 0 .. n |->
                   {x \in Sound(c, done, D) :
                      HasVirtual(c) => \E p \in x.placed : p.role \in {"base", "vbptr"}}]
           g == [i \in 1 .. n |-> [x \in T[i - 1] |-> Turn(x, i)]]
<1>1. n \in Nat /\ DOMAIN ctx[c].fields = 1 .. n
  BY DEF Legal
<1>2. \A i \in 0 .. n : T[i] \subseteq Sound(c, done, D)
  OBVIOUS
<1>3. start \in T[0]
  <2>1. 0 \in 0 .. n
    BY <1>1
  <2> QED BY <2>1
<1>4. ASSUME NEW i \in 1 .. n, NEW x \in T[i - 1] PROVE Turn(x, i) \in T[i]
  <2>1. i \in 0 .. n /\ i - 1 \in 0 .. n /\ x \in Sound(c, done, D)
    BY <1>1, <1>2, <1>4
  <2>2. HasVirtual(c) => \E p \in x.placed : p.role \in {"base", "vbptr"}
    BY <1>4, <2>1
  <2>3. Turn(x, i) \in Sound(c, done, D) /\ x.placed \subseteq Turn(x, i).placed
    BY <2>1, PtrAssumption, MsvcFieldSound
  <2> HIDE DEF Turn
  <2> QED BY <2>1, <2>2, <2>3
<1> HIDE DEF Turn, T
<1>5. PICK f : IsRun(f, n, start, g)
  BY <1>1, Runs
<1> HIDE DEF n
<1>6. f[0] = start /\ \A i \in 1 .. n : f[i] = g[i][f[i - 1]]
  <2>1. 0 \in 0 .. n /\ \A i \in 1 .. n : i \in 0 .. n /\ i # 0
    BY <1>1
  <2> HIDE DEF g
  <2> QED BY <1>5, <2>1, Zenon DEF IsRun
<1>7. \A i \in 1 .. n : f[i - 1] \in T[i - 1] => f[i] = Turn(f[i - 1], i)
  BY <1>6
<1>8. \A i \in 0 .. n : f[i] \in T[i]
  <2>1. f[0] \in T[0] /\ \A i \in 1 .. n : f[i - 1] \in T[i - 1] => f[i] \in T[i]
    BY <1>3, <1>4, <1>6, <1>7
  <2> QED BY <1>1, <2>1, RunStays
<1>9. \E h : IsFieldsRun(h, start, c, done)
  <2>1. f = [i \in 0 .. n |-> IF i = 0 THEN start ELSE Turn(f[i - 1], i)]
    <3>1. ASSUME NEW i \in 0 .. n, i # 0 PROVE g[i][f[i - 1]] = Turn(f[i - 1], i)
      <4>1. i \in 1 .. n /\ i - 1 \in 0 .. n
        BY <1>1, <3>1
      <4> QED BY <1>8, <4>1
    <3> HIDE DEF g
    <3> QED BY <1>5, <3>1, Zenon DEF IsRun
  <2> QED BY <2>1, Zenon DEF IsFieldsRun, Turn, n
<1> DEFINE F == CHOOSE h : IsFieldsRun(h, start, c, done)
<1>10. IsFieldsRun(F, start, c, done)
  BY <1>9, Zenon
<1>11. AfterFields(start, c, done) = F[n]
  BY Zenon DEF AfterFields, IsFieldsRun, n
<1> HIDE DEF F
<1>12. F[0] = start /\ \A i \in 1 .. n : F[i] = Turn(F[i - 1], i)
  <2>1. 0 \in 0 .. n /\ \A i \in 1 .. n : i \in 0 .. n /\ i # 0
    BY <1>1
  <2> QED BY <1>10, <2>1, Zenon DEF IsFieldsRun, Turn, n
<1>13. F[0] \in T[0] /\ \A i \in 1 .. n : F[i - 1] \in T[i - 1] => F[i] \in T[i]
  BY <1>3, <1>4, <1>12
<1> HIDE DEF g
<1>14. \A i \in 0 .. n : F[i] \in T[i]
  BY <1>1, <1>13, RunStays
<1>15. n \in 0 .. n
  BY <1>1
<1> QED BY <1>11, <1>14, <1>15 DEF T

(* The last loop.                                                            *)
IsVirtualRun(f, start, c, done) ==
  f = [n \in 0 .. Len(ctx[c].bases) |->
         IF n = 0 THEN start
         ELSE IF ~ctx[c].bases[n].virt THEN f[n - 1]
              ELSE LET b == ctx[c].bases[n].class
                   IN Put(f[n - 1], c, "vbase", b, done[b].size, done[b].align)]

(* Its result keeps the invariant, turn by turn.                             *)
LEMMA VirtualLoop ==
  ASSUME NEW c, Legal(c), NEW done, NEW D, Prior(c, done, D), NEW start \in Sound(c, done, D),
         HasVirtual(c) => \E p \in start.placed : p.role \in {"base", "vbptr"}
  PROVE  LET new == AfterVirtual(start, c, done)
         IN /\ new \in Sound(c, done, D)
            /\ HasVirtual(c) => \E p \in new.placed : p.role \in {"base", "vbptr"}
<1> DEFINE n == Len(ctx[c].bases)
           Turn(x, i) == IF ~ctx[c].bases[i].virt THEN x
              ELSE LET b == ctx[c].bases[i].class
                   IN Put(x, c, "vbase", b, done[b].size, done[b].align)
           T == [i \in 0 .. n |->
                   {x \in Sound(c, done, D) :
                      HasVirtual(c) => \E p \in x.placed : p.role \in {"base", "vbptr"}}]
           g == [i \in 1 .. n |-> [x \in T[i - 1] |-> Turn(x, i)]]
<1>1. n \in Nat /\ DOMAIN ctx[c].bases = 1 .. n
  BY DEF Legal
<1>2. \A i \in 0 .. n : T[i] \subseteq Sound(c, done, D)
  OBVIOUS
<1>3. start \in T[0]
  <2>1. 0 \in 0 .. n
    BY <1>1
  <2> QED BY <2>1
<1>4. ASSUME NEW i \in 1 .. n, NEW x \in T[i - 1] PROVE Turn(x, i) \in T[i]
  <2>1. i \in 0 .. n /\ i - 1 \in 0 .. n /\ x \in Sound(c, done, D)
    BY <1>1, <1>2, <1>4
  <2>2. HasVirtual(c) => \E p \in x.placed : p.role \in {"base", "vbptr"}
    BY <1>4, <2>1
  <2>3. Turn(x, i) \in Sound(c, done, D) /\ x.placed \subseteq Turn(x, i).placed
    BY <2>1, VirtualSound
  <2> HIDE DEF Turn
  <2> QED BY <2>1, <2>2, <2>3
<1> HIDE DEF Turn, T
<1>5. PICK f : IsRun(f, n, start, g)
  BY <1>1, Runs
<1> HIDE DEF n
<1>6. f[0] = start /\ \A i \in 1 .. n : f[i] = g[i][f[i - 1]]
  <2>1. 0 \in 0 .. n /\ \A i \in 1 .. n : i \in 0 .. n /\ i # 0
    BY <1>1
  <2> HIDE DEF g
  <2> QED BY <1>5, <2>1, Zenon DEF IsRun
<1>7. \A i \in 1 .. n : f[i - 1] \in T[i - 1] => f[i] = Turn(f[i - 1], i)
  BY <1>6
<1>8. \A i \in 0 .. n : f[i] \in T[i]
  <2>1. f[0] \in T[0] /\ \A i \in 1 .. n : f[i - 1] \in T[i - 1] => f[i] \in T[i]
    BY <1>3, <1>4, <1>6, <1>7
  <2> QED BY <1>1, <2>1, RunStays
<1>9. \E h : IsVirtualRun(h, start, c, done)
  <2>1. f = [i \in 0 .. n |-> IF i = 0 THEN start ELSE Turn(f[i - 1], i)]
    <3>1. ASSUME NEW i \in 0 .. n, i # 0 PROVE g[i][f[i - 1]] = Turn(f[i - 1], i)
      <4>1. i \in 1 .. n /\ i - 1 \in 0 .. n
        BY <1>1, <3>1
      <4> QED BY <1>8, <4>1
    <3> HIDE DEF g
    <3> QED BY <1>5, <3>1, Zenon DEF IsRun
  <2> QED BY <2>1, Zenon DEF IsVirtualRun, Turn, n
<1> DEFINE F == CHOOSE h : IsVirtualRun(h, start, c, done)
<1>10. IsVirtualRun(F, start, c, done)
  BY <1>9, Zenon
<1>11. AfterVirtual(start, c, done) = F[n]
  BY Zenon DEF AfterVirtual, IsVirtualRun, n
<1> HIDE DEF F
<1>12. F[0] = start /\ \A i \in 1 .. n : F[i] = Turn(F[i - 1], i)
  <2>1. 0 \in 0 .. n /\ \A i \in 1 .. n : i \in 0 .. n /\ i # 0
    BY <1>1
  <2> QED BY <1>10, <2>1, Zenon DEF IsVirtualRun, Turn, n
<1>13. F[0] \in T[0] /\ \A i \in 1 .. n : F[i - 1] \in T[i - 1] => F[i] \in T[i]
  BY <1>3, <1>4, <1>12
<1> HIDE DEF g
<1>14. \A i \in 0 .. n : F[i] \in T[i]
  BY <1>1, <1>13, RunStays
<1>15. n \in 0 .. n
  BY <1>1
<1> QED BY <1>11, <1>14, <1>15 DEF T

(* What compute_layout makes of a class.                                     *)
LEMMA ClassSound ==
  ASSUME NEW c, Legal(c), NEW done, NEW D, Prior(c, done, D)
  PROVE  LET l == MsvcLayoutOf(c, done)
         IN /\ l \in Sound(c, done, D)
            /\ HasVirtual(c) => \E p \in l.placed : p.role \in {"base", "vbptr"}
            /\ l.placed # {} => l.size % l.align = 0
<1> DEFINE one == Vptr(MsvcStart, c)
           two == AfterBases(one, c, done)
           three == Vbptr(two, c)
           four == AfterFields(three, c, done)
           five == NonVirtualEnd(four, c)
           six == AfterVirtual(five, c, done)
           l == MsvcFinish(six, c)
           Borne(st) == HasVirtual(c) => \E p \in st.placed : p.role \in {"base", "vbptr"}
<1>1. two \in Sound(c, done, D)
      /\ ((\E i \in DOMAIN ctx[c].bases : ~ctx[c].bases[i].virt)
            => \E p \in two.placed : p.role = "base")
  <2>1. one \in Sound(c, done, D)
    BY VptrSound
  <2> HIDE DEF one
  <2> QED BY <2>1, BasesLoop
<1> HIDE DEF two
<1>2. /\ three \in Sound(c, done, D) /\ two.placed \subseteq three.placed
      /\ HasVirtual(c) /\ ~InheritsVbptr(c) => \E p \in three.placed : p.role = "vbptr"
  BY <1>1, VbptrSound
<1> HIDE DEF three
<1>3. Borne(three)
  <2>1. InheritsVbptr(c) => \E i \in DOMAIN ctx[c].bases : ~ctx[c].bases[i].virt
    BY DEF InheritsVbptr
  <2> QED BY <1>1, <1>2, <2>1
<1>4. four \in Sound(c, done, D) /\ Borne(four)
  BY <1>2, <1>3, FieldsLoop
<1> HIDE DEF four
<1>5. five \in Sound(c, done, D) /\ Borne(five)
  <2> DEFINE al == MaxOf(four.align, ctx[c].align)
  <2>1. four \in MsvcStates /\ four.size \in Nat /\ four.align \in Nat \ {0} /\ ctx[c].align \in Nat
        /\ four = [size |-> four.size, align |-> four.align, placed |-> four.placed]
    BY <1>4 DEF Sound, MsvcStates, Legal
  <2>2. al \in Nat \ {0} /\ four.align <= al
    BY <2>1 DEF MaxOf
  <2>3. five = [four EXCEPT !.align = al, !.size = AlignUp(four.size, al)]
    BY Zenon DEF NonVirtualEnd
  <2> HIDE DEF al, five
  <2>4. AlignUp(four.size, al) \in Nat /\ four.size <= AlignUp(four.size, al)
    BY <2>1, <2>2, AlignUpGrows
  <2>5. five = [size |-> AlignUp(four.size, al), align |-> al, placed |-> four.placed]
    BY <2>1, <2>3
  <2>6. five \in Sound(c, done, D)
    BY <1>4, <2>2, <2>4, <2>5, GrownSound
  <2> QED BY <1>4, <2>5, <2>6
<1> HIDE DEF five
<1>6. six \in Sound(c, done, D) /\ Borne(six)
  BY <1>5, VirtualLoop
<1> HIDE DEF six
<1>7. l \in Sound(c, done, D) /\ Borne(l) /\ (l.placed # {} => l.size % l.align = 0)
  <2> DEFINE sz == AlignUp(six.size, six.align)
             fin == IF Bare(c) THEN MaxOf(1, sz) ELSE sz
  <2>1. six \in MsvcStates /\ six.size \in Nat /\ six.align \in Nat \ {0}
        /\ six = [size |-> six.size, align |-> six.align, placed |-> six.placed]
        /\ (six.placed # {} => ~Bare(c))
    BY <1>6 DEF Sound, MsvcStates
  <2>2. sz \in Nat /\ six.size <= sz /\ sz % six.align = 0
    BY <2>1, AlignUpGrows, AlignUpAligned
  <2>3. l = [six EXCEPT !.size = fin]
    BY Zenon DEF MsvcFinish
  <2> HIDE DEF l, sz
  <2>4. fin \in Nat /\ six.size <= fin /\ (~Bare(c) => fin = sz)
    BY <2>1, <2>2 DEF MaxOf
  <2> HIDE DEF fin
  <2>5. l = [size |-> fin, align |-> six.align, placed |-> six.placed]
    BY <2>1, <2>3
  <2>6. l \in Sound(c, done, D)
    BY <1>6, <2>1, <2>4, <2>5, GrownSound
  <2> QED BY <1>6, <2>1, <2>2, <2>4, <2>5, <2>6
<1>8. MsvcLayoutOf(c, done) = l
  BY Zenon DEF MsvcLayoutOf, one, two, three, four, five, six
<1> HIDE DEF l
<1> QED BY <1>7, <1>8

-----------------------------------------------------------------------------
(* All the layouts: each is made from those before it.                       *)
MadeFrom(s, c) ==
  \E d \in Seq(MsvcStates) :
    /\ s[c] = MsvcLayoutOf(c, d)
    /\ Len(d) = c - 1
    /\ \A b \in 1 .. (c - 1) : d[b] = s[b]

LayoutLists(i) ==
  {s \in Seq(MsvcStates) : Len(s) = i /\ \A c \in 1 .. i : MadeFrom(s, c)}

(* Nothing is asked of the layouts before c when no class has data.          *)
LEMMA NextLayout ==
  ASSUME ctx \in Programs, NEW i \in DOMAIN ctx, i \in Nat \ {0}, NEW s \in LayoutLists(i - 1)
  PROVE  Append(s, MsvcLayoutOf(i, s)) \in LayoutLists(i)
<1> DEFINE l == MsvcLayoutOf(i, s)
           t == Append(s, l)
<1>1. s \in Seq(MsvcStates) /\ Len(s) = i - 1 /\ \A c \in 1 .. (i - 1) : MadeFrom(s, c)
  BY DEF LayoutLists
<1>2. l \in MsvcStates
  <2>1. \A b \in 1 .. (i - 1) : s[b] \in MsvcStates
    BY <1>1
  <2>2. Prior(i, s, {})
    BY <2>1 DEF Prior
  <2>3. Legal(i)
    BY ClassesLegal
  <2> QED BY <2>2, <2>3, ClassSound DEF Sound
<1> HIDE DEF l
<1>3. /\ t \in Seq(MsvcStates) /\ Len(t) = i /\ t[i] = l
      /\ \A b \in 1 .. (i - 1) : t[b] = s[b]
  BY <1>1, <1>2
<1> HIDE DEF t
<1>4. ASSUME NEW c \in 1 .. i PROVE MadeFrom(t, c)
  <2>1. CASE c = i
    BY <1>1, <1>3, <2>1 DEF MadeFrom, l
  <2>2. CASE c # i
    <3>1. c \in 1 .. (i - 1)
      BY <2>2
    <3>2. PICK d \in Seq(MsvcStates) : /\ s[c] = MsvcLayoutOf(c, d)
                                       /\ Len(d) = c - 1
                                       /\ \A b \in 1 .. (c - 1) : d[b] = s[b]
      BY <1>1, <3>1 DEF MadeFrom
    <3>3. t[c] = s[c] /\ \A b \in 1 .. (c - 1) : t[b] = s[b]
      BY <1>3, <3>1
    <3> QED BY <3>2, <3>3 DEF MadeFrom
  <2> QED BY <2>1, <2>2
<1>5. t \in LayoutLists(i)
  BY <1>3, <1>4 DEF LayoutLists
<1> QED BY <1>5 DEF t, l

IsLayoutsRun(f) ==
  f = [n \in 0 .. Len(ctx) |->
         IF n = 0 THEN << >> ELSE Append(f[n - 1], MsvcLayoutOf(n, f[n - 1]))]

(* The loop over the classes makes such a list of them all.                 *)
LEMMA LayoutsMade ==
  ASSUME ctx \in Programs
  PROVE  MsvcLayouts \in LayoutLists(Len(ctx))
<1> DEFINE n == Len(ctx)
           Turn(x, i) == Append(x, MsvcLayoutOf(i, x))
           T == [i \in 0 .. n |-> LayoutLists(i)]
           g == [i \in 1 .. n |-> [x \in T[i - 1] |-> Turn(x, i)]]
<1>1. n \in Nat /\ DOMAIN ctx = 1 .. n
  BY ClassesLegal
<1>2. \A i \in 0 .. n : T[i] = LayoutLists(i)
  OBVIOUS
<1>3. << >> \in T[0]
  <2>1. 0 \in 0 .. n /\ << >> \in Seq(MsvcStates) /\ Len(<< >>) = 0 /\ 1 .. 0 = {}
    BY <1>1
  <2> QED BY <1>2, <2>1 DEF LayoutLists
<1>4. ASSUME NEW i \in 1 .. n, NEW x \in T[i - 1] PROVE Turn(x, i) \in T[i]
  <2>1. i \in 0 .. n /\ i - 1 \in 0 .. n /\ i \in DOMAIN ctx /\ i \in Nat \ {0}
    BY <1>1
  <2>2. x \in LayoutLists(i - 1)
    BY <1>2, <1>4, <2>1
  <2>3. Turn(x, i) \in LayoutLists(i)
    BY <2>1, <2>2, NextLayout
  <2> QED BY <1>2, <2>1, <2>3
<1> HIDE DEF Turn, T
<1>5. PICK f : IsRun(f, n, << >>, g)
  BY <1>1, Runs
<1> HIDE DEF n
<1>6. f[0] = << >> /\ \A i \in 1 .. n : f[i] = g[i][f[i - 1]]
  <2>1. 0 \in 0 .. n /\ \A i \in 1 .. n : i \in 0 .. n /\ i # 0
    BY <1>1
  <2> HIDE DEF g
  <2> QED BY <1>5, <2>1, Zenon DEF IsRun
<1>7. \A i \in 1 .. n : f[i - 1] \in T[i - 1] => f[i] = Turn(f[i - 1], i)
  BY <1>6
<1>8. \A i \in 0 .. n : f[i] \in T[i]
  <2>1. f[0] \in T[0] /\ \A i \in 1 .. n : f[i - 1] \in T[i - 1] => f[i] \in T[i]
    BY <1>3, <1>4, <1>6, <1>7
  <2> QED BY <1>1, <2>1, RunStays
<1>9. \E h : IsLayoutsRun(h)
  <2>1. f = [i \in 0 .. n |-> IF i = 0 THEN << >> ELSE Turn(f[i - 1], i)]
    <3>1. ASSUME NEW i \in 0 .. n, i # 0 PROVE g[i][f[i - 1]] = Turn(f[i - 1], i)
      <4>1. i \in 1 .. n /\ i - 1 \in 0 .. n
        BY <1>1, <3>1
      <4> QED BY <1>8, <4>1
    <3> HIDE DEF g
    <3> QED BY <1>5, <3>1, Zenon DEF IsRun
  <2> QED BY <2>1, Zenon DEF IsLayoutsRun, Turn, n
<1> DEFINE F == CHOOSE h : IsLayoutsRun(h)
<1>10. IsLayoutsRun(F)
  BY <1>9, Zenon
<1>11. MsvcLayouts = F[n]
  BY Zenon DEF MsvcLayouts, IsLayoutsRun, n
<1> HIDE DEF F
<1>12. F[0] = << >> /\ \A i \in 1 .. n : F[i] = Turn(F[i - 1], i)
  <2>1. 0 \in 0 .. n /\ \A i \in 1 .. n : i \in 0 .. n /\ i # 0
    BY <1>1
  <2> QED BY <1>10, <2>1, Zenon DEF IsLayoutsRun, Turn, n
<1>13. F[0] \in T[0] /\ \A i \in 1 .. n : F[i - 1] \in T[i - 1] => F[i] \in T[i]
  BY <1>3, <1>4, <1>12
<1> HIDE DEF g
<1>14. \A i \in 0 .. n : F[i] \in T[i]
  BY <1>1, <1>13, RunStays
<1>15. F[n] \in LayoutLists(n)
  BY <1>1, <1>2, <1>14
<1> QED BY <1>11, <1>15 DEF n

Holds(all, D, d) ==
  \E p \in all[d].placed : IF IsBase(p) THEN p.of \in D ELSE Occupies(p)

(* The classes with data are the fewest: each has a reason to be one.        *)
LEMMA DataHasReason ==
  ASSUME NEW all, NEW c \in WithData(all)
  PROVE  c \in DOMAIN ctx /\ Holds(all, WithData(all), c)
<1> DEFINE data == WithData(all)
           Closed(D) == \A d \in DOMAIN ctx : Holds(all, D, d) => d \in D
<1>1. data = {d \in DOMAIN ctx : \A D \in SUBSET DOMAIN ctx : Closed(D) => d \in D}
  BY Zenon DEF WithData, Holds
<1> HIDE DEF data
<1>2. \A D, E : D \subseteq E => \A d : Holds(all, D, d) => Holds(all, E, d)
  BY DEF Holds
<1>3. Closed(data)
  <2> SUFFICES ASSUME NEW d \in DOMAIN ctx, Holds(all, data, d),
                      NEW D \in SUBSET DOMAIN ctx, Closed(D)
               PROVE  d \in D
    BY <1>1
  <2>1. data \subseteq D
    BY <1>1
  <2> QED BY <1>2, <2>1
<1>4. ASSUME ~Holds(all, data, c) PROVE FALSE
  <2> DEFINE E == data \ {c}
  <2>1. E \in SUBSET DOMAIN ctx /\ E \subseteq data
    BY <1>1
  <2>2. Closed(E)
    BY <1>2, <1>3, <1>4, <2>1
  <2>3. c \in data
    BY DEF data
  <2> HIDE DEF Closed
  <2>4. c \in E
    BY <1>1, <2>1, <2>2, <2>3
  <2> QED BY <2>4
<1>5. c \in data
  BY DEF data
<1> QED BY <1>1, <1>4, <1>5 DEF data

(* What the layout of a class looks like, from all of them.                  *)
LEMMA LayoutSound ==
  ASSUME NEW D, NEW all, NEW c, Legal(c), Prior(c, all, D), MadeFrom(all, c)
  PROVE  /\ all[c] \in Sound(c, all, D)
         /\ HasVirtual(c) => \E p \in all[c].placed : p.role \in {"base", "vbptr"}
         /\ all[c].placed # {} => all[c].size % all[c].align = 0
<1>1. PICK d \in Seq(MsvcStates) : /\ all[c] = MsvcLayoutOf(c, d)
                                   /\ Len(d) = c - 1
                                   /\ \A b \in 1 .. (c - 1) : d[b] = all[b]
  BY DEF MadeFrom
<1>2. Prior(c, d, D)
  BY <1>1 DEF Prior, EmptyBase
<1>3. /\ all[c] \in Sound(c, d, D)
      /\ HasVirtual(c) => \E p \in all[c].placed : p.role \in {"base", "vbptr"}
      /\ all[c].placed # {} => all[c].size % all[c].align = 0
  BY <1>1, <1>2, ClassSound
<1>4. \A p : (IsBase(p) => p.of \in 1 .. (c - 1)) => Extent(p, d, D) = Extent(p, all, D)
  BY <1>1 DEF Extent
<1>5. all[c] \in MsvcStates /\ \A p \in all[c].placed : PieceSound(all[c], p, c, d, D)
  BY <1>3 DEF Sound
<1>6. \A p \in all[c].placed : Extent(p, d, D) = Extent(p, all, D)
  BY <1>4, <1>5 DEF PieceSound
<1>7. \A p \in all[c].placed : PieceSound(all[c], p, c, all, D)
  BY <1>5, <1>6 DEF PieceSound
<1>8. \A p, q \in all[c].placed : MsvcApart(p, q, all, D)
  BY <1>3, <1>6 DEF Sound, MsvcApart
<1>9. all[c].placed # {} => ~Bare(c)
  BY <1>3 DEF Sound
<1> QED BY <1>3, <1>5, <1>7, <1>8, <1>9 DEF Sound

(* An empty base has no data: a pointer takes eight bytes, and a virtual base *)
(* comes with one or with a base that is not.                                *)
LEMMA DataNotEmpty ==
  ASSUME ctx \in Programs, NEW all \in LayoutLists(Len(ctx))
  PROVE  \A c \in DOMAIN ctx : Prior(c, all, WithData(all))
<1> DEFINE data == WithData(all)
<1>1. PICK n \in Nat : n = Len(ctx) /\ DOMAIN ctx = 1 .. n
  BY ClassesLegal
<1>2. all \in Seq(MsvcStates) /\ Len(all) = n /\ \A c \in 1 .. n : MadeFrom(all, c)
  BY <1>1 DEF LayoutLists
<1>3. \A b \in 1 .. n : all[b] \in MsvcStates
  BY <1>2
<1>4. ASSUME NEW b \in 1 .. n, b \in data, EmptyBase(all, b) PROVE all[b].size = 0
  <2>1. Legal(b) /\ b \in DOMAIN ctx
    BY <1>1, ClassesLegal
  <2>2. Prior(b, all, {})
    BY <1>3, <1>4 DEF Prior
  <2>3. /\ all[b] \in Sound(b, all, {})
        /\ HasVirtual(b) => \E p \in all[b].placed : p.role \in {"base", "vbptr"}
    BY <1>2, <2>1, <2>2, LayoutSound
  <2>4. /\ all[b].placed \subseteq MsvcPieces /\ all[b].size \in Nat
        /\ \A p \in all[b].placed : /\ p.role \in {"vptr", "vbptr"} => all[b].size >= 8
                                    /\ p.role = "vbase" => HasVirtual(b)
    BY <2>3 DEF Sound, MsvcStates, PieceSound
  <2>5. PICK p \in all[b].placed : TRUE
    BY <1>4, DataHasReason DEF Holds
  <2>6. p.role \in {"vptr", "vbptr", "base", "vbase", "field"}
    BY <2>4 DEF MsvcPieces
  <2>7. ASSUME all[b].size = 1, ~\E q \in all[b].placed : q.role \in {"field", "base"} PROVE FALSE
    <3>1. \A q \in all[b].placed : q.role \notin {"vptr", "vbptr", "field", "base"}
      BY <2>4, <2>7
    <3> QED BY <2>3, <2>4, <2>6, <3>1
  <2> QED BY <1>4, <2>7 DEF EmptyBase
<1> HIDE DEF data
<1>5. ASSUME NEW c \in DOMAIN ctx PROVE Prior(c, all, data)
  <2>1. \A b \in 1 .. (c - 1) : b \in 1 .. n
    BY <1>1
  <2> QED BY <1>3, <1>4, <2>1 DEF Prior
<1> QED BY <1>5 DEF data

(* The layouts of all classes put together.                                 *)
LEMMA NoTailReuse == ctx \in Programs => MsvcNoTailReuse
<1> SUFFICES ASSUME ctx \in Programs PROVE MsvcNoTailReuse
  OBVIOUS
<1> DEFINE all == MsvcLayouts
           data == WithData(all)
<1>1. all \in LayoutLists(Len(ctx))
  BY LayoutsMade
<1> HIDE DEF all
<1>2. PICK n \in Nat : n = Len(ctx) /\ DOMAIN ctx = 1 .. n
  BY ClassesLegal
<1>3. ASSUME NEW c \in DOMAIN ctx
      PROVE  /\ c \in data => all[c].size % all[c].align = 0
             /\ \A p \in all[c].placed :
                  /\ Extent(p, all, data).hi <= 8 * all[c].size
                  /\ p.lo % (8 * p.align) = 0 /\ p.align <= all[c].align
                  /\ \A q \in all[c].placed : MsvcApart(p, q, all, data)
  <2>1. Legal(c) /\ Prior(c, all, data)
    BY <1>1, ClassesLegal, DataNotEmpty
  <2>2. MadeFrom(all, c)
    BY <1>1, <1>2 DEF LayoutLists
  <2>3. c \in data => all[c].placed # {}
    BY DataHasReason DEF Holds
  <2> HIDE DEF data
  <2>4. all[c] \in Sound(c, all, data) /\ (all[c].placed # {} => all[c].size % all[c].align = 0)
    BY <2>1, <2>2, LayoutSound
  <2> QED BY <2>3, <2>4 DEF Sound, PieceSound
<1> QED BY <1>3, Zenon DEF MsvcNoTailReuse, MsvcApart, all, data

(* MSVC layouts reuse no tail padding: subobjects end inside their class,    *)
(* are aligned as far as #pragma pack allows, and those with data are apart  *)
(* to their full sizes, in every program.                                    *)
THEOREM MsvcCorrect == Spec => []MsvcNoTailReuse
<1>1. TypeOK => MsvcNoTailReuse
  BY NoTailReuse DEF TypeOK, CtxOK
<1> QED BY <1>1, TypeCorrect, PTL
=============================================================================
