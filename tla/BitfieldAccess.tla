---------------------------- MODULE BitfieldAccess ----------------------------
(***************************************************************************)
(* The accessors of bit-fields the bindings of a class get                 *)
(* (render_m21c_bitfield_accessors, cxx_importer/src/rust_bindings.rs).    *)
(* They find the field by the byte and bit offset of the class's layout    *)
(* and read, or read and write, one integer of the declared type that      *)
(* starts at that byte.  Integers are the sets of their bits that are 1,   *)
(* memory is the set of the addresses of its bits that are 1.              *)
(***************************************************************************)
EXTENDS ItaniumLayout

\* Operators on the integers of a type of so many bits.
Shl(x, n, bits) == {b + n : b \in x} \intersect (0 .. bits - 1)
Shr(x, n) == {b - n : b \in {c \in x : c >= n}}
Sar(x, n, bits) == Shr(x, n) \union (IF bits - 1 \in x THEN bits - n .. bits - 1 ELSE {})
Complement(x, bits) == (0 .. bits - 1) \ x

(* field_offsets[i] and field_bit_offsets[i] of class c, and its container.  *)
FieldPiece(c, i) ==
  CHOOSE p \in classes[c].placed : p.role \in {"bits", "field"} /\ p.of = i
ByteOffset(c, i) == FieldPiece(c, i).lo \div 8
BitOffset(c, i) == FieldPiece(c, i).lo % 8
ContainerBits(c, i) == 8 * ctx[c].fields[i].size
Width(c, i) == ctx[c].fields[i].width

(* A class without a layout has no accessors, nor has a bit-field of width 0.*)
(* A mask as wide as its container is a shift rustc refuses, so that class   *)
(* does not compile.                                                         *)
Accessible(c) ==
  IF ~classes[c].ok THEN {}
  ELSE {i \in DOMAIN ctx[c].fields : ctx[c].fields[i].bitfield /\ Width(c, i) > 0}
Compiles(c) == \A i \in Accessible(c) : Width(c, i) < ContainerBits(c, i)

FieldMask(c, i) == 0 .. Width(c, i) - 1

ReadContainer(mem, c, i) ==
  Shr(mem, 8 * ByteOffset(c, i)) \intersect (0 .. ContainerBits(c, i) - 1)
WriteContainer(mem, c, i, new) ==
  LET at == 8 * ByteOffset(c, i)
  IN (mem \ (at .. at + ContainerBits(c, i) - 1)) \union {b + at : b \in new}

(* Shifts up without the offset.                                             *)
GetSignedBug(raw, c, i) ==
  LET bits == ContainerBits(c, i)
  IN Sar(Shl(raw, bits - Width(c, i), bits), bits - Width(c, i), bits)
GetSigned(raw, c, i) ==
  LET bits == ContainerBits(c, i)
      loShift == bits - Width(c, i)
  IN Sar(Shl(raw, loShift - BitOffset(c, i), bits), loShift, bits)

GetUnsigned(raw, c, i) == Shr(raw, BitOffset(c, i)) \intersect FieldMask(c, i)

Get(mem, c, i, signed) ==
  LET raw == ReadContainer(mem, c, i)
  IN IF signed THEN GetSigned(raw, c, i) ELSE GetUnsigned(raw, c, i)

(* Both setters do this, the signed one through the unsigned type.           *)
Set(mem, c, i, v) ==
  LET bits == ContainerBits(c, i)
      maskV == Shl(FieldMask(c, i), BitOffset(c, i), bits)
      vBits == Shl(v \intersect FieldMask(c, i), BitOffset(c, i), bits)
      new == (ReadContainer(mem, c, i) \intersect Complement(maskV, bits)) \union vBits
  IN WriteContainer(mem, c, i, new)

-----------------------------------------------------------------------------
(* Some memories that hold the object and what the container reaches past    *)
(* it, and some values of the container's type.                              *)
Memories(c, i) ==
  LET all == 0 .. 8 * classes[c].size + ContainerBits(c, i) - 1
  IN {{}, all, {b \in all : b % 2 = 0}, {b \in all : b % 3 = 1}}
Values(c, i) ==
  LET w == Width(c, i)
  IN {{}, 0 .. ContainerBits(c, i) - 1, {0}, {w - 1}, {w}, 0 .. w - 2}

(* The value v as a bit-field of w bits holds it.                            *)
Held(v, c, i, signed) ==
  LET low == v \intersect FieldMask(c, i)
  IN IF signed /\ Width(c, i) - 1 \in low
     THEN low \union (Width(c, i) .. ContainerBits(c, i) - 1) ELSE low

(* A getter after a setter gives the value cut to the width and extended by  *)
(* its sign, and a setter changes no bit but its field's: not the fields it  *)
(* shares a unit with, nor the members its container reaches into, although  *)
(* a packed field is read from its own byte on and not from its unit's, so   *)
(* that the container may end past the unit and past the object.             *)
BitfieldsReadBack ==
  \A c \in {d \in {Len(classes)} \ {0} : phase = "idle" /\ Compiles(d)} :
    \A i \in Accessible(c) : \A mem \in Memories(c, i) : \A v \in Values(c, i) :
      LET after == Set(mem, c, i, v)
          own == {b \in mem \union after :
                    b >= FieldPiece(c, i).lo /\ b < FieldPiece(c, i).lo + Width(c, i)}
      IN /\ \A signed \in BOOLEAN : Get(after, c, i, signed) = Held(v, c, i, signed)
         /\ mem \ own = after \ own
=============================================================================
