------------------------------- MODULE Literals -------------------------------
(***************************************************************************)
(* The constants rust_bindings.rs writes into the text it generates: the   *)
(* default arguments of the convenience wrappers and the enumerators of an *)
(* imported enum.                                                          *)
(*                                                                         *)
(* A type is a record whose field `is' names its kind.  The widths of      *)
(* integers are scaled: WordBits stands for 64, so an i8 has WordBits \div *)
(* 8 bits and an i128 twice WordBits.  A literal is a record too, its text *)
(* left out.                                                               *)
(***************************************************************************)
EXTENDS Integers, Sequences

CONSTANT WordBits  \* the width of i64

ASSUME WordBitsAssumption == WordBits \in Nat \ {0} /\ WordBits % 8 = 0

Pow2(n) ==
  LET power[i \in 0 .. n] == IF i = 0 THEN 1 ELSE 2 * power[i - 1]
  IN power[n]
IntType(signed, bits) == [is |-> "int", signed |-> signed, bits |-> bits]

(* DefaultArgValue: what libclang evaluates an initializer to, if it does.   *)
Unevaluated == [as |-> "none", v |-> 0]
Integral(value) == value.as \in {"Int", "UInt"}

-----------------------------------------------------------------------------
(* int_fits.  A value of the wide carriers is compared with the width of the *)
(* parameter only if that is narrower than the carrier.                      *)
IntFitsSignBug(value, t) ==
  CASE value.as = "Int" /\ t.signed ->
         t.bits >= WordBits \/ (-Pow2(t.bits - 1) <= value.v /\ value.v < Pow2(t.bits - 1))
    [] value.as = "Int" /\ ~t.signed ->
         value.v >= 0 /\ (t.bits >= WordBits \/ value.v < Pow2(t.bits))
    [] value.as = "UInt" -> t.bits >= WordBits \/ value.v < Pow2(t.bits)
    [] OTHER -> FALSE
IntFits(value, t) ==
  CASE value.as = "Int" /\ t.signed ->
         t.bits >= WordBits \/ (-Pow2(t.bits - 1) <= value.v /\ value.v < Pow2(t.bits - 1))
    [] value.as = "Int" /\ ~t.signed ->
         value.v >= 0 /\ (t.bits >= WordBits \/ value.v < Pow2(t.bits))
    [] value.as = "UInt" /\ t.signed ->
         t.bits > WordBits \/ value.v < Pow2(IF t.bits < WordBits THEN t.bits - 1 ELSE WordBits - 1)
    [] value.as = "UInt" /\ ~t.signed -> t.bits >= WordBits \/ value.v < Pow2(t.bits)
    [] OTHER -> FALSE

NoLiteral == [lit |-> "no"]
BoolLit(b) == [lit |-> "bool", v |-> b]
IntLit(t, v) == [lit |-> "int", type |-> t, v |-> v]
FloatLit(t, v) == [lit |-> "float", type |-> t, v |-> v]

(* An unscoped enum is rendered by name outside a class and as its integer   *)
(* inside one; its literal follows.                                          *)
ByName(t) == t.scope # "class" /\ t.named
AsEnum(t, inner) ==
  IF inner = NoLiteral THEN NoLiteral
  ELSE IF ByName(t) THEN [lit |-> "tuple", of |-> inner] ELSE inner

(* render_evaluated_default *)
EvaluatedScalar(t, value) ==
  CASE t.is = "bool" -> IF Integral(value) /\ value.v \in {0, 1}
                        THEN BoolLit(value.v = 1) ELSE NoLiteral
    [] t.is = "int" -> IF IntFits(value, t) THEN IntLit(t, value.v) ELSE NoLiteral
    [] t.is = "float" -> IF value.as # "Infinite" /\ t.kind # "long double"
                         THEN FloatLit(t, value.v) ELSE NoLiteral
    [] OTHER -> NoLiteral
RenderEvaluated(t, value) ==
  IF value = Unevaluated THEN NoLiteral
  ELSE IF t.is # "enum" THEN EvaluatedScalar(t, value)
  ELSE IF t.scoped THEN NoLiteral
  ELSE AsEnum(t, EvaluatedScalar(t.under, value))

(* synthesize_default_literal *)
ZeroScalar(t) ==
  CASE t.is = "bool" -> BoolLit(FALSE)
    [] t.is = "int" -> IntLit(t, 0)
    [] t.is = "float" -> IF t.kind = "long double" THEN NoLiteral ELSE FloatLit(t, 0)
    [] t.is = "member" -> [lit |-> "member null"]
    [] t.is = "ptr" -> IF t.to = "fn" THEN [lit |-> "None"]
                       ELSE [lit |-> "null", const |-> t.const]
    [] OTHER -> NoLiteral
Synthesize(t) ==
  IF t.is # "enum" THEN ZeroScalar(t)
  ELSE IF t.scoped THEN NoLiteral
  ELSE AsEnum(t, ZeroScalar(t.under))

-----------------------------------------------------------------------------
(* collect_enum keeps what libclang says of an enumerator as a signed word,  *)
(* extended from the width of the enum; render_enum_discriminant undoes it.  *)
Stored(t, v) == IF ~t.signed /\ v >= Pow2(t.bits - 1) THEN v - Pow2(t.bits) ELSE v
Discriminant(v, signed) == IF signed \/ v >= 0 THEN v ELSE v + Pow2(WordBits)

(* render_cxx_enum *)
Repr(t) == IF t.is = "bool" THEN IntType(FALSE, WordBits \div 8) ELSE t
HasDups(vs) == \E i, j \in DOMAIN vs : i # j /\ vs[i] = vs[j]
EnumShape(def) ==
  CASE def.name = <<>> -> "consts"
    [] def.name # <<>> /\ def.scoped /\ ~HasDups(def.values) -> "enum"
    [] OTHER -> "struct"
Discriminants(def) ==
  [i \in DOMAIN def.values |->
     Discriminant(Stored(Repr(def.under), def.values[i]), Repr(def.under).signed)]

-----------------------------------------------------------------------------
(* What rustc makes of a literal where a parameter of a type is expected.    *)
InRange(t, v) ==
  IF t.signed THEN -Pow2(t.bits - 1) <= v /\ v < Pow2(t.bits - 1)
  ELSE 0 <= v /\ v < Pow2(t.bits)
TypedScalar(l, t) ==
  CASE l.lit = "bool" -> t.is = "bool"
    [] l.lit = "int" -> l.type = t /\ InRange(t, l.v)
    [] l.lit = "float" -> l.type = t /\ t.kind # "long double"
    [] l.lit = "null" -> t.is = "ptr" /\ t.to # "fn" /\ l.const = t.const
    [] l.lit = "None" -> t.is = "ptr" /\ t.to = "fn"
    [] l.lit = "member null" -> t.is = "member"
    [] OTHER -> FALSE
Typed(l, t) ==
  IF t.is = "enum"
  THEN IF ByName(t) THEN l.lit = "tuple" /\ TypedScalar(l.of, Repr(t.under))
                    ELSE TypedScalar(l, t.under)
  ELSE TypedScalar(l, t)

(* What the code trusts of a shape and of a value libclang hands over.       *)
IsInt(t) == t.is = "int" /\ t.signed \in BOOLEAN /\ t.bits \in Nat \ {0}
ShapeOk(t) == /\ t.is = "int" => IsInt(t)
              /\ t.is = "enum" => t.under.is = "bool" \/ IsInt(t.under)
CarrierOk(value) ==
  /\ value.as = "Int" => value.v \in Int /\ InRange(IntType(TRUE, WordBits), value.v)
  /\ value.as = "UInt" => value.v \in Int /\ InRange(IntType(FALSE, WordBits), value.v)
EnumOk(def) ==
  LET t == Repr(def.under) IN
    /\ IsInt(t) /\ t.bits <= WordBits
    /\ \A i \in DOMAIN def.values : def.values[i] \in Int /\ InRange(t, def.values[i])

Bare(l) == IF l.lit = "tuple" THEN l.of ELSE l
Denotes(l, value) ==
  CASE Bare(l).lit = "bool" -> Bare(l).v = (value.v = 1)
    [] Bare(l).lit \in {"int", "float"} -> Bare(l).v = value.v
    [] OTHER -> FALSE
=============================================================================
