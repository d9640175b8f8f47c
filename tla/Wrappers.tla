------------------------------- MODULE Wrappers -------------------------------
(***************************************************************************)
(* The bodies of what the emitters of Bindings write: the extern           *)
(* declaration of a method, the safe wrapper that calls it, and the        *)
(* convenience wrappers that call the safe one with default arguments or   *)
(* converted strings.  Each is written apart, from the same lists of       *)
(* parameter texts; C++ receives what they pass on together.               *)
(*                                                                         *)
(* A wrapper is a record: the arguments its caller gives, by the position  *)
(* of their parameter, how each is taken, and what the body passes on.     *)
(* Parameters are their positions; texts are left out.                     *)
(***************************************************************************)
EXTENDS Bindings, Literals

(* The constants a context holds, as libclang hands them over.               *)
ConstantsOk(p) ==
  /\ \A c \in DOMAIN p.classes : \A m \in Range(p.classes[c].methods) :
       /\ \A i \in DOMAIN m.params : ShapeOk(m.params[i].shape)
       /\ \A i \in DOMAIN m.defaults : CarrierOk(m.defaults[i])
  /\ \A i \in DOMAIN p.enums : EnumOk(p.enums[i])
ASSUME ConstantsAssumption == \A p \in Programs : ConstantsOk(p)

Arity(m) == Len(m.params)
This == [from |-> "this"]
Slot == [from |-> "slot"]
Out == [from |-> "out"]
Src == [from |-> "src"]
Arg(i, how) == [from |-> "arg", at |-> i, how |-> how]
Default(l, evaluated) == [from |-> "default", lit |-> l, evaluated |-> evaluated]
Args(m) == [i \in 1 .. Arity(m) |-> Arg(i, "raw")]

-----------------------------------------------------------------------------
(* What classify_for_direct_extern prepares.                                 *)
TakesArgs(m) == m.special \in Ctors \cup {"none"}
CstrParams(m) ==
  {i \in DOMAIN m.params : /\ prog.cstr /\ TakesArgs(m)
                           /\ LET t == m.params[i].shape IN t.is = "ptr" /\ t.const /\ t.to = "byte"}

(* The literal of each trailing default, the evaluated one if it fits, and   *)
(* none at all when one of them has no literal.                              *)
DefaultAt(m, j) ==
  LET t == m.params[Arity(m) - Len(m.defaults) + j].shape
      evaluated == RenderEvaluated(t, m.defaults[j])
  IN IF evaluated # NoLiteral THEN Default(evaluated, TRUE) ELSE Default(Synthesize(t), FALSE)
Defaults(m) ==
  LET slots == [j \in DOMAIN m.defaults |-> DefaultAt(m, j)] IN
    IF /\ TakesArgs(m) /\ Len(m.defaults) \in 1 .. Arity(m)
       /\ \A j \in DOMAIN slots : slots[j].lit # NoLiteral
    THEN slots ELSE <<>>

ReturnsVoid(m) == m.special # "none" \/ m.ret.shape.is = "void"
HasOut(m) == Throws(m) /\ m.special = "none" /\ ~ReturnsVoid(m)
Receiver(m) == CASE m.special \in Ctors -> "ctor"
                 [] m.special = "none" /\ m.static -> "none"
                 [] m.special = "MoveCtor" -> "none"
                 [] m.special = "CopyCtor" \/ (m.special = "none" /\ m.const) -> "const"
                 [] OTHER -> "mut"
WrapperReturn(m) ==
  LET plain == IF m.special \in Ctors \cup {"CopyCtor", "MoveCtor"} THEN "Self"
               ELSE IF ReturnsVoid(m) THEN "()" ELSE "ret"
  IN IF Throws(m) THEN <<"Result", plain>> ELSE <<plain>>

ExternDecl(m) ==
  CASE m.special \in Ctors -> <<This>> \o Args(m)
    [] m.special \in {"CopyCtor", "MoveCtor"} -> <<This, Src>>
    [] m.special \in {"CopyAssign", "MoveAssign"} -> <<This, Src>>
    [] m.special = "Dtor" -> <<This>>
    [] OTHER -> Optional(This, ~m.static) \o Args(m) \o Optional(Out, HasOut(m))
ExternRet(m) == IF Throws(m) THEN "CxxRawError"
                ELSE IF ReturnsVoid(m) THEN "()" ELSE "ret"

-----------------------------------------------------------------------------
(* render_direct_extern_wrapper, one definition for each kind.               *)
Wrapper(m, name, takes, calls, passes, ret) ==
  [name |-> name, recv |-> Receiver(m), takes |-> takes, calls |-> calls,
   passes |-> passes, ret |-> ret]
CtorWrapper(m, e) ==
  Wrapper(m, e.name, Args(m), "extern", <<Slot>> \o Args(m), WrapperReturn(m))
PlacementCtor(m, e) ==
  Wrapper(m, Append(e.name, "at"), <<This>> \o Args(m), "extern", <<This>> \o Args(m), <<"()">>)
InstanceWrapper(m, e) ==
  Wrapper(m, e.name, Args(m), "extern", <<This>> \o Args(m) \o Optional(Out, HasOut(m)),
          WrapperReturn(m))
VirtualWrapper(m, e) ==
  Wrapper(m, e.name, Args(m), "slot", <<This>> \o Args(m), WrapperReturn(m))
StaticWrapper(m, e) ==
  Wrapper(m, e.name, Args(m), "extern", Args(m) \o Optional(Out, HasOut(m)), WrapperReturn(m))
MoveFrom(m, e) == Wrapper(m, e.name, <<Src>>, "extern", <<Slot, Src>>, <<"Self">>)
Assign(m, e) == Wrapper(m, e.name, <<Src>>, "extern", <<This, Src>>, <<"()">>)
Clone(m, e) == Wrapper(m, e.name, <<>>, "extern", <<Slot, This>>, <<"Self">>)

(* strip_arg_names cuts the text at every comma: a function pointer of two   *)
(* arguments does not survive.                                               *)
SlotTypes(m) == [i \in DOMAIN m.params |->
                   IF m.params[i].commas = 0 THEN m.params[i].rust ELSE <<"cut">>]

FullWrapper(m, e) ==
  CASE e.kind = "Ctor" -> CtorWrapper(m, e)
    [] e.kind = "Instance" -> InstanceWrapper(m, e)
    [] e.kind = "Virtual" -> VirtualWrapper(m, e)
    [] e.kind = "Static" -> StaticWrapper(m, e)
    [] e.kind = "MoveCtor" -> MoveFrom(m, e)
    [] e.kind = "CopyCtor" -> Clone(m, e)
    [] OTHER -> Assign(m, e)

-----------------------------------------------------------------------------
(* The conveniences, which call the full wrapper.                            *)
ConvenienceReturn(m) == IF m.special \in Ctors THEN <<"Self">> ELSE WrapperReturn(m)
Convenience(m, name, takes, passes) ==
  Wrapper(m, name, takes, "full", passes, ConvenienceReturn(m))
Converted(m, kept, how) ==
  [i \in 1 .. kept |-> Arg(i, IF i \in CstrParams(m) THEN how ELSE "raw")]

(* render_m18b_convenience_wrappers: the last n arguments dropped.           *)
DroppingSkipBug(m, e, n) ==
  LET ds == Defaults(m)
      kept == Arity(m) - n
  IN Convenience(m, e.name \o (IF n = Len(ds) THEN <<"with", "defaults">>
                               ELSE <<"default", ToString(kept)>>),
                 Converted(m, kept, "raw"), Converted(m, kept, "raw") \o SubSeq(ds, 1, n))
Dropping(m, e, n) ==
  LET ds == Defaults(m)
      kept == Arity(m) - n
  IN Convenience(m, e.name \o (IF n = Len(ds) THEN <<"with", "defaults">>
                               ELSE <<"default", ToString(kept)>>),
                 Converted(m, kept, "raw"),
                 Converted(m, kept, "raw") \o SubSeq(ds, Len(ds) - n + 1, Len(ds)))
Shorter(m, e) == {Dropping(m, e, n) : n \in 1 .. Len(Defaults(m))}
WindowEvaluated(m, n) ==
  \A j \in (Len(Defaults(m)) - n + 1) .. Len(Defaults(m)) : Defaults(m)[j].evaluated

(* render_m20b_cstr_wrapper and the two of M20.c.                            *)
CstrWrapper(m, e) ==
  Convenience(m, Append(e.name, "cstr"), Converted(m, Arity(m), "CStr"),
              Converted(m, Arity(m), "CStr"))
StrWrapper(m, e) ==
  Convenience(m, Append(e.name, "str"), Converted(m, Arity(m), "str"),
              Converted(m, Arity(m), "str"))
OptCstrWrapper(m, e) ==
  Convenience(m, e.name \o <<"opt", "cstr">>, Converted(m, Arity(m), "Option"),
              Converted(m, Arity(m), "Option"))

(* render_m20d_combined_wrappers, all the defaults dropped.                  *)
CombinedWrapper(m, e, words, how) ==
  LET kept == Arity(m) - Len(Defaults(m)) IN
    Convenience(m, e.name \o words \o <<"with", "defaults">>, Converted(m, kept, how),
                Converted(m, kept, how) \o Defaults(m))
Combined(m, e) ==
  IF /\ Defaults(m) # <<>>
     /\ \E i \in 1 .. (Arity(m) - Len(Defaults(m))) : i \in CstrParams(m)
  THEN {CombinedWrapper(m, e, <<"str">>, "str"),
        CombinedWrapper(m, e, <<"opt", "cstr">>, "Option")}
  ELSE {}
Strings(m, e) ==
  IF CstrParams(m) = {} THEN {}
  ELSE {CstrWrapper(m, e), StrWrapper(m, e), OptCstrWrapper(m, e)} \cup Combined(m, e)

WrappersOf(m, e) ==
  {FullWrapper(m, e)}
  \cup {PlacementCtor(m, e) : x \in {TRUE} \cap {e.kind = "Ctor" /\ ~Throws(m)}}
  \cup Shorter(m, e) \cup Strings(m, e)

(* The heap thunk of a constructor: strip_first_param.                       *)
HeapDecl(m) == Tail(ExternDecl(m))
BoxedCtor(m) ==
  Wrapper(m, <<"new", "boxed">>, Args(m), "heap", Args(m), <<"CxxHeap">>)

(* The wrapper of a free function, whose error comes back natively or        *)
(* through an out parameter.                                                 *)
FnHasOut(f) == f.throws /\ ~prog.native /\ f.ret.shape.is # "void"
FnDecl(f) == Args(f) \o Optional(Out, FnHasOut(f))
FnPasses(f) == Args(f) \o Optional(Out, FnHasOut(f))

-----------------------------------------------------------------------------
(* The parameters of the C++ function a link name leads to.                  *)
ShimParams(m) ==
  IF m.special \in Ctors THEN <<This>> \o Args(m)
  ELSE <<This>> \o Args(m) \o Optional(Out, ~ReturnsVoid(m))
OwnParams(m) ==
  CASE m.special = "none" -> Optional(This, ~m.static) \o Args(m)
    [] m.special \in Ctors -> <<This>> \o Args(m)
    [] OTHER -> <<This, Src>>
Callee(m) == IF Throws(m) THEN ShimParams(m) ELSE OwnParams(m)
FnCallee(f) == Args(f) \o Optional(Out, f.throws /\ ~prog.native /\ f.ret.shape.is # "void")

(* What reaches it through a wrapper.                                        *)
Reaching(m, e, w) ==
  IF w.calls # "full" THEN w.passes
  ELSE LET full == FullWrapper(m, e).passes IN
         [i \in DOMAIN full |-> IF full[i].from = "arg" THEN w.passes[full[i].at] ELSE full[i]]
IsPointer(t) == t.is = "ptr" /\ t.const /\ t.to = "byte"
Serves(m, given, param) ==
  CASE param.from = "this" -> given.from \in {"this", "slot"}
    [] param.from = "src" -> given.from \in {"src", "this"}
    [] param.from = "out" -> given.from = "out"
    [] OTHER ->
         \/ given.from = "arg" /\ given.at = param.at
            /\ (given.how # "raw" => IsPointer(m.params[param.at].shape))
         \/ /\ given.from = "default"
            /\ LET j == param.at - (Arity(m) - Len(m.defaults)) IN
                 /\ j \in DOMAIN m.defaults
                 /\ given = DefaultAt(m, j)
UsesAll(w, given) ==
  \A i \in DOMAIN w.takes : w.takes[i].from = "arg" => w.takes[i] \in Range(given)
Delivers(m, e, w) ==
  LET given == Reaching(m, e, w) IN
    /\ w.calls = "full" => Len(w.passes) = Arity(m)
    /\ Len(given) = Len(Callee(m))
    /\ \A i \in DOMAIN given : Serves(m, given[i], Callee(m)[i])
    /\ UsesAll(w, given)
    /\ w.calls = "full" => w.ret = WrapperReturn(m)

-----------------------------------------------------------------------------
(* The properties.                                                           *)

(* Whatever wrapper Rust code calls, each parameter of the C++ function gets *)
(* the argument meant for it or its own default, what is declared is what is *)
(* called, and the result comes back.  Left out: the throwing static method, *)
(* whose shim takes an object, the conveniences of a throwing constructor,   *)
(* which return Self, and a slot type cut at a comma.                        *)
CallsDeliver == phase = "done" =>
  /\ \A c \in DOMAIN items : \A e \in Range(items[c].blocks) :
       LET m == Methods(c)[e.method] IN
         e.kind # "Dtor" /\ ~(Throws(m) /\ m.static) =>
           /\ Len(ExternDecl(m)) = Len(Callee(m))
           /\ \A w \in WrappersOf(m, e) :
                (w.calls = "full" /\ m.special \in Ctors => ~Throws(m)) => Delivers(m, e, w)
           /\ e.kind = "Virtual" /\ (\A t \in Range(m.params) : t.commas = 0)
              => \A i \in DOMAIN m.params : SlotTypes(m)[i] = m.params[i].rust
  /\ \A c \in DOMAIN items : \A e \in Range(items[c].heap) :
       LET m == Methods(c)[e.method] IN
         HeapDecl(m) = Args(m) /\ BoxedCtor(m).passes = HeapDecl(m)
  /\ \A f \in Range(fns) : FnPasses(Fn(f.fn)) = FnCallee(Fn(f.fn)) /\ FnDecl(Fn(f.fn)) = FnCallee(Fn(f.fn))

NamedBool(t) == t.is = "enum" /\ ByName(t) /\ t.under.is = "bool"
DefaultsTyped ==
  \A c \in DOMAIN items : \A e \in Range(items[c].blocks) :
    LET m == Methods(c)[e.method]
        ds == Defaults(m)
        d == Len(ds)
    IN /\ \A j \in 1 .. d : LET t == m.params[Arity(m) - d + j].shape IN
            NamedBool(t) \/ Typed(ds[j].lit, t)
       /\ \A n \in 1 .. d : WindowEvaluated(m, n) =>
            \A j \in (d - n + 1) .. d : Denotes(ds[j].lit, m.defaults[j])

EnumsRoundTrip ==
  \A i \in DOMAIN prog.enums :
    LET def == prog.enums[i]
        t == Repr(def.under)
        ds == Discriminants(def)
    IN /\ \A j \in DOMAIN ds :
            t.signed \/ t.bits >= WordBits \/ def.values[j] < Pow2(t.bits - 1)
            => InRange(t, ds[j]) /\ ds[j] = def.values[j]
       /\ EnumShape(def) = "enum" => \A j, l \in DOMAIN ds : ds[j] = ds[l] => j = l

(* A literal keeps its value.  A default argument written into a wrapper has *)
(* the type of its parameter and is in its range, and a wrapper that says    *)
(* its defaults are the ones of the header passes them.  The constants of an *)
(* enum have the values of its enumerators, in the range of its integer, and *)
(* a Rust enum has no two alike.  Left out: an enumerator with the top bit   *)
(* of an unsigned type narrower than a word, and a default for an enum over  *)
(* bool that is passed by name, whose literal E(true) is no E(u8).           *)
LiteralsKeepValues == phase = "done" => DefaultsTyped /\ EnumsRoundTrip
=============================================================================
