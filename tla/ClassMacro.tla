------------------------------ MODULE ClassMacro ------------------------------
(***************************************************************************)
(* cxx_class! and native_cpp_class! (rustcc_macros/src/lib.rs).  From a    *)
(* class block the macros make one extern item per method, with a symbol   *)
(* they mangle themselves, a wrapper that calls it, and an impl Drop that  *)
(* calls the destructor.  They know no C++ declaration: what links is what *)
(* the block says and how its types are spelled.                           *)
(*                                                                         *)
(* A method is [attrs, recv, name, params]: attrs a subset of {"ctor",     *)
(* "dtor"}, recv "ref", "mut" or "none", params names and Rust types, and  *)
(* a Rust type is [r |-> "path", name], [r |-> "ptr" | "ref", mut, to],    *)
(* [r |-> "unit"], or [r |-> "other"] for all that code() refuses.  The    *)
(* symbols are sequences of the tokens of Mangle.                          *)
(***************************************************************************)
EXTENDS Mangle, FiniteSets

\* Scalar names of Rust and the letters code() gives them.
ScalarCode ==
    [i8 |-> "a", u8 |-> "h", i16 |-> "s", u16 |-> "t", i32 |-> "i", u32 |-> "j",
     i64 |-> "x", u64 |-> "y", f32 |-> "f", f64 |-> "d", bool |-> "b", c_void |-> "v"]

-----------------------------------------------------------------------------
(* MangleCtx: what is written, and the classes that have a place.            *)

Seeded(class) == [out |-> <<>>, subs |-> <<class>>]

\* A class is spelled once, and then by its place among the classes.
ClassCode(m, name) ==
    IF Known(m, name) THEN EmitSeq(m, name) ELSE Register(Ident(m, name), name)

RECURSIVE Spellable(_), Code(_, _)

Spellable(ty) ==
    ty.r \in {"path", "unit"} \/ (ty.r \in {"ptr", "ref"} /\ Spellable(ty.to))

\* A pointer or a reference is never given a place.
Code(m, ty) ==
    CASE ty.r = "path" /\ ty.name \in DOMAIN ScalarCode ->
           Put(m, <<"b", ScalarCode[ty.name]>>)
      [] ty.r = "path" /\ ty.name \notin DOMAIN ScalarCode -> ClassCode(m, ty.name)
      [] ty.r = "unit" -> Put(m, <<"b", "v">>)
      [] ty.r \in {"ptr", "ref"} ->
           LET letter == Letter(m, IF ty.r = "ptr" THEN "P" ELSE "R")
           IN  Code(IF ty.mut THEN letter ELSE Letter(letter, "K"), ty.to)

EncodeArgs(class, params) ==
    IF params = <<>> THEN <<<<"b", "v">>>>
    ELSE FoldLeft(LAMBDA m, p : Code(m, p.type), Seeded(class), params).out

-----------------------------------------------------------------------------
(* One method *)

\* An attribute comes before the receiver, and ctor before dtor.
MacroKind(m) ==
    CASE "ctor" \in m.attrs -> "Ctor"
      [] "ctor" \notin m.attrs /\ "dtor" \in m.attrs -> "Dtor"
      [] m.attrs = {} -> IF m.recv = "none" THEN "Static" ELSE "Instance"

Seg(name) == <<<<"id", name>>>>
DtorLink(class) ==
    Letters(New, <<"_Z", "N">>).out \o Seg(class)
        \o <<<<"dtor", "D1">>, <<"c", "E">>, <<"b", "v">>>>

MangledName(class, m) ==
    LET Nested(cv, last) ==
            Letters(New, <<"_Z", "N">> \o cv).out \o Seg(class) \o last
                \o <<<<"c", "E">>>> \o EncodeArgs(class, m.params)
    IN  CASE MacroKind(m) = "Ctor" -> Nested(<<>>, <<<<"ctor", "C1">>>>)
          [] MacroKind(m) = "Dtor" -> DtorLink(class)
          [] MacroKind(m) = "Instance" ->
               Nested(IF m.recv = "ref" THEN <<"K">> ELSE <<>>, Seg(m.name))
          [] MacroKind(m) = "Static" -> Nested(<<>>, Seg(m.name))

This == "this"
Names(params) == [i \in DOMAIN params |-> params[i].name]

\* lower_method: the parameters of the extern item and the arguments its
\* wrapper passes; a constructor's wrapper passes the slot it returns.
Extern(class, m) ==
    [name |-> <<class, m.name>>, link |-> MangledName(class, m),
     params |-> CASE MacroKind(m) \in {"Ctor", "Instance"} -> <<This>> \o Names(m.params)
                  [] MacroKind(m) = "Dtor" -> <<This>>
                  [] MacroKind(m) = "Static" -> Names(m.params)]

Wrapper(class, m) ==
    [name |-> m.name, calls |-> <<class, m.name>>,
     params |-> (IF MacroKind(m) = "Instance" THEN <<This>> ELSE <<>>) \o Names(m.params),
     passes |-> CASE MacroKind(m) = "Ctor" -> <<"slot">> \o Names(m.params)
                  [] MacroKind(m) = "Instance" -> <<This>> \o Names(m.params)
                  [] MacroKind(m) = "Static" -> Names(m.params)]

-----------------------------------------------------------------------------
(* The block *)

IsDtor(m) == MacroKind(m) = "Dtor"
Dtors(block) == SelectSeq(block, IsDtor)

\* A block whose types cannot be spelled is an error of the macro.  A
\* destructor has no parameters to look at.
Expands(block) ==
    \A i \in DOMAIN block :
        IsDtor(block[i]) \/ \A p \in ToSet(block[i].params) : Spellable(p.type)

DropItem(class) ==
    [name |-> <<class, "drop">>, link |-> DtorLink(class), params |-> <<This>>]

\* The destructor named last is the one Drop calls.
ExpandDrop(class, block) ==
    IF Dtors(block) = <<>> THEN <<class, "drop">> ELSE <<class, Last(Dtors(block)).name>>

WithDrop(class, block, externs) ==
    IF Dtors(block) = <<>> THEN Append(externs, DropItem(class)) ELSE externs

WrapperIn(class, block) ==
    LET Made == SelectSeq(block, LAMBDA m : ~IsDtor(m))
    IN  [i \in DOMAIN Made |-> Wrapper(class, Made[i])]

ExpandClass(class, block) ==
    [externs |-> WithDrop(class, block, [i \in DOMAIN block |-> Extern(class, block[i])]),
     wrappers |-> WrapperIn(class, block),
     drop |-> ExpandDrop(class, block)]

\* native_cpp_class!: the compiler mangles the constructor, which it calls as
\* a function that returns the class.
NativeExtern(class, m) ==
    IF MacroKind(m) = "Ctor"
    THEN [name |-> <<class, m.name>>, link |-> <<"constructor">>, params |-> Names(m.params)]
    ELSE Extern(class, m)

NativeWrapper(w, class, block) ==
    IF \E i \in DOMAIN block : block[i].name = w.name /\ MacroKind(block[i]) = "Ctor"
    THEN [w EXCEPT !.passes = Tail(@)] ELSE w

ExpandClassNative(class, block) ==
    LET ws == WrapperIn(class, block)
    IN  [externs |-> WithDrop(class, block,
                         [i \in DOMAIN block |-> NativeExtern(class, block[i])]),
         wrappers |-> [i \in DOMAIN ws |-> NativeWrapper(ws[i], class, block)],
         drop |-> ExpandDrop(class, block)]

-----------------------------------------------------------------------------
(* The property: a block that declares the symbol in hand.                   *)

ScalarNames == DOMAIN ScalarCode

RECURSIVE Writable(_), WrittenAs(_), Compounds(_), ClassesOf(_)

\* The C++ types a block can spell, and the Rust type that means each.
Writable(t) ==
    CASE t.k = "b" -> t.code \in {ScalarCode[n] : n \in ScalarNames}
      [] t.k = "N" -> Len(t.path) = 1 /\ t.path[1].args = <<>>
      [] t.k \in {"P", "R"} -> "V" \notin t.cv /\ Writable(t.to)
      [] OTHER -> FALSE

WrittenAs(t) ==
    CASE t.k = "b" -> [r |-> "path", name |-> CHOOSE n \in ScalarNames : ScalarCode[n] = t.code]
      [] t.k = "N" -> [r |-> "path", name |-> t.path[1].id]
      [] t.k \in {"P", "R"} -> [r |-> IF t.k = "P" THEN "ptr" ELSE "ref",
                                mut |-> t.cv = {}, to |-> WrittenAs(t.to)]

\* The pointers, references and qualified types in a type, and its classes.
Compounds(t) ==
    IF t.k \notin {"P", "R"} THEN {}
    ELSE {t} \cup Compounds(t.to) \cup (IF t.cv = {} THEN {} ELSE {QualKey(t.to, t.cv)})

ClassesOf(t) ==
    CASE t.k = "N" -> {t.path} [] t.k \in {"P", "R"} -> ClassesOf(t.to) [] OTHER -> {}

\* No compound type occurs twice, and a class that does is the enclosing one
\* or comes before every compound type.  Elsewhere the two tables differ: the
\* ABI gives compound types a place, MangleCtx does not.
OneTable(class, ps) ==
    \A i \in DOMAIN ps : \A j \in 1 .. i - 1 :
        /\ Compounds(ps[i]) \cap Compounds(ps[j]) = {}
        /\ \A c \in (ClassesOf(ps[i]) \cap ClassesOf(ps[j])) \ {class} :
             \A h \in 1 .. j : (\A g \in 1 .. h : c \notin ClassesOf(ps[g])) => Compounds(ps[h]) = {}

MacroSymbol(s) ==
    /\ \/ s.k = "method" /\ s.name.k = "id" /\ s.sig.cv \subseteq {"K"}
       \/ s.k = "ctor" /\ s.variant = "C1"
       \/ s.k = "dtor" /\ s.variant = "D1"
    /\ Len(s.class) = 1 /\ s.class[1].args = <<>>
    /\ s.k # "dtor" => ~s.sig.va /\ \A t \in ToSet(s.sig.params) : Writable(t)

ArgName == <<"a", "b", "c">>
Written(ps) ==
    [i \in DOMAIN ps |-> [name |-> ArgName[i], type |-> WrittenAs(ps[i])]]

\* The methods that declare a C++ member, by either kind of function.
Declarations(s) ==
    LET M(attrs, recv, name, ps) ==
            [attrs |-> attrs, recv |-> recv, name |-> name, params |-> Written(ps)]
    IN  CASE s.k = "ctor" -> {M({"ctor"}, "none", "new", s.sig.params)}
          [] s.k = "dtor" -> {M({"dtor"}, "mut", "gone", <<>>)}
          [] s.k = "method" /\ s.sig.cv = {"K"} -> {M({}, "ref", s.name.id, s.sig.params)}
          [] s.k = "method" /\ s.sig.cv = {} ->
               {M({}, recv, s.name.id, s.sig.params) : recv \in {"mut", "none"}}

Another == [attrs |-> {}, recv |-> "mut", name |-> "other",
            params |-> <<[name |-> "a", type |-> [r |-> "path", name |-> "B"]]>>]
Refused == [Another EXCEPT !.params[1].type = [r |-> "ptr", mut |-> TRUE, to |-> [r |-> "other"]]]

Blocks(d) == {<<d>>, <<Another, d>>, <<d, Another>>, <<d, Refused>>}

Called(x, name) == CHOOSE e \in ToSet(x.externs) : e.name = name

\* What the C++ function is given: this first, but for a static function.
Expected(d) ==
    (CASE MacroKind(d) = "Ctor" -> <<"slot">> [] MacroKind(d) = "Instance" -> <<This>>
       [] MacroKind(d) = "Static" -> <<>>) \o Names(d.params)

\* cxx_class! and native_cpp_class!: the wrapper of a method reaches the item
\* that links the C++ member's own symbol, with every argument at its place,
\* and Drop reaches the complete-object destructor once, declared or not,
\* whatever else is in the block.  The symbol is that of rustc_abi_cxx and of
\* the ABI's reader exactly where the two substitution tables agree: mangled_name
\* says that it "matches Clang", which holds no further than OneTable.
MacroLinks ==
    phase = "done" /\ MacroSymbol(symbol) =>
        \A d \in Declarations(symbol) : \A block \in Blocks(d) :
            LET class == symbol.class[1].id
            IN  /\ Expands(block) <=> Refused \notin ToSet(block)
                /\ Expands(block) =>
                     LET x == ExpandClass(class, block)
                         n == ExpandClassNative(class, block)
                         dtor == Called(x, x.drop)
                     IN  /\ dtor.link = DtorLink(class) /\ dtor \in ToSet(n.externs)
                         /\ Cardinality({e \in ToSet(x.externs) : e.link = DtorLink(class)}) = 1
                         /\ IF symbol.k = "dtor" THEN dtor.link = mangler.out
                            ELSE \E w \in ToSet(x.wrappers), v \in ToSet(n.wrappers) :
                                   /\ w.name = d.name /\ v.name = d.name
                                   /\ OneTable(symbol.class, symbol.sig.params)
                                        <=> Called(x, w.calls).link = mangler.out
                                   /\ w.passes = Expected(d)
                                   /\ Len(Called(x, w.calls).params) = Len(w.passes)
                                   /\ Len(Called(n, v.calls).params) = Len(v.passes)
                                   /\ v.passes = IF symbol.k = "ctor" THEN Names(d.params)
                                                 ELSE w.passes
=============================================================================
