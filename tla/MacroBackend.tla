----------------------------- MODULE MacroBackend -----------------------------
(***************************************************************************)
(* The two backends that write a class block for the macros instead of     *)
(* extern declarations: emit_cxx_class_macro and emit_native_macro of      *)
(* cxx_importer/src/rust_bindings.rs.  An imported class goes through      *)
(* render_class_block, then through ClassMacro; the only thing that ties   *)
(* the two to the C++ class is the symbol that comes out.                  *)
(*                                                                         *)
(* A MethodDef is [special, name, sig, virtual, static], with the          *)
(* signatures and types of Mangle; static is nothing the block knows.      *)
(***************************************************************************)
EXTENDS ClassMacro, TLC

CONSTANT Namespaces    \* the identifiers of paths that name namespaces

-----------------------------------------------------------------------------
(* render_rust_type *)

\* int_rust: i128 and u128 are no scalars of the macro.
IntRust == [n |-> "i128", o |-> "u128"]

\* The name of a class: its identifiers from the first class on, joined.
IdentOfClass(path) ==
    LET segs == SelectSeq(path, LAMBDA seg : seg.id \notin Namespaces)
        spelled(seg) == IF seg.args = <<>> THEN seg.id ELSE seg.id \o "_args"
    IN  IF Len(segs) > 1 /\ Last(path).args = <<>>
        THEN FoldLeft(LAMBDA name, seg : name \o "_" \o seg.id, segs[1].id, Tail(segs))
        ELSE spelled(Last(path))

IsEnum(t) == t.k = "N" /\ t.kind = "W4"
InClass(t) == \E i \in 1 .. Len(t.path) - 1 : t.path[i].id \notin Namespaces

\* An enum of a class is its integer (int, the "4" of W4), one of a namespace
\* its last identifier.
Leaf(t) ==
    CASE ~IsEnum(t) -> IdentOfClass(t.path)
      [] IsEnum(t) /\ InClass(t) -> "i32"
      [] IsEnum(t) /\ ~InClass(t) -> Last(t.path).id

RECURSIVE Renders(_), RenderRustType(_)

Renders(t) ==
    CASE t.k = "b" -> t.code \in {ScalarCode[n] : n \in DOMAIN ScalarCode} \cup DOMAIN IntRust
      [] t.k \in {"P", "R", "O"} -> Renders(t.to)
      [] t.k = "N" -> TRUE
      [] t.k = "F" -> Renders(t.ret) /\ \A p \in ToSet(t.params) : Renders(p)
      [] t.k = "M" -> t.to.k = "F"
      [] t.k = "A" -> FALSE

\* The bug: only a pointer to data becomes const.
RenderIndirectBug(t) ==
    [r |-> "ptr", mut |-> (t.k = "P" /\ t.to.k = "N") \/ "K" \notin t.cv, to |-> RenderRustType(t.to)]

\* A reference is rendered as the pointer to the same type.
RenderIndirect(t) ==
    [r |-> "ptr", mut |-> "K" \notin t.cv, to |-> RenderRustType(t.to)]

\* A function is Option<fn>, one path segment; a pointer to a member is a
\* path of two.
RenderRustType(t) ==
    CASE t.k = "b" /\ t.code = "v" -> [r |-> "unit"]
      [] t.k = "b" /\ t.code \in DOMAIN IntRust -> [r |-> "path", name |-> IntRust[t.code]]
      [] t.k = "b" /\ t.code \notin DOMAIN IntRust \cup {"v"} ->
           [r |-> "path", name |-> CHOOSE n \in DOMAIN ScalarCode : ScalarCode[n] = t.code]
      [] t.k = "P" /\ t.to.k = "F" -> RenderRustType(t.to)
      [] t.k \in {"R", "O"} \/ (t.k = "P" /\ t.to.k # "F") -> RenderIndirect(t)
      [] t.k = "N" -> [r |-> "path", name |-> Leaf(t)]
      [] t.k = "F" -> [r |-> "path", name |-> "Option"]
      [] t.k = "M" -> [r |-> "other"]

-----------------------------------------------------------------------------
(* render_method and render_class_block *)

BlockCtors == {"DefaultCtor", "OtherCtor"}

MethodRenders(m) ==
    /\ m.special \in BlockCtors \cup {"Dtor", "none"}
    /\ m.special = "none" => m.name.k = "id" /\ Renders(m.sig.ret)
    /\ \A t \in ToSet(m.sig.params) : Renders(t)

Receiver(m) ==
    IF m.special \in BlockCtors THEN "none"
    ELSE IF m.special # "Dtor" /\ "K" \in m.sig.cv THEN "ref" ELSE "mut"

RenderMethod(m) ==
    [attrs |-> IF m.special \in BlockCtors THEN {"ctor"}
               ELSE IF m.special = "Dtor" THEN {"dtor"} ELSE {},
     name |-> IF m.special \in BlockCtors THEN "new"
              ELSE IF m.special = "Dtor" THEN "drop" ELSE m.name.id,
     recv |-> Receiver(m),
     params |-> [i \in DOMAIN m.sig.params |->
                    [name |-> "arg" \o ToString(i - 1),
                     type |-> RenderRustType(m.sig.params[i])]]]

\* One method that cannot be rendered, or is virtual, and the whole set of
\* bindings is an error.
BlockRenders(methods) ==
    \A i \in DOMAIN methods : ~methods[i].virtual /\ MethodRenders(methods[i])

RenderClassBlock(methods) == [i \in DOMAIN methods |-> RenderMethod(methods[i])]

-----------------------------------------------------------------------------
(* The property *)

\* The MethodDefs whose symbol the mangler has spelled.
Members(s) ==
    LET Def(special, name, sig, virtual, static) ==
            [special |-> special, name |-> name, sig |-> sig, virtual |-> virtual,
             static |-> static]
        plain == [params |-> <<>>, ret |-> [k |-> "b", code |-> "v"], cv |-> {}, va |-> FALSE]
        None == [k |-> "id", id |-> "none"]
    IN  CASE s.k = "ctor" /\ s.variant = "C1" ->
               {Def(special, None, s.sig, FALSE, FALSE) : special \in BlockCtors \cup {"CopyCtor"}}
          [] s.k = "dtor" /\ s.variant = "D1" -> {Def("Dtor", None, plain, s.virtual, FALSE)}
          [] s.k = "method" ->
               {Def("none", s.name, s.sig, s.virtual, static) :
                    static \in IF s.sig.cv = {} THEN BOOLEAN ELSE {FALSE}}
          [] OTHER -> {}

RECURSIVE SameSpelling(_)

\* The types whose spelling survives: scalars, classes and enums at global
\* scope, pointers to them.
SameSpelling(t) ==
    CASE t.k = "b" -> t.code \notin DOMAIN IntRust
      [] t.k = "N" -> Len(t.path) = 1 /\ t.path[1].args = <<>>
      [] t.k = "P" -> t.to.k # "F" /\ "V" \notin t.cv /\ SameSpelling(t.to)
      [] OTHER -> FALSE

BlockExact(s) ==
    /\ Len(s.class) = 1 /\ s.class[1].args = <<>>
    /\ s.k # "dtor" =>
          /\ "V" \notin s.sig.cv /\ ~s.sig.va
          /\ \A t \in ToSet(s.sig.params) : SameSpelling(t)
          /\ OneTable(s.class, s.sig.params)

\* CxxClassMacro and NativeCppClassMacro: a member of an imported class that
\* gets through the block and the macro links to its own C++ symbol exactly
\* when its class is at global scope and its parameters are scalars, classes
\* at global scope and pointers to them.  A reference becomes a pointer and a
\* function pointer a class called Option, so those link to names nobody
\* defines, without an error of either step.  The item takes what the C++
\* function takes, unless that is static.
BlockLinks ==
    phase = "done" =>
        \A m \in Members(symbol) :
            LET class == IdentOfClass(symbol.class)
                block == RenderClassBlock(<<m>>)
                x == ExpandClass(class, block)
                native == ExpandClassNative(class, block)
                item == Called(x, <<class, block[1].name>>)
                own == Called(native, <<class, block[1].name>>)
            IN  BlockRenders(<<m>>) /\ Expands(block) =>
                   /\ item.link = mangler.out <=> BlockExact(symbol)
                   /\ m.special \notin BlockCtors => own.link = item.link
                   /\ m.special = "none" =>
                        ((This \in ToSet(item.params)) <=> ~m.static)
                          \/ (m.static /\ Len(item.params) = Len(m.sig.params) + 1)

\* Every route from a macro block to a C++ symbol: the block a user writes and
\* the one the generator writes link where, and only where, the encodings of
\* the macro and of the ABI are the same.
MacrosLink == MacroLinks /\ BlockLinks
=============================================================================
