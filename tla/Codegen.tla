------------------------------- MODULE Codegen -------------------------------
(***************************************************************************)
(* Call lowering, rustcc_codegen/src/lib.rs: which symbol a call by name   *)
(* reaches and which slots are passed, over the classes that ItaniumLayout *)
(* has laid out.                                                           *)
(*                                                                         *)
(* A MethodDef is [name, special, virtual, static, ret, params]; params is *)
(* the number of formals, and lowering never sees static: the entry point  *)
(* the caller picks says it.  A name is [k |-> "id", id] or                *)
(* [k |-> "op"]; a return type is [k |-> "scalar"], [k |-> "record",       *)
(* class], or [k |-> "array"] for all that no function returns.            *)
(***************************************************************************)
EXTENDS ItaniumLayout

CONSTANTS
  Names,       \* identifiers of methods
  Overloads    \* lists of methods, whose return type is filled in

Ctors == {"DefaultCtor", "OtherCtor", "CopyCtor", "MoveCtor"}

Method ==
  [name: {[k |-> "op"]} \cup [k: {"id"}, id: Names], special: Ctors \cup {"Dtor", "none"},
   virtual: BOOLEAN, static: BOOLEAN, ret: {[k |-> "scalar"]}, params: Nat]

\* Constructors and destructors share their names with no other method and are
\* never static; overloads of one name are called the same way, through the
\* object or not, for lowering resolves a name without looking at the caller's
\* entry point; an operator in the list is a free function.
Callable(list) ==
    /\ list \in Seq(Method)
    /\ \A i \in DOMAIN list :
         LET m == list[i]
         IN  /\ m.special # "none" => ~m.static
             /\ m.name.k = "op" => ~m.virtual /\ m.special = "none"
             /\ \A j \in DOMAIN list : list[j].name = m.name =>
                  /\ list[j].static = m.static
                  /\ list[j].special \in Ctors <=> m.special \in Ctors

ASSUME OverloadsAssumption == \A list \in Overloads : Callable(list)

-----------------------------------------------------------------------------
(* classify_return: two words at most, and POD for layout, which stands for  *)
(* trivially copyable.                                                       *)

ByValue == [k |-> "ByValue"]
Sret(sz, al) == [k |-> "Sret", size |-> sz, align |-> al]
Err(e) == [k |-> "Err", error |-> e]

\* The bug: whatever is small enough comes back in registers.
ClassifyReturnBug(ret) ==
    CASE ret.k = "scalar" -> ByValue
      [] ret.k = "array" -> Sret(0, 8)
      [] ret.k = "record" -> LET l == classes[ret.class]
                             IN  IF ~l.ok THEN Err("Layout")
                                 ELSE IF l.size <= 16 THEN ByValue ELSE Sret(l.size, l.align)

ClassifyReturn(ret) ==
    CASE ret.k = "scalar" -> ByValue
      [] ret.k = "array" -> Sret(0, 8)
      [] ret.k = "record" ->
           LET l == classes[ret.class]
           IN  IF ~l.ok THEN Err("Layout")
               ELSE IF l.size <= 16 /\ l.pod THEN ByValue ELSE Sret(l.size, l.align)

-----------------------------------------------------------------------------
(* resolve_or_err and method_symbol_for: the first method of that name.      *)

Named(methods, id) == {i \in DOMAIN methods : methods[i].name = [k |-> "id", id |-> id]}
Resolved(methods, id) ==
    methods[CHOOSE i \in Named(methods, id) : \A j \in Named(methods, id) : i <= j]

MethodSymbol(m) ==
    CASE m.special \in Ctors -> [k |-> "C1", of |-> m]
      [] m.special = "Dtor" -> [k |-> "D1"]
      [] m.special \notin Ctors \cup {"Dtor"} -> [k |-> "method", of |-> m]

Formals(n) == [i \in 1 .. n |-> i]

\* [sret?, this?, formals], unless the return type has no layout.
LoweredCall(symbol, conv, this, n) ==
    IF conv.k = "Err" THEN conv
    ELSE [k |-> "call", symbol |-> symbol, ret |-> conv,
          argv |-> (IF conv.k = "Sret" THEN <<"sret">> ELSE << >>) \o this \o Formals(n)]

\* lower_method_call and lower_static_call.
LowerNamed(methods, id, this) ==
    IF Named(methods, id) = {} THEN Err("MethodNotFound")
    ELSE LET m == Resolved(methods, id)
         IN  IF m.virtual THEN Err("UnsupportedVirtual")
             ELSE LoweredCall(MethodSymbol(m), ClassifyReturn(m.ret), this, m.params)

LowerMethodCall(methods, id) == LowerNamed(methods, id, <<"this">>)
LowerStaticCall(methods, id) == LowerNamed(methods, id, << >>)

LowerCtorCall(methods, id) ==
    IF Named(methods, id) = {} THEN Err("MethodNotFound")
    ELSE LET m == Resolved(methods, id)
         IN  IF m.special \notin Ctors THEN Err("NotACtor")
             ELSE LoweredCall(MethodSymbol(m), ByValue, <<"this">>, m.params)

LowerDtorCall == LoweredCall([k |-> "D1"], ByValue, <<"this">>, 0)

\* The function itself names its symbol.
LowerFreeFnCall(f) ==
    LoweredCall([k |-> "function", of |-> f], ClassifyReturn(f.ret), << >>, f.params)

-----------------------------------------------------------------------------
(* The property *)

\* The classes a value of class c is made of; PartsOf leaves out the elements
\* of arrays.
Records(c, len) ==
    {ctx[c].fields[i].rec : i \in {j \in DOMAIN ctx[c].fields :
                                     ctx[c].fields[j].rec # 0 /\ ctx[c].fields[j].len \in len}}
AllParts[c \in 1 .. Len(ctx)] ==
    {c} \cup (UNION {AllParts[ctx[c].bases[i].class] : i \in DOMAIN ctx[c].bases})
        \cup (UNION {AllParts[r] : r \in Records(c, Nat)})
PartsOf[c \in 1 .. Len(ctx)] ==
    {c} \cup (UNION {PartsOf[ctx[c].bases[i].class] : i \in DOMAIN ctx[c].bases})
        \cup (UNION {PartsOf[r] : r \in Records(c, {1})})

\* The rule of the Itanium C++ ABI, written from the ABI and not from the code:
\* a class is trivial for the purposes of calls unless the copy constructor, the
\* move constructor or the destructor of something it is made of is not trivial.
CopiedPlainly(d) ==
    d.special # "nontrivial" /\ ~d.poly /\ \A i \in DOMAIN d.bases : ~d.bases[i].virt
TrivialForCalls(c) == \A d \in AllParts[c] : CopiedPlainly(ctx[d])

\* The object a function returns is built in memory its caller provides when it
\* is not trivial, or does not fit two registers.
InMemory(ret) ==
    ret.k = "record" /\ (classes[ret.class].size > 16 \/ ~TrivialForCalls(ret.class))

\* What disqualifies a class for the code although it stays trivial: a special
\* member of any sort, or a reference.
Declares(d) == d.special = "trivial" \/ \E i \in DOMAIN d.fields : d.fields[i].ref

\* The declarations of a small class show how it is returned: those of a trivial
\* one have nothing of the sort, and some part of another has, or is seen not to be
\* trivial, without a look into arrays.
Apparent(c) ==
    IF TrivialForCalls(c)
    THEN \A d \in PartsOf[c] : ~Declares(ctx[d])
    ELSE \E d \in PartsOf[c] : ~CopiedPlainly(ctx[d]) \/ Declares(ctx[d])
Shown(ret) == ret.k = "record" => classes[ret.class].size > 16 \/ Apparent(ret.class)

\* AMD64 puts a small class with unaligned members in memory, a rule the code
\* does not have and InMemory leaves out.
Unaligned(ret) ==
    /\ ret.k = "record" /\ classes[ret.class].size <= 16
    /\ \E d \in AllParts[ret.class] : ctx[d].packed

\* The argument slots of the function behind a symbol: the hidden slot comes
\* before this, this before the parameters.
Frame(m, hidden) ==
    (IF hidden THEN <<"sret">> ELSE << >>) \o (IF m.static THEN << >> ELSE <<"this">>)
        \o Formals(m.params)

Rets == {[k |-> "scalar"]} \cup {[k |-> "record", class |-> c] : c \in ClassIds}
Returning(methods, ret) ==
    [i \in DOMAIN methods |->
        [methods[i] EXCEPT !.ret = IF methods[i].special = "none" THEN ret ELSE @]]

\* What a call passes agrees with the function m behind its symbol, which
\* returns ret; a constructor and a destructor return nothing, and a class
\* without a layout is never returned.
FitsCall(ret, call, m) ==
    IF ret.k = "record" /\ m.special = "none" /\ ~classes[ret.class].ok
    THEN call = Err("Layout")
    ELSE /\ call.argv = Frame(m, call.ret.k = "Sret")
         /\ m.special # "none" => call.ret.k # "Sret"
         /\ m.special = "none" /\ ~Unaligned(ret) =>
              ((call.ret.k = "Sret" <=> InMemory(ret)) <=> Shown(ret))
         /\ call.ret.k = "Sret" =>
              /\ call.ret.size = classes[ret.class].size
              /\ call.ret.size % call.ret.align = 0
         /\ call.symbol.k = "method" => ~m.virtual /\ m.name.k = "id"

\* The call a caller makes of method m, and the method it reaches.
Lowered(methods, m) ==
    IF m.name.k # "id" THEN LowerFreeFnCall(m)
    ELSE IF m.special \in Ctors THEN LowerCtorCall(methods, m.name.id)
    ELSE IF m.static THEN LowerStaticCall(methods, m.name.id)
    ELSE LowerMethodCall(methods, m.name.id)

Reached(methods, m) ==
    IF m.name.k # "id" THEN [m EXCEPT !.static = TRUE] ELSE Resolved(methods, m.name.id)

LoweredFits(ret, methods, m) ==
    LET call == Lowered(methods, m)
        first == Reached(methods, m)
    IN  /\ (call.k = "Err" /\ call.error # "Layout") <=> first.virtual /\ m.special \notin Ctors
        /\ first.virtual \/ FitsCall(ret, call, first)

\* lower_*_call: what is passed agrees with the C++ function behind the symbol.
\* The hidden slot is passed as the ABI has the callee expect it for every class
\* of more than two registers and every smaller one whose declarations show which
\* it is, whatever its bases and members at any depth, and for no other class:
\* against the comment on classify_return, one that is trivial to copy but
\* declares a special member is passed a slot its callee does not expect, and one
\* with nothing but an array of classes to destroy is passed none.  The slot has
\* the size and the alignment of the class laid out, and precedes this; an
\* operator or a virtual method is never reached by a name, and a class without
\* a layout is never returned.  The caller is trusted to say what is static.
LoweredCallsFit ==
    phase = "idle" /\ Len(classes) = Len(ctx) =>
        /\ LowerDtorCall.argv = <<"this">>
        /\ \A ret \in Rets : \A list \in Overloads :
             LET methods == Returning(list, ret)
             IN  \A i \in DOMAIN methods : LoweredFits(ret, methods, methods[i])
=============================================================================
