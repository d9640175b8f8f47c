------------------------------- MODULE MCBindings -------------------------------
(* Small instances of the emitters for TLC.                                  *)
EXTENDS HeaderScopes

Type(rust, cpp, shape) == [rustOk |-> TRUE, cppOk |-> TRUE, rust |-> rust, cpp |-> cpp,
                           rec |-> FALSE, i64 |-> FALSE, commas |-> 0, shape |-> shape]
Bits(n) == (WordBits * n) \div 64
Pointer(const, to) == [is |-> "ptr", const |-> const, to |-> to]
Void == Type(<<>>, <<"void">>, [is |-> "void"])
Int32 == Type(<<"i32">>, <<"int">>, IntType(TRUE, Bits(32)))
Int32Ptr == Type(<<"mut", "i32">>, <<"int">>, Pointer(FALSE, "i32"))
Long == [Type(<<"i64">>, <<"long">>, IntType(TRUE, Bits(64))) EXCEPT !.i64 = TRUE]
Rec == [Type(<<"rec">>, <<"rec">>, [is |-> "record"]) EXCEPT !.rec = TRUE]
MemberFn == [Type(<<"member">>, <<>>, [is |-> "member"]) EXCEPT !.cppOk = FALSE]
LongDouble == [Type(<<>>, <<"long double">>, [is |-> "float", kind |-> "long double"])
                 EXCEPT !.rustOk = FALSE]

Plain == [special |-> "none", named |-> "ident", name |-> <<"f">>, alias |-> <<>>,
          params |-> <<>>, ret |-> Void, public |-> TRUE, virtual |-> FALSE, slot |-> FALSE,
          static |-> FALSE, inline |-> TRUE, throws |-> FALSE, const |-> FALSE,
          defaults |-> <<>>]
Taking(t) == [Plain EXCEPT !.params = <<t>>]
Special(s) == [Plain EXCEPT !.special = s, !.name = <<>>]
Named(n) == [Plain EXCEPT !.name = n]
Dtor == Special("Dtor")
VirtualDtorMethod == [Dtor EXCEPT !.virtual = TRUE, !.slot = TRUE]

Members ==
  {Plain, [Plain EXCEPT !.inline = FALSE], Taking(Int32), Taking(Int32Ptr), Taking(Rec),
   Taking(MemberFn), Taking(LongDouble), [Plain EXCEPT !.static = TRUE],
   [Plain EXCEPT !.virtual = TRUE, !.slot = TRUE], [Plain EXCEPT !.virtual = TRUE],
   [Taking(Int32) EXCEPT !.public = FALSE],
   Named(<<"f", "i32">>), Named(<<"dtor">>), [Named(<<"g">>) EXCEPT !.alias = <<"f">>],
   [Named(<<"h">>) EXCEPT !.throws = TRUE], [Named(<<"add">>) EXCEPT !.named = "operator"],
   [Named(<<"to">>) EXCEPT !.named = "conversion"],
   Special("DefaultCtor"), [Special("OtherCtor") EXCEPT !.params = <<LongDouble>>],
   [Special("OtherCtor") EXCEPT !.params = <<MemberFn>>], Special("CopyCtor"),
   Special("MoveAssign"), Dtor, [Dtor EXCEPT !.public = FALSE]}
Class0 == [path |-> <<"C">>, alias |-> <<>>, skip |-> FALSE, poisoned |-> FALSE,
           abstract |-> FALSE, listed |-> TRUE, bases |-> <<>>, methods |-> <<>>]
Path(i) == <<<<"A">>, <<"B">>, <<"C">>, <<"D">>>>[i]
Base(i, v) == [class |-> i, virt |-> v]
Program(cs, fs) == [classes |-> cs, fns |-> fs, enums |-> <<>>, flatten |-> TRUE,
                    heap |-> TRUE, native |-> FALSE, cstr |-> FALSE, headers |-> NoHeaders]

(* One class with every two or some three members.                           *)
OneClass ==
  {Program(<<[Class0 EXCEPT !.methods = ms]>>, <<>>) : ms \in
     [1 .. 2 -> Members] \cup ({Plain, Taking(Int32), Taking(Int32Ptr)} \X
        {Named(<<"f", "i32">>), Taking(Int32), Special("CopyCtor")} \X {Taking(Rec), Dtor, Taking(Int32)})}

(* Free functions, two of one name or of two.                                *)
Function == [ns |-> "n", name |-> <<"p">>, params |-> <<>>, ret |-> Void, inline |-> TRUE,
             variadic |-> FALSE, throws |-> FALSE, skip |-> FALSE]
Functions ==
  {Function, [Function EXCEPT !.params = <<Long>>], [Function EXCEPT !.ret = Rec],
   [Function EXCEPT !.variadic = TRUE], [Function EXCEPT !.params = <<LongDouble>>],
   [Function EXCEPT !.ret = MemberFn], [Function EXCEPT !.skip = TRUE],
   [Function EXCEPT !.name = <<"q">>, !.throws = TRUE], [Function EXCEPT !.name = <<"q">>]}
TwoFns == {[Program(<<>>, <<f, g>>) EXCEPT !.native = n] :
             f, g \in Functions, n \in BOOLEAN}

(* Diamonds and chains of classes whose methods hide one another.            *)
Shapes == {<<<<>>, <<Base(1, FALSE)>>, <<Base(2, FALSE)>>>>,
           <<<<>>, <<>>, <<Base(1, FALSE), Base(2, FALSE)>>>>,
           <<<<>>, <<Base(1, FALSE)>>, <<Base(1, FALSE), Base(2, FALSE)>>>>,
           <<<<>>, <<Base(1, TRUE)>>, <<Base(2, FALSE)>>>>,
           <<<<>>, <<Base(1, FALSE)>>, <<Base(1, FALSE)>>, <<Base(2, FALSE), Base(3, FALSE)>>>>}
Small == {<<>>, <<Plain>>, <<Named(<<"g">>)>>, <<Plain, Named(<<"as", "A">>)>>,
          <<[Plain EXCEPT !.virtual = TRUE, !.slot = TRUE]>>, <<Dtor>>, <<VirtualDtorMethod>>}
Hierarchy(shape, ms, hidden) ==
  Program([i \in DOMAIN shape |->
             [Class0 EXCEPT !.path = Path(i), !.bases = shape[i], !.methods = ms[i],
                            !.poisoned = (i = hidden)]], <<>>)
(* Below a virtual destructor one is virtual.                                *)
DtorsAgree(p) == \A c \in DOMAIN p.classes : \A b \in Range(p.classes[c].bases) :
  VirtualDtorMethod \in Range(p.classes[b.class].methods)
  => Dtor \notin Range(p.classes[c].methods)
Hierarchies ==
  {p \in {Hierarchy(s, ms, h) : s \in {t \in Shapes : Len(t) = 3}, ms \in [1 .. 3 -> Small],
                                h \in {0, 2}}
         \cup {Hierarchy(s, ms, 0) : s \in {t \in Shapes : Len(t) = 4},
                 ms \in [1 .. 4 -> {<<>>, <<Plain>>, <<Named(<<"g">>)>>}]} : DtorsAgree(p)}
(* Classes that are skipped, renamed, nested or abstract, next to another of *)
(* the same last name.                                                       *)
Marked ==
  {Program(<<[Class0 EXCEPT !.skip = s, !.abstract = a, !.alias = n, !.methods = ms],
             [Class0 EXCEPT !.path = <<"O", "C">>, !.methods = ms, !.bases = <<Base(1, FALSE)>>]>>,
           <<>>) :
     s, a \in BOOLEAN, n \in {<<>>, <<"N">>},
     ms \in {<<Special("DefaultCtor"), VirtualDtorMethod>>,
             <<[Plain EXCEPT !.throws = TRUE], [Taking(Int32) EXCEPT !.throws = TRUE]>>}}

(* One parameter of every type with every default at the edges of the widths. *)
CharPtr == Type(<<"const", "i8">>, <<"char">>, Pointer(TRUE, "byte"))
Callback == [Type(<<"fn">>, <<"fn">>, Pointer(FALSE, "fn")) EXCEPT !.commas = 1]
EnumType(scoped, scope, named, under) ==
  [is |-> "enum", scoped |-> scoped, scope |-> scope, named |-> named, under |-> under]
Plainly(name, shape) == Type(<<name>>, <<name>>, shape)
Integers == {Plainly("int", IntType(s, Bits(n))) : s \in BOOLEAN, n \in {8, 16, 32, 64, 128}}
EnumTypes == {Plainly("enum", EnumType(s, w, n, IntType(g, Bits(8)))) :
            s, n, g \in BOOLEAN, w \in {"class", "namespace"}}
         \cup {Plainly("enum", EnumType(FALSE, w, n, [is |-> "bool"])) :
                 w \in {"class", "namespace"}, n \in BOOLEAN}
Others == {Plainly("bool", [is |-> "bool"]), Plainly("f64", [is |-> "float", kind |-> "f64"]),
           CharPtr, Int32Ptr, Callback, Rec, MemberFn, Plainly("ref", [is |-> "ref"])}
Edges == {0, 1, Pow2(Bits(8) - 1), Pow2(Bits(8)), Pow2(Bits(16) - 1), Pow2(Bits(32)) - 1,
          Pow2(Bits(32)), Pow2(WordBits - 1) - 1}
Carriers ==
  {Unevaluated, [as |-> "Float", v |-> 1], [as |-> "Infinite", v |-> 0]}
  \cup [as : {"Int"}, v : Edges \cup {-e : e \in Edges} \cup {-Pow2(WordBits - 1)}]
  \cup [as : {"UInt"}, v : Edges \cup {Pow2(WordBits - 1), Pow2(WordBits) - 1}]
Alone(m) == Program(<<[Class0 EXCEPT !.methods = <<m>>]>>, <<>>)
OneDefault ==
  {Alone([Taking(t) EXCEPT !.defaults = <<v>>]) : t \in Integers \cup EnumTypes \cup Others, v \in Carriers}

(* Up to three parameters, of which the last have defaults, for every kind of *)
(* method, with string helpers.                                              *)
Evaluated(j) == [as |-> "Int", v |-> j]
DefaultRuns(n) ==
  UNION {{[j \in 1 .. d |-> Unevaluated], [j \in 1 .. d |-> Evaluated(j)],
          [j \in 1 .. d |-> IF j = 1 THEN Unevaluated ELSE Evaluated(j)]} : d \in 0 .. n}
Kinds ==
  {Plain, [Plain EXCEPT !.ret = Int32], [Plain EXCEPT !.const = TRUE, !.throws = TRUE],
   [Plain EXCEPT !.throws = TRUE, !.ret = Int32], [Plain EXCEPT !.static = TRUE],
   [Plain EXCEPT !.virtual = TRUE, !.slot = TRUE, !.ret = Int32],
   Special("OtherCtor"), [Special("OtherCtor") EXCEPT !.throws = TRUE]}
ManyDefaults ==
  {[Alone([m EXCEPT !.params = ps, !.defaults = ds]) EXCEPT !.cstr = TRUE] :
     m \in Kinds, ds \in DefaultRuns(3),
     ps \in UNION {[1 .. n -> {Int32, CharPtr, Plainly("E", EnumType(FALSE, "namespace", TRUE,
                                                     IntType(TRUE, Bits(32))))}] : n \in 2 .. 3}}
Fits(p) == \A m \in Range(p.classes[1].methods) : Len(m.defaults) <= Len(m.params)

(* Enums of every shape.                                                         *)
EnumPrograms ==
  {[Program(<<>>, <<>>) EXCEPT !.enums =
      <<[name |-> n, scoped |-> s, under |-> t, values |-> vs]>>] :
     n \in {<<>>, <<"E">>}, s \in BOOLEAN,
     t \in {[is |-> "bool"]} \cup {IntType(g, Bits(b)) : g \in BOOLEAN, b \in {16, 64}},
     vs \in {<<0, 1>>, <<1, 1>>, <<0, -1>>, <<Pow2(WordBits) - 1, 0>>, <<1, Pow2(Bits(16)) - 1>>}}

(* Headers: declarations of every kind, in the global namespace and in n, of *)
(* user and system headers, in one root or two.                              *)
Decl(kind, name) ==
  [kind |-> kind, name |-> <<name>>, ns |-> <<>>, cls |-> <<>>, def |-> TRUE, system |-> FALSE,
   ok |-> TRUE, skip |-> FALSE, inline |-> FALSE, to |-> NoType, members |-> <<>>,
   methods |-> <<>>, values |-> <<>>, sig |-> Function]
InN(d) == [d EXCEPT !.ns = <<"n">>]
Of(d, type) == [d EXCEPT !.to = Usr(type)]
InX(d) == [d EXCEPT !.cls = <<"X">>]
X == Decl("class", "X")
Y == InX(Decl("class", "Y"))
E == Decl("enum", "E")
Unnamed == [Decl("enum", "E") EXCEPT !.name = <<>>, !.values = <<"V">>]
ClassDecls ==
  {X, InN(X), [X EXCEPT !.system = TRUE, !.methods = <<Plain>>],
   [X EXCEPT !.methods = <<Plain, Special("DefaultCtor")>>], [X EXCEPT !.skip = TRUE],
   [X EXCEPT !.members = <<Y>>], [X EXCEPT !.members = <<[Y EXCEPT !.def = FALSE]>>],
   [X EXCEPT !.members = <<[Y EXCEPT !.methods = <<Special("DefaultCtor")>>]>>],
   [X EXCEPT !.members = <<InX(E), InX(Unnamed), InX(Decl("alias", "Y")), InX(Decl("var", "v"))>>],
   [X EXCEPT !.members = <<Y, Of(InX(Decl("alias", "Y")), Y), Of(InX(Decl("var", "v")), E)>>]}
OtherDecls ==
  {E, [E EXCEPT !.def = FALSE], [E EXCEPT !.system = TRUE], InN(E), Unnamed,
   Of(Decl("alias", "A"), X), Of(Decl("alias", "X"), X), Of(InN(Decl("alias", "X")), X),
   Of(Decl("alias", "A"), E), [Decl("alias", "A") EXCEPT !.ok = FALSE],
   Of(Decl("fn", "f"), X), Of(InN(Decl("fn", "f")), X), Of(InN(Decl("fn", "f")), InN(X)),
   Of(Decl("fn", "g"), Y), Of(Decl("fn", "f"), E), Of(Decl("fn", "f"), InX(E)),
   Decl("fn", "h"), [Decl("fn", "h") EXCEPT !.inline = TRUE],
   [Decl("fn", "h") EXCEPT !.system = TRUE], Decl("fn", "operator"),
   Decl("var", "v"), InN(Decl("var", "v")), Of(Decl("var", "w"), E), Of(InN(Decl("var", "w")), InN(X)),
   Decl("macro", "M"), [X EXCEPT !.def = FALSE], InN([X EXCEPT !.def = FALSE]), InN(X)}
AnyDecls == ClassDecls \cup OtherDecls
Roots ==
  {<<<<a, b>>>> : a, b \in AnyDecls} \cup {<<<<a>>, <<b>>>> : a, b \in AnyDecls}
  \cup {<<<<a, b>>, <<a, b>>>> : a, b \in AnyDecls}
  \cup {<<<<c, a, b>>>> : c \in ClassDecls \ OtherDecls, a, b \in OtherDecls}

(* What C++ accepts: one meaning of a name in a scope, save a typedef of the *)
(* class of that name, one definition, and nothing used undeclared.          *)
Legal(h) ==
  LET all == UNION {Visible(tu) : tu \in Units(h)}
      Typedef(d, e) == d.kind = "alias" /\ d.to = Usr(e)
      Same(d, e) == Usr(d) = Usr(e) =>
        /\ d.system = e.system /\ d.to = e.to
        /\ d.def /\ e.def => [d EXCEPT !.inline = TRUE] = [e EXCEPT !.inline = TRUE]
      Inline(tu, id) == \E d \in Range(tu) : Usr(d) = id /\ d.inline
      OneDefinition(tu) == \A i, j \in DOMAIN tu :
        i < j /\ tu[i].kind \in {"class", "enum"} /\ tu[i].def /\ tu[j].def
        => Usr(tu[i]) # Usr(tu[j])
      Declared(tu) == {d.to : d \in Visible(tu)} \subseteq {NoType} \cup {Usr(d) : d \in Visible(tu)}
  IN /\ \A tu \in Units(h) : Declared(tu) /\ OneDefinition(tu)
     /\ \A d, e \in all :
          /\ d.name = e.name /\ d.name # <<>> /\ d.ns = e.ns /\ d.cls = e.cls
             => d.kind = e.kind \/ Typedef(d, e) \/ Typedef(e, d)
          /\ Same(d, e)
     /\ \A r, s \in Range(h.roots) : \A id \in {Usr(d) : d \in Range(r)} \cap {Usr(d) : d \in Range(s)} :
          Inline(r, id) = Inline(s, id)
FromHeaders(h) ==
  [Program(ClassRecords(h), FnRecords(h)) EXCEPT !.headers = h]
Specialized == [Decl("class", "V") EXCEPT !.name = <<"V", "i32">>, !.methods = <<Plain>>]
HeaderPrograms ==
  {FromHeaders(h) : h \in
     {g \in [roots : Roots, synth : {<<>>}]
            \cup [roots : {r \in Roots : Len(r[1]) = 1}, synth : {<<Specialized>>}] : Legal(g)}}

MCPrograms ==
  {p \in OneClass \cup TwoFns \cup Hierarchies \cup Marked \cup OneDefault
        \cup HeaderPrograms \cup {q \in ManyDefaults : Fits(q)} \cup EnumPrograms : WellFormed(p) /\ ConstantsOk(p)}
=============================================================================
