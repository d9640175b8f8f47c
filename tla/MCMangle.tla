------------------------------ MODULE MCMangle ------------------------------
(***************************************************************************)
(* Functions, methods, constructors and special symbols over classes at    *)
(* three depths of one namespace, with every list of up to two parameter   *)
(* types, functions of three, and lists longer than the tables of          *)
(* MSVC's back-references.                                                 *)
(***************************************************************************)
EXTENDS ItaniumNames, MsvcMangle, MacroBackend

B(code) == [k |-> "b", code |-> code]
Ptr(t, cv) == [k |-> "P", to |-> t, cv |-> cv]
Ref(t, cv) == [k |-> "R", to |-> t, cv |-> cv]
Rval(t) == [k |-> "O", to |-> t, cv |-> {}]
Arr(n, t) == [k |-> "A", len |-> n, of |-> t]
Named(path, kind) == [k |-> "N", path |-> path, kind |-> kind]
Fn(ret, params) ==
    [k |-> "F", ret |-> ret, params |-> params, va |-> FALSE, cv |-> {}]
ConstFn(ret, params) == [Fn(ret, params) EXCEPT !.cv = {"K"}]
Mem(class, to) == [k |-> "M", class |-> class, to |-> to]

S(id) == NoArgs(id)
N == <<S("N")>>
A == <<S("A")>>
NB == <<S("N"), S("B")>>
NBA == <<S("N"), S("B"), S("A")>>
I32 == B("i")
TA == Named(A, "U")
TB == Named(NB, "V")
TC == Named(NBA, "T")
TE == Named(<<S("N"), S("E")>>, "W4")
Spec1 == <<[id |-> "T", args |-> <<[k |-> "type", type |-> TB],
                                   [k |-> "int", type |-> I32, value |-> 3]>>]>>
Spec2 == <<S("N"), [id |-> "U", args |-> <<[k |-> "tmpl", path |-> A]>>]>>

Types == {I32, TA, TB, TC, TE, Ptr(I32, {}), Ptr(I32, {"K"}), Ptr(TA, {"K"}),
          Ptr(TA, {"K", "V"}), Ref(TB, {"K"}), Ref(TA, {}), Rval(TA),
          Ptr(Ptr(TA, {"K"}), {}), Ptr(Arr(2, TA), {}),
          Ptr(Fn(I32, <<TA>>), {}), Ptr(Fn(I32, <<>>), {})}

Sig(params) == [params |-> params, ret |-> I32, cv |-> {}, va |-> FALSE]
RetSig(params, ret) == [Sig(params) EXCEPT !.ret = ret]
CvSig(params, cv) == [Sig(params) EXCEPT !.cv = cv]
VaSig(params) == [Sig(params) EXCEPT !.va = TRUE]

Pairs == {<<>>} \cup {<<t>> : t \in Types} \cup {<<t, u>> : t, u \in Types}
Triples == {<<t, u, v>> : t, u, v \in Types}

RECURSIVE Deep(_, _)
Deep(n, t) == IF n = 0 THEN t ELSE Ptr(Deep(n - 1, t), {})
\* Eleven types, the last of which does not fit in the table, then again.
Long(last) == [i \in 1..11 |-> Deep(12 - i, TA)] \o <<last>>
KName == <<"K1", "K2", "K3", "K4", "K5", "K6", "K7", "K8", "K9", "K10", "K11">>
ManyNames(last) ==
    [i \in 1..11 |-> Named(<<S("N"), S(KName[i])>>, "V")] \o <<last>>

\* What the macros can spell: classes named by one identifier, and the scalars.
TD == Named(<<S("D")>>, "V")
MacroTypes == {I32, TA, TD, Ptr(TA, {}), Ptr(TD, {"K"}), Ref(TD, {"K"}), Ptr(I32, {"K"})}
Scalars == {"a", "h", "s", "t", "j", "x", "y", "f", "d", "b", "n", "o"}
TAE == Named(<<S("A"), S("E")>>, "W4")

Single == {Ptr(Arr(3, I32), {"K"}), Named(Spec1, "V"), Named(Spec2, "U"),
           Ptr(Named(Spec1, "V"), {}), Mem(A, I32), Mem(NB, Ptr(TA, {})),
           Mem(NB, ConstFn(TA, <<TA>>))}

FnSym(scope, sig) == [k |-> "fn", scope |-> scope, id |-> "f", sig |-> sig]
MethodSym(class, name, sig, virtual) ==
    [k |-> "method", class |-> class, name |-> name, sig |-> sig, virtual |-> virtual]
CtorSym(class, variant, ps) ==
    [k |-> "ctor", class |-> class, variant |-> variant, sig |-> Sig(ps)]

Id(n) == [k |-> "id", id |-> n]
Op(o) == [k |-> "op", op |-> o]
Conv(t) == [k |-> "conv", to |-> t]

MCSymbols ==
    {FnSym(scope, Sig(ps)) : scope \in {<<>>, N, NB}, ps \in Pairs}
    \cup {FnSym(N, Sig(ps)) : ps \in Triples}
    \cup {FnSym(N, VaSig(ps)) : ps \in {<<>>} \cup {<<t, t>> : t \in Types}}
    \cup {FnSym(<<>>, Sig(<<t>>)) : t \in Single}
    \cup {FnSym(N, RetSig(<<t, t>>, t)) : t \in {TB, TE, Ptr(TA, {})}}
    \cup {FnSym(N, Sig(Long(last))) : last \in {Deep(1, TA), Deep(2, TA), Deep(11, TA)}}
    \cup {FnSym(N, Sig(ManyNames(last))) :
             last \in {Named(<<S("N"), S(KName[i])>>, "V") : i \in {1, 9, 10, 11}}}
    \cup {MethodSym(c, Id(n), CvSig(ps, cv), vi) :
             c \in {A, NB, NBA}, n \in {"f", "A"}, cv \in {{}, {"K"}},
             ps \in {<<>>} \cup {<<t>> : t \in Types}, vi \in {FALSE}}
    \cup {MethodSym(NB, Id("f"), Sig(<<TA>>), TRUE)}
    \cup {MethodSym(A, Id("f"), Sig(ps), FALSE) :
             ps \in UNION {[1..n -> MacroTypes] : n \in {2, 3}}}
    \cup {MethodSym(A, Id("f"), Sig(<<B(c), Ptr(B(c), {"K"})>>), FALSE) : c \in Scalars}
    \cup {MethodSym(A, Id("f"), Sig(<<t>>), FALSE) : t \in {TAE, Ptr(TAE, {})}}
    \cup {MethodSym(c, Op(o), Sig(<<t>>), FALSE) :
             c \in {A, NB}, o \in {"pl", "aS"}, t \in Types}
    \cup {MethodSym(NB, Conv(t), RetSig(<<>>, t), FALSE) : t \in Types}
    \cup {CtorSym(c, va, ps) : c \in {A, NB}, va \in {"C1", "C2"},
             ps \in {<<>>} \cup {<<t, u>> : t, u \in {TA, TB, Ref(TB, {"K"}), Rval(TA)}}}
    \cup {[k |-> "dtor", class |-> c, variant |-> va, virtual |-> FALSE] :
             c \in {A, NB, Spec1}, va \in {"D0", "D1", "D2"}}
    \cup {[k |-> k, class |-> c] : k \in {"vtable", "typeinfo", "typename"},
             c \in {A, NB, NBA, Spec2}}
    \cup {[k |-> "var", scope |-> scope, id |-> "f", type |-> I32] :
             scope \in {<<>>, N, NB}}
    \cup {[k |-> "guard", path |-> path] : path \in {A, NB, NBA}}
=============================================================================
