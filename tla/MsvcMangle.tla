----------------------------- MODULE MsvcMangle -----------------------------
(***************************************************************************)
(* MSVC name mangling (rustc_abi_cxx/src/mangle_msvc.rs) of the symbols of *)
(* module Mangle.  A qualified name is written from the inside out; a      *)
(* repeated name, and a repeated parameter type, is one digit, its place   *)
(* in one of two tables of ten.                                            *)
(***************************************************************************)
EXTENDS Mangle

TableSize == 10

MsvcNew == [out |-> <<>>, names |-> <<>>, types |-> <<>>]

Place(table, x) == CHOOSE i \in DOMAIN table : table[i] = x

Recorded(table, x) == \E i \in DOMAIN table : table[i] = x

\* The bug: a full table goes on growing.
RecordNoCapBug(table, x) == IF Recorded(table, x) THEN table ELSE Append(table, x)

Record(table, x) ==
    IF Len(table) < TableSize /\ ~Recorded(table, x) THEN Append(table, x) ELSE table

\* A name is the tokens it is spelled with: one for an identifier, several
\* for a specialisation.
Name(m, spelled) ==
    IF Recorded(m.names, spelled) THEN Put(m, <<"name", Place(m.names, spelled) - 1>>)
    ELSE [m EXCEPT !.out = @ \o spelled, !.names = Record(@, spelled)]

SourceName(id) == <<<<"id", id>>>>

CvLetter(cv) ==
    IF cv = {} THEN "A" ELSE IF cv = {"K"} THEN "B" ELSE IF cv = {"V"} THEN "C" ELSE "D"

RECURSIVE NestedType(_, _), NameTail(_, _)

Arg(m, arg) ==
    CASE arg.k = "type" -> NestedType(m, arg.type)
      [] arg.k = "int"  -> Put(m, <<"int", arg.value>>)
      [] arg.k = "tmpl" -> NameTail(Letter(m, "U"), arg.path)

Whole(m, before) == Name([m EXCEPT !.out = before], Append(m.out, <<"c", "@">>))

\* A specialisation is written apart, then treated as one name; the names of
\* its arguments go through the same table.
NameSegment(m, seg) ==
    IF seg.args = <<>> THEN Name(m, SourceName(seg.id))
    ELSE Whole(FoldLeft(Arg, [m EXCEPT !.out = <<<<"c", "?$">>, <<"id", seg.id>>>>], seg.args),
               m.out)

NameTail(m, path) == Letter(FoldLeft(NameSegment, m, Reverse(path)), "@")

TypeBody(m, t) ==
    CASE t.k = "b" -> Put(m, <<"b", t.code>>)
      [] t.k = "P" -> NestedType(Letters(m, <<"PE", CvLetter(t.cv)>>), t.to)
      [] t.k = "R" -> NestedType(Letters(m, <<"AE", CvLetter(t.cv)>>), t.to)
      [] t.k = "O" -> NestedType(Letters(m, <<"$$Q", CvLetter(t.cv)>>), t.to)
      [] t.k = "A" -> NestedType(Put(m, <<"_O", t.len>>), t.of)
      [] t.k = "N" -> NameTail(Letter(m, t.kind), t.path)
      [] t.k = "F" -> Letter(m, "P6A?@Z")
      [] t.k = "M" -> Letter(m, "P8?@@A?@Z")

\* Behind a pointer, and among template arguments, no type is looked up.
NestedType(m, t) == TypeBody(m, t)

\* A return or parameter type.
MsvcType(m, t) ==
    IF t.k = "b" THEN TypeBody(m, t)
    ELSE IF Recorded(m.types, t) THEN Put(m, <<"type", Place(m.types, t) - 1>>)
    ELSE [TypeBody(m, t) EXCEPT !.types = Record(@, t)]

-----------------------------------------------------------------------------

\* Access and the qualifiers of this, the calling convention, the return
\* type, the parameters.  An ellipsis leaves no trace.
Member(virtual, cv) == <<IF virtual THEN "U" ELSE "Q", "E", CvLetter(cv)>>

Return(m, t) == MsvcType(IF t.k = "N" THEN Letter(m, "?A") ELSE m, t)

Params(m, ps) ==
    IF ps = <<>> THEN Letter(m, "X") ELSE Letter(FoldLeft(MsvcType, m, ps), "@")

Access(m, s) ==
    CASE s.k = "fn" -> Letter(m, "Y")
      [] s.k = "method" -> Letters(m, Member(s.virtual, s.sig.cv))
      [] s.k = "ctor" -> Letters(m, Member(FALSE, {}))
      [] s.k = "dtor" -> Letters(m, Member(s.virtual, {}))

Returns(m, s) ==
    IF s.k \in {"ctor", "dtor"} THEN Letter(m, "@") ELSE Return(m, s.sig.ret)

FunctionInfo(m, s) ==
    Letter(Params(Returns(Letter(Access(m, s), "A"), s),
                  IF s.k = "dtor" THEN <<>> ELSE s.sig.params), "Z")

MethodName(m, name) ==
    CASE name.k = "id" -> Name(m, SourceName(name.id))
      [] name.k = "op" -> Put(m, <<"op", name.op>>)
      [] name.k = "conv" -> Letter(m, "?B")

\* The deleting destructor has a fixed signature.
Deleting(s) == s.k = "dtor" /\ s.variant = "D0"

OwnName(m, s) ==
    CASE s.k \in {"fn", "var"} -> Name(m, SourceName(s.id))
      [] s.k = "method" -> MethodName(m, s.name)
      [] s.k = "ctor" -> Letter(m, "?0")
      [] s.k = "dtor" -> Letter(m, IF Deleting(s) THEN "?_G" ELSE "?1")
      [] s.k = "vtable" -> Letter(m, "?_7")
      [] s.k = "typeinfo" -> Letter(m, "?_R4")
      [] s.k = "typename" -> Letter(m, "?_R0?AV")
      [] s.k = "guard" -> Name(Letter(m, "?$TSS0@?"), SourceName(Last(s.path).id))

Scope(s) == CASE s.k \in {"fn", "var"} -> s.scope
              [] s.k = "guard" -> Front(s.path)
              [] OTHER -> s.class

\* A guard at namespace scope closes an empty name of its own.
Qualified(m, s) ==
    IF s.k = "guard" /\ Len(s.path) = 1 THEN Letter(m, "@@") ELSE NameTail(m, Scope(s))

Ended(m, s) ==
    CASE HasParams(s) -> FunctionInfo(m, s)
      [] s.k = "dtor" -> IF Deleting(s) THEN Letter(m, "UEAAPEAXI@Z") ELSE FunctionInfo(m, s)
      [] s.k = "var" -> Letter(MsvcType(Letter(m, "3"), s.type), "A")
      [] s.k = "vtable" -> Letter(m, "6B@")
      [] s.k = "typeinfo" -> Letter(NameTail(Letter(m, "6B"), s.class), "@")
      [] s.k = "typename" -> Letter(m, "@8")
      [] s.k = "guard" -> Letter(m, "4HA")

\* mangle_symbol.
MsvcSpell(s) == Ended(Qualified(OwnName(Letter(MsvcNew, "?"), s), s), s).out

-----------------------------------------------------------------------------

RECURSIVE Told(_)

\* What the scheme tells apart: every function type is spelled alike.
Told(t) ==
    CASE t.k \in {"P", "R", "O"} -> [t EXCEPT !.to = Told(@)]
      [] t.k = "A" -> [t EXCEPT !.of = Told(@)]
      [] t.k \in {"F", "M"} -> [k |-> t.k]
      [] OTHER -> t

ToldAll(ts) == [i \in DOMAIN ts |-> Told(ts[i])]

ToldName(name) == IF name.k = "conv" THEN [name EXCEPT !.to = Told(@)] ELSE name

\* One destructor or constructor has several Itanium variants and, D0 apart,
\* one MSVC name; an ellipsis is not written.
SameFunction(s, t) ==
    /\ s.k = t.k
    /\ CASE s.k = "fn" -> s.id = t.id /\ s.scope = t.scope
         [] s.k = "method" ->
              /\ ToldName(s.name) = ToldName(t.name)
              /\ s.class = t.class /\ s.sig.cv = t.sig.cv
         [] s.k = "ctor" -> s.class = t.class
         [] s.k = "dtor" ->
              s.class = t.class /\ (s.variant = "D0" <=> t.variant = "D0")
         [] OTHER -> s = t
    /\ HasParams(s) => ToldAll(s.sig.params) = ToldAll(t.sig.params)

MsvcTexts == {<<MsvcSpell(s), s>> : s \in Symbols}

TextOf(s) == (CHOOSE pair \in MsvcTexts : pair[2] = s)[1]

Digits(text) == {text[i][2] : i \in {j \in DOMAIN text : text[j][1] \in {"name", "type"}}}

\* Two functions never get one MSVC name, however many of their names and
\* types are written as back-references, and a back-reference is one digit:
\* the tables stop at ten (BackRefs).
MsvcNamesDiffer ==
    phase = "done" =>
        LET text == TextOf(symbol)
        IN  /\ Digits(text) \subseteq 0..9
            /\ \A pair \in MsvcTexts : pair[1] = text => SameFunction(pair[2], symbol)
=============================================================================
