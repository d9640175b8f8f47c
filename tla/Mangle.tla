------------------------------- MODULE Mangle -------------------------------
(***************************************************************************)
(* Itanium name mangling (rustc_abi_cxx/src/mangle.rs).  A symbol is       *)
(* spelled left to right: the name first, then one parameter at a time.    *)
(* Every compound component is entered in the table subs the first time it *)
(* is spelled, and later occurrences are spelled S<n>_ after their place   *)
(* in it.  The name of an identifier is one token: its letters, and the    *)
(* base 36 digits of a sequence id, are left out.                          *)
(*                                                                         *)
(* Types are records:                                                      *)
(*   [k |-> "b", code]              a builtin and its letter               *)
(*   [k |-> "P" | "R" | "O", to, cv]  pointer, lvalue, rvalue reference    *)
(*   [k |-> "A", len, of]           an array                               *)
(*   [k |-> "N", path, kind]        a record (class, struct, union) or an  *)
(*                                  enum ("W"), by its qualified name      *)
(*   [k |-> "F", ret, params, va, cv]  a function type                     *)
(*   [k |-> "M", class, to]         a pointer to a member of a class       *)
(* A path is a sequence of segments [id, args], args being the template    *)
(* arguments of a specialisation, and cv a subset of {"K", "V"}.           *)
(***************************************************************************)
EXTENDS Integers, Sequences, SequencesExt

CONSTANT Symbols    \* the symbols asked for

VARIABLES
    symbol,         \* the Symbol being mangled
    mangler,        \* [out, subs]: what is written, the substitution table
    next,           \* the number of the next parameter to spell
    phase           \* "start", "params" or "done"

vars == <<symbol, mangler, next, phase>>

-----------------------------------------------------------------------------
(* The writer *)

New == [out |-> <<>>, subs |-> <<>>]

Put(m, token) == [m EXCEPT !.out = Append(@, token)]

Ident(m, name) == Put(m, <<"id", name>>)

Letter(m, c) == Put(m, <<"c", c>>)

Letters(m, cs) == FoldLeft(Letter, m, cs)

Known(m, key) == \E i \in DOMAIN m.subs : m.subs[i] = key

EmitSeq(m, key) ==
    Put(m, <<"S", CHOOSE i \in DOMAIN m.subs : m.subs[i] = key>>)

Register(m, key) ==
    IF Known(m, key) THEN m ELSE [m EXCEPT !.subs = Append(@, key)]

PathKey(path) == [k |-> "path", path |-> path]

\* The bug: two pointers to one type share a place whatever they qualify.
KeyNoCvBug(t) ==
    IF t.k = "N" THEN PathKey(t.path)
    ELSE IF t.k = "P" THEN [t EXCEPT !.cv = {}] ELSE t

\* A type's place in the table is found by the type itself, a record's or an
\* enum's by its name.
Key(t) == IF t.k = "N" THEN PathKey(t.path) ELSE t

QualKey(t, cv) == [k |-> "qual", of |-> Key(t), cv |-> cv]

CvLetters(cv) ==
    (IF "V" \in cv THEN <<"V">> ELSE <<>>) \o (IF "K" \in cv THEN <<"K">> ELSE <<>>)

RECURSIVE EmitType(_, _), EmitPath(_, _)

EmitTypes(m, ts) == FoldLeft(EmitType, m, ts)

EmitArg(m, arg) ==
    CASE arg.k = "type" -> EmitType(m, arg.type)
      [] arg.k = "int"  -> Letter(Put(EmitType(Letter(m, "L"), arg.type),
                                      <<"int", arg.value>>), "E")
      [] arg.k = "tmpl" -> EmitPath(m, arg.path)

EmitSegment(m, seg) ==
    IF seg.args = <<>> THEN Ident(m, seg.id)
    ELSE Letter(FoldLeft(EmitArg, Letter(Ident(m, seg.id), "I"), seg.args), "E")

\* Only the longest prefix that has a place is looked for; the segments after
\* it are spelled, and each prefix they complete is given a place.
EmitPath(m, path) ==
    LET Prefix(i) == SubSeq(path, 1, i)
        known == {i \in DOMAIN path : Known(m, PathKey(Prefix(i)))}
        start == IF known = {} THEN 0 ELSE CHOOSE i \in known : \A j \in known : j <= i
        m0 == IF start = 0 THEN m ELSE EmitSeq(m, PathKey(Prefix(start)))
        Segment(acc, i) ==
            IF i <= start THEN acc
            ELSE Register(EmitSegment(acc, path[i]), PathKey(Prefix(i)))
    IN  FoldLeft(Segment, m0, [i \in DOMAIN path |-> i])

EmitName(m, path) ==
    IF Len(path) > 1 THEN Letter(EmitPath(Letter(m, "N"), path), "E")
    ELSE EmitPath(m, path)

RECURSIVE EmitCvType(_, _, _)

EmitCvType(m, t, cv) ==
    IF cv = {} THEN EmitType(m, t)
    ELSE IF t.k = "A" THEN EmitCvType(Put(m, <<"A", t.len>>), t.of, cv)
    ELSE IF Known(m, QualKey(t, cv)) THEN EmitSeq(m, QualKey(t, cv))
    ELSE Register(EmitType(Letters(m, CvLetters(cv)), t), QualKey(t, cv))

EmitBody(m, t) ==
    CASE t.k = "b" -> Put(m, <<"b", t.code>>)
      [] t.k \in {"P", "R", "O"} -> EmitCvType(Letter(m, t.k), t.to, t.cv)
      [] t.k = "A" -> EmitType(Put(m, <<"A", t.len>>), t.of)
      [] t.k = "N" -> EmitName(m, t.path)
      [] t.k = "F" ->
           LET m0 == EmitType(Letter(m, "F"), t.ret)
               m1 == IF t.params = <<>> THEN Put(m0, <<"b", "v">>)
                     ELSE EmitTypes(m0, t.params)
           IN  Letter(IF t.va THEN Put(m1, <<"b", "z">>) ELSE m1, "E")
      [] t.k = "M" ->
           LET m0 == EmitName(Letter(m, "M"), t.class)
           IN  EmitType(IF t.to.k = "F" THEN Letters(m0, CvLetters(t.to.cv)) ELSE m0,
                        t.to)

EmitType(m, t) ==
    IF t.k # "b" /\ Known(m, Key(t)) THEN EmitSeq(m, Key(t))
    ELSE IF t.k \in {"b", "N"} THEN EmitBody(m, t)
    ELSE Register(EmitBody(m, t), Key(t))

-----------------------------------------------------------------------------
(* Symbols *)

HasParams(s) == s.k \in {"fn", "method", "ctor"}

EmitMethodName(m, name) ==
    CASE name.k = "id" -> Ident(m, name.id)
      [] name.k = "op" -> Put(m, <<"op", name.op>>)
      [] name.k = "conv" -> EmitType(Letter(m, "cv"), name.to)

\* A name at namespace scope, or a member of a scope.
EmitScoped(m, scope, id) ==
    IF scope = <<>> THEN Ident(m, id)
    ELSE Letter(Ident(EmitPath(Letter(m, "N"), scope), id), "E")

MethodCv(cv) ==
    (IF "K" \in cv THEN <<"K">> ELSE <<>>) \o (IF "V" \in cv THEN <<"V">> ELSE <<>>)

\* mangle_symbol up to the parameters.
EmitHead(m, s) ==
    CASE s.k \in {"fn", "var"} -> EmitScoped(Letter(m, "_Z"), s.scope, s.id)
      [] s.k = "method" ->
           Letter(EmitMethodName(
               EmitPath(Letters(Letters(m, <<"_Z", "N">>), MethodCv(s.sig.cv)), s.class),
               s.name), "E")
      [] s.k \in {"ctor", "dtor"} ->
           Letter(Put(EmitPath(Letters(m, <<"_Z", "N">>), s.class),
                      <<s.k, s.variant>>), "E")
      [] s.k \in {"vtable", "typeinfo", "typename"} ->
           EmitName(Put(m, <<"special", s.k>>), s.class)
      [] s.k = "guard" ->
           IF Len(s.path) > 1
           THEN Letter(EmitPath(Letters(Put(m, <<"special", "guard">>), <<"N">>), s.path), "E")
           ELSE EmitSegment(Put(m, <<"special", "guard">>), Last(s.path))

Init ==
    /\ symbol \in Symbols
    /\ mangler = New
    /\ next = 1
    /\ phase = "start"

\* Everything but a parameter list: a dtor's is a fixed v.
SpellName ==
    /\ phase = "start"
    /\ mangler' = IF symbol.k = "dtor" THEN Put(EmitHead(mangler, symbol), <<"b", "v">>)
                  ELSE EmitHead(mangler, symbol)
    /\ phase' = IF HasParams(symbol) THEN "params" ELSE "done"
    /\ UNCHANGED <<symbol, next>>

\* One parameter, in order.
SpellParam ==
    /\ phase = "params"
    /\ next <= Len(symbol.sig.params)
    /\ mangler' = EmitType(mangler, symbol.sig.params[next])
    /\ next' = next + 1
    /\ UNCHANGED <<symbol, phase>>

\* After the last: z for an ellipsis, v when there is nothing at all.
SpellEnd ==
    /\ phase = "params"
    /\ next > Len(symbol.sig.params)
    /\ mangler' = IF symbol.sig.va THEN Put(mangler, <<"b", "z">>)
                  ELSE IF symbol.sig.params = <<>> THEN Put(mangler, <<"b", "v">>)
                  ELSE mangler
    /\ phase' = "done"
    /\ UNCHANGED <<symbol, next>>

Next == SpellName \/ SpellParam \/ SpellEnd

Spec == Init /\ [][Next]_vars
=============================================================================
