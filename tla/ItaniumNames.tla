---------------------------- MODULE ItaniumNames ----------------------------
(***************************************************************************)
(* What a mangled name says to whoever reads it by the Itanium ABI: the    *)
(* grammar of section 5.1, and the substitution candidates in the order    *)
(* the ABI numbers them.  The code has no such reader; a linker that only  *)
(* compares names relies on every compiler writing what this one reads.    *)
(*                                                                         *)
(* A reading is [p, subs, v]: the next token, the table, what was read.    *)
(* Read types have no cv field: a qualified type is [k |-> "Q", of, cv],   *)
(* and the qualifiers of an array are those of its elements.               *)
(***************************************************************************)
EXTENDS Mangle

RECURSIVE Qual(_, _), Meant(_), MeantPath(_)

Qual(t, cv) ==
    IF cv = {} THEN t
    ELSE IF t.k = "A" THEN [t EXCEPT !.of = Qual(@, cv)]
    ELSE [k |-> "Q", of |-> t, cv |-> cv]

MeantArg(arg) ==
    IF arg.k = "tmpl" THEN [k |-> "type", type |-> PathKey(MeantPath(arg.path))]
    ELSE [arg EXCEPT !.type = Meant(@)]

MeantPath(path) ==
    [i \in DOMAIN path |->
        [path[i] EXCEPT !.args = [j \in DOMAIN @ |-> MeantArg(@[j])]]]

MeantAll(ts) == [i \in DOMAIN ts |-> Meant(ts[i])]

Meant(t) ==
    CASE t.k = "b" -> t
      [] t.k \in {"P", "R", "O"} -> [k |-> t.k, to |-> Qual(Meant(t.to), t.cv)]
      [] t.k = "A" -> [t EXCEPT !.of = Meant(@)]
      [] t.k = "N" -> PathKey(MeantPath(t.path))
      [] t.k = "F" -> [k |-> "F", va |-> t.va, ret |-> Meant(t.ret),
                       params |-> MeantAll(t.params)]
      [] t.k = "M" -> [k |-> "M", class |-> PathKey(MeantPath(t.class)),
                       to |-> IF t.to.k = "F" THEN Qual(Meant(t.to), t.to.cv)
                              ELSE Meant(t.to)]

-----------------------------------------------------------------------------

Text == mangler.out

At(r, token) == r.p \in DOMAIN Text /\ Text[r.p] = token

Kind(r) == IF r.p \in DOMAIN Text THEN Text[r.p][1] ELSE "end"

Value(r) == Text[r.p][2]

Step(r) == [r EXCEPT !.p = @ + 1]

Saw(r, v) == [r EXCEPT !.v = v]

\* A component written in full is the next substitution candidate.
Candidate(r) == [r EXCEPT !.subs = Append(@, r.v)]

Nothing == [k |-> "nothing"]

Substitute(r) ==
    Saw(Step(r), IF Value(r) \in DOMAIN r.subs THEN r.subs[Value(r)] ELSE Nothing)

RECURSIVE ReadType(_), ReadTypes(_, _), ReadArgs(_, _), ReadCv(_), ReadPath(_, _, _)

Adding(r, letter) == Saw(r, r.v \cup {letter})

\* The letters, the set of them read.
ReadCv(r) ==
    IF Kind(r) = "c" /\ Value(r) \in {"K", "V"}
    THEN Adding(ReadCv(Step(r)), Value(r))
    ELSE Saw(r, {})

ReadMore(r, read) == ReadTypes(r, Append(read, r.v))

\* Types up to the end of the text or to E, and whether an ellipsis follows.
ReadTypes(r, read) ==
    IF Kind(r) = "end" \/ At(r, <<"c", "E">>) THEN Saw(r, [types |-> read, va |-> FALSE])
    ELSE IF At(r, <<"b", "z">>) THEN Saw(Step(r), [types |-> read, va |-> TRUE])
    ELSE ReadMore(ReadType(r), read)

ReadParams(r) ==
    IF At(r, <<"b", "v">>) THEN Saw(Step(r), [types |-> <<>>, va |-> FALSE])
    ELSE ReadTypes(r, <<>>)

ReadAfterInt(r, read) ==
    ReadArgs([r EXCEPT !.p = @ + 2],
             Append(read, [k |-> "int", type |-> r.v, value |-> Value(r)]))

ReadAfterArg(r, read) == ReadArgs(r, Append(read, [k |-> "type", type |-> r.v]))

ReadArgs(r, read) ==
    IF At(r, <<"c", "E">>) THEN Saw(Step(r), read)
    ELSE IF At(r, <<"c", "L">>) THEN ReadAfterInt(ReadType(Step(r)), read)
    ELSE ReadAfterArg(ReadType(r), read)

\* One segment after path: an identifier, which is a candidate of its own
\* when template arguments follow it.
Segment(r, path, id) == Saw(r, PathKey(Append(path, [id |-> id, args |-> r.v])))

ReadSegment(r, path) ==
    LET named == Segment(Saw(Step(r), <<>>), path, Value(r))
    IN  IF ~At(Step(r), <<"c", "I">>) THEN named
        ELSE Segment(ReadArgs(Step(Candidate(named)), <<>>), path, Value(r))

\* The prefixes of a nested name.  The name of a function or a variable, the
\* last one before E, is no candidate; the name of a type is.
Prefix(r, isType) == IF isType \/ ~At(r, <<"c", "E">>) THEN Candidate(r) ELSE r

ReadOn(r, isType) == ReadPath(r, IF r.v.k = "path" THEN r.v.path ELSE <<>>, isType)

ReadPath(r, path, isType) ==
    IF Kind(r) = "S"
    THEN ReadOn(Substitute(r), isType)
    ELSE IF Kind(r) # "id" THEN Saw(r, PathKey(path))
    ELSE ReadOn(Prefix(ReadSegment(r, path), isType), isType)

\* A function type; after M it carries the member's qualifiers and is one
\* candidate with them.
ReadFn(r, cv) ==
    LET Returning(ret, ps) ==
            Saw(Step(ps), Qual([k |-> "F", ret |-> ret, params |-> ps.v.types,
                                va |-> ps.v.va], cv))
        After(ret) == Returning(ret.v, ReadParams(ret))
    IN  Candidate(After(ReadType(Step(r))))

ReadMember(r) ==
    LET Member(class, to) == Saw(to, [k |-> "M", class |-> class.v, to |-> to.v])
        To(class, cv) == IF At(cv, <<"c", "F">>) THEN ReadFn(cv, cv.v) ELSE ReadType(class)
        Of(class) == Member(class, To(class, ReadCv(class)))
    IN  Candidate(Of(ReadType(Step(r))))

Array(r, len) == Saw(r, [k |-> "A", len |-> len, of |-> r.v])

Indirect(r, letter) == Saw(r, [k |-> letter, to |-> r.v])

Under(r, cv) == Saw(r, Qual(r.v, cv))

ReadUnder(r) == Under(ReadType(r), r.v)

ReadType(r) ==
    CASE Kind(r) = "b" -> Saw(Step(r), [k |-> "b", code |-> Value(r)])
      [] Kind(r) = "S" -> Substitute(r)
      [] Kind(r) = "A" ->
           Candidate(Array(ReadType(Step(r)), Value(r)))
      [] Kind(r) = "id" -> Candidate(ReadSegment(r, <<>>))
      [] At(r, <<"c", "N">>) -> Step(ReadPath(Step(r), <<>>, TRUE))
      [] At(r, <<"c", "F">>) -> ReadFn(r, {})
      [] At(r, <<"c", "M">>) -> ReadMember(r)
      [] Kind(r) = "c" /\ Value(r) \in {"K", "V"} ->
           Candidate(ReadUnder(ReadCv(r)))
      [] Kind(r) = "c" /\ Value(r) \in {"P", "R", "O"} ->
           Candidate(Indirect(ReadType(Step(r)), Value(r)))
      [] OTHER -> Saw([r EXCEPT !.p = Len(Text) + 1], Nothing)

Reader == [p |-> 1, subs |-> <<>>, v |-> Nothing]

\* The unqualified end of a nested name that is no identifier.
Conversion(r) == Saw(r, <<"conv", r.v>>)

ReadEnd(r) ==
    CASE Kind(r) \in {"op", "ctor", "dtor"} -> Saw(Step(r), <<Kind(r), Value(r)>>)
      [] At(r, <<"c", "cv">>) -> Conversion(ReadType(Step(r)))
      [] OTHER -> Saw(r, <<"id", "">>)

ReadNested(r) ==
    LET Ended(cv, path, end) == Saw(Step(end), [path |-> path, end |-> end.v, cv |-> cv])
        Scoped(cv, path) == Ended(cv, path.v, ReadEnd(path))
        After(cv) == Scoped(cv.v, ReadPath(cv, <<>>, FALSE))
    IN  After(ReadCv(Step(r)))

ReadEncoding(r) ==
    LET Unscoped(q) == Saw(q, [path |-> q.v, end |-> <<"id", "">>, cv |-> {}])
        Encoding(name, ps) ==
            [k |-> IF Kind(name) = "end" THEN "var" ELSE "fn", name |-> name.v,
             params |-> ps.types, va |-> ps.va]
        After(name) == Encoding(name, ReadParams(name).v)
    IN  After(IF At(r, <<"c", "N">>) THEN ReadNested(r) ELSE Unscoped(ReadSegment(r, <<>>)))

\* The whole name.
Read ==
    IF At(Reader, <<"c", "_Z">>) THEN ReadEncoding(Step(Reader))
    ELSE [k |-> Value(Reader), name |-> ReadType(Step(Reader)).v]

NoArgs(id) == [id |-> id, args |-> <<>>]

MeantName(path, end, cv) == [path |-> PathKey(MeantPath(path)), end |-> end, cv |-> cv]

MethodEnd(name) ==
    IF name.k = "op" THEN <<"op", name.op>> ELSE <<"conv", Meant(name.to)>>

\* The symbol that was asked for, in the reader's terms.
Asked(s) ==
    LET Fn(name, params, va) == [k |-> "fn", name |-> name, params |-> params, va |-> va]
    IN  CASE s.k = "fn" ->
               Fn(MeantName(Append(s.scope, NoArgs(s.id)), <<"id", "">>, {}),
                  MeantAll(s.sig.params), s.sig.va)
          [] s.k = "method" ->
               Fn(IF s.name.k = "id"
                  THEN MeantName(Append(s.class, NoArgs(s.name.id)), <<"id", "">>, s.sig.cv)
                  ELSE MeantName(s.class, MethodEnd(s.name), s.sig.cv),
                  MeantAll(s.sig.params), s.sig.va)
          [] s.k = "ctor" ->
               Fn(MeantName(s.class, <<"ctor", s.variant>>, {}),
                  MeantAll(s.sig.params), s.sig.va)
          [] s.k = "dtor" -> Fn(MeantName(s.class, <<"dtor", s.variant>>, {}), <<>>, FALSE)
          [] s.k = "var" ->
               [k |-> "var", name |-> MeantName(Append(s.scope, NoArgs(s.id)), <<"id", "">>, {}),
                params |-> <<>>, va |-> FALSE]
          [] s.k = "guard" -> [k |-> "guard", name |-> PathKey(MeantPath(s.path))]
          [] OTHER -> [k |-> s.k, name |-> PathKey(MeantPath(s.class))]

\* Reading a finished name back gives the symbol it was made for: its scope,
\* its qualifiers and every parameter, through every substitution.  The
\* writer's table (mangle.rs, find, register, emit_nested_prefix) must name
\* the same components in the same order as the ABI's.
NameReadsBack == phase = "done" => Read = Asked(symbol)
=============================================================================
