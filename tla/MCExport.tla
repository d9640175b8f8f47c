------------------------------ MODULE MCExport ------------------------------
(***************************************************************************)
(* Crates of two structs A and B: every choice of one field for each, of   *)
(* Drop impls and of one or two methods of B from a pool of nine, A with a *)
(* cpp_name, the items in one file or two and in either order; and crates  *)
(* with an unmarked struct, an enum, an unsupported shape, a name no file  *)
(* declares.  No struct contains itself: rustc has no such type.           *)
(***************************************************************************)
EXTENDS Export

I32 == [k |-> "int"]
Rec(n) == [k |-> "rec", name |-> n]
Ptr(t) == [k |-> "ptr", mutable |-> TRUE, to |-> t]
CPtr(t) == [k |-> "ptr", mutable |-> FALSE, to |-> t]
Ref(t) == [k |-> "ref", mutable |-> FALSE, to |-> t]
Other == [k |-> "other"]

Struct(name, cpp, fields) ==
    [k |-> "struct", name |-> name, cpp |-> cpp, marked |-> TRUE, ok |-> TRUE,
     fields |-> fields]
Plain(s) == [s EXCEPT !.marked = FALSE]
Impl(target, methods) ==
    [k |-> "impl", target |-> target, bare |-> TRUE, methods |-> methods]
Drop(target) == [k |-> "drop", target |-> target, bare |-> TRUE]
Enum(name, ok) == [k |-> "enum", name |-> name, marked |-> TRUE, ok |-> ok]

Method(name, cpp, recv, params, ret) ==
    [name |-> name, cpp |-> cpp, pub |-> TRUE, ok |-> TRUE, recv |-> recv,
     params |-> params, ret |-> ret]

Pool == {
    Method("new", "new", "none", <<>>, Rec("B")),
    Method("new", "new", "none", <<Rec("A")>>, Rec("B")),
    Method("get", "get", "ref", <<>>, I32),
    Method("get_mut", "get", "mut", <<>>, Ptr(I32)),
    Method("take", "take", "mut", <<Rec("A")>>, I32),
    Method("peek", "peek", "ref", <<CPtr(Rec("A"))>>, Rec("A")),
    Method("seen", "seen", "ref", <<Ref(Rec("A"))>>, I32),
    Method("clone", "clone", "ref", <<>>, Rec("B")),
    [Method("hidden", "hidden", "ref", <<Other>>, I32) EXCEPT !.pub = FALSE]}

\* Two functions of one type have different Rust names.
Pairs == {<<m, n>> : m \in Pool, n \in Pool}

Fine(ms) == Cardinality({ms[i].name : i \in DOMAIN ms}) = Len(ms)

Fields == {<<>>, <<I32>>, <<Rec("A")>>, <<Rec("B")>>, <<Ptr(Rec("B"))>>, <<I32, CPtr(Rec("A"))>>}

ByValueName(fields, n) == \E i \in DOMAIN fields : fields[i] = Rec(n)

\* The same items, whole or in two files, from either end.
Arranged(items) ==
    LET back == Reverse(items)
    IN  {<<items>>, <<back>>, <<SubSeq(items, 1, 2), SubSeq(items, 3, Len(items))>>,
         <<SubSeq(back, 1, 2), SubSeq(back, 3, Len(back))>>}

Drops(d) == (IF "A" \in d THEN <<Drop("A")>> ELSE <<>>) \o
            (IF "B" \in d THEN <<Drop("B")>> ELSE <<>>)

Crate(fa, fb, ms, d) ==
    <<Struct("A", "A1", fa), Struct("B", "B", fb), Impl("B", ms)>> \o Drops(d)

\* Every choice of fields with one method, every pair with some of them.
Sound ==
    UNION {Arranged(Crate(fa, fb, <<m>>, d)) :
        fa \in {f \in Fields : ~ByValueName(f, "A")},
        fb \in {f \in Fields : ~ByValueName(f, "B")},
        m \in Pool, d \in SUBSET {"A", "B"}}
    \cup
    UNION {Arranged(Crate(<<Ptr(Rec("B"))>>, fb, ms, d)) :
        fb \in {<<>>, <<Rec("A")>>},
        ms \in {l \in Pairs : Fine(l)}, d \in SUBSET {"A", "B"}}

NoCycle(c) ==
    ~\E f, g \in DOMAIN c : \E i \in DOMAIN c[f], j \in DOMAIN c[g] :
        /\ c[f][i].k = "struct" /\ c[f][i].name = "A" /\ ByValueName(c[f][i].fields, "B")
        /\ c[g][j].k = "struct" /\ c[g][j].name = "B" /\ ByValueName(c[g][j].fields, "A")

\* Three structs, one inside the other.
Nested ==
    UNION {Arranged(<<Struct("A", "A", <<Rec("C")>>), Struct("C", "C", <<Rec("D")>>),
                      Struct("D", "D", <<I32>>), Struct("B", "B", <<>>), Impl("B", <<m>>),
                      Drop(n), Enum("E", TRUE)>>) :
        m \in Pool, n \in {"A", "C", "D"}}

Odd ==
    UNION {Arranged(<<Plain(Struct("P", "P", <<Other>>)), Struct("A", "A", fa), item>>) :
        fa \in {<<I32>>, <<Ref(I32)>>, <<Rec("A")>>, <<Rec("Z")>>, <<Other>>},
        item \in {Impl("P", <<>>), Impl("A", <<Method("f", "f", "ref", <<Rec("Z")>>, I32)>>),
                  Impl("A", <<Method("f", "f", "ref", <<Other>>, I32)>>),
                  [Impl("A", <<>>) EXCEPT !.bare = FALSE], Drop("P"), Drop("Z"),
                  Enum("E", TRUE), Enum("E", FALSE),
                  [Enum("E", FALSE) EXCEPT !.marked = FALSE]}}

MCCrates == {c \in Sound : NoCycle(c)} \cup Nested \cup Odd \cup {<<>>, <<<<>>, <<>>>>}
=============================================================================
