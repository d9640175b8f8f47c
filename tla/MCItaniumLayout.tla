--------------------------- MODULE MCItaniumLayout ---------------------------
(* Programs for ItaniumLayout.  Pointers are 4 bytes.  Two families:          *)
(*  - Members: one class with up to three members of every kind, a class      *)
(*    derived from it that adds a char, and a class that holds it as member;  *)
(*  - Hierarchies: three classes over every choice of bases, and the diamonds *)
(*    of four, with and without data, virtual methods and virtual bases.      *)
EXTENDS MsvcLayout, BitfieldAccess, Codegen

\* Members: char, an overaligned char, int, int&, void, bit-fields, a record.
M(r, n, ref, ok, len, e, bf, w) ==
  [rec |-> r, size |-> n, align |-> n, ref |-> ref, sized |-> ok, len |-> len,
   explicit |-> e, bitfield |-> bf, width |-> w]
Char == M(0, 1, FALSE, TRUE, 1, 0, FALSE, 0)
Char2 == M(0, 1, FALSE, TRUE, 1, 2, FALSE, 0)
Int == M(0, 4, FALSE, TRUE, 1, 0, FALSE, 0)
Ref == M(0, 4, TRUE, TRUE, 1, 0, FALSE, 0)
Void == M(0, 1, FALSE, FALSE, 1, 0, FALSE, 0)
CharBits == M(0, 1, FALSE, TRUE, 1, 0, TRUE, 3)
CharFew == M(0, 1, FALSE, TRUE, 1, 0, TRUE, 6)
IntBits == M(0, 4, FALSE, TRUE, 1, 0, TRUE, 9)
IntZero == M(0, 4, FALSE, TRUE, 1, 0, TRUE, 0)
Rec(c, n) == M(c, 1, FALSE, TRUE, n, 0, FALSE, 0)

\* Class headers before the closure of is_polymorphic: Managed has a destructor
\* of its own, Built only a constructor that copies nothing.
K(kind, virt, special, al, packed) ==
  [kind |-> kind, virt |-> virt, special |-> special, align |-> al, packed |-> packed]
Plain == K("class", FALSE, "none", 0, FALSE)
Virtual == K("class", TRUE, "none", 0, FALSE)
Managed == K("class", FALSE, "nontrivial", 0, FALSE)
Built == K("class", FALSE, "trivial", 0, FALSE)
Aligned == K("class", FALSE, "nontrivial", 8, FALSE)
Packed == K("class", FALSE, "none", 0, TRUE)
Union == K("union", FALSE, "none", 0, FALSE)

Cls(k, bs, ms) == [head |-> k, bases |-> bs, fields |-> ms]
B(c, v) == [class |-> c, virt |-> v]

\* The ClassDefs of a skeleton, is_polymorphic closed over the bases.
Close(sk) ==
  LET poly[c \in DOMAIN sk] ==
        \/ sk[c].head.virt
        \/ \E i \in DOMAIN sk[c].bases :
             sk[c].bases[i].virt \/ poly[sk[c].bases[i].class]
  IN [c \in DOMAIN sk |->
        [kind |-> sk[c].head.kind, poly |-> poly[c], special |-> sk[c].head.special,
         align |-> sk[c].head.align, packed |-> sk[c].head.packed,
         bases |-> sk[c].bases, fields |-> sk[c].fields]]

UpTo(S, n) == UNION {[1 .. k -> S] : k \in 0 .. n}

\* Of a size around two registers of eight bytes.
TwoWords ==
  {Close(<<Cls(h, << >>, <<M(0, 4, FALSE, TRUE, n, 0, FALSE, 0)>>),
           Cls(Plain, bs, <<Char>>), Cls(Plain, << >>, <<Rec(1, n)>>)>>) :
     h \in {Plain, Built, Managed, Virtual}, n \in {1, 3, 4, 5}, bs \in {<< >>, <<B(1, FALSE)>>}}

MemberPrograms ==
  {Close(<<Cls(h, << >>, ms), Cls(g, << >>, <<Rec(1, n), Char>>)>>) :
     h \in {Managed, Aligned}, ms \in UpTo({Char, Int, Void}, 2), g \in {Plain, Union},
     n \in {1, 2}}
  \union
  {Close(<<Cls(h, << >>, ms), Cls(Plain, <<B(1, FALSE)>>, <<Char>>)>>) :
     h \in {Plain, Virtual, Packed},
     ms \in UpTo({Char, Char2, Int, Ref, CharBits, CharFew, IntBits, IntZero}, 3)}
  \union
  {Close(<<Cls(Union, << >>, ms), Cls(Plain, << >>, <<Rec(1, 1), Char>>)>>) :
     ms \in UpTo({Char, Char2, Int, CharBits}, 2)}
  \union TwoWords

Lists(n) ==
  {bs \in UpTo({B(c, v) : c \in 1 .. n, v \in BOOLEAN}, 2) :
     \A i, j \in DOMAIN bs : bs[i].class = bs[j].class => i = j}

HierarchyPrograms ==
  {Close(<<Cls(h[1], << >>, m[1]), Cls(h[2], b2, m[2]), Cls(h[3], b3, << >>)>>) :
     h \in {<<Plain, Plain, Plain>>, <<Virtual, Plain, Virtual>>, <<Plain, Virtual, Plain>>,
            <<Aligned, Virtual, Plain>>},
     m \in {<< << >>, << >> >>, << << >>, <<Char>> >>, <<<<Int, Char>>, << >> >>,
            <<<<Void>>, <<Char>> >>},
     b2 \in Lists(1), b3 \in Lists(2)}
  \union
  {Close(<<Cls(h, << >>, m), Cls(Plain, <<B(1, v[1])>>, << >>),
           Cls(g, <<B(1, v[2])>>, <<Char>>),
           Cls(Plain, <<B(2, v[3]), B(3, v[4])>>, << >>)>>) :
     h \in {Plain, Virtual, Aligned}, g \in {Plain, Virtual},
     m \in {<< >>, <<Int, Char>>}, v \in [1 .. 4 -> BOOLEAN]}

\* Methods to call: a list with every kind of member, and overloads of one name
\* the first of which is virtual, static or neither.
Fun(name, special, virtual, static, n) ==
  [name |-> name, special |-> special, virtual |-> virtual, static |-> static,
   ret |-> [k |-> "scalar"], params |-> n]
Id(id) == [k |-> "id", id |-> id]
MCOverloads ==
  {<<Fun(Id("A"), "OtherCtor", FALSE, FALSE, 2), Fun(Id("~A"), "Dtor", FALSE, FALSE, 0),
     Fun([k |-> "op"], "none", FALSE, FALSE, 1), Fun(Id("f"), "none", FALSE, FALSE, 1)>>}
  \union {<<Fun(Id("f"), "none", v, s, 0), Fun(Id("f"), "none", FALSE, s, 2)>> :
            v \in BOOLEAN, s \in {FALSE}}
  \union {<<Fun(Id("f"), "none", FALSE, TRUE, n), Fun(Id("f"), "none", FALSE, TRUE, 1)>> :
            n \in {0, 2}}

MCPrograms == MemberPrograms \union HierarchyPrograms
=============================================================================
