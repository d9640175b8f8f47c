------------------------------- MODULE MCVTable -------------------------------
(* Bounded hierarchies for VTable: three classes over signatures with an     *)
(* overload (f2, of f) and an operator (op), with overriding, introduced destructors, pure functions, multiple and virtual  *)
(* inheritance.                                                              *)
EXTENDS ImportedVTable, Vtt, MsvcVTable

V(sig) == [sig |-> sig, virtuality |-> "Virtual", dtor |-> FALSE]
P(sig) == [sig |-> sig, virtuality |-> "PureVirtual", dtor |-> FALSE]
N(sig) == [sig |-> sig, virtuality |-> "NonVirtual", dtor |-> FALSE]
VD == [sig |-> "dtor", virtuality |-> "Virtual", dtor |-> TRUE]
ND == [sig |-> "dtor", virtuality |-> "NonVirtual", dtor |-> TRUE]

Methods ==
  {<< >>, <<V("f")>>, <<V("g"), V("f")>>, <<P("f"), V("g")>>, <<V("f"), VD>>,
   <<N("h"), VD, V("g")>>, <<ND, P("g")>>, <<N("h")>>,
   <<V("f"), V("f2")>>, <<V("op"), VD, V("f2")>>}

S(c) == [class |-> c, virt |-> FALSE]
W(c) == [class |-> c, virt |-> TRUE]

Bases2 == {<< >>, <<S(1)>>, <<W(1)>>}
Bases3 == {<<S(2)>>, <<S(1), S(2)>>, <<S(2), W(1)>>, <<W(2), W(1)>>}

All ==
  {<<[bases |-> << >>, methods |-> m1], [bases |-> b2, methods |-> m2],
     [bases |-> b3, methods |-> m3]>> :
     m1 \in Methods, m2 \in Methods, m3 \in Methods, b2 \in Bases2, b3 \in Bases3}

MCNameOf == [s \in Sig |-> CASE s = "f2" -> "f" [] s = "op" -> "none" [] OTHER -> s]
MCMsvcNameOf == [s \in Sig |-> IF s = "f2" THEN "f" ELSE s]
MCParamsOf == [s \in Sig |-> IF s = "f2" THEN "i" ELSE "v"]

MCPrograms == {p \in All : WellFormed(p)}
===============================================================================
