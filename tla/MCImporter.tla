------------------------------ MODULE MCImporter ------------------------------
(* Bounded programs for Importer: a class A that derives from or names the   *)
(* others and itself, a class or specialization B, a helper C that may be    *)
(* opaque, skipped or unsupported, over one or two headers.                  *)
EXTENDS Importer

D(system, skip, args, fields, bases, methods) ==
  [system |-> system, skip |-> skip, args |-> args, fields |-> fields,
   bases |-> bases, methods |-> methods]
M(types, virtual, hidden) == [types |-> types, virtual |-> virtual, hidden |-> hidden]

Virtual == M(<<Scalar>>, TRUE, FALSE)

ABodies ==
  {D(FALSE, FALSE, << >>, f, b, m) :
     f \in {<< >>, <<"B">>, <<Scalar, "A">>},
     b \in {<< >>, <<[class |-> "B", virt |-> FALSE]>>, <<[class |-> "B", virt |-> TRUE]>>},
     m \in {<< >>,
            <<M(<<"C", "B">>, FALSE, FALSE), Virtual>>,
            <<M(<<"B", "C">>, FALSE, FALSE), M(<<Scalar>>, FALSE, TRUE)>>,
            <<M(<<"A", Unsupported>>, TRUE, FALSE), M(<<"C">>, FALSE, FALSE)>>}}

BBodies ==
  {D(FALSE, FALSE, a, f, << >>, m) :
     a \in {<< >>, <<"C">>, <<Scalar, Unsupported>>},
     f \in {<< >>, <<"A">>, <<Unsupported>>},
     m \in {<< >>, <<Virtual>>, <<M(<<"A", Scalar>>, FALSE, FALSE)>>}}

CBodies ==
  {D(FALSE, FALSE, << >>, << >>, << >>, <<Virtual>>),
   D(FALSE, FALSE, << >>, <<"B", "A">>, << >>, << >>),
   D(TRUE, FALSE, << >>, << >>, << >>, <<Virtual>>),
   D(FALSE, TRUE, << >>, <<Unsupported>>, << >>, << >>),
   D(FALSE, FALSE, << >>, <<Unsupported>>, << >>, << >>)}

H(defined, cursors) == [defined |-> defined, cursors |-> cursors]

Headers ==
  {<<H({"A", "B", "C"}, <<"C", "B", "A">>)>>,
   <<H({"A", "B", "C"}, <<"A", "B", "C">>)>>,
   <<H({"A", "B", "C"}, <<"B", "C", "A">>)>>,
   <<H({"A", "B"}, <<"B", "A">>), H({"A", "B", "C"}, <<"A", "C">>)>>,
   <<H({"B"}, <<"B">>), H({"A", "B", "C"}, <<"A", "B", "C">>)>>}

All ==
  {[decl |-> [u \in Usr |-> IF u = "A" THEN a ELSE IF u = "B" THEN b ELSE c], tus |-> h] :
     a \in ABodies, b \in BBodies, c \in CBodies, h \in Headers}

(* A specialization B whose argument is the class C that derives from it, in *)
(* a method of its own base A: B is imported twice, and C holds the first.   *)
Twice ==
  {[decl |-> [u \in Usr |->
      IF u = "A" THEN D(FALSE, FALSE, << >>, << >>, << >>, <<M(<<"B">>, v, FALSE)>>)
      ELSE IF u = "B"
           THEN D(FALSE, FALSE, <<"C">>, << >>, <<[class |-> "A", virt |-> FALSE]>>, << >>)
           ELSE D(FALSE, FALSE, << >>, << >>, <<[class |-> "B", virt |-> FALSE]>>, << >>)],
    tus |-> <<H({"A", "B", "C"}, <<"A", "C">>)>>] : v \in BOOLEAN}

MCPrograms == {p \in All \union Twice : WellFormed(p)}
===============================================================================
