---------------------------- MODULE MCImportCache ----------------------------
(* Small instances of the import cache for TLC.                              *)
EXTENDS ImportCache, TLC

CONSTANTS f1, f2, t1

Graph(list, flags, templates) ==
  [roots |-> list, flags |-> flags, templates |-> templates]
TwoRoots == {Graph(<<"a", "b">>, f1, None), Graph(<<"b", "a">>, f2, t1)}

Symmetry == Permutations(Proc) \union Permutations(Text)
=============================================================================
