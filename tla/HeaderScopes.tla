------------------------------ MODULE HeaderScopes ------------------------------
(***************************************************************************)
(* From headers to bindings, as Build::compile goes: each root header is   *)
(* walked by an Importer of its own, whose lists of aliases, enums,        *)
(* functions and variables are appended to those of the earlier roots;     *)
(* the classes share one context.  The emitter then sorts everything into  *)
(* a tree of modules, one for each namespace, where a type is referred to  *)
(* by its last name.                                                       *)
(*                                                                         *)
(* A declaration is [kind, ns, cls, name, ...]: its namespaces, the        *)
(* classes it is nested in and its name, all sequences of words, so that   *)
(* `_' between words is that of a flattened name.  A root is the sequence  *)
(* of the declarations of its translation unit; those of class scope are   *)
(* the members of their class.  `to' is the type a declaration mentions.   *)
(***************************************************************************)
EXTENDS Wrappers

NoHeaders == [roots |-> <<>>, synth |-> <<>>]
NoType == [kind |-> "int", ns |-> <<>>, cls |-> <<>>, name |-> <<>>]
Usr(d) == [kind |-> d.kind, ns |-> d.ns, cls |-> d.cls, name |-> d.name]

-----------------------------------------------------------------------------
(* What the walk of one translation unit records.  A declaration is marked   *)
(* by its USR before its type is looked at, so one that is marked and then   *)
(* fails is not tried again.                                                 *)
Firsts(ds) ==
  FoldLeft(LAMBDA kept, d : IF \E e \in Range(kept) : Usr(e) = Usr(d) THEN kept ELSE Append(kept, d),
           <<>>, ds)
Recorded(ds) == SelectSeq(Firsts(ds), LAMBDA d : d.ok)
AtScope(tu, kind) == SelectSeq(tu, LAMBDA d : d.kind = kind /\ ~d.system)

CollectAlias(ds) == Recorded(ds)
CollectEnum(ds) == Recorded(SelectSeq(ds, LAMBDA d : d.def))
CollectGlobalVar(ds) == Recorded(SelectSeq(ds, LAMBDA d : d.name # <<>>))
NotCollected == {"operator", "__builtin"}
CollectFreeFn(ds) == Recorded(SelectSeq(ds, LAMBDA d : Head(d.name) \notin NotCollected))
CollectStaticData(ds) == Recorded(ds)

Collect(kind, ds) ==
  CASE kind = "alias" -> CollectAlias(ds)
    [] kind = "enum" -> CollectEnum(ds)
    [] kind = "var" -> CollectGlobalVar(ds)
    [] kind = "fn" -> CollectFreeFn(ds)

(* Each root has its own sets of marks: the lists of the roots are joined.   *)
PerRoot(h, kind) ==
  FlattenSeq([r \in DOMAIN h.roots |-> Collect(kind, AtScope(h.roots[r], kind))])
FreeFns(h) == PerRoot(h, "fn")
Globals(h) == PerRoot(h, "var")

(* Macros are kept by name over all the roots, the first definition wins.    *)
Macros(h) == Firsts(FlattenSeq([r \in DOMAIN h.roots |-> AtScope(h.roots[r], "macro")]))

-----------------------------------------------------------------------------
(* The classes.  A walk lists the definitions at namespace scope; the        *)
(* context also holds every class one of them, or a recorded declaration,    *)
(* mentions.  One without a definition, and every class of a system header,  *)
(* is a poison node: opaque, and named by its last name alone.               *)
Units(h) == Range(h.roots) \cup {h.synth}
WithMembers(ds) == ds \cup UNION {Range(d.members) : d \in ds}
Visible(tu) == WithMembers(Range(tu))
IsClass(d) == d.kind = "class" /\ d.def /\ ~d.system
WalkedClasses(tu) == {d \in Range(tu) : IsClass(d)}
AllClassIds(h) == {Usr(d) : d \in UNION {WalkedClasses(tu) : tu \in Units(h)}}

ClassesOf(ds) == {d.to : d \in {e \in ds : e.ok /\ e.to.kind = "class"}}
Mentioned(tu) == ClassesOf({d \in Range(tu) : d.kind # "class" /\ ~d.system})
Reached(tu) ==
  LET Grown(ids) == ids \cup UNION {ClassesOf(WithMembers({d})) :
                                      d \in {e \in Visible(tu) : IsClass(e) /\ Usr(e) \in ids}}
      reach[n \in 0 .. Cardinality(Visible(tu))] ==
        IF n = 0 THEN {Usr(d) : d \in WalkedClasses(tu)} \cup Mentioned(tu)
        ELSE Grown(reach[n - 1])
  IN reach[Cardinality(Visible(tu))]
ClassIds(h) == UNION {Reached(tu) : tu \in Units(h)}
Definitions(h, id) == {d \in UNION {Visible(tu) : tu \in Units(h)} : IsClass(d) /\ Usr(d) = id}
Poisoned(h, id) == Definitions(h, id) = {}
Definition(h, id) == CHOOSE d \in Definitions(h, id) : TRUE
EmittedAs(h, type) ==
  IF type.kind = "class" /\ Poisoned(h, type) THEN [type EXCEPT !.ns = <<>>, !.cls = <<>>] ELSE type

(* The body of a class is walked once, however many roots reach it, and its  *)
(* enums, aliases and static members recorded.                               *)
Body(h, id, kind) ==
  IF Poisoned(h, id) THEN <<>>
  ELSE SelectSeq(Definition(h, id).members, LAMBDA d : d.kind = kind)
InBodies(h, kind) ==
  LET ids == SetToSeq(ClassIds(h))
  IN FlattenSeq([i \in DOMAIN ids |-> Collect(kind, Body(h, ids[i], kind))])
Enums(h) == PerRoot(h, "enum") \o InBodies(h, "enum")
Aliases(h) == PerRoot(h, "alias") \o InBodies(h, "alias")
StaticMembers(h, id) == CollectStaticData(Body(h, id, "var"))

-----------------------------------------------------------------------------
(* The tree of modules.  What is nested in a class goes to the module of its *)
(* namespace under a joined name.                                            *)
Flattened(d) == d.cls \o d.name
Skipped(h, id) == ~Poisoned(h, id) /\ Definition(h, id).skip
EmittedClasses(h, ns) == {id \in ClassIds(h) : EmittedAs(h, id).ns = ns /\ ~Skipped(h, id)}

(* render_rust_type: the last name of a class or an enum, the integer of an  *)
(* enum of class scope.                                                      *)
Leaf(h, type) ==
  IF type.kind = "enum" /\ type.cls # <<>> THEN <<>>
  ELSE Flattened(EmittedAs(h, type))

(* The type items of a module, each with the type its name stands for.       *)
In(ds, ns) == SelectSeq(ds, LAMBDA d : d.ns = ns)
Item(d) == [name |-> Flattened(d), is |-> Usr(d)]
EnumItems(h, ns) ==
  LET named == SelectSeq(In(Enums(h), ns), LAMBDA d : d.name # <<>>)
  IN [i \in DOMAIN named |-> Item(named[i])]
AliasNames(h, ns) == LET here == In(Aliases(h), ns) IN [i \in DOMAIN here |-> Flattened(here[i])]
TakenAtBug(h, ns, i) ==
  \E t \in Range(EnumItems(h, ns)) : t.name = AliasNames(h, ns)[i]
TakenAt(h, ns, i) ==
  \/ \E t \in Range(EnumItems(h, ns)) : t.name = AliasNames(h, ns)[i]
  \/ \E j \in 1 .. i - 1 : AliasNames(h, ns)[j] = AliasNames(h, ns)[i]
AliasItems(h, ns) ==
  LET here == In(Aliases(h), ns)
      kept == {i \in DOMAIN here : ~TakenAt(h, ns, i) /\ Leaf(h, here[i].to) # AliasNames(h, ns)[i]}
  IN [n \in 1 .. Cardinality(kept) |->
        LET i == SetToSortSeq(kept, <)[n] IN [name |-> AliasNames(h, ns)[i], is |-> here[i].to]]
ClassItems(h, ns) ==
  LET ids == SetToSeq(EmittedClasses(h, ns))
  IN [i \in DOMAIN ids |-> [name |-> Flattened(EmittedAs(h, ids[i])), is |-> ids[i]]]
TypeItems(h, ns) == EnumItems(h, ns) \o AliasItems(h, ns) \o ClassItems(h, ns)

(* The value items: the constants of the unnamed enums, the functions, and   *)
(* at the root the macros and the variables of every namespace.              *)
Constants(h, ns) ==
  FlattenSeq([i \in DOMAIN In(Enums(h), ns) |->
    LET d == In(Enums(h), ns)[i] IN
      IF d.name # <<>> THEN <<>> ELSE [j \in DOMAIN d.values |-> d.ns \o d.cls \o <<d.values[j]>>]])
Names(ds) == [i \in DOMAIN ds |-> ds[i].name]
FnItems(ns) == SelectSeq(fns, LAMBDA f : Fn(f.fn).ns = ns)
FnNames(ns) == [i \in DOMAIN FnItems(ns) |-> Fn(FnItems(ns)[i].fn).name]
ValueItems(h, ns) ==
  Constants(h, ns) \o FnNames(ns) \o (IF ns = <<>> THEN Names(Macros(h)) \o Names(Globals(h)) ELSE <<>>)

(* The types the items of a module mention.                                  *)
Mentions(h, ns) ==
  {t.is : t \in Range(AliasItems(h, ns))}
  \cup {FreeFns(h)[f.fn].to : f \in Range(FnItems(ns))}
  \cup UNION {{Definition(h, id).to} \cup {d.to : d \in Range(StaticMembers(h, id))} :
                id \in {c \in EmittedClasses(h, ns) : ~Poisoned(h, c)}}
  \cup (IF ns = <<>> THEN {d.to : d \in Range(Globals(h))} ELSE {})

-----------------------------------------------------------------------------
(* The context and the lists the emitters of Bindings are given.             *)
ClassRecord(h, id) ==
  [path |-> Flattened(EmittedAs(h, id)), alias |-> <<>>, skip |-> Skipped(h, id), poisoned |-> Poisoned(h, id),
   abstract |-> FALSE, listed |-> id \in AllClassIds(h), bases |-> <<>>,
   methods |-> IF Poisoned(h, id) THEN <<>> ELSE Definition(h, id).methods]
ClassRecords(h) ==
  LET ids == SetToSeq(ClassIds(h)) IN [i \in DOMAIN ids |-> ClassRecord(h, ids[i])]
FnRecords(h) ==
  LET ds == FreeFns(h)
  IN [i \in DOMAIN ds |-> [ds[i].sig EXCEPT !.ns = ds[i].ns, !.name = ds[i].name,
                                             !.inline = ds[i].inline]]

-----------------------------------------------------------------------------
(* The property.                                                             *)
Distinct(s) == \A i, j \in DOMAIN s : s[i] = s[j] => i = j
Scopes(h) == {<<>>} \cup {d.ns : d \in UNION {Visible(tu) : tu \in Units(h)}}

NamesOnce(h, ns) ==
  /\ Distinct([i \in DOMAIN TypeItems(h, ns) |-> TypeItems(h, ns)[i].name])
  /\ Distinct(ValueItems(h, ns))
Resolves(h, ns, type) ==
  Leaf(h, type) = <<>> \/ \E t \in Range(TypeItems(h, ns)) : t.name = Leaf(h, type) /\ t.is = type

(* One C++ file holds all the shims; it is linked with code that defines no  *)
(* inline function.                                                          *)
ShimsOnce ==
  LET shims == {i \in DOMAIN prog.fns : FnShimmed(Fn(i))}
  IN \A i, j \in shims : Fn(i) = Fn(j) => i = j
InlineInCpp(h, f) ==
  \E tu \in Range(h.roots) : \E d \in Range(tu) :
    d.kind = "fn" /\ d.ns = f.ns /\ d.name = f.name /\ d.inline
FnsDefined(h) == \A f \in Range(fns) :
  IF f.link.to = "shim" THEN f.link \in defs ELSE ~InlineInCpp(h, Fn(f.fn))
ClassesDefined == \A c \in DOMAIN items :
  /\ \A e \in Range(items[c].blocks) : e.link.to = "shim" => e.link \in defs
  /\ \A e \in Range(items[c].heap) : \E d \in defs : d.to = "heap" /\ d.of = <<c, e.method>>

Builds(h) ==
  /\ \A ns \in Scopes(h) : NamesOnce(h, ns) /\ \A t \in Mentions(h, ns) : Resolves(h, ns, t)
  /\ ShimsOnce /\ FnsDefined(h) /\ ClassesDefined

(* The headers that can be bound.                                            *)
User(h) == {d \in UNION {Range(tu) : tu \in Range(h.roots)} : ~d.system /\ d.ok}
IsItem(d) == (d.kind = "enum" /\ d.def) \/ d.kind = "var" \/ (d.kind = "fn" /\ d.inline)
OneRootEach(h) ==
  \A r, s \in DOMAIN h.roots : \A d \in Range(h.roots[r]), e \in Range(h.roots[s]) :
    d \in User(h) /\ e \in User(h) /\ IsItem(d) /\ IsItem(e) /\ Usr(d) = Usr(e) => r = s
InlineFirst(h) ==
  \A r \in DOMAIN h.roots : \A i, j \in DOMAIN h.roots[r] :
    LET d == h.roots[r][i]
        e == h.roots[r][j]
    IN d.kind = "fn" /\ e.kind = "fn" /\ ~d.system /\ Usr(d) = Usr(e) /\ j < i /\ d.inline
       => e.inline
Known(h, type) ==
  \/ type.kind = "class" /\ ~Skipped(h, type)
  \/ type.kind = "enum" /\ (type.cls # <<>> \/ \E d \in User(h) : d.def /\ Usr(d) = type)
  \/ type.kind = "int"
StaysInScope(h) ==
  LET from == {d \in User(h) : d.kind \in {"fn", "alias", "var"}}
              \cup {Definition(h, id) : id \in {c \in ClassIds(h) : ~Poisoned(h, c) /\ ~Skipped(h, c)}}
      uses == UNION {{d} \cup {m \in Range(d.members) : m.kind \in {"alias", "var"}} : d \in from}
  IN \A e \in {u \in uses : u.kind = "alias" => Leaf(h, u.to) # Flattened(u)} :
       /\ Known(h, e.to)
       /\ \/ Leaf(h, e.to) = <<>>
          \/ EmittedAs(h, e.to).ns = (IF e.kind = "var" /\ e.cls = <<>> THEN <<>> ELSE e.ns)
OpaqueApart(h) ==
  \A id \in {c \in ClassIds(h) : Poisoned(h, c)} :
    /\ \A c \in ClassIds(h) \ {id} : ~Skipped(h, c) /\ EmittedAs(h, c).ns = <<>> => Flattened(EmittedAs(h, c)) # id.name
    /\ \A d \in User(h) : d.kind \in {"enum", "alias"} /\ d.def /\ d.ns = <<>> /\ Flattened(d) = id.name
         => d.kind = "alias" /\ Leaf(h, d.to) = id.name
GlobalsApart(h) ==
  \A d, e \in User(h) : d.kind = "var" /\ e.kind = "var" /\ d.name = e.name => d.ns = e.ns
ShimmedClasses(h) ==
  \A id \in ClassIds(h) \ AllClassIds(h) :
    Poisoned(h, id) \/ Skipped(h, id) \/ Definition(h, id).methods = <<>>

(* The generated Rust and C++ files build together: no module defines a name *)
(* twice, the name of a type finds that type in the module it is written in, *)
(* and what Rust links to is defined once.  They do so exactly if no root    *)
(* shares an enum, a variable or an inline function with another, no type is *)
(* used outside its namespace or left undeclared, no two namespaces have a   *)
(* variable of one name, no opaque class the name of another type of the     *)
(* global namespace, an inline function is inline from its first declaration *)
(* on, and a class the walks do not list needs no shim.                      *)
HeadersBuild ==
  phase = "done" /\ prog.headers # NoHeaders =>
    LET h == prog.headers IN
      Builds(h) <=> /\ OneRootEach(h) /\ InlineFirst(h) /\ StaysInScope(h)
                    /\ GlobalsApart(h) /\ OpaqueApart(h) /\ ShimmedClasses(h)
=============================================================================
