------------------------------- MODULE Bindings -------------------------------
(***************************************************************************)
(* The two emitters that must agree: rust_bindings.rs, which declares each *)
(* C++ function to Rust under a link name, and the C++ side that defines   *)
(* those names, shims.rs and the throwing shims of build.rs.               *)
(*                                                                         *)
(* The emitters walk the free functions and the classes of a finished type *)
(* context, one entry at a time.  An identifier is the sequence of words   *)
(* that `_' joins, so that "f_i32" is one name whether a header spells it  *)
(* or an overload suffix makes it.  A mangled symbol is the function it    *)
(* names.  A type is what the two renderers make of it.  The vtable        *)
(* attribute, the layout and the wrapper bodies are left out.              *)
(***************************************************************************)
EXTENDS Naturals, Sequences, SequencesExt, FiniteSets, TLC

CONSTANT Programs  \* the type contexts to emit, each with its RustBindingsConfig

(* What a context can hold, as the importer leaves it.  `alias' is the       *)
(* rustcc::name annotation, <<>> if there is none.  Annotations are looked   *)
(* up by the qualified name, which the overloads of a function share.  A     *)
(* destructor takes nothing, and has its slot when it is virtual.            *)
Ctors == {"DefaultCtor", "OtherCtor"}
Specials == Ctors \cup {"none", "CopyCtor", "MoveCtor", "CopyAssign", "MoveAssign", "Dtor"}
SameFqn(m, n) == IF m.special \in Ctors THEN n.special \in Ctors
                 ELSE m.special = "none" /\ n.special = "none" /\ m.name = n.name
IsSeq(s) == s \in Seq(Range(s))
WellFormed(p) ==
  /\ IsSeq(p.fns) /\ IsSeq(p.classes) /\ \A f \in Range(p.fns) : IsSeq(f.params)
  /\ \A c \in DOMAIN p.classes :
       LET ms == Range(p.classes[c].methods) IN
         /\ IsSeq(p.classes[c].bases) /\ IsSeq(p.classes[c].methods)
         /\ \A b \in Range(p.classes[c].bases) : b.class \in 1 .. (c - 1)
         /\ \A m, n \in ms : SameFqn(m, n) => m.throws = n.throws /\ m.alias = n.alias
         /\ \A m \in ms :
              /\ m.special \in Specials /\ IsSeq(m.params) /\ IsSeq(m.defaults)
              /\ m.throws => m.special \in Ctors \cup {"none"}
              /\ m.virtual => ~m.static /\ m.special \in {"none", "Dtor"}
              /\ m.special = "Dtor" => m.params = <<>> /\ (m.virtual => m.slot)

ASSUME ProgramAssumption == \A p \in Programs : WellFormed(p)

VARIABLES
  prog,    \* the context
  phase,   \* fns, classes, shims, throws, done
  at, k,   \* the class and the entry the walk has reached
  seen,    \* seen_extern_idents of the class, or seen_idents of the functions
  ctors,   \* ctor_seen
  dtor,    \* has_user_dtor
  blocks,  \* method_blocks
  items,   \* the classes rendered so far
  fns,     \* the free functions rendered so far
  defs,    \* what the C++ file defines so far
  failed   \* an emitter returned an error or panicked

vars == <<prog, phase, at, k, seen, ctors, dtor, blocks, items, fns, defs, failed>>

-----------------------------------------------------------------------------
Methods(c) == prog.classes[c].methods
Bases(c) == Range(prog.classes[c].bases)
ClassName(c) == LET d == prog.classes[c] IN IF d.alias # <<>> THEN d.alias ELSE d.path
Basename(c) == <<Last(prog.classes[c].path)>>
Fn(i) == prog.fns[i]

Types(f) == Append(f.params, f.ret)
RustOk(f) == \A i \in DOMAIN Types(f) : Types(f)[i].rustOk
CppOk(f) == \A i \in DOMAIN Types(f) : Types(f)[i].cppOk
ByValueRecord(f) == \E t \in Range(Types(f)) : t.rec
HasI64(f) == \E t \in Range(Types(f)) : t.i64
NonDispatched(m) == m.special = "none" /\ ~m.virtual

(* is_polymorphic; chain_is_single_nonvirtual and the dtor slot of           *)
(* build_imported_vtable_attr.                                               *)
Polymorphic(c) ==
  LET poly[d \in 1 .. c] ==
        \/ \E m \in Range(Methods(d)) : m.virtual
        \/ \E b \in Bases(d) : b.virt \/ poly[b.class]
  IN poly[c]
SingleChain(c) ==
  LET single[d \in 1 .. c] ==
        Len(prog.classes[d].bases) <= 1 /\ \A b \in Bases(d) : ~b.virt /\ single[b.class]
  IN single[c]
VirtualDtor(c) ==
  LET inherits[d \in 1 .. c] ==
        \/ \E m \in Range(Methods(d)) : m.virtual /\ m.special = "Dtor"
        \/ \E b \in Bases(d) : inherits[b.class]
  IN inherits[c]

-----------------------------------------------------------------------------
(* Names.  The first entry of a group of overloads keeps the base name, the  *)
(* later ones take the words of their parameters.                            *)
Suffix(words) == IF words = <<>> THEN <<"ovl">> ELSE words
Disambiguated(entries, i) ==
  IF \E j \in 1 .. (i - 1) : entries[j].base = entries[i].base
  THEN entries[i].base \o Suffix(entries[i].words) ELSE entries[i].base

FixedName(m) == CASE m.special \in Ctors -> <<"new">>
                  [] m.special = "Dtor" -> <<"drop">>
                  [] m.special \notin Ctors \cup {"Dtor", "none"} -> <<"__cxx", m.special>>
                  [] m.special = "none" /\ m.named = "conversion" -> <<"__cxx_conversion__">>
                  [] OTHER -> m.name
SlotOnly == <<"__slot_only">>
Entry(c, i) ==
  LET m == Methods(c)[i]
      RustWords(t) == t.rust
  IN IF ~m.public THEN [base |-> SlotOnly, words |-> <<>>]
     ELSE [base |-> IF m.alias # <<>> THEN m.alias ELSE FixedName(m),
           words |-> IF \A t \in Range(m.params) : t.rustOk
                     THEN FlattenSeq([j \in DOMAIN m.params |-> m.params[j].rust])
                     ELSE <<"unrenderable", ToString(i - 1)>>]
ResolvedName(c, i) == Disambiguated([j \in DOMAIN Methods(c) |-> Entry(c, j)], i)

(* The names a special member gets whatever it is called.                    *)
RustName(c, i) ==
  LET s == Methods(c)[i].special IN
    CASE s = "CopyCtor" -> <<"clone">>
      [] s = "MoveCtor" -> <<"move", "from">>
      [] s = "CopyAssign" -> <<"copy", "assign">>
      [] s = "MoveAssign" -> <<"move", "assign">>
      [] OTHER -> ResolvedName(c, i)
ExternIdent(c, i) ==
  LET s == Methods(c)[i].special IN
    <<"", "cxx">> \o ClassName(c) \o
      CASE s = "Dtor" -> <<"dtor">>
        [] s = "CopyCtor" -> <<"copy", "ctor">>
        [] s = "MoveCtor" -> <<"move", "ctor">>
        [] OTHER -> RustName(c, i)

-----------------------------------------------------------------------------
(* classify_for_direct_extern and the routing that follows it.               *)
Throws(m) == m.throws /\ (m.special \in Ctors \/ m.named = "ident")
Kind(m) == CASE m.special \in Ctors -> "Ctor"
             [] m.special \notin Ctors \cup {"none"} -> m.special
             [] m.special = "none" /\ m.static -> "Static"
             [] m.special = "none" /\ ~m.static /\ m.virtual /\ ~Throws(m) -> "Virtual"
             [] OTHER -> "Instance"
Classifies(m) ==
  /\ m.virtual => m.slot
  /\ \A t \in Range(m.params) : t.rustOk
  /\ m.special = "none" => m.named # "conversion" /\ m.ret.rustOk
Variant(c, m) ==
  CASE m.special \in Ctors -> IF prog.classes[c].abstract THEN "C2" ELSE "C1"
    [] m.special \in {"CopyCtor", "MoveCtor"} -> "C1"
    [] m.special = "Dtor" -> IF Polymorphic(c) THEN "D2" ELSE "D1"
    [] OTHER -> "none"

MangledLink(of) == [to |-> "mangled", name |-> <<>>, of |-> of]
ShimLink(of) == [to |-> "shim", name |-> <<>>, of |-> of]
ThrowsLink(name, of) == [to |-> "throws", name |-> name, of |-> of]

ViaShim(m) ==
  /\ ~Throws(m) /\ Kind(m) = "Instance" /\ m.named = "ident"
  /\ m.inline /\ ~m.static /\ ~ByValueRecord(m)
Link(c, i) ==
  LET m == Methods(c)[i] IN
    IF Throws(m) THEN ThrowsLink(ClassName(c) \o RustName(c, i), <<c, i>>)
    ELSE IF ViaShim(m) THEN ShimLink(<<c, i>>) ELSE MangledLink(<<c, i>>)
Emission(c, i) ==
  [method |-> i, kind |-> Kind(Methods(c)[i]), name |-> RustName(c, i),
   ident |-> ExternIdent(c, i), link |-> Link(c, i), variant |-> Variant(c, Methods(c)[i])]

FnRouted(f) == f.inline /\ ~f.variadic /\ ~ByValueRecord(f) /\ ~HasI64(f)
FnLink(i) ==
  IF Fn(i).throws /\ ~prog.native THEN ThrowsLink(Fn(i).name, <<0, i>>)
  ELSE IF FnRouted(Fn(i)) THEN ShimLink(<<0, i>>) ELSE MangledLink(<<0, i>>)
FnIdent(i) == <<Fn(i).ns, "cxx", "fn">> \o Fn(i).name

-----------------------------------------------------------------------------
(* The base accessors and the forwarders that chain through them.            *)
Optional(x, cond) == IF cond THEN <<x>> ELSE <<>>
Reborrowed(c) ==
  LET bs == prog.classes[c].bases
  IN FlattenSeq([i \in DOMAIN bs |->
       Optional(bs[i], ~bs[i].virt /\ ~prog.classes[bs[i].class].poisoned)])
AccessorName(c) == <<"as">> \o prog.classes[c].path
Accessors(c) ==
  {AccessorName(b.class) : b \in Range(Reborrowed(c))}
  \cup {Append(AccessorName(b.class), "mut") : b \in Range(Reborrowed(c))}
MethodNames(c) == {m.name : m \in Range(Methods(c))}

(* walk_ancestor_chain visits a class once, along the first path to it.      *)
PathsLateBug(c) ==
  LET down[d \in 1 .. c] ==
        FlattenSeq([i \in DOMAIN Reborrowed(d) |->
          LET b == Reborrowed(d)[i].class
          IN [j \in DOMAIN down[b] |-> <<b>> \o down[b][j]] \o << <<b>> >>])
  IN down[c]
Paths(c) ==
  LET down[d \in 1 .. c] ==
        FlattenSeq([i \in DOMAIN Reborrowed(d) |->
          LET b == Reborrowed(d)[i].class
          IN << <<b>> >> \o [j \in DOMAIN down[b] |-> <<b>> \o down[b][j]]])
  IN down[c]
Visits(c) ==
  LET paths == Paths(c)
  IN FlattenSeq([i \in DOMAIN paths |->
       Optional(paths[i], \A j \in 1 .. (i - 1) : Last(paths[j]) # Last(paths[i]))])
Forwards(m) == NonDispatched(m) /\ m.named = "ident" /\ ~m.static
ForwardsOf(path) ==
  LET ms == Methods(Last(path))
  IN FlattenSeq([j \in DOMAIN ms |-> Optional([path |-> path, method |-> j], Forwards(ms[j]))])
Candidates(c) ==
  LET visits == Visits(c) IN FlattenSeq([i \in DOMAIN visits |-> ForwardsOf(visits[i])])
Target(f) == Methods(Last(f.path))[f.method]
Taken(c, own) == Accessors(c) \cup {e.name : e \in Range(own)}
Forwarders(c, own) ==
  LET fs == Candidates(c)
      Kept(i) == /\ Target(fs[i]).name \notin Taken(c, own)
                 /\ \A j \in 1 .. (i - 1) : Target(fs[j]).name # Target(fs[i]).name
                 /\ RustOk(Target(fs[i]))
  IN FlattenSeq([i \in DOMAIN fs |-> Optional(fs[i], Kept(i))])

(* What drops a value: the destructor the class declares, or the one it      *)
(* inherits.                                                                 *)
NoDrop == [of |-> "none", variant |-> "none"]
DropBug(c) == IF dtor THEN [of |-> "own", variant |-> Variant(c, [special |-> "Dtor"])] ELSE NoDrop
Drop(c) ==
  IF dtor THEN [of |-> "own", variant |-> Variant(c, [special |-> "Dtor"])]
  ELSE IF SingleChain(c) /\ VirtualDtor(c) /\ ~prog.classes[c].abstract
       THEN [of |-> "inherited", variant |-> "D1"] ELSE NoDrop

Opaque == [blocks |-> <<>>, forwarders |-> <<>>, accessors |-> {}, drop |-> NoDrop, heap |-> <<>>]
Rendered(c) ==
  [blocks |-> blocks,
   forwarders |-> IF prog.flatten THEN Forwarders(c, blocks) ELSE <<>>,
   accessors |-> {AccessorName(b.class) : b \in {b \in Range(Reborrowed(c)) :
                    {AccessorName(b.class), Append(AccessorName(b.class), "mut")}
                      \cap MethodNames(c) = {}}},
   drop |-> Drop(c),
   heap |-> IF ~prog.heap THEN <<>>
            ELSE FlattenSeq([i \in DOMAIN blocks |-> Optional(blocks[i], blocks[i].kind = "Ctor")])]

-----------------------------------------------------------------------------
Init ==
  /\ prog \in Programs
  /\ phase = "fns" /\ at = 1 /\ k = 1
  /\ seen = {} /\ ctors = 0 /\ dtor = FALSE /\ blocks = <<>>
  /\ items = <<>> /\ fns = <<>> /\ defs = {} /\ failed = FALSE

(* render_free_fns *)
AtFn == phase = "fns" /\ k <= Len(prog.fns)
FnEmitted == ~Fn(k).skip /\ RustOk(Fn(k)) /\ FnIdent(k) \notin seen
EmitFn ==
  /\ AtFn /\ FnEmitted
  /\ fns' = Append(fns, [fn |-> k, ident |-> FnIdent(k), link |-> FnLink(k)])
  /\ seen' = seen \cup {FnIdent(k)}
  /\ k' = k + 1
  /\ UNCHANGED <<prog, phase, at, ctors, dtor, blocks, items, defs, failed>>
PassFn ==
  /\ AtFn /\ ~FnEmitted
  /\ k' = k + 1
  /\ UNCHANGED <<prog, phase, at, seen, ctors, dtor, blocks, items, fns, defs, failed>>
FnsDone ==
  /\ phase = "fns" /\ k > Len(prog.fns)
  /\ phase' = "classes" /\ k' = 1 /\ seen' = {}
  /\ UNCHANGED <<prog, at, ctors, dtor, blocks, items, fns, defs, failed>>

(* render_direct_extern_class: a class that is skipped, a poisoned one, and  *)
(* the loop over the methods of any other.                                   *)
AtClass == phase = "classes" /\ ~failed /\ at <= Len(prog.classes)
Class == prog.classes[at]
SkipClass ==
  /\ AtClass /\ Class.skip
  /\ items' = Append(items, Opaque) /\ at' = at + 1
  /\ UNCHANGED <<prog, phase, k, seen, ctors, dtor, blocks, fns, defs, failed>>
OpaqueClass ==
  /\ AtClass /\ ~Class.skip /\ Class.poisoned
  /\ items' = Append(items, Opaque) /\ at' = at + 1
  /\ UNCHANGED <<prog, phase, k, seen, ctors, dtor, blocks, fns, defs, failed>>

AtMethod == AtClass /\ ~Class.skip /\ ~Class.poisoned /\ k <= Len(Methods(at))
Method == Methods(at)[k]
SkipMethod ==
  /\ AtMethod /\ (~Method.public \/ ~Classifies(Method))
  /\ k' = k + 1
  /\ UNCHANGED <<prog, phase, at, seen, ctors, dtor, blocks, items, fns, defs, failed>>
SkipExtraCtor ==
  /\ AtMethod /\ Method.public /\ Classifies(Method)
  /\ Kind(Method) = "Ctor" /\ ctors > 0
  /\ ctors' = ctors + 1 /\ k' = k + 1
  /\ UNCHANGED <<prog, phase, at, seen, dtor, blocks, items, fns, defs, failed>>
FreshBug(ident) == TRUE
Fresh(ident) == ident \notin seen
EmitMethod ==
  /\ AtMethod /\ Method.public /\ Classifies(Method)
  /\ Kind(Method) = "Ctor" => ctors = 0
  /\ ctors' = ctors + (IF Kind(Method) = "Ctor" THEN 1 ELSE 0)
  /\ dtor' = (dtor \/ Kind(Method) = "Dtor")
  /\ seen' = seen \cup {ExternIdent(at, k)}
  /\ blocks' = IF Fresh(ExternIdent(at, k)) THEN Append(blocks, Emission(at, k)) ELSE blocks
  /\ k' = k + 1
  /\ UNCHANGED <<prog, phase, at, items, fns, defs, failed>>

(* The rest of the class.  `.expect("user dtor seen")' panics when another   *)
(* method took the identifier of the destructor.                             *)
FinishClass ==
  /\ AtClass /\ ~Class.skip /\ ~Class.poisoned /\ k > Len(Methods(at))
  /\ failed' = (dtor /\ \A e \in Range(blocks) : e.kind # "Dtor")
  /\ items' = Append(items, Rendered(at))
  /\ at' = at + 1 /\ k' = 1 /\ seen' = {} /\ ctors' = 0 /\ dtor' = FALSE /\ blocks' = <<>>
  /\ UNCHANGED <<prog, phase, fns, defs>>
ClassesDone ==
  /\ phase = "classes" /\ ~failed /\ at > Len(prog.classes)
  /\ phase' = "shims" /\ at' = 1
  /\ UNCHANGED <<prog, k, seen, ctors, dtor, blocks, items, fns, defs, failed>>

-----------------------------------------------------------------------------
(* generate_shims, over the classes a walk of the headers listed: the heap   *)
(* constructors and the delete of a class, if a complete object can be made  *)
(* and destroyed, and its methods.                                           *)
HeapAllowed(c) ==
  /\ ~prog.classes[c].poisoned /\ ~prog.classes[c].abstract
  /\ \A m \in Range(Methods(c)) : m.special = "Dtor" => m.public
HeapCtors(c) == IF HeapAllowed(c) THEN SelectSeq([i \in DOMAIN Methods(c) |-> i],
                                        LAMBDA i : Methods(c)[i].special \in Ctors) ELSE <<>>
HeapName(class, i) == class \o <<"new", "heap", ToString(i)>>
HeapDefs(c) ==
  {[to |-> "heap", name |-> HeapName(Basename(c), i - 1), of |-> <<c, HeapCtors(c)[i]>>] :
     i \in DOMAIN HeapCtors(c)}
  \cup {[to |-> "heap", name |-> Append(Basename(c), "delete"), of |-> <<c, 0>>] :
     x \in {TRUE} \cap {HeapAllowed(c)}}
ShimmedBug(m) == NonDispatched(m) /\ m.named # "conversion" /\ CppOk(m) /\ ~ByValueRecord(m)
Shimmed(m) == NonDispatched(m) /\ m.named # "conversion" /\ CppOk(m)
AtShims == phase = "shims" /\ ~failed /\ at <= Len(prog.classes)
ShimClass ==
  /\ AtShims /\ prog.classes[at].listed
  /\ failed' = (\E i \in Range(HeapCtors(at)) : \E t \in Range(Methods(at)[i].params) : ~t.cppOk)
  /\ defs' = defs \cup HeapDefs(at)
       \cup {ShimLink(<<at, i>>) : i \in {i \in DOMAIN Methods(at) : Shimmed(Methods(at)[i])}}
  /\ at' = at + 1
  /\ UNCHANGED <<prog, phase, k, seen, ctors, dtor, blocks, items, fns>>
PassUnlisted ==
  /\ AtShims /\ ~prog.classes[at].listed
  /\ at' = at + 1
  /\ UNCHANGED <<prog, phase, k, seen, ctors, dtor, blocks, items, fns, defs, failed>>
FnShimmed(f) == f.inline /\ ~f.variadic /\ ~HasI64(f) /\ CppOk(f)
ShimFns ==
  /\ phase = "shims" /\ ~failed /\ at > Len(prog.classes)
  /\ defs' = defs \cup {ShimLink(<<0, i>>) : i \in {i \in DOMAIN prog.fns : FnShimmed(Fn(i))}}
  /\ phase' = "throws"
  /\ UNCHANGED <<prog, at, k, seen, ctors, dtor, blocks, items, fns, failed>>

(* The throwing shims: free functions by their name, the methods of all the  *)
(* classes with one disambiguation, the first constructor of each class.     *)
ThrowingFns == {i \in DOMAIN prog.fns : Fn(i).throws /\ CppOk(Fn(i))}
ThrowingMethods ==
  FlattenSeq([c \in DOMAIN prog.classes |-> IF ~prog.classes[c].listed THEN <<>> ELSE
    SelectSeq([i \in DOMAIN Methods(c) |->
                 [class |-> c, method |-> i, base |-> Methods(c)[i].name,
                  words |-> FlattenSeq([j \in DOMAIN Methods(c)[i].params |->
                                          Methods(c)[i].params[j].cpp])]],
              LAMBDA s : LET m == Methods(c)[s.method] IN
                NonDispatched(m) /\ m.named = "ident" /\ m.throws /\ CppOk(m))])
FirstCtor(c) == SelectInSeq(Methods(c), LAMBDA m : m.special \in Ctors)
ThrowingCtors ==
  {c \in DOMAIN prog.classes :
     prog.classes[c].listed /\ FirstCtor(c) # 0 /\ LET m == Methods(c)[FirstCtor(c)] IN
       m.throws /\ \A t \in Range(m.params) : t.cppOk}
ThrowsDefs ==
  {ThrowsLink(Fn(i).name, <<0, i>>) : i \in ThrowingFns}
  \cup {ThrowsLink(Basename(ThrowingMethods[i].class) \o Disambiguated(ThrowingMethods, i),
                   <<ThrowingMethods[i].class, ThrowingMethods[i].method>>) :
          i \in DOMAIN ThrowingMethods}
  \cup {ThrowsLink(Append(Basename(c), "new"), <<c, FirstCtor(c)>>) : c \in ThrowingCtors}
ThrowsShims ==
  /\ phase = "throws"
  /\ defs' = defs \cup ThrowsDefs
  /\ phase' = "done"
  /\ UNCHANGED <<prog, at, k, seen, ctors, dtor, blocks, items, fns, failed>>

Next ==
  \/ EmitFn \/ PassFn \/ FnsDone
  \/ SkipClass \/ OpaqueClass
  \/ SkipMethod \/ SkipExtraCtor \/ EmitMethod
  \/ FinishClass \/ ClassesDone
  \/ ShimClass \/ PassUnlisted \/ ShimFns \/ ThrowsShims

Spec == Init /\ [][Next]_vars

-----------------------------------------------------------------------------
(* What C++ does.                                                            *)
Subobjects(c) ==
  LET within[d \in 1 .. c] == {d} \cup UNION {within[b.class] : b \in Bases(d)} IN within[c]
NonVirtualSubobjects(c) ==
  LET within[d \in 1 .. c] ==
        {d} \cup UNION {within[b.class] : b \in {b \in Bases(d) : ~b.virt}} IN within[c]
DeclaresDtor(c) == \E m \in Range(Methods(c)) : m.special = "Dtor"
Destroyed(c, drop) == CASE drop.variant = "D1" -> Subobjects(c)
                        [] drop.variant = "D2" -> NonVirtualSubobjects(c)
                        [] OTHER -> {}
Bound(c) == ~prog.classes[c].skip /\ ~prog.classes[c].poisoned
Droppable(c) == /\ Bound(c) /\ ~prog.classes[c].abstract
                /\ \A m \in Range(Methods(c)) : m.special = "Dtor" => m.public
DestroysAll(c) == {d \in Subobjects(c) : DeclaresDtor(d)} \subseteq Destroyed(c, items[c].drop)

-----------------------------------------------------------------------------
(* The properties.                                                           *)

(* An inline function has no symbol of its own until some C++ uses it.  Each *)
(* inline one the bindings call, by its own symbol or by that of a shim, has *)
(* a shim, which defines the one and instantiates the other.  The two        *)
(* emitters decide apart.  A type that C++ source cannot spell has none, nor *)
(* has a class that no walk listed.                                          *)
ShimsDefined == phase = "done" =>
  /\ \A c \in DOMAIN items : prog.classes[c].listed => \A e \in Range(items[c].blocks) :
       LET m == Methods(c)[e.method] IN
         e.kind \in {"Instance", "Static"} /\ e.link.to # "throws" /\ m.inline /\ CppOk(m)
         => ShimLink(<<c, e.method>>) \in defs
  /\ \A f \in Range(fns) : f.link.to = "shim" /\ CppOk(Fn(f.fn)) => f.link \in defs

(* One impl block never defines a name twice, whether an overload suffix, a  *)
(* method of the header or a forwarded method made it.                       *)
NamesUnique == \A c \in DOMAIN items :
  LET bs == items[c].blocks
      own == {i \in DOMAIN bs : bs[i].kind \in {"Ctor", "Instance", "Static", "Virtual"}}
      fs == items[c].forwarders
  IN /\ \A i, j \in own : bs[i].name = bs[j].name => i = j
     /\ \A i, j \in DOMAIN fs : Target(fs[i]).name = Target(fs[j]).name => i = j
     /\ \A i \in own : \A f \in Range(fs) : bs[i].name # Target(f).name

(* The method a forwarder calls is the one C++ finds: no class between has   *)
(* one of that name to forward.                                              *)
NearestForwarded == \A c \in DOMAIN items : \A f \in Range(items[c].forwarders) :
  \A i \in 1 .. (Len(f.path) - 1) : \A m \in Range(Methods(f.path[i])) :
    Forwards(m) => m.name # Target(f).name

(* Dropping a value of a class whose destructor is declared, or is virtual   *)
(* and inherited along a single chain, runs all the destructors C++ would.   *)
DropRunsChain == \A c \in DOMAIN items :
  /\ Droppable(c)
  /\ Subobjects(c) = NonVirtualSubobjects(c)
  /\ DeclaresDtor(c) \/ (SingleChain(c) /\ VirtualDtor(c))
  => failed \/ DestroysAll(c)
=============================================================================
