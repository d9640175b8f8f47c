------------------------------- MODULE Export -------------------------------
(***************************************************************************)
(* A Rust type seen from C++.  The scanner reads the marked structs, enums *)
(* and inherent impls of a crate, file by file in the order of their paths *)
(* (rustcc_attr), lowers them in five passes to classes of the type        *)
(* context, and three emitters go over the classes: the C++ header         *)
(* (hpp.rs), the stubs a C++ build links before there is a Rust object     *)
(* (rust_stubs.rs), and the extern "C" forwarders that stand for the       *)
(* mangled symbols in the Rust object (rust_forwarders.rs).                *)
(*                                                                         *)
(* Types as written:  [k |-> "int"], [k |-> "other"] (a type the scanner   *)
(* does not lower), [k |-> "rec", name], [k |-> "ref" | "ptr", mutable, to]*)
(* Types as lowered:  [k |-> "int"], [k |-> "rec", id],                    *)
(*                    [k |-> "ref" | "ptr", mutable, to]                   *)
(* Items: struct [name, cpp, marked, ok, fields], impl [target, bare,      *)
(* methods], drop [target, bare], enum [name, marked, ok]; ok and bare are *)
(* the shapes the scanner takes, and a method is                           *)
(* [name, cpp, pub, ok, recv, params, ret].                                *)
(***************************************************************************)
EXTENDS Integers, Sequences, FiniteSets, SequencesExt

CONSTANT Crates     \* each the sequence of a crate's files, a file its items

VARIABLES
    crate,
    phase,          \* the pass or the emitter at work, or "done", "failed"
    at,             \* the number of the file, item or class it takes next
    module,         \* ParsedModule: the items kept, by kind
    ids,            \* from the Rust name of a struct to its class
    classes,        \* the classes of the context
    enums,          \* the enums of the context
    why,            \* the error, or "none"
    header,         \* the declarations of the .hpp
    stubs,          \* the definitions of the stubs' .cpp
    forwarders      \* the exported functions of the forwarders' .rs

input == <<crate, module>>
context == <<ids, classes, enums>>
output == <<header, stubs, forwarders>>
vars == <<crate, phase, at, module, ids, classes, enums, why, header, stubs, forwarders>>

Fail(reason) ==
    /\ phase' = "failed"
    /\ why' = reason
    /\ UNCHANGED <<crate, at, module, context, output>>

\* The next of n things of this phase, and the phase that follows the last.
Advance(n, following) ==
    IF at < n THEN /\ at' = at + 1
                   /\ UNCHANGED phase
    ELSE /\ at' = 1
         /\ phase' = following

\* A phase that has nothing to do.
Skip(name, n, following) ==
    /\ phase = name
    /\ n = 0
    /\ phase' = following
    /\ UNCHANGED <<crate, at, module, context, why, output>>

-----------------------------------------------------------------------------
(* The scan *)

RECURSIVE Lowerable(_)

\* lower_rust_ty: anything but a scalar, a capitalised name, a reference or a
\* raw pointer to one of them is an error.
Lowerable(t) ==
    CASE t.k \in {"int", "rec"} -> TRUE
      [] t.k \in {"ref", "ptr"} -> Lowerable(t.to)
      [] t.k = "other" -> FALSE

AllLowerable(ts) == \A i \in DOMAIN ts : Lowerable(ts[i])

MethodOk(m) == m.ok /\ AllLowerable(m.params) /\ Lowerable(m.ret)

Public(methods) == SelectSeq(methods, LAMBDA m : m.pub)

\* A struct or an enum without a marker is not looked into; an impl has no
\* marker of its own.
ItemOk(item) ==
    CASE item.k = "struct" -> item.marked => item.ok /\ AllLowerable(item.fields)
      [] item.k = "enum" -> item.marked => item.ok
      [] item.k = "drop" -> item.bare
      [] item.k = "impl" ->
           item.bare /\ \A i \in DOMAIN item.methods : item.methods[i].pub => MethodOk(item.methods[i])

Kept(file, kind) ==
    SelectSeq(file, LAMBDA item : item.k = kind /\ (kind \in {"struct", "enum"} => item.marked))

Empty == [struct |-> <<>>, impl |-> <<>>, drop |-> <<>>, enum |-> <<>>]

\* parse_source on one file, and the merge of what it gave.
ScanFile ==
    /\ phase = "scan"
    /\ at <= Len(crate)
    /\ LET file == crate[at]
       IN  IF \E i \in DOMAIN file : ~ItemOk(file[i]) THEN Fail("syntax")
           ELSE /\ module' = [kind \in DOMAIN module |-> module[kind] \o Kept(file, kind)]
                /\ Advance(Len(crate), "shells")
                /\ UNCHANGED <<crate, context, why, output>>

-----------------------------------------------------------------------------
(* The passes of lower_into_ctx *)

RECURSIVE Resolves(_), Lower(_)

Resolves(t) ==
    CASE t.k = "int" -> TRUE
      [] t.k = "rec" -> t.name \in DOMAIN ids
      [] t.k \in {"ref", "ptr"} -> Resolves(t.to)

AllResolve(ts) == \A i \in DOMAIN ts : Resolves(ts[i])

Lower(t) ==
    CASE t.k = "int" -> t
      [] t.k = "rec" -> [k |-> "rec", id |-> ids[t.name]]
      [] t.k \in {"ref", "ptr"} -> [t EXCEPT !.to = Lower(@)]

LowerAll(ts) == [i \in DOMAIN ts |-> Lower(ts[i])]

Bind(f, name, id) == [n \in DOMAIN f \cup {name} |-> IF n = name THEN id ELSE f[n]]

\* The bug: a struct's fields are filled in as soon as it is registered.
RegisterShellBug ==
    /\ phase = "shells"
    /\ at <= Len(module.struct)
    /\ LET s == module.struct[at]
       IN  IF ~AllResolve(s.fields) THEN Fail("unresolved")
           ELSE /\ classes' = Append(classes, [name |-> s.cpp, fields |-> LowerAll(s.fields),
                                               methods |-> <<>>])
                /\ ids' = Bind(ids, s.name, Len(classes) + 1)
                /\ Advance(Len(module.struct), "fields")
                /\ UNCHANGED <<input, enums, why, output>>

\* Pass 1: every struct gets a class before any field is looked at.
RegisterShell ==
    /\ phase = "shells"
    /\ at <= Len(module.struct)
    /\ LET s == module.struct[at]
       IN  /\ classes' = Append(classes, [name |-> s.cpp, fields |-> <<>>, methods |-> <<>>])
           /\ ids' = Bind(ids, s.name, Len(classes) + 1)
    /\ Advance(Len(module.struct), "fields")
    /\ UNCHANGED <<input, enums, why, output>>

FieldOk(s, t) ==
    /\ t.k # "ref"
    /\ t.k = "rec" => t.name \in DOMAIN ids /\ ids[t.name] # ids[s.name]

\* Pass 2.
FillFields ==
    /\ phase = "fields"
    /\ at <= Len(module.struct)
    /\ LET s == module.struct[at]
       IN  IF ~AllResolve(s.fields) THEN Fail("unresolved")
           ELSE IF \E i \in DOMAIN s.fields : ~FieldOk(s, s.fields[i]) THEN Fail("field")
           ELSE /\ classes' = [classes EXCEPT ![ids[s.name]].fields = LowerAll(s.fields)]
                /\ Advance(Len(module.struct), "methods")
                /\ UNCHANGED <<input, ids, enums, why, output>>

\* A function new without a receiver is a constructor; any other function,
\* with or without a receiver, is a member.
LowerMethod(m) ==
    [name |-> m.cpp,
     params |-> LowerAll(m.params),
     ret |-> Lower(m.ret),
     const |-> m.recv = "ref",
     special |-> IF m.name = "new" /\ m.recv = "none" THEN "OtherCtor" ELSE "none"]

\* Pass 3: a whole impl block at a time.
AttachMethods ==
    /\ phase = "methods"
    /\ at <= Len(module.impl)
    /\ LET i == module.impl[at]
           ms == Public(i.methods)
       IN  IF i.target \notin DOMAIN ids THEN Fail("target")
           ELSE IF \E j \in DOMAIN ms : ~AllResolve(Append(ms[j].params, ms[j].ret))
           THEN Fail("unresolved")
           ELSE /\ classes' = [classes EXCEPT ![ids[i.target]].methods =
                                  @ \o [j \in DOMAIN ms |-> LowerMethod(ms[j])]]
                /\ Advance(Len(module.impl), "drops")
                /\ UNCHANGED <<input, ids, enums, why, output>>

HasDtor(c) == \E i \in DOMAIN c.methods : c.methods[i].special = "Dtor"

Dtor == [name |-> "~", params |-> <<>>, ret |-> [k |-> "int"], const |-> FALSE,
         special |-> "Dtor"]

\* Pass 4: one dtor, whatever number of impls.
InjectDtor ==
    /\ phase = "drops"
    /\ at <= Len(module.drop)
    /\ LET d == module.drop[at]
       IN  IF d.target \notin DOMAIN ids THEN Fail("target")
           ELSE /\ classes' = IF HasDtor(classes[ids[d.target]]) THEN classes
                              ELSE [classes EXCEPT ![ids[d.target]].methods = Append(@, Dtor)]
                /\ Advance(Len(module.drop), "enums")
                /\ UNCHANGED <<input, ids, enums, why, output>>

\* Pass 5.
RegisterEnum ==
    /\ phase = "enums"
    /\ at <= Len(module.enum)
    /\ enums' = Append(enums, module.enum[at].name)
    /\ Advance(Len(module.enum), "header")
    /\ UNCHANGED <<input, ids, classes, why, output>>

-----------------------------------------------------------------------------
(* The emitters *)

\* A type and a member as C++ names them: a class by its C++ name.  What the
\* compiler and the mangler make of such a member is one symbol.
RECURSIVE Spelled(_)

Spelled(t) ==
    CASE t.k = "int" -> t
      [] t.k = "rec" -> [k |-> "rec", name |-> classes[t.id].name]
      [] t.k \in {"ref", "ptr"} -> [t EXCEPT !.to = Spelled(@)]

SpelledAll(ts) == [i \in DOMAIN ts |-> Spelled(ts[i])]

Symbol(c, name, params, const) ==
    [class |-> c.name, name |-> name, params |-> SpelledAll(params), const |-> const]

CtorOf(c, m) == Symbol(c, "ctor", m.params, FALSE)
MethodOf(c, m) == Symbol(c, m.name, m.params, m.const)
DtorOf(c) == Symbol(c, "dtor", <<>>, FALSE)
MoveCtorOf(c) == [class |-> c.name, name |-> "move", params |-> <<>>, const |-> FALSE]
CopyCtorOf(c) == [class |-> c.name, name |-> "copy", params |-> <<>>, const |-> FALSE]

Members(c, special) == SelectSeq(c.methods, LAMBDA m : m.special = special)

Each(ms, Op(_)) == [i \in DOMAIN ms |-> Op(ms[i])]

Declared(sym) == [sym |-> sym, deleted |-> FALSE]

\* generate_hpp: constructors, the members every class has, the methods.
\* The class's own copy, move and dtor declarations are not repeated.
EmitHeader ==
    /\ phase = "header"
    /\ at <= Len(classes)
    /\ LET c == classes[at]
           ctors == Each(Members(c, "OtherCtor"), LAMBDA m : Declared(CtorOf(c, m)))
           methods == Each(Members(c, "none"), LAMBDA m : Declared(MethodOf(c, m)))
       IN  header' = header \o ctors
                     \o <<[sym |-> CopyCtorOf(c), deleted |-> TRUE],
                          Declared(MoveCtorOf(c)), Declared(DtorOf(c))>>
                     \o methods
    /\ Advance(Len(classes), "stubs")
    /\ UNCHANGED <<input, context, why, stubs, forwarders>>

\* The bug: the injected dtor is taken for one of the class's methods.
StubbedMethodsBug(c) == SelectSeq(c.methods, LAMBDA m : TRUE)

\* Methods that are none of the members every class has.
StubbedMethods(c) == SelectSeq(c.methods, LAMBDA m : m.special # "Dtor")

StubOf(c, m) ==
    CASE m.special = "OtherCtor" -> CtorOf(c, m)
      [] m.special = "Dtor" -> DtorOf(c)
      [] OTHER -> MethodOf(c, m)

EmitStubs ==
    /\ phase = "stubs"
    /\ at <= Len(classes)
    /\ LET c == classes[at]
       IN  stubs' = stubs \o <<MoveCtorOf(c), DtorOf(c)>>
                    \o Each(StubbedMethods(c), LAMBDA m : StubOf(c, m))
    /\ Advance(Len(classes), "forwarders")
    /\ UNCHANGED <<input, context, why, header, forwarders>>

\* render_param_list and render_type_rust: no reference, at any depth, and no
\* class by value that has a dtor of its own.
RECURSIVE NoReference(_)

NoReference(t) ==
    CASE t.k \in {"int", "rec"} -> TRUE
      [] t.k = "ptr" -> NoReference(t.to)
      [] t.k = "ref" -> FALSE

ByValue(m) == {m.params[i].id : i \in {j \in DOMAIN m.params : m.params[j].k = "rec"}}

Forwardable(m) ==
    /\ \A i \in DOMAIN m.params : NoReference(m.params[i])
    /\ \A c \in ByValue(m) : ~HasDtor(classes[c])
    /\ m.special = "OtherCtor" \/ NoReference(m.ret)

\* A forwarder: the symbol it is exported under, and the classes of the
\* arguments it reads out of the caller's temporaries.
Forwarder(sym, reads) == [sym |-> sym, reads |-> reads]

ForwarderOf(c, m) ==
    Forwarder(IF m.special = "OtherCtor" THEN CtorOf(c, m) ELSE MethodOf(c, m), ByValue(m))

EmitForwarders ==
    /\ phase = "forwarders"
    /\ at <= Len(classes)
    /\ LET c == classes[at]
           ms == SelectSeq(c.methods, LAMBDA m : m.special # "Dtor")
       IN  IF \E i \in DOMAIN ms : ~Forwardable(ms[i]) THEN Fail("unsupported")
           ELSE /\ forwarders' = forwarders \o <<Forwarder(DtorOf(c), {})>>
                                 \o Each(ms, LAMBDA m : ForwarderOf(c, m))
                /\ Advance(Len(classes), "done")
                /\ UNCHANGED <<input, context, why, header, stubs>>

Init ==
    /\ crate \in Crates
    /\ phase = "scan"
    /\ at = 1
    /\ module = Empty
    /\ ids = <<>>
    /\ classes = <<>>
    /\ enums = <<>>
    /\ why = "none"
    /\ header = <<>>
    /\ stubs = <<>>
    /\ forwarders = <<>>

SkipEmpty ==
    \/ Skip("scan", Len(crate), "shells")
    \/ Skip("shells", Len(module.struct), "fields")
    \/ Skip("fields", Len(module.struct), "methods")
    \/ Skip("methods", Len(module.impl), "drops")
    \/ Skip("drops", Len(module.drop), "enums")
    \/ Skip("enums", Len(module.enum), "header")
    \/ Skip("header", Len(classes), "stubs")
    \/ Skip("stubs", Len(classes), "forwarders")
    \/ Skip("forwarders", Len(classes), "done")

Next ==
    \/ ScanFile \/ RegisterShell \/ FillFields \/ AttachMethods \/ InjectDtor
    \/ RegisterEnum \/ EmitHeader \/ EmitStubs \/ EmitForwarders \/ SkipEmpty

Spec == Init /\ [][Next]_vars

-----------------------------------------------------------------------------
(* Properties *)

Symbols(seq) == [i \in DOMAIN seq |-> seq[i].sym]

Callable == Symbols(SelectSeq(header, LAMBDA d : ~d.deleted))

Once(seq) == \A i, j \in DOMAIN seq : seq[i] = seq[j] => i = j

\* Linking against the stubs works: they define every member the header
\* declares, each of them once, and nothing else ("Cover every method the
\* .hpp declares", rust_stubs.rs).  The forwarders define the same members
\* but the move constructor, which Rust has no function for.
DeclaredIsDefined ==
    /\ phase \in {"forwarders", "done"} =>
           Once(stubs) /\ ToSet(stubs) = ToSet(Callable)
    /\ phase = "done" =>
           LET exported == Symbols(forwarders)
           IN  /\ Once(exported)
               /\ ToSet(exported) = {s \in ToSet(Callable) : s.name # "move"}

Structs == DOMAIN module.struct

RECURSIVE Matches(_, _)

\* The lowered type names the class of the struct the source names.
Matches(t, written) ==
    /\ t.k = written.k
    /\ CASE t.k = "int" -> TRUE
         [] t.k = "rec" -> \E s \in Structs :
                               /\ module.struct[s].name = written.name
                               /\ t.id = s
         [] OTHER -> t.mutable = written.mutable /\ Matches(t.to, written.to)

RECURSIVE NamesIn(_)

NamesIn(t) ==
    CASE t.k = "int" -> {}
      [] t.k = "rec" -> {t.name}
      [] t.k \in {"ref", "ptr"} -> NamesIn(t.to)

NamesInAll(ts) == UNION {NamesIn(ts[i]) : i \in DOMAIN ts}

\* The names the lowered items mention, and those they declare.
Mentioned ==
    UNION {NamesInAll(module.struct[s].fields) : s \in Structs}
    \cup UNION {UNION {NamesInAll(Append(m.params, m.ret)) : m \in ToSet(Public(i.methods))} :
                   i \in ToSet(module.impl)}

DeclaredNames == {module.struct[s].name : s \in Structs}

\* Lowering does not depend on the order of files and items: with the passes
\* over, the class of every struct has its own fields, each of the class the
\* source names, and a name is unresolved only if no file declares it.
OrderFree ==
    /\ phase \in {"header", "stubs", "forwarders", "done"} =>
           \A s \in Structs :
               LET written == module.struct[s].fields
               IN  /\ Len(classes[s].fields) = Len(written)
                   /\ \A i \in DOMAIN written : Matches(classes[s].fields[i], written[i])
    /\ why = "unresolved" => \E t \in Mentioned : t \notin DeclaredNames

\* The class and those of its fields, through all of them.
RECURSIVE Parts(_)

Parts(c) ==
    {c} \cup UNION {Parts(classes[c].fields[i].id) :
                       i \in {j \in DOMAIN classes[c].fields : classes[c].fields[j].k = "rec"}}

\* What a forwarder reads out of the caller's temporary is dropped by the
\* Rust callee and again by the caller's destructor: nothing in it may have a
\* Drop ("For types without Drop, drop_in_place is a no-op so the double
\* destroy is harmless", rust_forwarders.rs).
NoSecondDrop ==
    \A i \in DOMAIN forwarders : \A c \in forwarders[i].reads : \A p \in Parts(c) :
        ~HasDtor(classes[p])
=============================================================================
