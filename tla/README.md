# rustcc in TLA+

rustcc lets Rust code use C++ classes as they are: libclang parses the C++
headers, the importer builds a model of their classes, an ABI engine computes
where everything lies in an object and in a vtable and how it is called, and
emitters write the Rust and C++ glue. Nothing checks at run time that those
computations agree with what the C++ compiler did. This directory holds TLA+
specifications of the parts where a mistake would be silent, the TLC
configurations that check them on small programs, and proofs, checked by TLAPS,
of what holds for every program.

Check a run with `tlc -config X.cfg MCModule.tla`, a proof with `tlapm M.tla`.
`PROJECT.json` lists the runs, the source lines of every definition, the mutants
each property detects, the hazards and the findings. A definition whose name
ends in `Bug` is the mutated form of its neighbour and is used by nothing else.

## 1. Inventory of the system

Paths are under `src/crates/`.

| Component | State it keeps | Operations | What makes it correct | Modules |
|---|---|---|---|---|
| Itanium layout (`rustc_abi_cxx/src/layout.rs`) | `LayoutState`: size, dsize, align, vptr, offsets, empty subobjects, open bit-field unit | `place_base`, `allocate_vptr`, `place_field`, `place_bitfield`, `place_union_field`, non-virtual snapshot, virtual bases, final size | subobjects disjoint, inside, aligned; tail padding used exactly when non-POD; one address per empty object | `ItaniumLayout` |
| Vtables (`vtable.rs`, `vtt.rs`) | virtual slots, sub-tables | `build_virtual_slots`, `build_secondary_entries`, `primary_vtable_slots`, `vtt` | slots of the base come first; each slot is the final overrider; a constructor finds every table | `VTable`, `ImportedVTable`, `Vtt` |
| MSVC variants (`layout_msvc.rs`, `vtable_msvc.rs`) | as above | as above | as above, no reuse of tail padding, one destructor slot | `MsvcLayout`, `MsvcVTable` |
| Mangling (`mangle.rs`, `mangle_msvc.rs`) | substitution table, back-references | `register`, `find`, `emit_*`, `record_*` | a component gets the sequence id of its first occurrence; two signatures, two names | `Mangle`, `ItaniumNames`, `MsvcMangle` |
| Type context (`ctx.rs`, `ty.rs`) | classes, interned types, poison reasons, side tables | `define_class`, `class_mut`, `poison`, `unpoison` | a `ClassId` is never reused or dangling | `Importer` |
| Importer (`cxx_importer/src/import.rs`) | USR cache, the context, template substitution, the Rust call stack | `import_class`, `lower_method`, `attach_methods_recursively`, the polymorphism pass | every supported class complete under one id, in any order of arrival | `Importer` |
| Namespace-scope declarations (`import.rs`, `aliases.rs`, `enums.rs`, `free_fns.rs`, `static_data.rs`, `macros.rs`, `annotations.rs`) | lists and sets of USRs, per root | `walk_top_level`, `collect_*` | each item once over all roots, under a name that finds it | `HeaderScopes` |
| Driver and cache (`driver.rs`, `cache.rs`) | the header graph, the cache file | `parse_all`, `load_or_parse`, `read_record`, `write_record` | a hit returns what a parse would | `ImportCache` |
| Build and emitters (`build.rs`, `shims.rs`, `rust_bindings.rs`, `name_mapping.rs`) | the context, names already emitted, default arguments | `Build::compile`, `emit_direct_extern_cpp`, `generate_shims`, `collect_throws_specs_*` | what Rust links to is defined, once; names are unique; a wrapper passes what its caller means; Drop destroys once | `Bindings`, `Wrappers`, `Literals`, `HeaderScopes`, `BitfieldAccess` |
| Macros (`rustcc_macros/src/lib.rs`) and the backends that write for them | a substitution table of their own | `cxx_class!`, `native_cpp_class!`, `render_class_block` | two mangles of one member agree | `ClassMacro`, `MacroBackend` |
| Call lowering (`rustcc_codegen/src/lib.rs`) | none | `lower_*_call`, `classify_return` | hidden slot, `this` and formals agree with what the ABI has the callee expect | `Codegen` |
| Rust types for C++ (`rustcc_attr/src/lib.rs`, `rust_scan.rs`, `hpp.rs`, `rust_stubs.rs`, `rust_forwarders.rs`) | parsed items, ids, classes | scan, five lowering passes, three emitters | what the header declares the stubs and forwarders define; order of files is irrelevant; no double drop | `Export` |
| Exception boundary (`cxx/src/exception.rs`, `native_invoke.rs`, `cxx_exception.rs`) | exceptions in flight, thread-local messages, result slots | shims, catch helpers, `from_raw` | catch begun and ended once; the message is the one of this exception | `ThrowingCalls`, `Exceptions` |
| Compiler wrapper (`rustcc/src`) | fingerprint file, artefacts in `target/` | scan, emit, compile, `commit_fingerprint` | an artefact is kept only when it is the one its inputs give | `Toolchain` |
| Ownership runtime, callbacks (`cxx/src/owned.rs`, `heap.rs`, `shared.rs`, `callback.rs`, ...) | who owns a C++ object or a boxed closure | `from_raw`, `into_raw`, `drop`, thunk | freed once, by the allocator that made it, and never used after | none |
| `rustcc-cli`, Swift runtime support, compiler fork, tests, tools, examples | installed toolchains | `install`, `doctor`, `init`; adapters | | none |

How they interact: `Build::compile` runs the importer once per root header with
one `CxxTypeCtx` and one USR cache, and joins the lists each walk returns; the
importer calls the vtable builder (`populate_vtable_indices`), which calls the
layout engine; the bindings emitter and the shim emitter read the finished
context apart and meet again in the linker; the generated wrappers call through
the exception boundary; the compiler fork reads layouts, slots and lowered calls
back through attributes. The build scripts of several crates may share a cache
file; the compiler wrapper re-runs the whole pipeline and skips what the
fingerprint says is unchanged.

What is hard: a cyclic graph of classes imported recursively while half-built
classes are visible to the nested calls; errors swallowed at one level and
propagated at another; one class met as a forward declaration, a definition and
a specialization; bytes reused between bases, bit-fields and tail padding; slot
order under repeated overriding; pairs of emitters that must take the same
decision from different inputs; back-references numbered by the order of a
walk; exceptions and callbacks nested over several threads; and concurrent,
killed and repeated builds around files that are written in place.

## 2. The modules

### ItaniumLayout (`layout.rs`)

`compute_layout` calls itself on the bases and record members of a class. The
specification runs one *program*, a sequence of class declarations in
dependency order, and keeps in `classes` the `RecordLayout` of each finished
class: what the recursive call returns, the function being pure. The other
variables are the `LayoutState` of the class in hand and the position of the
loops. Each call that mutates the `LayoutState` is one action: `PlacePrimary`,
`AllocateVptr` (step 1 of the source), `PlaceEmptyBase`, `PlaceNonEmptyBase`
(step 2), `PlaceField`, `PlaceZeroWidth`, `PackBitfield`, `OpenUnit`,
`PlaceUnionField` (step 3), `SnapshotNonVirtual` (step 4 and the snapshot),
`PlaceVirtualBase` with the walk of `collect_virtual_bases` (step 5), `Finalize`
(step 6), and `Fail` for every `?`. Every placed subobject is a piece of bits
`[lo, hi)`, so that bases, fields and bit-fields can be compared.

Abstractions: a scalar is its size and alignment; the special members a class
declares are `none`, `trivial` for calls (an ordinary or default constructor, an
assignment), or `nontrivial` (a copy or move constructor, a destructor), in their
user-provided forms; `is_polymorphic` is input,
closed over bases as the importer closes it (which makes the source's
`has_virtual_base_chain` redundant for the vptr); `is_pod_for_layout` is
evaluated over the members as they are placed. `detect_hfa` is left out. Sizes
are naturals, not 64-bit words.

Three modules read the finished layouts, and are functions of them:

- **MsvcLayout** (`layout_msvc.rs`) lays out the same declarations by the MSVC
  rules, one operator per step and one function per loop. `packed` stands for the
  `#pragma pack` sidecar.
- **BitfieldAccess** (`render_m21c_bitfield_accessors`): getter and setter of a
  bit-field, on integers and memory that are sets of bits.
- **Codegen** (`rustcc_codegen/src/lib.rs`): `classify_return` and the
  `lower_*_call` entry points: which symbol, which slots, in which order. Against
  these stands the callee (`Frame`, `InMemory`, `TrivialForCalls`), which is written
  from the Itanium ABI and never looks at the code's flag: a class is returned in
  memory when it does not fit two registers, or when the copy constructor, move
  constructor or destructor of anything it is made of is not trivial.

### VTable (`vtable.rs`, `populate_vtable_indices`)

Classes get their tables in dependency order. `build_virtual_slots` is a loop
over the chain of first non-virtual bases and, in it, over the methods; its
iterations are `SkipMethod`, `PlaceDtor`, `Override`, `NewSlot`, `NextClass`.
Then `BuildSecondary` or `SkipSubobject` for each further base and each virtual
base, then `FinishVTable`, which also stamps the ranks on the methods the way
`populate_vtable_indices` does. A symbol is the function it names, a signature
what `signatures_match` compares. The vbase-offset, offset-to-top and RTTI
entries in front of a table are left out.

Over the finished tables: **ImportedVTable** writes the slots of an imported
class as the records of an attribute and reads them back as the compiler fork's
patch does, assembling the vtable of a Rust class derived from it (the reader is
code of the patch in `fork/patches`). **Vtt** is `vtt` and `construction_vtables`.
**MsvcVTable** is `vtable_msvc.rs`, with its own chain, reversed overloads and
single destructor slot.

### Importer (`import.rs`, `ctx.rs`)

The Rust call stack is the variable `stack`: a frame per activation of
`import_class`, holding the locals (`bases`, `fields`, `methods`), the upgrade
target and the members still to be lowered. A call about to start is in `call`,
a `Result` on its way back in `ret`. So each state in which a nested call sees a
placeholder, a poisoned class or a half-built one is a state of the
specification. The phases are the three passes of `import_header_with_clang`,
and `HeaderDone` goes to the next root with the same context and USR cache, as
`parse_all` does.

| Action | Code |
|---|---|
| `WalkRecord`, `WalkReturn`, `WalkDone` | `walk_top_level`, records |
| `ReturnCached`, `ReturnOpaque`, `EnterClass` | the cache lookup, system headers, forward declarations |
| `RegisterClass` | `build_nested_path`, then placeholder or upgrade, and the skip annotation |
| `ImportRecord`, `ImportLeaf`, `TakeType`, `TakeMember` | `import_type` on each type of each member |
| `SkipHidden` | a method that is neither accessible nor virtual is passed over |
| `SkipMember`, `FailArgument`, `FailBody` | the three ways an error is treated: swallowed, turned into poison, propagated |
| `FinishClass` | the assignments at the end, and `unpoison` |
| `VisitMethod`, `AttachMethod`, ... | `attach_methods_recursively` |
| `Recompute` | the convergence loop, the `HashMap` in any order |

Types are the records they mention (so a "field of type A" may be a pointer to
A), a scalar, or an unsupported kind. Non-public, non-virtual members are
`hidden`. `vtable_index` is in VTable.

### ImportCache (`driver.rs`, `cache.rs`)

Build scripts (`Proc`) run `load_or_parse` on one cache file while headers are
edited (`Edit`, the environment) and runs fail or are killed (`Abort`: only the
file survives). `hash_headers` reads header by header, so an edit may fall
between two reads; `read_record` and `write_record` act on a file of two parts,
so that reads and writes of several processes interleave and a killed writer
leaves a torn file. Two parts of different records join into one that parses
when the records have the same shape. What libclang makes of a root is the text
of all it includes, at that moment, and the flags. `conf` and `quiet` inside a
record are history variables: the program does not read them.

### Toolchain (`rustcc/src/main.rs`)

Each process of the wrapper runs `run_interop_phases`; `run[p]` holds its locals
and the phase it is in, and each phase of the source is an action (`ScanRust`,
`Probe`, `BuildFingerprint`, `EmitRustHpp`, `EmitStubs`, `EmitForwarders`,
`ParseHeaders`, `EmitShims`, `Compile`, `EmitHpp`, `OpenMarker`, `Commit`). A
phase that writes a file opens it in one step and finishes it in another, so
that a kill (`Abort`) leaves it torn and a second process may read or write
between. A text is a version, an artefact the record of what it was made from.
`Edit` changes a header, a Rust source, the manifest or a tool.

### ThrowingCalls and Exceptions (`cxx_exception.rs`, `native_invoke.rs`, `exception.rs`)

ThrowingCalls is the abstract promise to a Rust caller: each call ends in Ok or
in one Err, of the kind its own callee's exception has at that site. The text is
that exception's `what()` where a clause of a *shim* with a class caught it, and a
fixed text otherwise: behind a landing pad even a typed catch has one, against the
documentation of `CxxExceptionKind::Typed`. Exceptions is the
code: a shim with an arm per declared class, one for `std::exception` and one
for the rest; or a landing pad, whose selector picks an entry of the list. Under
LLVM the clauses are the personality function's, which takes derived classes
(`MatchClauses`, external); the GCC backend calls a helper that compares classes for
identity (`MatchTypeinfo`), at the sites `Exact`. `__rustcc_cxx_catch_typed` is
external as well: the fork calls it, and its one definition in the repository, in
`fork/examples/cxx_throws_smoke_p3_typed.rs`, returns a text of its own. Then
the thread-local buffer of each arm, into which the shim returns a pointer; the
tag, the result slot, and the wrapper that decodes them. A C++ callee, and
`what()` itself, may invoke a Rust closure that makes the next call, so calls
nest and buffers are used again while a message waits. `Calls` instantiates
ThrowingCalls with the mapping `Pending`.

### Bindings, Wrappers, Literals (`rust_bindings.rs`, `shims.rs`, `build.rs`)

**Bindings** walks a finished context the way the two emitters do, one entry per
step: free functions (`EmitFn`, `PassFn`), classes and their methods
(`EmitMethod`, `SkipMethod`, `SkipExtraCtor`, `FinishClass`, ...), then
`generate_shims` (`ShimClass`, `PassUnlisted`, `ShimFns`) and the throwing shims
(`ThrowsShims`). What Rust declares and what C++ defines are two sets of link
names. An identifier is the sequence of words that `_` joins, so that `f_i32` is
one name whether a header spells it or an overload suffix makes it.
**Wrappers** has the bodies: which arguments the declaration, the safe wrapper
and each convenience wrapper (trailing defaults, string conversions, their
combinations, constructors on the heap) take and pass on, each list built where
the source builds it. **Literals** has the constants: default arguments by kind
and width of their type, enumerators, with `WordBits` standing for 64.

### HeaderScopes (`import.rs`, `build.rs`, `rust_bindings.rs`)

`Build::compile` from the roots on. A root is the sequence of declarations of
its translation unit. `Collect` is what one walk records: a declaration is marked
by its USR before its type is looked at, and every root has marks of its own;
`PerRoot` joins the lists, macros are kept by name over all roots. `Reached` is
the closure of classes a walk imports, `Poisoned` those without a definition or
from a system header, which become opaque and lose their scope (`EmittedAs`).
The tree of modules is the functions `TypeItems` and `ValueItems` from a
namespace to what it defines. The lists, with the classes, are then the program
Bindings runs on, so that shims and link names are those of the emitters.

### Mangle, ItaniumNames, MsvcMangle (`mangle.rs`, `mangle_msvc.rs`)

**Mangle** spells a symbol left to right, one parameter per step, with the table
`subs` of what has been entered; a name is one token. **ItaniumNames** is no code
of the repository: it is a reader of the ABI's grammar that numbers the
candidates by the ABI's own order, so that a disagreement about the order shows
as a name that reads back as something else. **MsvcMangle** writes the MSVC name
of the same symbols, with the two tables of ten.

### ClassMacro and MacroBackend (`rustcc_macros/src/lib.rs`, `rust_bindings.rs`)

A class block goes through the macro, which mangles its members itself from Rust
types; the backends `emit_cxx_class_macro` and `emit_native_macro` write such a
block from an imported class. Both are functions of the symbol Mangle spells.

### Export (`rustcc_attr`, `rust_scan.rs`, `hpp.rs`, `rust_stubs.rs`, `rust_forwarders.rs`)

A crate is its files, a file its items. `ScanFile` takes a file; the five passes
of `lower_into_ctx` are an action per item (`Bind`, `RegisterShell`, `FillFields`,
`AttachMethods`, `InjectDtor`); `EmitHeader`, `EmitStubs` and `EmitForwarders`
filter the same members apart.

## 3. What the runs show

| Run | Expected | What it says |
|---|---|---|
| `layout` | pass | Subobjects are apart, inside and aligned (`SubobjectsDisjoint`, `SubobjectsInside`, `SubobjectsAligned`); empty bases of one class have different addresses (`EmptyBasesApart`); bit-field accessors read back what they wrote and touch nothing else (`BitfieldsReadBack`); a lowered call agrees with the ABI of its callee exactly where size or declarations show how the class is returned (`LoweredCallsFit`); MSVC reuses no tail padding (`MsvcNoTailReuse`); `TypeOK` |
| `importer` | pass | Every supported class ends complete under one id, in order, with `is_polymorphic` right, and is upgraded in one step: `DefinedIsImported`, `OneClassPerRecord`, `PolyClosed`, `MethodsInOrder`, `UpgradeAtomic` |
| `importer_reentry` | violated | `NoReentry`: an upgraded class enters itself |
| `vtable` | pass | `SlotsExtendBase`, `FinalOverrider`, `OneSlotEach`, `SecondaryOverridden`; the attribute of an imported class rebuilds its table (`AttrRebuildsTable`); a VTT names each table once (`VttCoversTables`); `MsvcTableExtendsBase` |
| `vtable_index` | violated | `IndexIsSlot`: a method stamped with a slot it does not own |
| `cache` | pass | A hit is what a parse would give (`HitRootsFresh`), ids cover the roots in order (`IdsCoverRoots`), nothing else misses (`NoNeedlessMiss`) |
| `toolchain` | pass | A marker that matches means the artefacts do (`IncrementalSound`); builds get there (`BuildsConverge`) |
| `throws` | pass | Catches are ended (`CatchesBalanced`), the result slot is filled exactly when the tag says so (`SlotAgreesWithTag`), and the boundary implements `ThrowingCalls` (`ImplementsCalls`) |
| `bindings` | pass | `CallsDeliver`, `LiteralsKeepValues`, `ShimsDefined`, `NamesUnique`, `NearestForwarded`, `DropRunsChain`, and what several headers need to build together (`HeadersBuild`) |
| `mangle` | pass | An independent reader decodes every Itanium name (`NameReadsBack`); MSVC names differ (`MsvcNamesDiffer`); macros and headers agree on a symbol exactly where the stated condition holds (`MacrosLink`) |
| `export` | pass | Forwarders define what the header declares (`DeclaredIsDefined`); file order is irrelevant (`OrderFree`) |
| `export_drop` | violated | `NoSecondDrop`: a by-value argument with a field to drop is dropped by both sides |

Each violated property is a sentence of a comment or a document of the
repository; the finding in `PROJECT.json` quotes it.

### Deadlock and fairness

Deadlock is checked in `throws`, where threads go on calling. The other
specifications describe programs that end, or count their edits, faults and
runs: a finished program has no successor.

Fairness is assumed in one place. `FairSpec` of Toolchain has
`WF_vars(Step(p))` for each wrapper process: a started process runs on, because
it is sequential code that waits for nobody, and the user builds again, because
that is what a build tool is for. Edits, failures and kills are under no
fairness, and are counted; `BuildsConverge` speaks of what happens once they
have ended (`Settled ~> UpToDate`). The other components promise no progress of
their own: the importer and the emitters are single-threaded functions, and
where one of them need not terminate (`NoReentry`) the bound `MaxDepth` cuts it.

### Bounds

- *layout*: 2612 programs, 47552 states; pointers of 4 bytes, MSVC packing 2.
  One class with up to three members of eight kinds (chars, an overaligned char,
  ints, a reference, two units of bit-fields, a zero-width one), derived from and
  contained in another; three classes over every choice of up to two bases,
  virtual or not; diamonds of four. Some classes declare an ordinary constructor, some a
  destructor, alone, as a base, as a member and in an array, below and above the two
  registers (`TwoWords`). Three members are what it takes to open, fill
  and leave a bit-field unit, two levels of bases to reuse tail padding. Call
  lowering takes each finished class as result and argument of a list of
  overloads.
- *vtable*: 11193 hierarchies of three classes over five functions, two of them
  overloads of one name, and a destructor, with up to two bases per class,
  virtual or not: an override of an override, a slot added below, a secondary
  base, a virtual base on two paths, and a run of overloads that MSVC reverses.
- *importer*: 22142 programs of a class A that derives from, names and contains
  the others, a class or specialization B, and a helper C that is plain, in a
  system header, skipped or unsupported; one header in three orders, or two
  headers the first of which lacks a definition. Three classes suffice for a
  cycle through a third class. Two programs more have a specialization that names
  itself in an argument and is a base, which leaves two ids of it. `MaxDepth` is 6, twice the number of classes, and
  stops only self-re-entry: a program that would recurse for ever ends in a
  state without successor and is not counted as imported.
- *cache*: two processes, three runs, one edit, two texts, two roots in both
  orders. A stale hit needs a writer, an edit and a reader; a joined record two
  writers and a reader. Processes and texts are symmetric: both are only compared
  for equality, and the one temporal property is about single steps.
- *toolchain*: two processes, two versions of the header, two of the Rust
  sources (one with exported types), two modes, two tools, one edit and one fault.
  One fault between a phase and the commit, one edit after it and a second
  process are what an artefact takes to survive its inputs.
- *throws*: two threads; four sites (a shim with a declared list, a throwing
  constructor, a landing pad of LLVM and one of GCC); three exception classes, of which two derive from
  `std::exception` and one from the other; calls nested two deep, two throws per
  thread: a second throw in the same thread and site, while the message of the
  first waits, needs no more.
- *bindings*: 12841 contexts. Each type of parameter with each carrier of a
  default, at the edges of its width; up to three parameters with every run of
  trailing defaults, strings among them, on eight kinds of method; two free
  functions; hierarchies of up to four classes with chains and diamonds; 6118
  contexts from headers of two or three declarations in one root or two.
  `WordBits` is 8 in place of 64: the width of a literal matters only against the
  width of its type.
- *mangle*: every list of up to two parameters out of sixteen types, of three
  types from one namespace and of three that a macro can write, and lists of
  twelve, which fill both MSVC tables of ten and use all single-digit
  substitutions.
- *export*: 5986 crates of two to four structs: a field each, Drop implementations, one
  or two methods of a pool of nine, in one file or two, from either end.

### Preconditions

They are the code's own limits, or the places where the code does something else,
and the properties name them.

- `OneClassPerRecord` excludes specializations: the code mints a second id when a
  template argument names the specialization itself; `MethodsInOrder` asks for
  supported, unique parameter classes for the same reason, and `PolyClosed` that
  every class above be the one cached under its USR. Programs are legal C++ in that
  no class derives from itself (`Falls`).
- `HitRootsFresh` speaks of quiet runs (an edit between hashing and parsing,
  followed by its reversal, does defeat the cache) and of hits on one record (the
  parts of a file that concurrent writers joined may come from two keys).
- `IncrementalSound` speaks of a clean history: each run was alone and saw no
  edit, the manifest stayed (it is not in the fingerprint), and no edit after a
  fault led back to the inputs of the marker (the marker is then of the old
  inputs and the artefacts of the new).
- `BitfieldsReadBack` leaves out classes with a field as wide as its container, whose
  accessors rustc refuses; `EmptyBasesApart`
  what lies inside a base other than the primary one, which `empty_subobjects` does
  not record; `MsvcNoTailReuse` classes without
  data. `LoweredCallsFit` trusts the caller on whether a method is static, and asks
  that overloads of one name be called alike (`OverloadsAssumption`): lowering takes
  the first method of a name, so a class that overloads a name with a static and an
  object method is lowered wrongly for one of them. About the hidden slot it is an
  equivalence: code and ABI agree on a class of more than two registers and on a smaller one
  whose declarations show what it is (`Apparent`), and on no other; the others are
  listed below. Packed parts of a small class are left out (`Unaligned`), since AMD64
  puts unaligned members in memory and the code has no such rule. Members that are
  defaulted or deleted are classified by their signature (`import.rs:1934-1957`) and are
  no input here; `long double` and the other targets' rules are not modelled.
- `AttrRebuildsTable` asks for a class none of whose virtual overloads differ in
  `const` alone: neither the name nor the parameter encoding of a record tells them
  apart, and the reader takes the first.
- `VttCoversTables` asks for hierarchies without a class reached both ways,
  virtually and not.
- `CallsDeliver` leaves out the throwing static method, whose shim takes an
  object, the convenience forms of a throwing constructor, and slot types cut at a
  comma; `LiteralsKeepValues` the top bit of narrow unsigned enums, and defaults for
  an enum over `bool` that is passed by name.
- `ShimsDefined` leaves out types one side cannot spell and classes the walks do
  not list; `NearestForwarded` compares methods that can be forwarded;
  `DropRunsChain` asks for a class that can be dropped, without virtual bases,
  whose destructor is declared or inherited along one chain.
- `HeadersBuild` and `MacrosLink` are equivalences: the right-hand side is exactly
  what the code needs. Inputs of the first are legal C++ without a class the
  importer rejects, for such a class ends the build.
- `NameReadsBack` has no ref-qualified methods, and specializations and arrays of
  const elements only where no later parameter refers back; `MsvcNamesDiffer` no
  function types and no ellipsis.
- `OrderFree` asks for unique names of structs and no cycle of by-value fields,
  which rustc refuses as well.

### Disagreements met while modelling, no run of their own

The inputs or preconditions above keep these out of the passing runs, but for call
lowering and the text of a typed catch, which the properties of those runs state as
the code has them.

- *Mangling*: after a template specialization the numbers of later substitutions
  are not the ABI's (`mangle.rs:292-316`, against `5-13`), nor after a pointer to
  an array of const (`521-543`); ref-qualified overloads share a symbol
  (`import.rs:1892`). `mangle_msvc.rs` writes no ellipsis and stubs function types.
- *Import driver*: the third pass recomputes `is_polymorphic` of the cached ids only
  (`import.rs:402-447`, of "every class we touched" at 404): the id of a
  specialization imported twice that is left out of the cache keeps the answer its
  body gave, and so does a class derived from it.
- *Layout and vtables, MSVC*: an empty class with `alignas` has size 1; unions are
  laid out as structs; a shared virtual base is placed once per direct base;
  secondary tables take the most derived class's slots.
- *Call lowering*: `classify_return` takes `is_pod_for_layout` for trivially copyable
  (`rustcc_codegen/src/lib.rs:488`), "matching the Itanium ABI spec §3.2.3 and Clang's
  behavior" (`458-467`). A class of two words with an ordinary constructor or a reference
  comes back in registers from Clang and is passed a slot here, as a unit test asserts
  (`707`). The predicate looks at fields that are records and not into arrays of them
  (`layout.rs:854`), against "every POD-for-layout class is trivially copyable"
  (`124-130`): a small class with an array of classes that have destructors is passed
  no slot. `LoweredCallsFit` says that these two are all.
- *Exceptions*: "`message` is still the result of `what()`" of a typed catch
  (`exception.rs:44-46`) holds behind a shim. A landing pad has the compiler call
  `__rustcc_cxx_catch_typed(exn, selector)` (`native_invoke.rs:179-183`), whose one
  definition, in `fork/examples`, returns a static text. A shim writes its result by
  assignment into an uninitialized slot (`cxx_exception.rs:95`). An exception that derives from
  `std::exception` and is not in the list is `Std` with its `what()` behind a shim,
  and behind a landing pad `Unknown` with the text "non-std::exception C++
  exception" (`native_invoke.rs:47-52`). A class that derives from one in the list
  is `Typed` behind a shim or an LLVM landing pad and `Unknown` with GCC.
- *Bindings*: Drop calls the base destructor, which leaves virtual bases alive
  (`rust_bindings.rs:2750-2761`); a function declared plain and later defined
  inline is linked by a symbol nothing defines; a type of another namespace is
  referred to by its last name; the sets of collected USRs belong to one root
  (`import.rs:692-697`), so an enum two roots include is emitted twice.
- *Literals*: a default for an unscoped enum over `bool` outside a class is written
  `E(true)` (`rust_bindings.rs:6032-6064`), though the enum is emitted over `u8`
  (`5829`): the wrapper does not compile (`6084-6088`: such a method still emits
  "without breaking compilation").
- *Compiler wrapper*: `rust_hpp.rs:50` and `hpp.rs:68` write the same file.
- *Export*: an inherent implementation of an unmarked struct fails the scan
  (`lib.rs:335-336` says it is passed over); `new(&Self)` is declared as a copy
  constructor twice; a declared move constructor has no forwarder.
- *Macros*: `cxx_class!` gives compound types no place in its substitution table;
  the backends write references as raw pointers and drop namespaces.

## 4. What is proved

| Theorem | Module | Statement |
|---|---|---|
| `TypeCorrect` | `ItaniumLayoutProofs` | `Spec => []TypeOK` |
| `InsideCorrect` | `ItaniumLayoutProofs` | `Spec => []SubobjectsInside` |
| `DisjointCorrect` | `ItaniumLayoutProofs` | `Spec => []SubobjectsDisjoint` |
| `AlignedCorrect` | `ItaniumLayoutProofs` | `Spec => []SubobjectsAligned` |
| `BitfieldsCorrect` | `ItaniumLayoutProofs` | `Spec => []BitfieldsReadBack` |
| `CallsCorrect` | `ItaniumLayoutProofs` | `Spec => []LoweredCallsFit` |
| `EmptiesCorrect` | `ItaniumLayoutProofs` | `Spec => []EmptyBasesApart` |
| `MsvcCorrect` | `ItaniumLayoutProofs` | `Spec => []MsvcNoTailReuse` |
| `OverriderCorrect` | `VTableProofs` | `Spec => []FinalOverrider` |
| `OneSlotCorrect` | `VTableProofs` | `Spec => []OneSlotEach` |
| `ExtendCorrect` | `VTableProofs` | `Spec => []SlotsExtendBase` |
| `SecondaryCorrect` | `VTableProofs` | `Spec => []SecondaryOverridden` |
| `MsvcTableCorrect` | `VTableProofs` | `Spec => []MsvcTableExtendsBase` |
| `VttCorrect` | `VTableProofs` | `Spec => []VttCoversTables` |
| `AttrCorrect` | `VTableProofs` | `Spec => []AttrRebuildsTable` |
| `OneClassCorrect` | `ImporterProofs` | `Spec => []OneClassPerRecord` |
| `ImportedCorrect` | `ImporterProofs` | `Spec => []DefinedIsImported` |
| `UpgradeCorrect` | `ImporterProofs` | `Spec => UpgradeAtomic` |
| `PolyCorrect` | `ImporterProofs` | `Spec => []PolyClosed` |
| `MethodsCorrect` | `ImporterProofs` | `Spec => []MethodsInOrder` |
| `HitCorrect` | `ImportCacheProofs` | `Spec => []HitRootsFresh` |
| `IdsCorrect` | `ImportCacheProofs` | `Spec => []IdsCoverRoots` |
| `MissCorrect` | `ImportCacheProofs` | `Spec => NoNeedlessMiss` |
| `IncrementalCorrect` | `ToolchainProofs` | `Spec => []IncrementalSound` |
| `CallsImplemented` | `ExceptionsProofs` | `Spec => ImplementsCalls` |
| `CatchesCorrect` | `ExceptionsProofs` | `Spec => []CatchesBalanced` |
| `SlotsCorrect` | `ExceptionsProofs` | `Spec => []SlotAgreesWithTag` |
| `EmitsAlways` | `BindingsProofs` | `Spec => []Emits`, the inductive invariant |
| `InlineShims` | `BindingsProofs` | `Spec => []ShimsDefined` |
| `OneNameEach` | `BindingsProofs` | `Spec => []NamesUnique` |
| `NearestWins` | `BindingsProofs` | `Spec => []NearestForwarded` |
| `ChainDestroyed` | `BindingsProofs` | `Spec => []DropRunsChain` |
| `ArgumentsArrive` | `BindingsProofs` | `Spec => []CallsDeliver` |
| `ConstantsKept` | `BindingsProofs` | `Spec => []LiteralsKeepValues` |

All of them hold for every value of the constants that satisfies the `ASSUME`s of
the component's module; none needs a bound (`MaxDepth`, `MaxEdits`, `MaxRuns`
and the like) to be small.

**Layout**, for every set of well-formed programs and every positive pointer
size (`PtrAssumption`, `ProgramAssumption`). Neither safety property is
inductive: they speak of finished classes, and a finished class does not say how
it was built. The inductive invariant `Placement` says it of the class in hand.
All that is placed ends at `Edge`, where the next subobject may start: `dsize`
while bases and members are placed, `vend` among the virtual bases, `size` in a
union (`BelowEdge`). An open bit-field unit is an exception, for the next
bit-field starts inside it: there, all that is placed ends at the first unused
bit (`BelowUnit`). With these, a subobject placed at an aligned `Edge` is apart
from all others (`Apart`); lemma `PlaceAbove` says so once and each action cites
it. `Cut` says that the snapshot of the non-virtual size bounds all but the
virtual bases; `PodOK` is needed because a POD class rounds its non-virtual size
up to its alignment, which is safe only if no virtual base raises the alignment
later; `EmptyOK` because a class that `is_empty_class` accepts gets non-virtual
size 0, so nothing in it may occupy bits. The proof has a lemma per action and
joins them in `StepPlacement`.

Alignment needs an assumption of its own. The code rounds an offset up to the
alignment of the next subobject and keeps the largest alignment for the class; that
the largest one is a multiple of all the others is true of powers of two and of
little else. `AlignmentAssumption` says it as far as it is needed: of any two
`Alignments`, those of scalars, of `alignas` and of the pointer, the smaller divides the
larger (`WellAligned`). Then the alignment in hand is one of `Alignments`, every
subobject placed is at a multiple of its own, which divides the one in hand, and an
object of a finished class at a multiple of its alignment carries its parts along.

**What others take from a layout** (the second half of `ItaniumLayoutProofs`). A run can try the accessors of a
bit-field on a few memories and values; the theorem says it of all. Words are sets of
bits, so a shift is a fact about single bits (`ShiftBits`), writing a field changes the
bits of its mask and no others (`SetBits`), and reading it cuts and extends the sign
(`GetBits`). What this needs of the layout is that the field is where its declaration
puts it and inside its container: `Members` says, of the class in hand and of
finished ones, that each member so far has exactly one piece, of its own size.

For calls, `classify_return` looks at one flag, computed on the way from the flags of
bases and members, and the ABI asks about parts at any depth, in arrays too. The proof
joins the two in two halves. `Pods` says what the flag means one level down, and that
the bases and members of a class with a layout have one; that the flag is false exactly
when some part outside arrays disqualifies its class in the code's eyes (`Complicated`)
is then an induction over the classes (`PodParts`). `FlagTells` compares this with the
ABI: `Complicated` is more than `CopiedPlainly` refuses by exactly what `Declares` names,
and `PartsOf` less than `AllParts` by what lies in arrays only (`PartsAmongAll`), so
where `Apparent` holds the flag and `TrivialForCalls` agree. `PartsOf` and `AllParts` are
recursive functions; that they satisfy their equations needs a proof of its own
(`PartsExist`, `PartsEquation`). The rest follows the
cases of lowering (`CallFits`, `CallsFit`), with `OverloadsAssumption` for those a caller
tells apart and lowering does not. A reference is a scalar of its own in `WellFormed`: no
array, no bit-field, no record.

A derived class takes over the empty subobjects its primary base recorded. The invariant
`Empties` says of every class that those of the primary base are among its own, and
that each other empty base sits at an offset that is recorded and that the primary base
did not record (`Kept`). The primary base is placed first, and is never empty itself,
since a polymorphic class has a vptr or takes in one that has (`HandSized`, `DoneSized`).
`RecordedStep` then goes down the chain of primary bases, one class at a time.

The MSVC layout is a function of the program, so its theorem is an induction over the
classes and, in a class, over the turns of the loops (`Runs`, `RunStays`). `Sound` is
the loop invariant, for what has been placed of a class so far: each piece is inside
and aligned, and no two share a bit, each taken to its full size (`Extent`). `Prior` is what it
needs of earlier classes: one that `base_is_empty` accepts although it has size 1 has
no data, for only a base without data may take no room. `DataHasReason` says that a
class with data has a member of some size or such a base. Then `DataNotEmpty` gives
`Prior`: a class of size 1 without members and non-virtual bases has no pointer, for a
pointer is 8 bytes, and no virtual base, for those bring a vbptr. Sizes are rounded up,
never compared by division: powers of two are not needed here.

**Exceptions**, for any threads, call sites, exception classes with any
inheritance, catch lists and depth of nesting (`ThrowingAssumption`): every step
of Exceptions is a step of ThrowingCalls under the mapping `Pending`, or leaves
it alone. `Pending` keeps of each frame its site and how its callee ended (`Bar`) and
forgets the arm, the raw result and the buffers. A step that returns must show
that what the caller decodes from those is the answer to the callee's ending. The
inductive invariant `IInv` says it of every frame of a stack, not of the top one
only (`FrameOK`): a frame in its body has written nothing; a frame that is
calling `what()`, under which other calls may run and use the same buffer, is in
the arm that its exception selects; a frame that has written its raw result has
no call above it, and decoding that result gives the right answer (`Delivers`).
`ThrowingCalls` names the first matching entry of a catch list as a minimum,
Exceptions walks arms and selectors: `ArmOfFirst`, `SelectorFirst` (on `FirstOfPlaces`,
for both kinds of landing pad) and `AnswerArm` join the two.
`PutKeeps` and `PutMaps` say what replacing one frame does to the invariant and
to the mapping, and there is one lemma per action.

What is open in a thread, and what a slot holds, are the conjuncts of `Caught`,
kept beside `IInv`. The begun catches are a sequence, the frames that catch are
positions of the stack: `InOrder` is an increasing map between the two, and
`OrderKept`, `OrderBegun` and `OrderEnded` say what the three kinds of step do to
it (leave the catching frames, add the innermost, take it away). That a step takes
away the innermost one and no other is where `FrameOK` is needed.

**Vtables**, for every well-formed program (`ProgramAssumption`). A finished table
does not say in which order it was filled, so the inductive invariant describes
the table under way at any point `(a, n)` of the walk: class `a` of the chain,
declaration `n` of that class. `Places` lists, in order, the places of the first
declarations scanned so far, a place being class, method and, for a destructor,
which of its two slots; `Filled` says that the slot at a place was introduced there
and names the last declaration of its signature scanned so far; `Walked` puts the
two together. One lemma per action (`WalkSkip`, `WalkDtor`, `WalkNew`,
`WalkOverride`) moves `Walked` one declaration on, and `Built` is `Walked` at the end
of the chain. From `Built`: every declaration is scanned, so the overrider is the
last on the chain; places are distinct, so a function has one slot; and the places
of the base are those of the class up to the end of the base's chain (`ChainPrefix`,
`OrderedPrefix`), so its slots come first. `Chain` is a recursive function. That its
equation has a solution and only one (`UpExists`, `UpUnique`, `ChainStep`) is
induction over the class, done with sets in place of predicates: `Induct` says that a
set which holds a number whenever it holds all smaller ones is all of `Nat`.

The sub-tables have an invariant of their own beside `IInv`, `SubsInv`: those of a
finished class and of the class in hand are of earlier classes, and each entry
(`EntryOk`) has the origin of the base's slot at that place and the overrider
`most_derived_override` finds. That a sub-table is of an earlier class, so that its
slots are final, rests on the walk of the hierarchy: `VirtualBelow` is an induction
over the class for `collect_virtual_bases`, on top of what a fold and a flattened
sequence yield (`FoldOnce`, `FlatType`); `SubobjectsBelow` adds the non-virtual bases.

The VTT looks sub-tables up by the class they are of, so the theorem about it first has
to show that a class has at most one. `SubsInv` does not say so: it speaks of each
sub-table alone. `ForsInv` adds that those in hand are of subobjects already walked,
each of another one, and `SubobjectsOnce` that the subobjects of a class which is no
base in both ways are different classes. The same induction as above gives that
`collect_virtual_bases` lists a base once (`VirtualOnce`) and, of a base, only what it
lists of the class (`VirtualInherited`). The VTT is then one entry and three
sequences joined: the entries of the construction vtables, one run per base
(`SecondaryRuns`), and those of the sub-tables of virtual and of other bases, which
name each its own tables once (`OwnNames`). `VttRight` counts.

The attribute of an imported class is followed there and back. A finished table has the
destructor pair at one place or none (`PairPlace`) and one slot per function
(`OnePlain`), both from `Built`. `RecordsAre` says which slot each record is of, the
pair shrunk to a marker or, in front, to nothing; `VirtualsAre` that an override takes
the record of its function and of no other, which needs the records to tell the
functions apart (`ToldApart`); `AssembledIs` that the reader expands the marker where
the pair stood. What joining does to places, when one of the joined sequences is longer
or shorter than the rest, is `FlatStretch` (`SequenceLemmas`). Of the naming the proof
takes only that no method is spelled like the marker (`NamesAssumption`).

The MSVC tables are functions of the program, so no step matters and the proof
follows `compute_slots` turn by turn: `LoopOk` for the methods of a class, `ChainOk`
for the classes of the chain. `LoopOk` says that the slots of the classes above stand
where they stood, that no two slots override one another (`Separate`), and that each
virtual method met so far has a slot. A reversed overload is inserted before earlier
slots, but only before slots of its own class; that these lie after those above is
`PlaceAfter`, and it needs the chain to name a class once (`MsvcChainOnce`).
`BaseSlotsFirst` then compares the turns of a class and of its primary base, and that
one slot stands for one function is that `methods_override` is an equivalence
(`OverrideLaws`).

**Importer**, for every program of mutually dependent classes and any headers
(`ProgramAssumption`, `NamesAssumption`). The invariant `IInv` has a conjunct per
thing the recursion could break. `StackOK`: every activation of `import_class` waits
for the one above it, and a call or a result under way is the one the top activation
asked for; an error is returned only for a type that cannot be imported. `OneId`: a
cached id is a class of that record, and the class of a record which is no
specialization is the cached one, which gives `OneClassPerRecord` and needs the
invariant of the stack, for a nested call may have registered the record that the
outer one was about to. `BodySoFar`, inside `StackOK`: what an activation has lowered is a
prefix of the declaration and what it has not is still to do. `Built`: a healthy class
is complete or some activation is to complete it; a class that re-enters itself
has several. `Registered` and `Imported`: the walk leaves no record behind, those
an activation waits for included. `Passes` says that the passes come in their order
and that the importer is done with the last header only. `Supported` is a greatest
fixpoint: a record is supported when some set of records with it is closed under
dependencies and contains nothing unsupported, so a cycle of supported classes is
supported; the proof uses that set as the witness for each member.

`PolyCorrect` is about the third pass, which recomputes `is_polymorphic` of the
cached classes in the order of a hash map until nothing changes. When it stops, each
flag agrees with the flags of the direct bases and with the virtual bases further up;
the theorem says that it then agrees with all classes above. That the walk up the
bases (`Ancestors`), cut off after as many rounds as there are classes, has found them
all is a matter of counting: as long as a round adds a class the set grows
(`AncestorsClosed`), and nothing is added that is not above (`AncestorsLeast`). At
the end of a header no cached class is out of date (`Recomputed`). The rest is an
induction over derivation: the bases of a class are a prefix of those declared
(`BasesDeclared`), so their ranks fall (`Falls`), and `PolyStep` goes from the classes of
lower rank to one of the next. The induction uses sets in place of predicates
(`Induct`); the records of a program are finitely many (`RecordsAssumption`).

`MethodsCorrect` is about what is *in* a class at each moment, while it may be under
way in several activations, be poisoned and be imported again. The invariant `MInv`
says of an activation which methods it has lowered so far (`MethodsSoFar`), and of
each class of a record whose methods are `Plain` one of three things (`Ordered`): it
has all its methods, so that what the second pass lowers once more is found there with
the same parameters (`SameParams`); the second pass is at its record, and it has
methods before the next one only; or it has none yet, or is still poisoned and the
second pass of this header does not come to it. The last case needs that a poisoned
class the walk has called for is overwritten, and so emptied, or is about to be
(`Entering`, `StillEntering`): the second pass never begins with a poisoned class that
has methods. It also needs that a header defines a record once (`WellFormed`): a second
visit would append the methods of a poisoned class out of order.

**Import cache**, for any processes, roots, texts, flags and templates
(`GraphsAssumption`, `RootsAssumption`, `NamesAssumption`). `RecordOK` says of a
record, wherever it is, that its ids cover its roots and that, when its run was quiet,
its classes have the text of its key. `RunOK` says it of each process: its key so far
is of the text on disk while it is quiet, its output so far is that of the roots it
has parsed, and what it has read is a record, or the beginning of one and the rest of
another that fit. Each part of the file is a part of such a record, whatever was
written over it. `MissCorrect` is an action property: a key that differs from that of
a whole record of the same graph differs in the text of a root.

**Compiler wrapper**, for any processes, versions, modes and tools
(`ToolchainAssumption`, and `SentinelAssumption`: the sentinels are no versions). `Clean`
holds as long as the history is clean: one run at a time; what the run has read is
what is on disk (`ReadOK`); the files the run is past are current, and all of them if
its inputs are those of the marker (`FilesOK`); `Sound`, the property itself for a
marker on disk at any moment; and `Whole`: as long as no run was ended early, the
marker, current or not, is that of a whole build. `Whole` is what carries `Sound` over an edit that
leads back to earlier inputs. `RunStep` says what a step of one run needs
to show; the three moves of an emitter (skip, open, finish) are lemmas of their
own, used by each of the phases.

**Emitters** (`BindingsProofs`), for every set of well-formed type contexts
(`ProgramAssumption`), hierarchies of any shape and signatures of any length. What is
written does not say what it was written for, so the inductive invariant `Emits`
relates the two. `Walk`: the classes before `at` have an item each, and nothing is in
hand between two classes. `InHand`: no two blocks of the class in hand have one
identifier, all identifiers are among those `seen`, and a public destructor the loop is
past has set `dtor`. `BlocksDescribed`: a block stands for a method that can be
classified, is of the kind that method has, and is linked through a throwing shim when
the method throws. `ShimsMade`, `FnsListed`: the shims of the classes the second walk
is past are written, and a free function is linked as its declaration says.
`ShimsFollow` gets `ShimsDefined` from these: a block or a function routed through a
shim passes the test by which `generate_shims` writes one.

The forwarders are a function of the finished context, a walk of recursive depth that
drops what it met before. `PathList` says of the list of paths that every class a path
leads through is the end of an *earlier* path (`Earlier`); it is an induction over the
class (`PathsFacts`), and `VisitsFacts` carries it over the removal of classes met
twice. A method of a class in between is then a candidate before the one behind it, so
of two with one name the nearer is kept (`ForwardersFacts`): `NearestForwarded`. That
no kept name is taken by a block gives `NamesUnique`; blocks of one name would have one
identifier.

`DropKept` is about the flags `Drop` is chosen from. A destructor that is declared has
a block, since nothing in a well-formed context makes the emitter reject it, and a
virtual one inherited along a single chain is found by both functions that look for it.
`SingleOf` and `DtorOf` are these two recursive functions with the context as an
argument: a step that keeps the context keeps them.

A wrapper `Matches` its callee when each parameter of the C++ function gets the
argument of its own position, the object or the result place; `FullMatches` shows it of
the five kinds of full wrappers. A convenience wrapper leaves out trailing defaults and
converts strings: it `Fills` the full one when each position gets an argument that
serves it (`Filled`, `DefaultFacts`), and `ConvenienceDelivers` puts the two together.
`HeapKept`, that the heap constructors are among the blocks of their class, is needed
for the boxed ones.

Constants (`ConstantsKept`): `Pow2` is a recursive function, which the provers know
through its two equations (`PowerEquation`) and through `PowerGrows`, both inductions.
A value `int_fits` lets pass is in the range of its parameter, in each of its four
arms (`FitsInRange`), so a literal has the type it is written at, through aliases of
enums too (`DefaultTyped`); and what is stored of an enumerator is read back as it was
unless its top bit is the sign of a narrower word (`DiscriminantFacts`). What the code
trusts of libclang is `ConstantsAssumption`: an evaluated value fits its 64-bit
carrier, and an enumerator the type of its enum.

**Lemmas on sequences** (`SequenceLemmas`). The emitters build everything by
concatenation and selection. `Flat` says where the elements of `FlattenSeq` are and in
which order, and `Sifting` does the same for a selection, written as the `FlattenSeq` of
sequences of at most one element (`Optional`): the places that are kept, in order. Both
are inductions over the length, with sets in place of predicates (`Induct`).

### Only model-checked

- `HeadersBuild`, `NameReadsBack`, `MsvcNamesDiffer`, `MacrosLink`, `DeclaredIsDefined`
  and `OrderFree`: the export and the emitted tree are built by folds over data.
- Out of the prover's reach: liveness (`BuildsConverge`) and `ENABLED`; ItaniumNames,
  ClassMacro and MacroBackend, whose readers and writers are recursive operators.

Type invariants are checked where a proof uses one; elsewhere the safety
properties evaluate every variable and a value of the wrong kind stops TLC.

## 5. What is not modelled

- The ownership runtime (`CxxOwned`, `CxxHeap`, `CxxShared`) and callbacks: next in
  the plan.
- `rustcc-cli`, Swift runtime support, the compiler fork, tools and examples.
- `detect_hfa`, a flat classification of a finished class; overflow of 64-bit
  sizes.
- libclang, compilers, linkers, rustup: external, modelled only through what the
  code reads from them. The resolution of headers, the assembly of link
  arguments and the discovery of template instantiations
  (`discover_template_instantiations`, `synthesize_stl_companions`).
- The spelling of generated code and diagnostics, the parsing of annotations and
  of macro literals: formatting.
- The prefixes of vtables: offsets and RTTI entries; the address points.

## 6. Plan

1. **Runtime**: life cycles of C++ objects and boxed closures with threads and
   callbacks that re-enter. Abstract specification: every object is freed once, by
   its own allocator, after its last use.
2. **ObjectModel**: layout and vtables over one program (the vptr at offset 0 is
   the one whose slots the primary chain builds), and importer and vtables over
   methods that cannot be lowered.
3. An abstract specification of placement that both layout engines refine.
4. **Install** of `rustcc-cli`: repeating a command after a partial failure.

Proofs: the functions of finished layouts and tables; the refinement of 3.
