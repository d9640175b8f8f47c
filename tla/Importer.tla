------------------------------- MODULE Importer -------------------------------
(***************************************************************************)
(* The class importer, crates/cxx_importer/src/import.rs.                  *)
(*                                                                         *)
(* import_class is a recursive walk over a cyclic graph: the fields, bases *)
(* and method signatures of a class name other classes, which are imported *)
(* on the way.  The recursion is the explicit `stack' here, one frame per  *)
(* activation of import_class (or of lower_method from the second pass),   *)
(* so that every state in which another import sees a half-built class is  *)
(* a state of the specification.                                           *)
(*                                                                         *)
(* A program is a set of declarations and the headers (translation units)  *)
(* Driver::parse_all imports one after the other into one CxxTypeCtx, with *)
(* one USR cache.  Types are abstracted to the records they mention: a     *)
(* record, a scalar, or a kind import_type rejects.  vtable_index, written *)
(* here and read by emitters only, is the subject of module VTable.        *)
(***************************************************************************)
EXTENDS Naturals, Sequences, SequencesExt, FiniteSets

CONSTANTS
  Usr,          \* the records of the program, by USR
  NoUsr,
  Scalar,       \* any type import_type lowers without importing a record
  Unsupported,  \* any type import_type rejects
  Programs,     \* the inputs
  MaxDepth      \* bound on nested import_class calls

Type == Usr \union {Scalar, Unsupported}

(* args: the template arguments of a specialization; types of a method: its *)
(* parameters, then its result.  hidden: neither public, virtual nor a dtor. *)
Method == [types: Seq(Type) \ {<< >>}, virtual: BOOLEAN, hidden: BOOLEAN]
Decl == [system: BOOLEAN, skip: BOOLEAN, args: Seq(Type), fields: Seq(Type),
         bases: Seq([class: Usr, virt: BOOLEAN]), methods: Seq(Method)]

(* tus: for each root header, the records with a definition in it and the    *)
(* cursors of definitions of records in order, one per record; an implicit   *)
(* instantiation has no cursor.  A base is a complete type, declared earlier,*)
(* where its derived class is defined; a specialization may be instantiated  *)
(* explicitly later.  No class is then its own base, directly or not: some   *)
(* ranking falls along bases.                                                *)
Header == [defined: SUBSET Usr, cursors: Seq(Usr)]

Falls(rank, decl) ==
  \A u \in Usr : \A b \in DOMAIN decl[u].bases : rank[decl[u].bases[b].class] < rank[u]

WellFormed(prog) ==
  /\ prog.decl \in [Usr -> Decl]
  /\ \E rank \in [Usr -> 0 .. Cardinality(Usr)] : Falls(rank, prog.decl)
  /\ prog.tus \in Seq(Header) /\ prog.tus # << >>
  /\ \A i \in DOMAIN prog.tus : \A u \in prog.tus[i].defined :
       \A b \in DOMAIN prog.decl[u].bases :
         prog.decl[u].bases[b].class \in prog.tus[i].defined
  /\ \A i \in DOMAIN prog.tus : \A k \in DOMAIN prog.tus[i].cursors :
       /\ prog.tus[i].cursors[k] \in prog.tus[i].defined
       /\ \A j \in DOMAIN prog.tus[i].cursors :
            prog.tus[i].cursors[j] = prog.tus[i].cursors[k] => j = k
       /\ \A j \in DOMAIN prog.tus[i].cursors :
            \A b \in DOMAIN prog.decl[prog.tus[i].cursors[k]].bases :
              LET base == prog.decl[prog.tus[i].cursors[k]].bases[b].class
              IN base = prog.tus[i].cursors[j] /\ prog.decl[base].args = << >> => j < k

ASSUME ProgramAssumption == \A prog \in Programs : WellFormed(prog)
ASSUME RecordsAssumption == IsFiniteSet(Usr)
ASSUME NamesAssumption ==
  NoUsr \notin Type /\ Scalar \notin Usr /\ Unsupported \notin Usr /\ Scalar # Unsupported

VARIABLES
  program,
  classes,   \* CxxTypeCtx.classes; ClassId = index
  poisoned,  \* the ids in CxxTypeCtx.poison_reason
  cache,     \* USR -> ClassId, 0 when absent
  tu,        \* the root header being imported
  phase,     \* its pass: walk, attach, repoly; done or failed at the end
  pos, mem,  \* the cursor of the walk: a record of the TU, a method of it
  stack,     \* activations
  call,      \* the argument of an import_class call about to start
  ret        \* the Result of the call that has just ended

ctxVars == <<classes, poisoned, cache>>
cursor == <<tu, phase, pos, mem>>
machine == <<stack, call, ret>>
vars == <<program, ctxVars, cursor, machine>>

-----------------------------------------------------------------------------
NoRet == [kind |-> "none", id |-> 0]
Ok(id) == [kind |-> "ok", id |-> id]
Err == [kind |-> "err", id |-> 0]

Records == program.tus[tu].cursors
Defined(u) == u \in program.tus[tu].defined
IsSpec(u) == program.decl[u].args # << >>

(* A member still to be lowered and the types it mentions.                   *)
Member(part, n, types, flag) == [part |-> part, n |-> n, types |-> types, flag |-> flag]

Args(u, part) == [i \in DOMAIN program.decl[u].args |->
                    Member(part, i, <<program.decl[u].args[i]>>, FALSE)]

MethodMember(u, m) ==
  Member("method", m, program.decl[u].methods[m].types, program.decl[u].methods[m].virtual)

(* The body in the order import_class walks it: fields, bases, then methods, *)
(* which for a specialization are those of its template, after the template  *)
(* arguments are imported once more for the substitution map.                *)
Body(u) ==
  LET d == program.decl[u]
  IN [i \in DOMAIN d.fields |-> Member("field", i, <<d.fields[i]>>, FALSE)]
     \o [i \in DOMAIN d.bases |->
           Member("base", i, <<d.bases[i].class>>, d.bases[i].virt)]
     \o Args(u, "subst")
     \o [m \in DOMAIN d.methods |-> MethodMember(u, m)]

(* An activation, with the locals of import_class.                           *)
Frame(stage, u, id, upgrade, todo) ==
  [stage |-> stage, usr |-> u, id |-> id, upgrade |-> upgrade, todo |-> todo,
   got |-> << >>, bases |-> << >>, fields |-> << >>, methods |-> << >>]

Top == Last(stack)
SetTop(f) == [stack EXCEPT ![Len(stack)] = f]

ClassIds == 1 .. Len(classes)
EmptyClass(u) == [usr |-> u, bases |-> << >>, fields |-> << >>, methods |-> << >>, poly |-> FALSE]

(* Importing once, whatever was imported.                                    *)
HealthyBug(id) == id # 0
Healthy(id) == id # 0 /\ id \notin poisoned

(* define_class: the id is the length before the push, counted from one.     *)
NewId == Len(classes) + 1

(* class_has_virtual_base_chain, over the bases as they stand.               *)
BasesOf(id) == {classes[id].bases[b].class : b \in DOMAIN classes[id].bases}

Ancestors(id) ==
  LET Up[n \in 0 .. Len(classes)] ==
        IF n = 0 THEN BasesOf(id)
        ELSE Up[n - 1] \union UNION {BasesOf(a) : a \in Up[n - 1]}
  IN Up[Len(classes)]

HasVirtualBase(id) ==
  \E a \in Ancestors(id) \union {id} :
    \E b \in DOMAIN classes[a].bases : classes[a].bases[b].virt

(* recompute_is_polymorphic, and the computation in import_class it mirrors. *)
PolymorphicDirectBug(bases, methods) ==
  \/ \E m \in DOMAIN methods : methods[m].virtual
  \/ \E b \in DOMAIN bases : bases[b].virt
Polymorphic(bases, methods) ==
  \/ \E m \in DOMAIN methods : methods[m].virtual
  \/ \E b \in DOMAIN bases :
       \/ bases[b].virt
       \/ classes[bases[b].class].poly
       \/ HasVirtualBase(bases[b].class)

Init ==
  /\ program \in Programs
  /\ classes = << >> /\ poisoned = {} /\ cache = [u \in Usr |-> 0]
  /\ tu = 1 /\ phase = "walk" /\ pos = 1 /\ mem = 1
  /\ stack = << >> /\ call = NoUsr /\ ret = NoRet

-----------------------------------------------------------------------------
(* First pass: walk_top_level over the records of the translation unit.      *)

Idle == stack = << >> /\ call = NoUsr /\ ret = NoRet

WalkRecord ==
  /\ phase = "walk" /\ Idle /\ pos <= Len(Records)
  /\ call' = IF program.decl[Records[pos]].system THEN NoUsr ELSE Records[pos]
  /\ pos' = pos + 1
  /\ UNCHANGED <<program, ctxVars, tu, phase, mem, stack, ret>>

WalkReturn ==
  /\ phase = "walk" /\ stack = << >> /\ ret # NoRet
  /\ phase' = IF ret = Err THEN "failed" ELSE "walk"
  /\ ret' = NoRet
  /\ UNCHANGED <<program, ctxVars, tu, pos, mem, stack, call>>

WalkDone ==
  /\ phase = "walk" /\ Idle /\ pos > Len(Records)
  /\ phase' = "attach" /\ pos' = 1 /\ mem' = 1
  /\ UNCHANGED <<program, ctxVars, tu, machine>>

-----------------------------------------------------------------------------
(* import_class, up to its first recursive call.                             *)

(* A cached healthy class is returned as it stands, finished or not.         *)
ReturnCached ==
  /\ call # NoUsr
  /\ Healthy(cache[call])
  /\ ret' = Ok(cache[call])
  /\ call' = NoUsr
  /\ UNCHANGED <<program, ctxVars, cursor, stack>>

(* poison_class: an empty class, poisoned, cached.                           *)
PoisonNew(u) ==
  /\ classes' = Append(classes, EmptyClass(u))
  /\ poisoned' = poisoned \union {NewId}
  /\ cache' = [cache EXCEPT ![u] = NewId]
  /\ ret' = Ok(NewId)

(* The poisoned class an earlier import left, 0 when there is none; with the *)
(* mutant, the upgrade of a forward declaration mints a second class.        *)
UpgradeTargetBug(u) == 0
UpgradeTarget(u) == IF cache[u] \in poisoned THEN cache[u] ELSE 0

(* A record of a system header, or one this TU only declares: opaque.        *)
ReturnOpaque ==
  /\ call # NoUsr
  /\ ~Healthy(cache[call])
  /\ program.decl[call].system \/ ~Defined(call)
  /\ IF cache[call] \in poisoned
     THEN ret' = Ok(cache[call]) /\ UNCHANGED ctxVars
     ELSE PoisonNew(call)
  /\ call' = NoUsr
  /\ UNCHANGED <<program, cursor, stack>>

EnterClass ==
  /\ call # NoUsr
  /\ ~Healthy(cache[call])
  /\ ~program.decl[call].system /\ Defined(call)
  /\ Len(stack) < MaxDepth
  /\ stack' = Append(stack,
                Frame("args", call, 0, UpgradeTarget(call), Args(call, "arg")))
  /\ call' = NoUsr
  /\ UNCHANGED <<program, ctxVars, cursor, ret>>

(* The template arguments are in the name, and the name is in the ClassDef:  *)
(* only now is the class registered, or the poisoned one overwritten.        *)
SkipsBody(u) == program.decl[u].skip

RegisterClass ==
  /\ stack # << >> /\ call = NoUsr /\ ret = NoRet
  /\ Top.stage = "args" /\ Top.todo = << >>
  /\ LET u == Top.usr
         id == IF Top.upgrade # 0 THEN Top.upgrade ELSE NewId
     IN /\ IF Top.upgrade # 0
           THEN classes' = [classes EXCEPT ![id] = EmptyClass(u)] /\ UNCHANGED cache
           ELSE /\ classes' = Append(classes, EmptyClass(u))
                /\ cache' = [cache EXCEPT ![u] = id]
        /\ IF SkipsBody(u)
           THEN stack' = Front(stack) /\ ret' = Ok(id)
           ELSE stack' = SetTop(Frame("body", u, id, Top.upgrade, Body(u))) /\ UNCHANGED ret
  /\ UNCHANGED <<program, poisoned, cursor, call>>

-----------------------------------------------------------------------------
(* import_type on the next type of the member in hand.                       *)

AtMember == stack # << >> /\ call = NoUsr /\ ret = NoRet /\ Top.todo # << >>

IsHidden(u, x) == x.part = "method" /\ program.decl[u].methods[x.n].hidden

(* A method no C trampoline can call and no vtable slot needs.               *)
SkipHidden ==
  /\ AtMember /\ IsHidden(Top.usr, Head(Top.todo))
  /\ stack' = SetTop([Top EXCEPT !.todo = Tail(@), !.got = << >>])
  /\ UNCHANGED <<program, ctxVars, cursor, call, ret>>

AtType == AtMember /\ ~IsHidden(Top.usr, Head(Top.todo))
ThisType == Head(Top.todo).types[Len(Top.got) + 1]

ImportRecord ==
  /\ AtType /\ ThisType \in Usr
  /\ call' = ThisType
  /\ UNCHANGED <<program, ctxVars, cursor, stack, ret>>

ImportLeaf ==
  /\ AtType /\ ThisType \notin Usr
  /\ ret' = IF ThisType = Scalar THEN Ok(0) ELSE Err
  /\ UNCHANGED <<program, ctxVars, cursor, stack, call>>

(* Its result goes to the member; the last type completes the member.        *)
Resumed == stack # << >> /\ call = NoUsr /\ ret # NoRet
Lowered == Len(Top.got) + 1 = Len(Head(Top.todo).types)

TakeType ==
  /\ Resumed /\ ret # Err /\ ~Lowered
  /\ stack' = SetTop([Top EXCEPT !.got = Append(@, ret.id)])
  /\ ret' = NoRet
  /\ UNCHANGED <<program, ctxVars, cursor, call>>

TakeMember ==
  /\ Resumed /\ ret # Err /\ Lowered
  /\ LET x == Head(Top.todo)
     IN stack' = SetTop([Top EXCEPT
          !.todo = Tail(@), !.got = << >>,
          !.fields = IF x.part = "field" THEN Append(@, ret.id) ELSE @,
          !.bases = IF x.part = "base" THEN Append(@, [class |-> ret.id, virt |-> x.flag])
                    ELSE @,
          !.methods = IF x.part = "method"
                      THEN Append(@, [n |-> x.n, virtual |-> x.flag, params |-> Top.got])
                      ELSE @])
  /\ ret' = NoRet
  /\ UNCHANGED <<program, ctxVars, cursor, call>>

(* A method or a substitution that fails is left out.                        *)
SkipMember ==
  /\ Resumed /\ ret = Err /\ Head(Top.todo).part \in {"method", "subst"}
  /\ stack' = SetTop([Top EXCEPT !.todo = Tail(@), !.got = << >>])
  /\ ret' = NoRet
  /\ UNCHANGED <<program, ctxVars, cursor, call>>

(* A template argument that fails poisons the class.                         *)
FailArgument ==
  /\ Resumed /\ ret = Err /\ Head(Top.todo).part = "arg"
  /\ IF Top.upgrade # 0
     THEN ret' = Ok(Top.upgrade) /\ UNCHANGED ctxVars
     ELSE PoisonNew(Top.usr)
  /\ stack' = Front(stack)
  /\ UNCHANGED <<program, cursor, call>>

(* As if the marker were cleared on every way out.                           *)
FailBodyBug ==
  /\ Resumed /\ ret = Err /\ Head(Top.todo).part \in {"field", "base"}
  /\ stack' = Front(stack)
  /\ poisoned' = poisoned \ {Top.id}
  /\ UNCHANGED <<program, classes, cache, cursor, call, ret>>

(* A field or a base that fails abandons the body: `?' hands the error to    *)
(* the caller, and the placeholder stays in the cache.                       *)
FailBody ==
  /\ Resumed /\ ret = Err /\ Head(Top.todo).part \in {"field", "base"}
  /\ stack' = Front(stack)
  /\ UNCHANGED <<program, ctxVars, cursor, call, ret>>

(* The body is assigned in one go; an upgraded class stops being poisoned.   *)
FinishClass ==
  /\ stack # << >> /\ call = NoUsr /\ ret = NoRet
  /\ Top.stage = "body" /\ Top.todo = << >>
  /\ classes' = [classes EXCEPT ![Top.id] =
                   [@ EXCEPT !.bases = Top.bases, !.fields = Top.fields,
                             !.methods = Top.methods,
                             !.poly = Polymorphic(Top.bases, Top.methods)]]
  /\ poisoned' = IF Top.upgrade # 0 THEN poisoned \ {Top.id} ELSE poisoned
  /\ stack' = Front(stack)
  /\ ret' = Ok(Top.id)
  /\ UNCHANGED <<program, cache, cursor, call>>

-----------------------------------------------------------------------------
(* Second pass: attach_methods_recursively visits every method of the TU,    *)
(* system headers included.  The methods of a specialization belong to its   *)
(* template, which is no cached class.                                       *)

AtRecord == phase = "attach" /\ Idle /\ pos <= Len(Records)
ThisRecord == Records[pos]
MethodsLeft == mem <= Len(program.decl[ThisRecord].methods)

NextRecord ==
  /\ AtRecord /\ ~MethodsLeft
  /\ pos' = pos + 1 /\ mem' = 1
  /\ UNCHANGED <<program, ctxVars, tu, phase, machine>>

SkipMethod ==
  /\ AtRecord /\ MethodsLeft
  /\ \/ cache[ThisRecord] = 0
     \/ IsSpec(ThisRecord)
     \/ program.decl[ThisRecord].methods[mem].hidden
  /\ mem' = mem + 1
  /\ UNCHANGED <<program, ctxVars, tu, phase, pos, machine>>

VisitMethod ==
  /\ AtRecord /\ MethodsLeft
  /\ cache[ThisRecord] # 0
  /\ ~IsSpec(ThisRecord)
  /\ ~program.decl[ThisRecord].methods[mem].hidden
  /\ stack' = <<Frame("attach", ThisRecord, cache[ThisRecord], 0,
                      <<MethodMember(ThisRecord, mem)>>)>>
  /\ mem' = mem + 1
  /\ UNCHANGED <<program, ctxVars, tu, phase, pos, call, ret>>

(* The same name, cv-qualifiers and parameter types; not comparing at all.   *)
DuplicateBug(id, m) == FALSE
Duplicate(id, m) ==
  \E k \in DOMAIN classes[id].methods :
    /\ classes[id].methods[k].n = m.n
    /\ classes[id].methods[k].params = m.params

(* Push the method the frame lowered, unless it failed or is there already.  *)
AttachMethod ==
  /\ stack # << >> /\ call = NoUsr /\ ret = NoRet
  /\ Top.stage = "attach" /\ Top.todo = << >>
  /\ classes' = IF Top.methods = << >> \/ Duplicate(Top.id, Top.methods[1]) THEN classes
                ELSE [classes EXCEPT ![Top.id].methods = Append(@, Top.methods[1])]
  /\ stack' = << >>
  /\ UNCHANGED <<program, poisoned, cache, cursor, call, ret>>

AttachDone ==
  /\ phase = "attach" /\ Idle /\ pos > Len(Records)
  /\ phase' = "repoly"
  /\ UNCHANGED <<program, ctxVars, tu, pos, mem, machine>>

-----------------------------------------------------------------------------
(* Third pass: recompute is_polymorphic until nothing changes, the cached    *)
(* classes taken in the order of a HashMap.                                  *)

Stale(id) == classes[id].poly # Polymorphic(classes[id].bases, classes[id].methods)

Recompute ==
  /\ phase = "repoly"
  /\ \E u \in Usr :
       /\ cache[u] # 0
       /\ Stale(cache[u])
       /\ classes' = [classes EXCEPT ![cache[u]].poly = ~@]
  /\ UNCHANGED <<program, poisoned, cache, cursor, machine>>

(* parse_all goes to the next root with the same ctx and cache.              *)
HeaderDone ==
  /\ phase = "repoly"
  /\ \A u \in Usr : cache[u] # 0 => ~Stale(cache[u])
  /\ IF tu < Len(program.tus)
     THEN tu' = tu + 1 /\ phase' = "walk" /\ pos' = 1 /\ mem' = 1
     ELSE phase' = "done" /\ UNCHANGED <<tu, pos, mem>>
  /\ UNCHANGED <<program, ctxVars, machine>>

Next ==
  \/ WalkRecord \/ WalkReturn \/ WalkDone
  \/ ReturnCached \/ ReturnOpaque \/ EnterClass \/ RegisterClass
  \/ SkipHidden \/ ImportRecord \/ ImportLeaf \/ TakeType \/ TakeMember \/ SkipMember
  \/ FailArgument \/ FailBody \/ FinishClass
  \/ NextRecord \/ SkipMethod \/ VisitMethod \/ AttachMethod \/ AttachDone
  \/ Recompute \/ HeaderDone

Spec == Init /\ [][Next]_vars

-----------------------------------------------------------------------------
(* Properties. *)

(* What importing u may import on the way: its arguments, fields and bases.  *)
Deps(u) ==
  LET d == program.decl[u]
  IN Range(d.args) \union Range(d.fields)
     \union {d.bases[b].class : b \in DOMAIN d.bases}

(* Some set of records with u in it names records of the set and scalars.    *)
Supported(u) ==
  \E S \in SUBSET Usr : u \in S /\ \A v \in S : Deps(v) \subseteq S \union {Scalar}

TypeOfId(id) == IF id = 0 THEN Scalar ELSE classes[id].usr

(* The class holds the fields and bases of its declaration, in order.        *)
Complete(id) ==
  LET d == program.decl[classes[id].usr]
      c == classes[id]
  IN /\ d.fields = [i \in DOMAIN c.fields |-> TypeOfId(c.fields[i])]
     /\ d.bases = [b \in DOMAIN c.bases |->
                     [class |-> TypeOfId(c.bases[b].class), virt |-> c.bases[b].virt]]

Walked(u) ==
  /\ ~program.decl[u].system /\ ~program.decl[u].skip
  /\ \E i \in DOMAIN program.tus : \E k \in DOMAIN program.tus[i].cursors :
       program.tus[i].cursors[k] = u

(* Every record some header defines at namespace scope ends up healthy and   *)
(* complete, whichever class or header reached it first, in a cycle or       *)
(* through a forward declaration, when all it is built from is supported.    *)
DefinedIsImported ==
  phase = "done" => \A u \in Usr : Walked(u) /\ Supported(u) =>
    Healthy(cache[u]) /\ Complete(cache[u])

(* A record that is not a specialization never gets a second ClassId: an     *)
(* upgrade from a forward declaration keeps the id earlier classes hold.     *)
OneClassPerRecord ==
  \A i, j \in ClassIds :
    classes[i].usr = classes[j].usr /\ ~IsSpec(classes[i].usr) => i = j

(* The third pass leaves is_polymorphic right for a cached class: there is a *)
(* virtual method or a virtual base somewhere above it, although the class   *)
(* and its bases were finished in any order.  The pass visits the cached     *)
(* classes only, so those above must be: a base that is the first of two     *)
(* imports of a specialization keeps the flag it was finished with.          *)
Virtuals(id) ==
  \/ \E m \in DOMAIN classes[id].methods : classes[id].methods[m].virtual
  \/ \E b \in DOMAIN classes[id].bases : classes[id].bases[b].virt

PolyClosed ==
  phase = "done" => \A u \in Usr :
    LET above == Ancestors(cache[u]) \union {cache[u]}
    IN cache[u] # 0 /\ (\A a \in above : cache[classes[a].usr] = a)
         => (classes[cache[u]].poly <=> \E a \in above : Virtuals(a))

(* The methods of a class are those of its declaration, each once and in     *)
(* order (the order of the vtable slots), although two passes lower them,    *)
(* in every header, when all the classes they name are supported and none of *)
(* them has two ids, as a specialization that its argument names may.        *)
Unique(u) == Cardinality({id \in ClassIds : classes[id].usr = u}) <= 1

MethodsInOrder ==
  \A u \in Usr :
    /\ cache[u] # 0
    /\ \A m \in DOMAIN program.decl[u].methods :
         \A t \in Range(program.decl[u].methods[m].types) \cap Usr :
           Supported(t) /\ Unique(t)
    => LET ms == classes[cache[u]].methods
       IN \A i, j \in DOMAIN ms : i < j => ms[i].n < ms[j].n

(* A poisoned class becomes a concrete one only with its whole body.         *)
UpgradeAtomic ==
  [][\A id \in poisoned \ poisoned' : Complete(id)']_vars

(* import.rs: a self-referential type met while processing the body resolves *)
(* to the placeholder's ClassId through the USR cache.  Refuted: the class   *)
(* being upgraded is still poisoned, so the cache does not answer.           *)
NoReentry ==
  \A i, j \in DOMAIN stack :
    stack[i].stage = "body" /\ stack[j].stage = "body" /\ stack[i].usr = stack[j].usr => i = j
=============================================================================
