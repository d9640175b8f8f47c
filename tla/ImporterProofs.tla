--------------------------- MODULE ImporterProofs ---------------------------
(***************************************************************************)
(* What every run of the class importer guarantees, whatever the program:  *)
(* one ClassId per record, an upgrade that shows nothing but the whole     *)
(* class, a complete class for every record that can be imported, a right  *)
(* is_polymorphic, and the methods in the order of their declarations.     *)
(* They rest on one invariant, IInv, of the recursion (StackOK), the cache *)
(* (OneId) and the classes (Built, Registered, Imported), and the order of *)
(* the methods on a second, MInv, of what two passes have lowered so far.  *)
(***************************************************************************)
EXTENDS Importer, TLAPS, WellFoundedInduction, FiniteSetTheorems

-----------------------------------------------------------------------------
(* Types. *)

MethodDef == [n : Nat, virtual : BOOLEAN, params : Seq(Nat)]
BaseDef == [class : Nat, virt : BOOLEAN]
Class == [usr : Usr, bases : Seq(BaseDef), fields : Seq(Nat),
          methods : Seq(MethodDef), poly : BOOLEAN]
Members == [part : {"arg", "field", "base", "subst", "method"}, n : Nat,
            types : Seq(Type) \ {<< >>}, flag : BOOLEAN]
Frames == [stage : {"args", "body", "attach"}, usr : Usr, id : Nat, upgrade : Nat,
           todo : Seq(Members), got : Seq(Nat), bases : Seq(BaseDef),
           fields : Seq(Nat), methods : Seq(MethodDef)]

TypeOK ==
  /\ program \in Programs
  /\ classes \in Seq(Class)
  /\ poisoned \subseteq ClassIds
  /\ cache \in [Usr -> 0 .. Len(classes)]
  /\ tu \in DOMAIN program.tus
  /\ phase \in {"walk", "attach", "repoly", "done", "failed"}
  /\ pos \in Nat \ {0} /\ mem \in Nat \ {0}
  /\ stack \in Seq(Frames)
  /\ call \in Usr \union {NoUsr}
  /\ ret \in [kind : {"none", "ok", "err"}, id : 0 .. Len(classes)]
  /\ ret.kind # "ok" => ret.id = 0

-----------------------------------------------------------------------------
(* The cache and the classes: a cached id is a class of that record, and the *)
(* class of a record that is no specialization is the one in the cache.      *)
OneId ==
  /\ \A u \in Usr : cache[u] # 0 => classes[cache[u]].usr = u
  /\ \A id \in ClassIds :
       ~IsSpec(classes[id].usr) => cache[classes[id].usr] = id

(* The ids a class or an activation holds are those of classes.              *)
Known(fields, bases) ==
  /\ \A i \in DOMAIN fields : fields[i] <= Len(classes)
  /\ \A b \in DOMAIN bases : bases[b].class <= Len(classes)

IdsKnown == \A id \in ClassIds : Known(classes[id].fields, classes[id].bases)

(* The body so far: the fields and bases lowered are a prefix of those       *)
(* declared, and the rest is still to do.                                    *)
BodySoFar(f) ==
  LET d == program.decl[f.usr]
      F == Len(f.fields)
      B == Len(f.bases)
      nf == Len(d.fields) - F
      nb == Len(d.bases) - B
  IN /\ nf >= 0 /\ nb >= 0 /\ nf + nb <= Len(f.todo)
     /\ nf > 0 => B = 0
     /\ \A i \in 1 .. F : TypeOfId(f.fields[i]) = d.fields[i]
     /\ \A b \in 1 .. B : TypeOfId(f.bases[b].class) = d.bases[b].class
                            /\ f.bases[b].virt = d.bases[b].virt
     /\ \A i \in 1 .. nf :
          f.todo[i] = Member("field", F + i, <<d.fields[F + i]>>, FALSE)
     /\ \A b \in 1 .. nb :
          f.todo[nf + b] = Member("base", B + b, <<d.bases[B + b].class>>, d.bases[B + b].virt)
     /\ \A k \in nf + nb + 1 .. Len(f.todo) : f.todo[k].part \in {"subst", "method"}

(* An activation that has lowered its arguments has the class of its record. *)
ArgsFrame(f) ==
  /\ \A k \in DOMAIN f.todo :
       /\ f.todo[k].part = "arg"
       /\ \A i \in DOMAIN f.todo[k].types : f.todo[k].types[i] \in Deps(f.usr)
  /\ f.upgrade # 0 => f.upgrade \in ClassIds /\ classes[f.upgrade].usr = f.usr
  /\ ~IsSpec(f.usr) => f.todo = << >> /\ (f.upgrade = 0 => cache[f.usr] = 0)

BodyFrame(f) ==
  /\ f.id \in ClassIds /\ classes[f.id].usr = f.usr
  /\ f.upgrade \in {0, f.id}
  /\ BodySoFar(f)

AttachFrame(f) == \A k \in DOMAIN f.todo : f.todo[k].part = "method"

FrameOK(f) ==
  /\ Known(f.fields, f.bases)
  /\ f.todo # << >> => Len(f.got) < Len(Head(f.todo).types)
  /\ f.stage # "attach" => Defined(f.usr) /\ ~program.decl[f.usr].system
  /\ f.stage = "args" => ArgsFrame(f)
  /\ f.stage = "body" => BodyFrame(f)
  /\ f.stage = "attach" => AttachFrame(f)

(* The type an activation waits for, and an answer that fits it.             *)
Wanted(f) == Head(f.todo).types[Len(f.got) + 1]
CanImport(t) == t = Scalar \/ (t \in Usr /\ Supported(t))
Answers(r, t) ==
  /\ r.kind = "ok" => TypeOfId(r.id) = t
  /\ r.kind = "err" => ~CanImport(t)

(* An activation waits for the one above it.                                 *)
Activations ==
  /\ \A i \in DOMAIN stack : FrameOK(stack[i])
  /\ \A i \in DOMAIN stack : i > 1 =>
       /\ stack[i].stage # "attach"
       /\ stack[i - 1].todo # << >>
       /\ Wanted(stack[i - 1]) = stack[i].usr

(* A call, and a result, are those the top activation waits for.             *)
Pending ==
  /\ stack # << >> /\ call # NoUsr => Top.todo # << >> /\ Wanted(Top) = call
  /\ stack # << >> /\ ret # NoRet => Top.todo # << >> /\ Answers(ret, Wanted(Top))
  /\ call # NoUsr => ret = NoRet
  /\ phase \notin {"walk", "attach"} => Idle

StackOK == Activations /\ Pending

-----------------------------------------------------------------------------
(* What becomes of a record with a body this program can import.             *)
Good(u) == ~program.decl[u].system /\ ~program.decl[u].skip /\ Supported(u)

(* A healthy class is complete, or an activation is to complete it.          *)
InHand(id) == \E i \in DOMAIN stack : stack[i].stage = "body" /\ stack[i].id = id
Built ==
  \A u \in Usr : Good(u) /\ Healthy(cache[u]) => Complete(cache[u]) \/ InHand(cache[u])

(* The class an activation registers is the one in the cache, or will be.    *)
Registers(f) ==
  Good(f.usr) /\ f.stage # "attach" =>
    \/ Healthy(cache[f.usr])
    \/ (f.upgrade # 0 /\ cache[f.usr] = f.upgrade)
    \/ (f.stage = "args" /\ f.upgrade = 0)
Registered == \A i \in DOMAIN stack : Registers(stack[i])

(* The walk has passed the k-th cursor of header i; the last one it passed   *)
(* may still be under way.                                                   *)
Passed(i, k) == i < tu \/ (i = tu /\ (phase # "walk" \/ k < pos))
UnderWay(u) == IF stack = << >> THEN call = u ELSE stack[1].usr = u
Imported ==
  phase # "failed" =>
    \A i \in DOMAIN program.tus : \A k \in DOMAIN program.tus[i].cursors :
      LET u == program.tus[i].cursors[k]
      IN Passed(i, k) /\ Good(u) =>
           \/ Healthy(cache[u])
           \/ (i = tu /\ phase = "walk" /\ k = pos - 1 /\ UnderWay(u))

IInv == TypeOK /\ OneId /\ IdsKnown /\ StackOK /\ Built /\ Registered /\ Imported

-----------------------------------------------------------------------------
(* Lemmas on the program and the stack. *)

(* The declaration of a record has its type.                                 *)
LEMMA DeclType ==
  ASSUME TypeOK, NEW u \in Usr
  PROVE  /\ program.decl[u] \in Decl
         /\ program.decl[u].fields \in Seq(Type)
         /\ program.decl[u].args \in Seq(Type)
         /\ program.decl[u].bases \in Seq([class : Usr, virt : BOOLEAN])
         /\ program.decl[u].methods \in Seq(Method)
         /\ program.decl[u].system \in BOOLEAN /\ program.decl[u].skip \in BOOLEAN
<1>1. WellFormed(program)
  BY ProgramAssumption DEF TypeOK
<1>2. program.decl[u] \in Decl
  BY <1>1 DEF WellFormed
<1> QED BY <1>2 DEF Decl

(* A header and its cursors.                                                 *)
LEMMA HeaderType ==
  ASSUME TypeOK, NEW i \in DOMAIN program.tus
  PROVE  /\ program.tus \in Seq(Header)
         /\ program.tus[i].cursors \in Seq(Usr)
         /\ program.tus[i].defined \in SUBSET Usr
         /\ \A k \in DOMAIN program.tus[i].cursors :
              program.tus[i].cursors[k] \in program.tus[i].defined
<1>1. WellFormed(program)
  BY ProgramAssumption DEF TypeOK
<1>2. program.tus \in Seq(Header)
  BY <1>1 DEF WellFormed
<1>3. program.tus[i] \in Header
  BY <1>2
<1> QED BY <1>1, <1>2, <1>3 DEF WellFormed, Header

(* The top of the stack.                                                     *)
LEMMA TopType ==
  ASSUME TypeOK, stack # << >>
  PROVE  /\ Len(stack) \in Nat \ {0} /\ DOMAIN stack = 1 .. Len(stack)
         /\ Top = stack[Len(stack)] /\ Top \in Frames
BY DEF TypeOK, Top, Last

(* The parts of an activation.                                               *)
LEMMA FrameType ==
  ASSUME NEW f \in Frames
  PROVE  /\ f.usr \in Usr /\ f.id \in Nat /\ f.upgrade \in Nat
         /\ f.stage \in {"args", "body", "attach"}
         /\ f.todo \in Seq(Members) /\ f.got \in Seq(Nat)
         /\ f.bases \in Seq(BaseDef) /\ f.fields \in Seq(Nat)
         /\ f.methods \in Seq(MethodDef)
BY DEF Frames

(* What a record depends on, when it is supported.                           *)
LEMMA SupportedDeps ==
  ASSUME NEW u, Supported(u), NEW t \in Deps(u)
  PROVE  CanImport(t)
<1>1. PICK S \in SUBSET Usr :
        u \in S /\ \A v \in S : Deps(v) \subseteq S \union {Scalar}
  BY DEF Supported
<1>2. t \in S => Supported(t)
  BY <1>1 DEF Supported
<1> QED BY <1>1, <1>2 DEF CanImport

-----------------------------------------------------------------------------
(* A step keeps what the importer knows of a class by its id.                *)

Kept ==
  /\ program' = program /\ tu' = tu
  /\ Len(classes) <= Len(classes')
  /\ \A id \in ClassIds : classes'[id].usr = classes[id].usr

(* The class of a known id keeps its record.                                 *)
LEMMA TypeKept ==
  ASSUME TypeOK, TypeOK', Kept, NEW id \in 0 .. Len(classes)
  PROVE  TypeOfId(id)' = TypeOfId(id)
BY DEF Kept, TypeOfId, ClassIds, TypeOK

(* The ids known stay known.                                                 *)
LEMMA KnownKept ==
  ASSUME TypeOK, TypeOK', Kept, NEW fields \in Seq(Nat), NEW bases \in Seq(BaseDef),
         Known(fields, bases)
  PROVE  Known(fields, bases)'
<1>1. Len(classes) \in Nat /\ Len(classes)' \in Nat
  BY DEF TypeOK
<1>2. \A i \in DOMAIN fields : fields[i] \in Nat
  OBVIOUS
<1>3. \A b \in DOMAIN bases : bases[b].class \in Nat
  <2>1. \A b \in DOMAIN bases : bases[b] \in BaseDef
    OBVIOUS
  <2> QED BY <2>1 DEF BaseDef
<1> QED BY <1>1, <1>2, <1>3 DEF Known, Kept

(* The body lowered so far stays a part of the declaration.                  *)
LEMMA BodyKept ==
  ASSUME TypeOK, TypeOK', Kept, NEW f \in Frames, Known(f.fields, f.bases), BodySoFar(f)
  PROVE  BodySoFar(f)'
<1>1. \A i \in 1 .. Len(f.fields) : TypeOfId(f.fields[i])' = TypeOfId(f.fields[i])
  <2> TAKE i \in 1 .. Len(f.fields)
  <2>1. f.fields[i] \in 0 .. Len(classes)
    <3>1. f.fields \in Seq(Nat)
      BY FrameType
    <3>2. i \in DOMAIN f.fields /\ f.fields[i] \in Nat
      BY <3>1
    <3>3. f.fields[i] <= Len(classes)
      BY <3>2 DEF Known
    <3> QED BY <3>2, <3>3 DEF TypeOK
  <2>2. PICK n : n = f.fields[i]
    OBVIOUS
  <2>3. TypeOfId(n)' = TypeOfId(n)
    BY <2>1, <2>2, TypeKept
  <2> QED BY <2>2, <2>3
<1>2. \A b \in 1 .. Len(f.bases) : TypeOfId(f.bases[b].class)' = TypeOfId(f.bases[b].class)
  <2> TAKE b \in 1 .. Len(f.bases)
  <2>1. f.bases[b].class \in 0 .. Len(classes)
    <3>1. f.bases \in Seq(BaseDef)
      BY FrameType
    <3>2. f.bases[b] \in BaseDef
      BY <3>1
    <3>3. f.bases[b].class \in Nat
      BY <3>2 DEF BaseDef
    <3>4. b \in DOMAIN f.bases
      BY <3>1
    <3>5. f.bases[b].class <= Len(classes)
      BY <3>4 DEF Known
    <3> QED BY <3>3, <3>5 DEF TypeOK
  <2>2. PICK n : n = f.bases[b].class
    OBVIOUS
  <2>3. TypeOfId(n)' = TypeOfId(n)
    BY <2>1, <2>2, TypeKept
  <2> QED BY <2>2, <2>3
<1>3. program' = program
  BY DEF Kept
<1>4. \A i \in 1 .. Len(f.fields) : TypeOfId(f.fields[i])' = program'.decl[f.usr].fields[i]
  BY <1>1, <1>3 DEF BodySoFar
<1>5. \A b \in 1 .. Len(f.bases) :
        /\ TypeOfId(f.bases[b].class)' = program'.decl[f.usr].bases[b].class
        /\ f.bases[b].virt = program'.decl[f.usr].bases[b].virt
  BY <1>2, <1>3 DEF BodySoFar
<1> QED BY <1>3, <1>4, <1>5 DEF BodySoFar

(* An activation with work left does not depend on the cache.                *)
LEMMA FrameKept ==
  ASSUME TypeOK, TypeOK', Kept, NEW f \in Frames, FrameOK(f),
         f.todo # << >> \/ UNCHANGED cache
  PROVE  FrameOK(f)'
<1>1. program' = program /\ tu' = tu
  BY DEF Kept
<1>0. Defined(f.usr)' <=> Defined(f.usr)
  BY <1>1 DEF Defined
<1>2. Known(f.fields, f.bases)'
  BY KnownKept, FrameType DEF FrameOK
<1>3. f.stage # "attach" => (Defined(f.usr) /\ ~program.decl[f.usr].system)'
  BY <1>0, <1>1 DEF FrameOK
<1>4. ASSUME f.stage = "args" PROVE ArgsFrame(f)'
  <2>1. ArgsFrame(f)
    BY <1>4 DEF FrameOK
  <2>2. \A u : Deps(u)' = Deps(u) /\ (IsSpec(u)' <=> IsSpec(u))
    BY <1>1 DEF Deps, IsSpec
  <2>3. f.upgrade # 0 => f.upgrade \in ClassIds' /\ classes'[f.upgrade].usr = f.usr
    BY <2>1 DEF ArgsFrame, Kept, ClassIds, TypeOK
  <2>4. ~IsSpec(f.usr) => f.todo = << >> /\ (f.upgrade = 0 => cache'[f.usr] = 0)
    BY <2>1 DEF ArgsFrame
  <2> QED BY <2>1, <2>2, <2>3, <2>4 DEF ArgsFrame
<1>5. ASSUME f.stage = "body" PROVE BodyFrame(f)'
  <2>1. BodyFrame(f)
    BY <1>5 DEF FrameOK
  <2>2. BodySoFar(f)'
    BY <2>1, BodyKept DEF FrameOK, BodyFrame
  <2>3. f.id \in ClassIds' /\ classes'[f.id].usr = f.usr
    BY <2>1 DEF BodyFrame, Kept, ClassIds, TypeOK
  <2> QED BY <2>1, <2>2, <2>3 DEF BodyFrame
<1>6. f.stage = "attach" => AttachFrame(f)'
  BY DEF FrameOK, AttachFrame
<1> QED BY <1>2, <1>3, <1>4, <1>5, <1>6 DEF FrameOK

-----------------------------------------------------------------------------
(* The stack after a step: its top replaced, a call pushed, a call returned. *)

(* An activation below the top waits for the one above.                      *)
LEMMA BelowTop ==
  ASSUME TypeOK, StackOK, NEW i \in DOMAIN stack, i + 1 \in DOMAIN stack
  PROVE  stack[i] \in Frames /\ stack[i].todo # << >> /\ FrameOK(stack[i])
<1>1. stack \in Seq(Frames)
  BY DEF TypeOK
<1>2. i + 1 > 1 /\ (i + 1) - 1 = i
  BY <1>1
<1> QED BY <1>1, <1>2 DEF StackOK, Activations, Pending

(* The activation at the top goes on.                                        *)
LEMMA Replaced ==
  ASSUME TypeOK, TypeOK', StackOK, Kept, phase' = phase, stack # << >>,
         NEW g \in Frames, FrameOK(g)', stack' = SetTop(g),
         g.usr = Top.usr, Top.stage # "attach" => g.stage # "attach",
         ~Idle \/ phase = "attach",
         call' = NoUsr, ret' = NoRet
  PROVE  StackOK'
<1> DEFINE n == Len(stack)
<1>1. /\ stack \in Seq(Frames) /\ n \in Nat \ {0} /\ DOMAIN stack = 1 .. n
      /\ stack' \in Seq(Frames) /\ Len(stack') = n /\ DOMAIN stack' = 1 .. n
      /\ stack'[n] = g /\ \A i \in 1 .. n : i < n => stack'[i] = stack[i]
      /\ Top = stack[n]
  BY TopType DEF SetTop, TypeOK
<1> HIDE DEF n
<1>2. \A i \in DOMAIN stack' : FrameOK(stack[i])'
  <2> TAKE i \in DOMAIN stack'
  <2>1. CASE i = n
    BY <2>1, <1>1
  <2>2. CASE i < n
    <3>1. PICK f : f = stack[i]
      OBVIOUS
    <3>2. f \in Frames /\ f.todo # << >> /\ FrameOK(f)
      BY <3>1, <2>2, <1>1, BelowTop
    <3>3. FrameOK(f)'
      BY <3>2, FrameKept
    <3> QED BY <3>1, <3>3, <2>2, <1>1
  <2> QED BY <2>1, <2>2, <1>1
<1>3. \A i \in DOMAIN stack' : i > 1 =>
        /\ stack'[i].stage # "attach"
        /\ stack'[i - 1].todo # << >>
        /\ Wanted(stack'[i - 1]) = stack'[i].usr
  <2> SUFFICES ASSUME NEW i \in 1 .. n, i > 1
               PROVE  /\ stack'[i].stage # "attach"
                      /\ stack'[i - 1].todo # << >>
                      /\ Wanted(stack'[i - 1]) = stack'[i].usr
    BY <1>1
  <2>1. /\ stack[i].stage # "attach"
        /\ stack[i - 1].todo # << >>
        /\ Wanted(stack[i - 1]) = stack[i].usr
    BY <1>1 DEF StackOK, Activations, Pending
  <2>2. stack'[i - 1] = stack[i - 1]
    BY <1>1
  <2>3. stack'[i].usr = stack[i].usr /\ stack'[i].stage # "attach"
    BY <1>1, <2>1
  <2> QED BY <2>1, <2>2, <2>3
<1>4. phase' \in {"walk", "attach"}
  BY DEF StackOK, Activations, Pending
<1> QED BY <1>1, <1>2, <1>3, <1>4 DEF StackOK, Activations, Pending, Wanted

(* One more activation, of the record called for.                            *)
LEMMA Pushed ==
  ASSUME TypeOK, TypeOK', StackOK, Kept, phase' = phase,
         NEW g \in Frames, FrameOK(g)', stack' = Append(stack, g),
         call # NoUsr, g.usr = call, g.stage # "attach",
         call' = NoUsr, ret' = NoRet
  PROVE  StackOK'
<1> DEFINE n == Len(stack)
<1>1. /\ stack \in Seq(Frames) /\ n \in Nat /\ DOMAIN stack = 1 .. n
      /\ stack' \in Seq(Frames) /\ Len(stack') = n + 1 /\ DOMAIN stack' = 1 .. n + 1
      /\ stack'[n + 1] = g /\ \A i \in 1 .. n : stack'[i] = stack[i]
  BY DEF TypeOK
<1>2. n > 0 => Top = stack[n] /\ stack # << >>
  BY <1>1 DEF Top, Last
<1> HIDE DEF n
<1>3. ASSUME NEW i \in 1 .. n
      PROVE  stack[i] \in Frames /\ stack[i].todo # << >> /\ FrameOK(stack[i])
  <2>1. CASE i = n
    BY <2>1, <1>1, <1>2 DEF StackOK, Activations, Pending
  <2>2. CASE i < n
    BY <2>2, <1>1, BelowTop
  <2> QED BY <2>1, <2>2, <1>1
<1>4. \A i \in DOMAIN stack' : FrameOK(stack[i])'
  <2> TAKE i \in DOMAIN stack'
  <2>1. CASE i = n + 1
    BY <2>1, <1>1
  <2>2. CASE i \in 1 .. n
    <3>1. PICK f : f = stack[i]
      OBVIOUS
    <3>2. FrameOK(f)'
      BY <3>1, <2>2, <1>3, FrameKept
    <3> QED BY <3>1, <3>2, <2>2, <1>1
  <2> QED BY <2>1, <2>2, <1>1
<1>5. \A i \in DOMAIN stack' : i > 1 =>
        /\ stack'[i].stage # "attach"
        /\ stack'[i - 1].todo # << >>
        /\ Wanted(stack'[i - 1]) = stack'[i].usr
  <2> SUFFICES ASSUME NEW i \in 1 .. n + 1, i > 1
               PROVE  /\ stack'[i].stage # "attach"
                      /\ stack'[i - 1].todo # << >>
                      /\ Wanted(stack'[i - 1]) = stack'[i].usr
    BY <1>1
  <2>1. CASE i = n + 1
    <3>1. n > 0 /\ i - 1 = n /\ n \in 1 .. n
      BY <2>1, <1>1
    <3>2. Wanted(stack[n]) = call
      BY <3>1, <1>2 DEF StackOK, Activations, Pending
    <3> QED BY <3>1, <3>2, <2>1, <1>1, <1>3
  <2>2. CASE i \in 1 .. n
    BY <2>2, <1>1 DEF StackOK, Activations, Pending
  <2> QED BY <2>1, <2>2, <1>1
<1>6. phase' \in {"walk", "attach"}
  BY DEF StackOK, Activations, Pending, Idle, TypeOK
<1> QED BY <1>1, <1>4, <1>5, <1>6 DEF StackOK, Activations, Pending, Wanted

(* The activation at the top returns.                                        *)
LEMMA Popped ==
  ASSUME TypeOK, TypeOK', StackOK, Kept, phase' = phase, stack # << >>,
         Top.stage # "attach", stack' = Front(stack),
         NEW u, u = Top.usr, Answers(ret, u)', call' = NoUsr
  PROVE  StackOK'
<1> DEFINE n == Len(stack)
<1>1. /\ stack \in Seq(Frames) /\ n \in Nat \ {0} /\ DOMAIN stack = 1 .. n
      /\ stack' \in Seq(Frames) /\ Len(stack') = n - 1 /\ DOMAIN stack' = 1 .. n - 1
      /\ \A i \in 1 .. n - 1 : stack'[i] = stack[i]
      /\ Top = stack[n]
  <2>1. stack \in Seq(Frames) /\ stack' \in Seq(Frames)
    BY DEF TypeOK
  <2>2. n \in Nat \ {0} /\ DOMAIN stack = 1 .. n /\ Top = stack[n]
    BY <2>1 DEF Top, Last
  <2>3. stack' = SubSeq(stack, 1, n - 1)
    BY DEF Front
  <2>4. Len(stack') = n - 1 /\ \A i \in 1 .. n - 1 : stack'[i] = stack[i]
    BY <2>1, <2>2, <2>3
  <2> QED BY <2>1, <2>2, <2>4
<1>2. stack' # << >> => n > 1 /\ Top' = stack[n - 1]
  BY <1>1 DEF Top, Last
<1> HIDE DEF n
<1>3. \A i \in DOMAIN stack' : FrameOK(stack[i])'
  <2> TAKE i \in DOMAIN stack'
  <2>1. PICK f : f = stack[i]
    OBVIOUS
  <2>2. f \in Frames /\ f.todo # << >> /\ FrameOK(f)
    BY <2>1, <1>1, BelowTop
  <2>3. FrameOK(f)'
    BY <2>2, FrameKept
  <2> QED BY <2>1, <2>3, <1>1
<1>4. \A i \in DOMAIN stack' : i > 1 =>
        /\ stack'[i].stage # "attach"
        /\ stack'[i - 1].todo # << >>
        /\ Wanted(stack'[i - 1]) = stack'[i].usr
  <2> SUFFICES ASSUME NEW i \in 1 .. n - 1, i > 1
               PROVE  /\ stack[i].stage # "attach"
                      /\ stack[i - 1].todo # << >>
                      /\ Wanted(stack[i - 1]) = stack[i].usr
    BY <1>1
  <2>1. i \in DOMAIN stack
    BY <1>1
  <2> QED BY <2>1 DEF StackOK, Activations, Pending
<1>5. stack' # << >> => Top'.todo # << >> /\ Wanted(Top') = u
  <2> SUFFICES ASSUME stack' # << >> PROVE stack[n - 1].todo # << >> /\ Wanted(stack[n - 1]) = u
    BY <1>2
  <2>1. n > 1 /\ n \in DOMAIN stack
    BY <1>1, <1>2
  <2> QED BY <2>1, <1>1 DEF StackOK, Activations, Pending
<1>6. phase' \in {"walk", "attach"}
  BY DEF StackOK, Activations, Pending, Idle, TypeOK
<1>7. stack' # << >> => Top'.todo # << >> /\ Answers(ret, Wanted(Top))'
  BY <1>5 DEF Answers, Wanted
<1> QED BY <1>1, <1>3, <1>4, <1>6, <1>7 DEF StackOK, Activations, Pending, Wanted

(* The stack, when no class is taken away.                                   *)
LEMMA StackStays ==
  ASSUME TypeOK, TypeOK', Activations, Kept, UNCHANGED <<stack, cache>>
  PROVE  Activations'
<1>1. stack \in Seq(Frames)
  BY DEF TypeOK
<1>2. \A i \in DOMAIN stack' : FrameOK(stack[i])'
  <2> TAKE i \in DOMAIN stack'
  <2>1. PICK f : f = stack[i]
    OBVIOUS
  <2>2. f \in Frames /\ FrameOK(f)
    BY <2>1, <1>1 DEF Activations
  <2>3. FrameOK(f)'
    BY <2>2, FrameKept
  <2> QED BY <2>1, <2>3
<1> QED BY <1>2 DEF Activations, Wanted

-----------------------------------------------------------------------------
(* Steps that leave the classes and the cache alone. *)

(* The classes stay as they are.                                             *)
LEMMA CtxSame ==
  ASSUME TypeOK, UNCHANGED <<program, ctxVars, tu>>
  PROVE  /\ Kept
         /\ OneId => OneId'
         /\ IdsKnown => IdsKnown'
         /\ \A u \in Usr : (Good(u) <=> Good(u)') /\ (Healthy(cache[u]) <=> Healthy(cache[u])')
         /\ \A u \in Usr : Complete(cache[u]) <=> Complete(cache[u])'
<1>1. program' = program /\ classes' = classes /\ poisoned' = poisoned /\ cache' = cache
      /\ tu' = tu
  BY DEF ctxVars
<1>2. Kept
  BY <1>1 DEF Kept, TypeOK
<1>3. OneId => OneId'
  BY <1>1 DEF OneId, ClassIds, IsSpec
<1>4. IdsKnown => IdsKnown'
  BY <1>1 DEF IdsKnown, Known, ClassIds
<1>5. \A u \in Usr : Healthy(cache[u]) <=> Healthy(cache[u])'
  BY <1>1 DEF Healthy
<1>6. \A u : Good(u) <=> Good(u)'
  BY <1>1 DEF Good, Supported, Deps
<1>7. \A u \in Usr : Complete(cache[u]) <=> Complete(cache[u])'
  BY <1>1 DEF Complete, TypeOfId
<1> QED BY <1>2, <1>3, <1>4, <1>5, <1>6, <1>7

(* So do the activations that complete them.                                 *)
LEMMA SameBuilt ==
  ASSUME TypeOK, UNCHANGED <<program, ctxVars, tu, stack>>, Built, Registered
  PROVE  Built' /\ Registered'
<1>1. stack' = stack /\ cache' = cache
  BY DEF ctxVars
<1>2. Built'
  BY <1>1, CtxSame DEF Built, InHand
<1>3. \A f \in Frames : Registers(f) => Registers(f)'
  BY <1>1, CtxSame, FrameType DEF Registers
<1>4. stack \in Seq(Frames)
  BY DEF TypeOK
<1>5. ASSUME NEW i \in DOMAIN stack' PROVE Registers(stack[i])'
  <2>1. PICK f : f = stack[i]
    OBVIOUS
  <2>2. f \in Frames /\ Registers(f)
    BY <2>1, <1>1, <1>4 DEF Registered
  <2> QED BY <2>1, <2>2, <1>1, <1>3
<1> QED BY <1>2, <1>5 DEF Registered

(* The walk stands, and what was under way still is or is imported.          *)
LEMMA ImportedKept ==
  ASSUME TypeOK, Imported, UNCHANGED <<program, cursor>>,
         \A u \in Usr : Good(u) /\ Healthy(cache[u]) => Healthy(cache[u])',
         \A u \in Usr : Good(u) /\ Defined(u) /\ UnderWay(u) => Healthy(cache[u])' \/ UnderWay(u)'
  PROVE  Imported'
<1>1. program' = program /\ tu' = tu /\ phase' = phase /\ pos' = pos
  BY DEF cursor
<1>2. \A u : Good(u)' <=> Good(u)
  BY <1>1 DEF Good, Supported, Deps
<1>3. \A i, k : Passed(i, k)' <=> Passed(i, k)
  BY <1>1 DEF Passed
<1> SUFFICES ASSUME phase # "failed", NEW i \in DOMAIN program.tus,
                    NEW k \in DOMAIN program.tus[i].cursors, NEW u,
                    u = program.tus[i].cursors[k], Passed(i, k), Good(u)
             PROVE  \/ Healthy(cache[u])'
                    \/ (i = tu /\ phase = "walk" /\ k = pos - 1 /\ UnderWay(u)')
  BY <1>1, <1>2, <1>3 DEF Imported
<1>4. u \in Usr
  BY HeaderType
<1>5. Healthy(cache[u]) \/ (i = tu /\ phase = "walk" /\ k = pos - 1 /\ UnderWay(u))
  BY DEF Imported
<1>6. i = tu => Defined(u)
  BY HeaderType DEF Defined
<1> QED BY <1>4, <1>5, <1>6

-----------------------------------------------------------------------------
(* The walk between two calls. *)

(* The types, when only the machine moves.                                   *)
LEMMA TypeSame ==
  ASSUME TypeOK, UNCHANGED <<program, ctxVars, tu>>,
         phase' \in {"walk", "attach", "repoly", "done", "failed"},
         pos' \in Nat \ {0}, mem' \in Nat \ {0},
         stack' \in Seq(Frames), call' \in Usr \union {NoUsr},
         ret' \in [kind : {"none", "ok", "err"}, id : 0 .. Len(classes)],
         ret'.kind # "ok" => ret'.id = 0
  PROVE  TypeOK'
BY DEF TypeOK, ctxVars, ClassIds

(* The results of a call are told apart.                                     *)
LEMMA NoResult ==
  ASSUME TypeOK
  PROVE  /\ NoUsr \notin Usr
         /\ NoRet \in [kind : {"none", "ok", "err"}, id : 0 .. Len(classes)]
         /\ Err \in [kind : {"none", "ok", "err"}, id : 0 .. Len(classes)]
         /\ NoRet.kind = "none" /\ NoRet.id = 0 /\ Err.kind = "err" /\ Err.id = 0
         /\ Err # NoRet
         /\ \A n : Ok(n) # NoRet /\ Ok(n) # Err /\ Ok(n).kind = "ok" /\ Ok(n).id = n
         /\ \A n \in 0 .. Len(classes) :
              Ok(n) \in [kind : {"none", "ok", "err"}, id : 0 .. Len(classes)]
<1>1. Len(classes) \in Nat
  BY DEF TypeOK
<1>2. NoUsr \notin Usr
  BY NamesAssumption DEF Type
<1> QED BY <1>1, <1>2 DEF NoRet, Err, Ok

(* The walk calls for a record, or passes a system header by.                *)
LEMMA WalkRecordKeeps == ASSUME IInv, WalkRecord PROVE IInv'
<1> USE DEF IInv
<1>1. /\ Idle /\ phase = "walk" /\ pos <= Len(Records) /\ pos' = pos + 1
      /\ call' = IF program.decl[Records[pos]].system THEN NoUsr ELSE Records[pos]
      /\ UNCHANGED <<program, ctxVars, tu, phase, mem, stack, ret>>
  BY DEF WalkRecord
<1>2. Records \in Seq(Usr) /\ pos \in Nat \ {0} /\ pos \in DOMAIN Records
  BY <1>1, HeaderType DEF Records, TypeOK
<1>3. Records[pos] \in Usr
  BY <1>2
<1>4. TypeOK'
  BY <1>1, <1>2, <1>3, TypeSame DEF TypeOK
<1>5. Kept /\ OneId' /\ IdsKnown' /\ Built' /\ Registered'
  BY <1>1, CtxSame, SameBuilt
<1>6. StackOK'
  <2>1. Activations'
    BY <1>1, <1>4, <1>5, StackStays DEF StackOK, ctxVars
  <2>2. Pending'
    BY <1>1 DEF Pending, Idle
  <2> QED BY <2>1, <2>2 DEF StackOK
<1>7. Imported'
  <2>1. /\ program' = program /\ tu' = tu /\ phase' = phase /\ pos' = pos + 1
        /\ cache' = cache /\ poisoned' = poisoned
    BY <1>1 DEF ctxVars
  <2>2. \A u : Good(u)' <=> Good(u)
    BY <2>1 DEF Good, Supported, Deps
  <2> SUFFICES ASSUME NEW i \in DOMAIN program.tus,
                      NEW k \in DOMAIN program.tus[i].cursors, NEW u,
                      u = program.tus[i].cursors[k], Passed(i, k)', Good(u)
               PROVE  \/ Healthy(cache[u])'
                      \/ (i = tu /\ k = pos /\ UnderWay(u)')
    BY <1>1, <1>2, <2>1, <2>2 DEF Imported
  <2>3. u \in Usr
    BY HeaderType
  <2>4. Healthy(cache[u])' <=> Healthy(cache[u])
    BY <2>1 DEF Healthy
  <2>5. CASE i = tu /\ k = pos
    <3>1. u = Records[pos] /\ ~program.decl[u].system
      BY <2>5 DEF Records, Good
    <3>2. call' = u /\ stack' = << >>
      BY <3>1, <1>1 DEF Idle
    <3> QED BY <2>5, <3>2 DEF UnderWay
  <2>6. CASE ~(i = tu /\ k = pos)
    <3>1. Passed(i, k)
      <4>1. k \in Nat /\ i \in Nat /\ tu \in Nat
        <5>1. program.tus \in Seq(Header) /\ program.tus[i].cursors \in Seq(Usr)
          BY HeaderType
        <5>2. tu \in DOMAIN program.tus
          BY DEF TypeOK
        <5> QED BY <5>1, <5>2
      <4> QED BY <2>6, <2>1, <1>1, <1>2, <4>1 DEF Passed
    <3>2. ~UnderWay(u)
      BY <1>1, <2>3, NoResult DEF UnderWay, Idle
    <3> QED BY <3>1, <3>2, <2>4, <1>1 DEF Imported
  <2> QED BY <2>5, <2>6
<1> QED BY <1>4, <1>5, <1>6, <1>7

(* The walk has its answer.                                                  *)
LEMMA WalkReturnKeeps == ASSUME IInv, WalkReturn PROVE IInv'
<1> USE DEF IInv
<1>1. /\ phase = "walk" /\ stack = << >> /\ ret # NoRet /\ ret' = NoRet
      /\ phase' = IF ret = Err THEN "failed" ELSE "walk"
      /\ UNCHANGED <<program, ctxVars, tu, pos, mem, stack, call>>
  BY DEF WalkReturn
<1>2. TypeOK'
  BY <1>1, NoResult, TypeSame DEF TypeOK
<1>3. Kept /\ OneId' /\ IdsKnown' /\ Built' /\ Registered'
  BY <1>1, CtxSame, SameBuilt
<1>4. call = NoUsr
  BY <1>1 DEF StackOK, Pending
<1>5. StackOK'
  <2>1. Activations'
    BY <1>1, <1>2, <1>3, StackStays DEF StackOK, ctxVars
  <2>2. Pending'
    BY <1>1, <1>4 DEF Pending, Idle
  <2> QED BY <2>1, <2>2 DEF StackOK
<1>6. Imported'
  <2>1. CASE ret = Err
    BY <1>1, <2>1 DEF Imported
  <2>2. CASE ret # Err
    <3>1. UNCHANGED <<program, cursor>>
      BY <1>1, <2>2 DEF cursor
    <3>2. \A u \in Usr : ~UnderWay(u)
      BY <1>1, <1>4, NoResult DEF UnderWay
    <3> QED BY <3>1, <3>2, <1>1, CtxSame, ImportedKept
  <2> QED BY <2>1, <2>2
<1> QED BY <1>2, <1>3, <1>5, <1>6

(* The walk or the second pass ends, or the second pass moves on.            *)
LEMMA IdleKeeps ==
  ASSUME IInv, Idle, phase # "failed", UNCHANGED <<program, ctxVars, machine, tu>>,
         phase' \in {"walk", "attach", "repoly", "done"}, phase' = "walk" => phase = "walk",
         phase = "walk" => phase' # "walk" /\ pos > Len(Records),
         pos' \in Nat \ {0}, mem' \in Nat \ {0}
  PROVE  IInv'
<1> USE DEF IInv
<1>1. stack' = stack /\ call' = call /\ ret' = ret
  BY DEF machine
<1>2. TypeOK'
  BY <1>1, TypeSame DEF TypeOK
<1>3. Kept /\ OneId' /\ IdsKnown' /\ Built' /\ Registered'
  BY <1>1, CtxSame, SameBuilt
<1>4. StackOK'
  <2>1. Activations'
    BY <1>1, <1>2, <1>3, StackStays DEF StackOK, ctxVars
  <2>2. Pending'
    BY <1>1 DEF Pending, Idle
  <2> QED BY <2>1, <2>2 DEF StackOK
<1>5. Imported'
  <2>1. program' = program /\ tu' = tu /\ cache' = cache /\ poisoned' = poisoned
    BY DEF ctxVars
  <2>2. \A u : Good(u)' <=> Good(u)
    BY <2>1 DEF Good, Supported, Deps
  <2> SUFFICES ASSUME NEW i \in DOMAIN program.tus,
                      NEW k \in DOMAIN program.tus[i].cursors, NEW u,
                      u = program.tus[i].cursors[k], Passed(i, k)', Good(u)
               PROVE  Healthy(cache[u])'
    BY <2>1, <2>2 DEF Imported
  <2>3. u \in Usr
    BY HeaderType
  <2>4. Healthy(cache[u])' <=> Healthy(cache[u])
    BY <2>1 DEF Healthy
  <2>5. ~UnderWay(u)
    BY <2>3, NoResult DEF UnderWay, Idle
  <2>6. Passed(i, k)
    <3>1. i = tu => k <= Len(Records) /\ k \in Nat
      BY HeaderType DEF Records
    <3> QED BY <2>1, <3>1 DEF Passed, TypeOK
  <2> QED BY <2>4, <2>5, <2>6 DEF Imported
<1> QED BY <1>2, <1>3, <1>4, <1>5

(* The passes move on.                                                       *)
LEMMA BetweenKeeps ==
  ASSUME IInv, WalkDone \/ NextRecord \/ SkipMethod \/ AttachDone
  PROVE  IInv'
<1> USE DEF IInv
<1>1. pos \in Nat \ {0} /\ mem \in Nat \ {0}
  BY DEF TypeOK
<1>2. CASE WalkDone
  BY <1>1, <1>2, IdleKeeps DEF WalkDone
<1>3. CASE NextRecord
  BY <1>1, <1>3, IdleKeeps DEF NextRecord, AtRecord
<1>4. CASE SkipMethod
  BY <1>1, <1>4, IdleKeeps DEF SkipMethod, AtRecord
<1>5. CASE AttachDone
  BY <1>1, <1>5, IdleKeeps DEF AttachDone
<1> QED BY <1>2, <1>3, <1>4, <1>5

(* The next header, or the end.                                              *)
LEMMA HeaderDoneKeeps == ASSUME IInv, HeaderDone PROVE IInv'
<1> USE DEF IInv
<1>1. phase = "repoly" /\ UNCHANGED <<program, ctxVars, machine>>
  BY DEF HeaderDone
<1>2. Idle
  BY <1>1 DEF StackOK, Pending
<1>3. CASE tu >= Len(program.tus)
  <2>1. phase' = "done" /\ UNCHANGED <<tu, pos, mem>>
    BY <1>3, HeaderType DEF HeaderDone, TypeOK
  <2> QED BY <1>1, <1>2, <2>1, IdleKeeps DEF TypeOK
<1>4. CASE tu < Len(program.tus)
  <2>1. tu' = tu + 1 /\ phase' = "walk" /\ pos' = 1 /\ mem' = 1
    BY <1>4 DEF HeaderDone
  <2>2. program.tus \in Seq(Header) /\ tu \in Nat /\ tu' \in DOMAIN program.tus
    BY <1>4, <2>1, HeaderType DEF TypeOK
  <2>3. /\ program' = program /\ classes' = classes /\ poisoned' = poisoned
        /\ cache' = cache /\ stack' = << >> /\ call' = NoUsr /\ ret' = NoRet
    BY <1>1, <1>2 DEF ctxVars, machine, Idle
  <2>4. TypeOK'
    BY <2>1, <2>2, <2>3, <1>2 DEF TypeOK, Idle, ClassIds
  <2>5. OneId' /\ IdsKnown'
    BY <2>3 DEF OneId, IdsKnown, Known, ClassIds, IsSpec
  <2>6. \A u : Good(u)' <=> Good(u)
    BY <2>3 DEF Good, Supported, Deps
  <2>7. Built'
    BY <2>3, <2>6, <1>2 DEF Built, InHand, Complete, TypeOfId, Healthy, Idle
  <2>8. Registered'
    BY <2>3 DEF Registered
  <2>9. StackOK'
    BY <2>1, <2>3 DEF StackOK, Activations, Pending
  <2>10. Imported'
    <3> SUFFICES ASSUME NEW i \in DOMAIN program.tus,
                        NEW k \in DOMAIN program.tus[i].cursors, NEW u,
                        u = program.tus[i].cursors[k], Passed(i, k)', Good(u)
                 PROVE  Healthy(cache[u])'
      BY <2>3, <2>6 DEF Imported
    <3>1. u \in Usr
      BY HeaderType
    <3>2. Passed(i, k)
      BY <2>1, <2>2, <1>1, HeaderType DEF Passed
    <3>3. Healthy(cache[u])
      BY <3>2, <1>1 DEF Imported
    <3> QED BY <3>3, <2>3 DEF Healthy
  <2> QED BY <2>4, <2>5, <2>7, <2>8, <2>9, <2>10
<1> QED BY <1>3, <1>4, HeaderType DEF TypeOK

-----------------------------------------------------------------------------
(* A question or an answer, the activations as they were. *)

(* The type an activation waits for.                                         *)
LEMMA WantedType ==
  ASSUME NEW f \in Frames, FrameOK(f), f.todo # << >>
  PROVE  /\ Head(f.todo) \in Members /\ Head(f.todo) = f.todo[1]
         /\ Head(f.todo).types \in Seq(Type)
         /\ Len(f.got) + 1 \in DOMAIN Head(f.todo).types
         /\ Wanted(f) \in Type
<1>1. f.todo \in Seq(Members) /\ f.got \in Seq(Nat)
  BY FrameType
<1>2. Head(f.todo) \in Members /\ Head(f.todo) = f.todo[1]
  BY <1>1
<1>3. Head(f.todo).types \in Seq(Type)
  BY <1>2 DEF Members
<1>4. Len(f.got) + 1 \in DOMAIN Head(f.todo).types
  BY <1>1, <1>3 DEF FrameOK
<1> QED BY <1>2, <1>3, <1>4 DEF Wanted

(* That is the type at hand.                                                 *)
LEMMA TopWants ==
  ASSUME TypeOK, StackOK, stack # << >>, Top.todo # << >>
  PROVE  Top \in Frames /\ FrameOK(Top) /\ Wanted(Top) \in Type /\ ThisType = Wanted(Top)
<1>1. Top \in Frames /\ FrameOK(Top)
  BY TopType DEF StackOK, Activations
<1>2. PICK f : f = Top
  OBVIOUS
<1>3. Wanted(f) \in Type
  BY <1>1, <1>2, WantedType
<1> QED BY <1>1, <1>2, <1>3 DEF ThisType, Wanted

(* A call or an answer for the type at hand.                                 *)
LEMMA AskKeeps ==
  ASSUME IInv, UNCHANGED <<program, ctxVars, cursor, stack>>, TypeOK', Pending',
         \A u \in Usr : Good(u) /\ Defined(u) /\ UnderWay(u) =>
           Healthy(cache[u]) \/ UnderWay(u)'
  PROVE  IInv'
<1> USE DEF IInv
<1>1. UNCHANGED <<program, ctxVars, tu, stack>> /\ UNCHANGED <<program, ctxVars, tu>>
      /\ UNCHANGED <<program, cursor>> /\ UNCHANGED <<stack, cache>>
  BY DEF cursor, ctxVars
<1>2. Kept /\ OneId' /\ IdsKnown' /\ Built' /\ Registered'
  BY <1>1, CtxSame, SameBuilt
<1>3. Activations'
  BY <1>1, <1>2, StackStays DEF StackOK
<1>4. Imported'
  BY <1>1, CtxSame, ImportedKept
<1> QED BY <1>2, <1>3, <1>4 DEF StackOK

(* A record is called for.                                                   *)
LEMMA ImportRecordKeeps == ASSUME IInv, ImportRecord PROVE IInv'
<1> USE DEF IInv
<1>1. /\ stack # << >> /\ call = NoUsr /\ ret = NoRet /\ Top.todo # << >>
      /\ ThisType \in Usr /\ call' = ThisType
      /\ UNCHANGED <<program, ctxVars, cursor, stack, ret>>
      /\ UNCHANGED <<program, ctxVars, tu>> /\ phase' = phase /\ pos' = pos /\ mem' = mem
  BY DEF ImportRecord, AtType, AtMember, cursor
<1>2. TypeOK'
  BY <1>1, TypeSame DEF TypeOK
<1>3. phase \in {"walk", "attach"}
  BY <1>1 DEF StackOK, Pending, Idle
<1>4. ThisType = Wanted(Top)
  BY DEF ThisType, Wanted
<1>5. Pending'
  BY <1>1, <1>3, <1>4 DEF Pending, Wanted, Top
<1>6. \A u : UnderWay(u) => UnderWay(u)'
  BY <1>1 DEF UnderWay
<1> QED BY <1>1, <1>2, <1>5, <1>6, AskKeeps

(* A scalar is answered, what import_type rejects is an error.               *)
LEMMA ImportLeafKeeps == ASSUME IInv, ImportLeaf PROVE IInv'
<1> USE DEF IInv
<1>1. /\ stack # << >> /\ call = NoUsr /\ ret = NoRet /\ Top.todo # << >>
      /\ ThisType \notin Usr /\ ret' = IF ThisType = Scalar THEN Ok(0) ELSE Err
      /\ UNCHANGED <<program, ctxVars, cursor, stack, call>>
      /\ UNCHANGED <<program, ctxVars, tu>> /\ phase' = phase /\ pos' = pos /\ mem' = mem
  BY DEF ImportLeaf, AtType, AtMember, cursor
<1>2. 0 \in 0 .. Len(classes)
  BY DEF TypeOK
<1>3. TypeOK'
  BY <1>1, <1>2, TypeSame, NoResult DEF TypeOK
<1>4. phase \in {"walk", "attach"}
  BY <1>1 DEF StackOK, Pending, Idle
<1>5. ThisType = Wanted(Top) /\ ThisType \in {Scalar, Unsupported}
  BY <1>1, TopWants DEF Type
<1>6. Answers(ret', Wanted(Top))
  BY <1>1, <1>5, NoResult, NamesAssumption DEF Answers, TypeOfId, CanImport
<1>7. Top'.todo # << >> /\ Answers(ret, Wanted(Top))'
  BY <1>1, <1>6 DEF Answers, TypeOfId, CanImport, Wanted, Top, ctxVars, Supported, Deps
<1>8. Pending'
  BY <1>1, <1>4, <1>7 DEF Pending
<1>9. \A u : UnderWay(u) => UnderWay(u)'
  BY <1>1 DEF UnderWay
<1> QED BY <1>1, <1>3, <1>8, <1>9, AskKeeps

(* The answer is a class the cache had.                                      *)
LEMMA CachedKeeps ==
  ASSUME IInv, call # NoUsr, cache[call] # 0, ret' = Ok(cache[call]), call' = NoUsr,
         UNCHANGED <<program, ctxVars, cursor, stack>>,
         Good(call) /\ Defined(call) => Healthy(cache[call])
  PROVE  IInv'
<1> USE DEF IInv
<1>1. /\ UNCHANGED <<program, ctxVars, tu>> /\ stack' = stack /\ classes' = classes
      /\ phase' = phase /\ pos' = pos /\ mem' = mem
  BY DEF cursor, ctxVars
<1>2. call \in Usr /\ cache[call] \in 0 .. Len(classes)
  BY DEF TypeOK
<1>3. TypeOK'
  BY <1>1, <1>2, TypeSame, NoResult DEF TypeOK
<1>4. phase \in {"walk", "attach"}
  BY <1>1 DEF StackOK, Pending, Idle, TypeOK
<1>5. stack # << >> => Top'.todo # << >> /\ Wanted(Top') = call
  BY <1>1 DEF StackOK, Pending, Top
<1>6. classes[cache[call]].usr = call
  BY <1>2 DEF OneId
<1>7. stack # << >> => Answers(ret, Wanted(Top))'
  BY <1>1, <1>5, <1>6, NoResult DEF Answers, TypeOfId, Wanted
<1>8. Pending'
  BY <1>1, <1>4, <1>5, <1>7 DEF Pending
<1>9. \A u \in Usr : Good(u) /\ Defined(u) /\ UnderWay(u) => Healthy(cache[u]) \/ UnderWay(u)'
  BY <1>1 DEF UnderWay
<1> QED BY <1>3, <1>8, <1>9, AskKeeps

(* import_class finds a healthy class.                                       *)
LEMMA ReturnCachedKeeps == ASSUME IInv, ReturnCached PROVE IInv'
BY CachedKeeps DEF ReturnCached, Healthy

-----------------------------------------------------------------------------
(* A call begins. *)

(* The template arguments as members.                                        *)
LEMMA ArgsMembers ==
  ASSUME TypeOK, NEW u \in Usr, NEW part \in {"arg", "subst"}
  PROVE  /\ Args(u, part) \in Seq(Members)
         /\ Len(Args(u, part)) = Len(program.decl[u].args)
         /\ \A k \in DOMAIN Args(u, part) :
              /\ Args(u, part)[k].part = part
              /\ \A i \in DOMAIN Args(u, part)[k].types :
                   Args(u, part)[k].types[i] \in Deps(u)
<1>1. PICK a : a = program.decl[u].args
  OBVIOUS
<1>2. a \in Seq(Type)
  BY <1>1, DeclType
<1>3. Args(u, part) = [i \in 1 .. Len(a) |-> Member(part, i, <<a[i]>>, FALSE)]
  BY <1>1, <1>2 DEF Args
<1>4. ASSUME NEW i \in 1 .. Len(a)
      PROVE  /\ Member(part, i, <<a[i]>>, FALSE) \in Members
             /\ Member(part, i, <<a[i]>>, FALSE).part = part
             /\ \A j \in DOMAIN Member(part, i, <<a[i]>>, FALSE).types :
                  Member(part, i, <<a[i]>>, FALSE).types[j] \in Deps(u)
  <2>1. a[i] \in Type
    BY <1>2
  <2>2. a[i] \in Range(program.decl[u].args)
    BY <1>1, <1>2 DEF Range
  <2>3. a[i] \in Deps(u)
    BY <2>2 DEF Deps
  <2>4. <<a[i]>> \in Seq(Type) \ {<< >>} /\ DOMAIN <<a[i]>> = {1} /\ <<a[i]>>[1] = a[i]
    BY <2>1
  <2> QED BY <2>3, <2>4, <1>2 DEF Member, Members
<1>5. Args(u, part) \in Seq(Members) /\ DOMAIN Args(u, part) = 1 .. Len(a)
  <2>1. PICK s : s = Args(u, part)
    OBVIOUS
  <2>2. PICK n \in Nat : n = Len(a)
    BY <1>2
  <2>3. s \in [1 .. n -> Members]
    BY <2>1, <2>2, <1>3, <1>4
  <2>4. s \in Seq(Members) /\ DOMAIN s = 1 .. n
    BY <2>3
  <2> QED BY <2>1, <2>2, <2>4
<1>6. Len(Args(u, part)) = Len(program.decl[u].args)
  BY <1>1, <1>2, <1>5
<1>7. ASSUME NEW k \in DOMAIN Args(u, part)
      PROVE  Args(u, part)[k] = Member(part, k, <<a[k]>>, FALSE)
  BY <1>3, <1>5
<1>8. ASSUME NEW k \in DOMAIN Args(u, part)
      PROVE  /\ Args(u, part)[k].part = part
             /\ \A i \in DOMAIN Args(u, part)[k].types :
                  Args(u, part)[k].types[i] \in Deps(u)
  BY <1>4, <1>5, <1>7
<1> QED BY <1>5, <1>6, <1>8

(* import_class begins: an activation of the record called for.              *)
LEMMA EnterClassKeeps == ASSUME IInv, EnterClass PROVE IInv'
<1> USE DEF IInv
<1>1. /\ call # NoUsr /\ ~Healthy(cache[call])
      /\ ~program.decl[call].system /\ Defined(call)
      /\ stack' = Append(stack,
                    Frame("args", call, 0, UpgradeTarget(call), Args(call, "arg")))
      /\ call' = NoUsr /\ UNCHANGED <<program, ctxVars, cursor, ret>>
      /\ UNCHANGED <<program, ctxVars, tu>> /\ phase' = phase /\ pos' = pos /\ mem' = mem
      /\ classes' = classes /\ cache' = cache /\ poisoned' = poisoned
  BY DEF EnterClass, cursor, ctxVars
<1>2. PICK g : g = Frame("args", call, 0, UpgradeTarget(call), Args(call, "arg"))
  OBVIOUS
<1>3. call \in Usr /\ cache[call] \in 0 .. Len(classes) /\ Len(classes) \in Nat
      /\ poisoned \subseteq 1 .. Len(classes)
  BY <1>1 DEF TypeOK, ClassIds
<1>4. UpgradeTarget(call) \in 0 .. Len(classes)
      /\ (UpgradeTarget(call) # 0 => UpgradeTarget(call) = cache[call])
      /\ (UpgradeTarget(call) = 0 => cache[call] = 0)
  BY <1>1, <1>3 DEF UpgradeTarget, Healthy
<1>5. g.stage = "args" /\ g.usr = call /\ g.upgrade = UpgradeTarget(call)
      /\ g.todo = Args(call, "arg") /\ g.got = << >> /\ g.fields = << >> /\ g.bases = << >>
  BY <1>2 DEF Frame
<1>6. g \in Frames
  BY <1>2, <1>3, <1>4, ArgsMembers DEF Frame, Frames
<1>7. FrameOK(g)
  <2>1. ArgsFrame(g)
    <3>1. g.upgrade # 0 => g.upgrade \in ClassIds /\ classes[g.upgrade].usr = g.usr
      BY <1>3, <1>4, <1>5 DEF OneId, ClassIds
    <3>2. ~IsSpec(call) => g.todo = << >>
      <4>1. ~IsSpec(call) => Len(g.todo) = 0
        BY <1>3, <1>5, ArgsMembers DEF IsSpec
      <4> QED BY <4>1, <1>6, FrameType
    <3> QED BY <3>1, <3>2, <1>3, <1>4, <1>5, ArgsMembers DEF ArgsFrame
  <2>2. g.todo # << >> => Len(g.got) < Len(Head(g.todo).types)
    <3>1. g.todo # << >> => Head(g.todo) \in Members
      BY <1>6, FrameType
    <3>2. g.todo # << >> => Head(g.todo).types \in Seq(Type) \ {<< >>}
      BY <3>1 DEF Members
    <3> QED BY <3>2, <1>5
  <2> QED BY <2>1, <2>2, <1>1, <1>5 DEF FrameOK, Known
<1>8. stack' \in Seq(Frames) /\ stack' = Append(stack, g)
  BY <1>1, <1>2, <1>6 DEF TypeOK
<1>9. ret = NoRet
  BY <1>1 DEF StackOK, Pending
<1>10. TypeOK'
  BY <1>1, <1>8, TypeSame DEF TypeOK
<1>11. Kept /\ OneId' /\ IdsKnown'
  BY <1>1, CtxSame
<1>12. FrameOK(g)'
  BY <1>1, <1>6, <1>7, <1>10, <1>11, FrameKept
<1>13. StackOK'
  BY <1>1, <1>5, <1>6, <1>8, <1>9, <1>10, <1>11, <1>12, Pushed
<1>14. /\ stack \in Seq(Frames) /\ Len(stack) \in Nat /\ Len(stack') = Len(stack) + 1
       /\ DOMAIN stack = 1 .. Len(stack) /\ DOMAIN stack' = 1 .. Len(stack) + 1
       /\ stack'[Len(stack) + 1] = g
       /\ \A i \in 1 .. Len(stack) : stack'[i] = stack[i]
  BY <1>6, <1>8 DEF TypeOK
<1>15. Built'
  <2>1. \A id : InHand(id) => InHand(id)'
    BY <1>14 DEF InHand
  <2> QED BY <2>1, <1>1, CtxSame DEF Built
<1>16. Registered'
  <2> SUFFICES ASSUME NEW i \in DOMAIN stack' PROVE Registers(stack[i])'
    BY DEF Registered
  <2>1. PICK f : f = stack'[i]
    OBVIOUS
  <2>2. CASE i = Len(stack) + 1
    BY <2>1, <2>2, <1>1, <1>4, <1>5, <1>14 DEF Registers
  <2>3. CASE i \in 1 .. Len(stack)
    <3>1. f \in Frames /\ Registers(f)
      BY <2>1, <2>3, <1>14 DEF Registered
    <3>2. Registers(f)'
      BY <3>1, <1>1, CtxSame, FrameType DEF Registers
    <3> QED BY <3>2, <2>1
  <2> QED BY <2>2, <2>3, <1>14
<1>17. Imported'
  <2>1. \A u \in Usr : UnderWay(u) => UnderWay(u)'
    BY <1>5, <1>14 DEF UnderWay
  <2> QED BY <2>1, <1>1, CtxSame, ImportedKept
<1> QED BY <1>10, <1>11, <1>13, <1>15, <1>16, <1>17

-----------------------------------------------------------------------------
(* A member is done: what the activation has, and what it has left.          *)

(* The members after the first.                                              *)
LEMMA TailType ==
  ASSUME NEW f \in Frames, f.todo # << >>
  PROVE  /\ f.todo \in Seq(Members) /\ Head(f.todo) = f.todo[1] /\ f.todo[1] \in Members
         /\ Tail(f.todo) \in Seq(Members) /\ Len(f.todo) \in Nat /\ Len(f.todo) >= 1
         /\ DOMAIN f.todo = 1 .. Len(f.todo)
         /\ Len(Tail(f.todo)) = Len(f.todo) - 1
         /\ DOMAIN Tail(f.todo) = 1 .. Len(f.todo) - 1
         /\ \A k \in 1 .. Len(f.todo) - 1 : Tail(f.todo)[k] = f.todo[k + 1]
<1>1. f.todo \in Seq(Members)
  BY FrameType
<1> QED BY <1>1

(* The types of a member are at least one.                                   *)
LEMMA Room ==
  ASSUME NEW g \in Frames, g.got = << >>
  PROVE  g.todo # << >> => Len(g.got) < Len(Head(g.todo).types)
<1>1. g.todo # << >> => Head(g.todo) \in Members
  BY FrameType
<1>2. g.todo # << >> => Head(g.todo).types \in Seq(Type) \ {<< >>}
  BY <1>1 DEF Members
<1> QED BY <1>2

(* What BodySoFar says, its numbers named.                                   *)
Have(f, d, F, B) ==
  /\ \A i \in 1 .. F : TypeOfId(f.fields[i]) = d.fields[i]
  /\ \A b \in 1 .. B : /\ TypeOfId(f.bases[b].class) = d.bases[b].class
                       /\ f.bases[b].virt = d.bases[b].virt
Left(todo, d, F, B, nf, nb) ==
  /\ nf >= 0 /\ nb >= 0 /\ nf + nb <= Len(todo)
  /\ nf > 0 => B = 0
  /\ \A i \in 1 .. nf : todo[i] = Member("field", F + i, <<d.fields[F + i]>>, FALSE)
  /\ \A b \in 1 .. nb :
       todo[nf + b] = Member("base", B + b, <<d.bases[B + b].class>>, d.bases[B + b].virt)
  /\ \A k \in nf + nb + 1 .. Len(todo) : todo[k].part \in {"subst", "method"}

(* The body so far, with its numbers named.                                  *)
LEMMA BodyParts ==
  ASSUME TypeOK, NEW f \in Frames, NEW d, d = program.decl[f.usr],
         NEW F, F = Len(f.fields), NEW B, B = Len(f.bases),
         NEW nf, nf = Len(d.fields) - F, NEW nb, nb = Len(d.bases) - B
  PROVE  /\ F \in Nat /\ B \in Nat /\ nf \in Int /\ nb \in Int
         /\ f.fields \in Seq(Nat) /\ f.bases \in Seq(BaseDef)
         /\ BodySoFar(f) <=> Have(f, d, F, B) /\ Left(f.todo, d, F, B, nf, nb)
<1>1. f.fields \in Seq(Nat) /\ f.bases \in Seq(BaseDef)
  BY FrameType
<1>2. d.fields \in Seq(Type) /\ d.bases \in Seq([class : Usr, virt : BOOLEAN])
  BY FrameType, DeclType
<1>3. F \in Nat /\ B \in Nat
  BY <1>1
<1>5. Len(d.fields) \in Nat
  BY <1>2
<1>6. Len(d.bases) \in Nat
  BY <1>2
<1>7. nf \in Int /\ nb \in Int
  BY <1>3, <1>5, <1>6
<1>4. BodySoFar(f) <=> Have(f, d, F, B) /\ Left(f.todo, d, F, B, nf, nb)
  BY DEF BodySoFar, Have, Left
<1> QED BY <1>1, <1>3, <1>4, <1>7

(* What is left of the body, by the part of the next member.                 *)
LEMMA NextLeft ==
  ASSUME NEW todo \in Seq(Members), Len(todo) >= 1, NEW d, NEW F \in Nat, NEW B \in Nat,
         NEW nf \in Nat, NEW nb \in Nat, Left(todo, d, F, B, nf, nb)
  PROVE  /\ todo[1].part = "field" =>
              nf > 0 /\ todo[1] = Member("field", F + 1, <<d.fields[F + 1]>>, FALSE)
         /\ todo[1].part = "base" =>
              ~(nf > 0) /\ nb > 0
              /\ todo[1] = Member("base", B + 1, <<d.bases[B + 1].class>>, d.bases[B + 1].virt)
         /\ todo[1].part \notin {"field", "base"} => ~(nf > 0) /\ ~(nb > 0)
<1>1. Len(todo) \in Nat
  OBVIOUS
<1>2. nf > 0 => todo[1] = Member("field", F + 1, <<d.fields[F + 1]>>, FALSE)
  <2>1. nf > 0 => 1 \in 1 .. nf
    BY <1>1
  <2>2. \A i \in 1 .. nf : todo[i] = Member("field", F + i, <<d.fields[F + i]>>, FALSE)
    BY DEF Left
  <2> QED BY <2>1, <2>2
<1>3. nf = 0 /\ nb > 0 =>
        todo[1] = Member("base", B + 1, <<d.bases[B + 1].class>>, d.bases[B + 1].virt)
  <2> SUFFICES ASSUME nf = 0, nb > 0
      PROVE todo[1] = Member("base", B + 1, <<d.bases[B + 1].class>>, d.bases[B + 1].virt)
    OBVIOUS
  <2>1. 1 \in 1 .. nb /\ nf + 1 = 1
    BY <1>1
  <2>2. todo[nf + 1] = Member("base", B + 1, <<d.bases[B + 1].class>>, d.bases[B + 1].virt)
    BY <2>1 DEF Left
  <2> QED BY <2>1, <2>2
<1>4. nf = 0 /\ nb = 0 => todo[1].part \in {"subst", "method"}
  <2> SUFFICES ASSUME nf = 0, nb = 0 PROVE todo[1].part \in {"subst", "method"}
    OBVIOUS
  <2>1. 1 \in nf + nb + 1 .. Len(todo)
    BY <1>1
  <2> QED BY <2>1 DEF Left
<1>5. nf > 0 => todo[1].part = "field"
  BY <1>2 DEF Member
<1>6. nf = 0 /\ nb > 0 => todo[1].part = "base"
  BY <1>3 DEF Member
<1>7. nf > 0 \/ (nf = 0 /\ nb > 0) \/ (nf = 0 /\ nb = 0)
  BY <1>1
<1>8. CASE nf > 0
  BY <1>1, <1>2, <1>5, <1>8
<1>9. CASE nf = 0 /\ nb > 0
  BY <1>1, <1>3, <1>6, <1>9
<1>10. CASE nf = 0 /\ nb = 0
  BY <1>1, <1>4, <1>10
<1> QED BY <1>7, <1>8, <1>9, <1>10

(* A field less to lower.                                                    *)
LEMMA DropField ==
  ASSUME NEW todo \in Seq(Members), NEW rest \in Seq(Members), NEW d,
         NEW F \in Nat, NEW B \in Nat, NEW nf \in Nat, NEW nb \in Nat,
         Left(todo, d, F, B, nf, nb), nf > 0,
         Len(rest) = Len(todo) - 1, \A k \in 1 .. Len(rest) : rest[k] = todo[k + 1]
  PROVE  Left(rest, d, F + 1, B, nf - 1, nb)
<1>1. nf + nb <= Len(todo) /\ B = 0 /\ Len(todo) \in Nat
  BY DEF Left
<1>2. ASSUME NEW i \in 1 .. nf - 1
      PROVE  rest[i] = Member("field", (F + 1) + i, <<d.fields[(F + 1) + i]>>, FALSE)
  <2>1. i + 1 \in 1 .. nf /\ F + (i + 1) = (F + 1) + i /\ i \in 1 .. Len(rest)
    BY <1>1
  <2>2. todo[i + 1] = Member("field", F + (i + 1), <<d.fields[F + (i + 1)]>>, FALSE)
    BY <2>1 DEF Left
  <2> QED BY <2>1, <2>2
<1>3. ASSUME NEW b \in 1 .. nb
      PROVE  rest[(nf - 1) + b] = Member("base", B + b, <<d.bases[B + b].class>>, d.bases[B + b].virt)
  <2>1. ((nf - 1) + b) + 1 = nf + b /\ (nf - 1) + b \in 1 .. Len(rest)
    BY <1>1
  <2>2. todo[nf + b] = Member("base", B + b, <<d.bases[B + b].class>>, d.bases[B + b].virt)
    BY DEF Left
  <2> QED BY <2>1, <2>2
<1>4. ASSUME NEW k \in (nf - 1) + nb + 1 .. Len(rest) PROVE rest[k].part \in {"subst", "method"}
  <2>1. k + 1 \in nf + nb + 1 .. Len(todo) /\ k \in 1 .. Len(rest)
    BY <1>1
  <2>2. todo[k + 1].part \in {"subst", "method"}
    BY <2>1 DEF Left
  <2> QED BY <2>1, <2>2
<1>5. nf - 1 >= 0 /\ nb >= 0 /\ (nf - 1) + nb <= Len(rest)
  BY <1>1
<1> QED BY <1>1, <1>2, <1>3, <1>4, <1>5 DEF Left

(* A base less to lower.                                                     *)
LEMMA DropBase ==
  ASSUME NEW todo \in Seq(Members), NEW rest \in Seq(Members), NEW d,
         NEW F \in Nat, NEW B \in Nat, NEW nb \in Nat,
         Left(todo, d, F, B, 0, nb), nb > 0,
         Len(rest) = Len(todo) - 1, \A k \in 1 .. Len(rest) : rest[k] = todo[k + 1]
  PROVE  Left(rest, d, F, B + 1, 0, nb - 1)
<1>1. nb <= Len(todo) /\ Len(todo) \in Nat
  BY DEF Left
<1>2. ASSUME NEW b \in 1 .. nb - 1
      PROVE  rest[0 + b] = Member("base", (B + 1) + b, <<d.bases[(B + 1) + b].class>>,
                                  d.bases[(B + 1) + b].virt)
  <2>1. b + 1 \in 1 .. nb /\ B + (b + 1) = (B + 1) + b /\ b \in 1 .. Len(rest)
        /\ 0 + b = b /\ 0 + (b + 1) = b + 1
    BY <1>1
  <2>2. todo[0 + (b + 1)] = Member("base", B + (b + 1), <<d.bases[B + (b + 1)].class>>,
                                   d.bases[B + (b + 1)].virt)
    BY <2>1 DEF Left
  <2> QED BY <2>1, <2>2
<1>3. ASSUME NEW k \in 0 + (nb - 1) + 1 .. Len(rest) PROVE rest[k].part \in {"subst", "method"}
  <2>1. k + 1 \in 0 + nb + 1 .. Len(todo) /\ k \in 1 .. Len(rest)
    BY <1>1
  <2>2. todo[k + 1].part \in {"subst", "method"}
    BY <2>1 DEF Left
  <2> QED BY <2>1, <2>2
<1>4. 0 >= 0 /\ nb - 1 >= 0 /\ 0 + (nb - 1) <= Len(rest) /\ ~(0 > 0)
      /\ \A i \in 1 .. 0 : FALSE
  BY <1>1
<1> QED BY <1>2, <1>3, <1>4 DEF Left

(* A method or a substitution less to lower.                                 *)
LEMMA DropOther ==
  ASSUME NEW todo \in Seq(Members), NEW rest \in Seq(Members), NEW d,
         NEW F \in Nat, NEW B \in Nat, Left(todo, d, F, B, 0, 0), Len(todo) >= 1,
         Len(rest) = Len(todo) - 1, \A k \in 1 .. Len(rest) : rest[k] = todo[k + 1]
  PROVE  Left(rest, d, F, B, 0, 0)
<1>1. ASSUME NEW k \in 0 + 0 + 1 .. Len(rest) PROVE rest[k].part \in {"subst", "method"}
  <2>1. k + 1 \in 0 + 0 + 1 .. Len(todo) /\ k \in 1 .. Len(rest)
    OBVIOUS
  <2>2. todo[k + 1].part \in {"subst", "method"}
    BY <2>1 DEF Left
  <2> QED BY <2>1, <2>2
<1>2. 0 >= 0 /\ 0 + 0 <= Len(rest) /\ ~(0 > 0) /\ \A i \in 1 .. 0 : FALSE
  OBVIOUS
<1> QED BY <1>1, <1>2 DEF Left

(* A field or a base has one type, and the body depends on it.               *)
LEMMA NextMember ==
  ASSUME TypeOK, NEW f \in Frames, BodySoFar(f), f.todo # << >>,
         Head(f.todo).part \in {"field", "base"}
  PROVE  Len(Head(f.todo).types) = 1 /\ Head(f.todo).types[1] \in Deps(f.usr)
<1>1. PICK d : d = program.decl[f.usr]
  OBVIOUS
<1>2. PICK F, B : F = Len(f.fields) /\ B = Len(f.bases)
  OBVIOUS
<1>3. PICK nf, nb : nf = Len(d.fields) - F /\ nb = Len(d.bases) - B
  OBVIOUS
<1>4. PICK s : s = f.todo
  OBVIOUS
<1>5. F \in Nat /\ B \in Nat /\ nf \in Int /\ nb \in Int /\ Left(s, d, F, B, nf, nb)
  BY <1>1, <1>2, <1>3, <1>4, BodyParts
<1>6. nf \in Nat /\ nb \in Nat
  BY <1>5 DEF Left
<1>7. s \in Seq(Members) /\ Len(s) >= 1 /\ Head(f.todo) = s[1]
  BY <1>4, TailType
<1>8. d.fields \in Seq(Type) /\ d.bases \in Seq([class : Usr, virt : BOOLEAN])
  BY <1>1, FrameType, DeclType
<1>9. CASE s[1].part = "field"
  <2>1. nf > 0 /\ s[1] = Member("field", F + 1, <<d.fields[F + 1]>>, FALSE)
    BY ONLY <1>5, <1>6, <1>7, <1>9, NextLeft
  <2>2. F + 1 \in DOMAIN d.fields
    BY <2>1, <1>3, <1>5, <1>6, <1>8
  <2>3. d.fields[F + 1] \in Range(d.fields)
    BY <2>2 DEF Range
  <2>4. d.fields[F + 1] \in Deps(f.usr)
    BY <2>3, <1>1 DEF Deps
  <2>5. PICK t : t = d.fields[F + 1]
    OBVIOUS
  <2>6. s[1].types = <<t>>
    BY <2>1, <2>5 DEF Member
  <2>7. Len(<<t>>) = 1 /\ <<t>>[1] = t
    OBVIOUS
  <2> QED BY <2>4, <2>5, <2>6, <2>7, <1>7
<1>10. CASE s[1].part = "base"
  <2>1. nb > 0 /\ s[1] = Member("base", B + 1, <<d.bases[B + 1].class>>, d.bases[B + 1].virt)
    BY ONLY <1>5, <1>6, <1>7, <1>10, NextLeft
  <2>2. B + 1 \in DOMAIN d.bases
    BY <2>1, <1>3, <1>5, <1>6, <1>8
  <2>3. d.bases[B + 1].class \in Deps(f.usr)
    BY <2>2, <1>1 DEF Deps
  <2>4. PICK t : t = d.bases[B + 1].class
    OBVIOUS
  <2>5. s[1].types = <<t>>
    BY <2>1, <2>4 DEF Member
  <2>6. Len(<<t>>) = 1 /\ <<t>>[1] = t
    OBVIOUS
  <2> QED BY <2>3, <2>4, <2>5, <2>6, <1>7
<1> QED BY <1>7, <1>9, <1>10

(* The body after its next field, base or other member.                      *)
LEMMA BodyStep ==
  ASSUME TypeOK, NEW f \in Frames, NEW g \in Frames, BodySoFar(f), f.todo # << >>,
         g.usr = f.usr, g.todo = Tail(f.todo),
         \/ /\ Head(f.todo).part = "field" /\ g.bases = f.bases
            /\ \E id \in Nat : /\ TypeOfId(id) = Head(f.todo).types[1]
                               /\ g.fields = Append(f.fields, id)
         \/ /\ Head(f.todo).part = "base" /\ g.fields = f.fields
            /\ \E id \in Nat : /\ TypeOfId(id) = Head(f.todo).types[1]
                               /\ g.bases = Append(f.bases, [class |-> id, virt |-> Head(f.todo).flag])
         \/ /\ Head(f.todo).part \notin {"field", "base"}
            /\ g.fields = f.fields /\ g.bases = f.bases
  PROVE  BodySoFar(g)
<1>1. PICK d : d = program.decl[f.usr]
  OBVIOUS
<1>2. PICK F, B : F = Len(f.fields) /\ B = Len(f.bases)
  OBVIOUS
<1>3. PICK nf, nb : nf = Len(d.fields) - F /\ nb = Len(d.bases) - B
  OBVIOUS
<1>4. /\ F \in Nat /\ B \in Nat /\ nf \in Int /\ nb \in Int
      /\ f.fields \in Seq(Nat) /\ f.bases \in Seq(BaseDef)
      /\ Have(f, d, F, B) /\ Left(f.todo, d, F, B, nf, nb)
  <2>1. /\ F \in Nat /\ B \in Nat /\ nf \in Int /\ nb \in Int
        /\ f.fields \in Seq(Nat) /\ f.bases \in Seq(BaseDef)
        /\ BodySoFar(f) <=> Have(f, d, F, B) /\ Left(f.todo, d, F, B, nf, nb)
    BY ONLY <1>1, <1>2, <1>3, TypeOK, f \in Frames, BodyParts
  <2> QED BY <2>1
<1>0. PICK s, rest : s = f.todo /\ rest = g.todo
  OBVIOUS
<1>5. /\ f.todo \in Seq(Members) /\ g.todo \in Seq(Members) /\ Head(f.todo) = f.todo[1]
      /\ Len(f.todo) \in Nat /\ Len(f.todo) >= 1 /\ Len(g.todo) = Len(f.todo) - 1
      /\ \A k \in 1 .. Len(g.todo) : g.todo[k] = f.todo[k + 1]
  BY TailType
<1>6. /\ nf \in Nat /\ nb \in Nat
      /\ f.todo[1].part = "field" =>
           nf > 0 /\ f.todo[1] = Member("field", F + 1, <<d.fields[F + 1]>>, FALSE)
      /\ f.todo[1].part = "base" =>
           nf = 0 /\ nb > 0
           /\ f.todo[1] = Member("base", B + 1, <<d.bases[B + 1].class>>, d.bases[B + 1].virt)
      /\ f.todo[1].part \notin {"field", "base"} => nf = 0 /\ nb = 0
  <2>0. F \in Nat /\ B \in Nat
    BY <1>4
  <2>1. s \in Seq(Members) /\ Len(s) >= 1 /\ Left(s, d, F, B, nf, nb)
    BY <1>0, <1>4, <1>5
  <2>3. nf \in Nat /\ nb \in Nat
    BY <2>1, <1>4 DEF Left
  <2>4. s[1].part = "field" =>
          nf > 0 /\ s[1] = Member("field", F + 1, <<d.fields[F + 1]>>, FALSE)
    BY ONLY <2>0, <2>1, <2>3, NextLeft
  <2>5. s[1].part = "base" =>
          ~(nf > 0) /\ nb > 0
          /\ s[1] = Member("base", B + 1, <<d.bases[B + 1].class>>, d.bases[B + 1].virt)
    BY ONLY <2>0, <2>1, <2>3, NextLeft
  <2>6. s[1].part \notin {"field", "base"} => ~(nf > 0) /\ ~(nb > 0)
    BY ONLY <2>0, <2>1, <2>3, NextLeft
  <2>7. (~(nf > 0) => nf = 0) /\ (~(nb > 0) => nb = 0)
    BY <2>3
  <2>8. s[1].part \notin {"field", "base"} => nf = 0 /\ nb = 0
    BY <2>6, <2>7
  <2>9. s[1].part = "base" =>
          nf = 0 /\ nb > 0
          /\ s[1] = Member("base", B + 1, <<d.bases[B + 1].class>>, d.bases[B + 1].virt)
    BY <2>5, <2>7
  <2>10. s = f.todo
    BY <1>0
  <2> QED BY ONLY <2>3, <2>4, <2>8, <2>9, <2>10
<1>7. Len(d.fields) \in Nat /\ Len(d.bases) \in Nat
  <2>1. d.fields \in Seq(Type) /\ d.bases \in Seq([class : Usr, virt : BOOLEAN])
    BY <1>1, FrameType, DeclType
  <2> QED BY <2>1
<1>8. CASE Head(f.todo).part = "field"
  <2>1. PICK id \in Nat : TypeOfId(id) = Head(f.todo).types[1] /\ g.fields = Append(f.fields, id)
    BY <1>8
  <2>2. g.bases = f.bases
    BY <1>8
  <2>3. Left(g.todo, d, F + 1, B, nf - 1, nb)
    <3>1. Left(rest, d, F + 1, B, nf - 1, nb)
      <4>1. /\ s \in Seq(Members) /\ rest \in Seq(Members) /\ Left(s, d, F, B, nf, nb)
            /\ Len(rest) = Len(s) - 1 /\ \A k \in 1 .. Len(rest) : rest[k] = s[k + 1]
            /\ nf \in Nat /\ nb \in Nat /\ F \in Nat /\ B \in Nat /\ nf > 0
        BY <1>0, <1>4, <1>5, <1>6, <1>8
      <4> QED BY ONLY <4>1, DropField
    <3> QED BY <3>1, <1>0
  <2>4. TypeOfId(id) = d.fields[F + 1]
    BY <2>1, <1>5, <1>6, <1>8 DEF Member
  <2>5. Len(g.fields) = F + 1 /\ g.fields[F + 1] = id /\ \A i \in 1 .. F : g.fields[i] = f.fields[i]
    BY <2>1, <1>2, <1>4
  <2>6. Have(g, d, F + 1, B)
    <3>1. \A i \in 1 .. F + 1 : TypeOfId(g.fields[i]) = d.fields[i]
      <4> TAKE i \in 1 .. F + 1
      <4>1. CASE i = F + 1
        BY <4>1, <2>4, <2>5
      <4>2. CASE i \in 1 .. F
        BY <4>2, <2>5, <1>4 DEF Have
      <4> QED BY <4>1, <4>2, <1>4
    <3> QED BY <3>1, <2>2, <1>4 DEF Have
  <2>7. nf - 1 = Len(d.fields) - (F + 1)
    BY <1>3, <1>4, <1>7
  <2> QED BY <2>2, <2>3, <2>5, <2>6, <2>7, <1>1, <1>2, <1>3, BodyParts
<1>9. CASE Head(f.todo).part = "base"
  <2>1. PICK id \in Nat : /\ TypeOfId(id) = Head(f.todo).types[1]
                          /\ g.bases = Append(f.bases, [class |-> id, virt |-> Head(f.todo).flag])
    BY <1>9
  <2>2. g.fields = f.fields
    BY <1>9
  <2>3. Left(g.todo, d, F, B + 1, nf, nb - 1)
    <3>1. Left(rest, d, F, B + 1, 0, nb - 1)
      <4>1. /\ s \in Seq(Members) /\ rest \in Seq(Members) /\ Left(s, d, F, B, 0, nb)
            /\ Len(rest) = Len(s) - 1 /\ \A k \in 1 .. Len(rest) : rest[k] = s[k + 1]
            /\ nb \in Nat /\ F \in Nat /\ B \in Nat /\ nb > 0
        BY <1>0, <1>4, <1>5, <1>6, <1>9
      <4> QED BY ONLY <4>1, DropBase
    <3> QED BY <3>1, <1>0, <1>5, <1>6, <1>9
  <2>4. TypeOfId(id) = d.bases[B + 1].class /\ Head(f.todo).flag = d.bases[B + 1].virt
    BY <2>1, <1>5, <1>6, <1>9 DEF Member
  <2>5. PICK x : x = [class |-> id, virt |-> Head(f.todo).flag]
    OBVIOUS
  <2>6. Len(g.bases) = B + 1 /\ g.bases[B + 1] = x /\ \A b \in 1 .. B : g.bases[b] = f.bases[b]
    <3>1. Head(f.todo).flag \in BOOLEAN
      BY TailType DEF Members
    <3>2. x \in BaseDef
      BY <3>1, <2>5 DEF BaseDef
    <3> QED BY <3>2, <2>1, <2>5, <1>2, <1>4
  <2>7. x.class = id /\ x.virt = Head(f.todo).flag
    BY <2>5
  <2>8. Have(g, d, F, B + 1)
    <3>1. \A b \in 1 .. B + 1 : /\ TypeOfId(g.bases[b].class) = d.bases[b].class
                                 /\ g.bases[b].virt = d.bases[b].virt
      <4> TAKE b \in 1 .. B + 1
      <4>1. CASE b = B + 1
        BY <4>1, <2>4, <2>6, <2>7
      <4>2. CASE b \in 1 .. B
        BY <4>2, <2>6, <1>4 DEF Have
      <4> QED BY <4>1, <4>2, <1>4
    <3> QED BY <3>1, <2>2, <1>4 DEF Have
  <2>9. nb - 1 = Len(d.bases) - (B + 1)
    BY <1>3, <1>4, <1>7
  <2> QED BY <2>2, <2>3, <2>6, <2>8, <2>9, <1>1, <1>2, <1>3, BodyParts
<1>10. CASE Head(f.todo).part \notin {"field", "base"}
  <2>1. g.fields = f.fields /\ g.bases = f.bases
    BY <1>10
  <2>2. Left(g.todo, d, F, B, nf, nb)
    BY <1>4, <1>5, <1>6, <1>10, DropOther
  <2>3. Have(g, d, F, B)
    BY <2>1, <1>4 DEF Have
  <2> QED BY <2>1, <2>2, <2>3, <1>1, <1>2, <1>3, BodyParts
<1> QED BY <1>8, <1>9, <1>10

(* The id a member brought, or nothing.                                      *)
Brings(f, g) ==
  \/ /\ Head(f.todo).part = "field" /\ g.bases = f.bases
     /\ \E id \in 0 .. Len(classes) : /\ TypeOfId(id) = Head(f.todo).types[1]
                                      /\ g.fields = Append(f.fields, id)
  \/ /\ Head(f.todo).part = "base" /\ g.fields = f.fields
     /\ \E id \in 0 .. Len(classes) :
          /\ TypeOfId(id) = Head(f.todo).types[1]
          /\ g.bases = Append(f.bases, [class |-> id, virt |-> Head(f.todo).flag])
  \/ /\ Head(f.todo).part \notin {"field", "base"}
     /\ g.fields = f.fields /\ g.bases = f.bases

(* The same activation: what others know of it is unchanged.                 *)
SameCall(f, g) ==
  g.stage = f.stage /\ g.usr = f.usr /\ g.id = f.id /\ g.upgrade = f.upgrade

(* A member brings known ids only.                                           *)
LEMMA KnownStep ==
  ASSUME TypeOK, NEW f \in Frames, NEW g \in Frames, Known(f.fields, f.bases), Brings(f, g)
  PROVE  Known(g.fields, g.bases)
<1>1. /\ f.fields \in Seq(Nat) /\ g.fields \in Seq(Nat) /\ Len(classes) \in Nat
      /\ f.bases \in Seq(BaseDef) /\ g.bases \in Seq(BaseDef)
  BY FrameType DEF TypeOK
<1>2. /\ \A i \in DOMAIN f.fields : f.fields[i] <= Len(classes)
      /\ \A b \in DOMAIN f.bases : f.bases[b].class <= Len(classes)
  BY DEF Known
<1>3. ASSUME NEW i \in DOMAIN g.fields PROVE g.fields[i] <= Len(classes)
  <2>1. CASE g.fields = f.fields
    BY <2>1, <1>2
  <2>2. CASE \E id \in 0 .. Len(classes) : g.fields = Append(f.fields, id)
    <3>1. PICK id \in 0 .. Len(classes) : g.fields = Append(f.fields, id)
      BY <2>2
    <3>2. g.fields[i] = id \/ (i \in DOMAIN f.fields /\ g.fields[i] = f.fields[i])
      BY <3>1, <1>1
    <3> QED BY <3>1, <3>2, <1>1, <1>2
  <2> QED BY <2>1, <2>2 DEF Brings
<1>4. ASSUME NEW b \in DOMAIN g.bases PROVE g.bases[b].class <= Len(classes)
  <2>1. CASE g.bases = f.bases
    BY <2>1, <1>2
  <2>2. CASE \E id \in 0 .. Len(classes) :
               g.bases = Append(f.bases, [class |-> id, virt |-> Head(f.todo).flag])
    <3>1. PICK id \in 0 .. Len(classes) :
            g.bases = Append(f.bases, [class |-> id, virt |-> Head(f.todo).flag])
      BY <2>2
    <3>2. PICK x : x = [class |-> id, virt |-> Head(f.todo).flag]
      OBVIOUS
    <3>3. x.class = id
      BY <3>2
    <3>4. g.bases[b] = x \/ (b \in DOMAIN f.bases /\ g.bases[b] = f.bases[b])
      BY <3>1, <3>2, <1>1
    <3> QED BY <3>3, <3>4, <1>1, <1>2
  <2> QED BY <2>1, <2>2 DEF Brings
<1> QED BY <1>3, <1>4 DEF Known

(* The activation after a member.                                            *)
LEMMA FrameStep ==
  ASSUME TypeOK, NEW f \in Frames, NEW g \in Frames, FrameOK(f), f.todo # << >>,
         SameCall(f, g), g.todo = Tail(f.todo), g.got = << >>, Brings(f, g)
  PROVE  FrameOK(g)
<1>1. Known(g.fields, g.bases)
  BY KnownStep DEF FrameOK
<1>2. g.todo # << >> => Len(g.got) < Len(Head(g.todo).types)
  BY Room
<1>3. /\ DOMAIN g.todo = 1 .. Len(f.todo) - 1
      /\ \A k \in 1 .. Len(f.todo) - 1 : k + 1 \in DOMAIN f.todo /\ g.todo[k] = f.todo[k + 1]
  BY TailType
<1>4. ASSUME f.stage = "args" PROVE ArgsFrame(g)
  <2>1. ArgsFrame(f)
    BY <1>4 DEF FrameOK
  <2>2. IsSpec(f.usr)
    BY <2>1 DEF ArgsFrame
  <2>3. f.upgrade # 0 => f.upgrade \in ClassIds /\ classes[f.upgrade].usr = f.usr
    BY <2>1 DEF ArgsFrame
  <2>4. ASSUME NEW k \in DOMAIN g.todo
        PROVE  /\ g.todo[k].part = "arg"
               /\ \A i \in DOMAIN g.todo[k].types : g.todo[k].types[i] \in Deps(f.usr)
    BY <2>1, <1>3 DEF ArgsFrame
  <2> QED BY <2>2, <2>3, <2>4 DEF ArgsFrame, SameCall
<1>5. ASSUME f.stage = "body" PROVE BodyFrame(g)
  <2>1. BodyFrame(f)
    BY <1>5 DEF FrameOK
  <2>2. \A id \in 0 .. Len(classes) : id \in Nat
    BY DEF TypeOK
  <2>3. BodySoFar(g)
    BY <2>1, <2>2, BodyStep DEF BodyFrame, SameCall, Brings
  <2> QED BY <2>1, <2>3 DEF BodyFrame, SameCall
<1>6. ASSUME f.stage = "attach" PROVE AttachFrame(g)
  BY <1>3, <1>6 DEF FrameOK, AttachFrame
<1> QED BY <1>1, <1>2, <1>4, <1>5, <1>6 DEF FrameOK, SameCall

(* The invariant after a step of the activation at the top.                  *)
LEMMA Stepped ==
  ASSUME IInv, UNCHANGED <<program, ctxVars, cursor>>, call' = NoUsr, ret' = NoRet,
         stack # << >>, ~Idle, NEW g \in Frames, stack' = SetTop(g),
         SameCall(Top, g), FrameOK(g)
  PROVE  IInv'
<1> USE DEF IInv
<1>1. /\ UNCHANGED <<program, ctxVars, tu>> /\ UNCHANGED <<program, cursor>>
      /\ phase' = phase /\ pos' = pos /\ mem' = mem
      /\ classes' = classes /\ cache' = cache /\ poisoned' = poisoned
  BY DEF cursor, ctxVars
<1>2. PICK n : n = Len(stack)
  OBVIOUS
<1>3. /\ stack \in Seq(Frames) /\ n \in Nat \ {0} /\ DOMAIN stack = 1 .. n
      /\ stack' \in Seq(Frames) /\ DOMAIN stack' = 1 .. n /\ stack' # << >>
      /\ stack'[n] = g /\ \A i \in 1 .. n : i < n => stack'[i] = stack[i]
      /\ Top = stack[n]
  BY <1>2, TopType DEF SetTop, TypeOK
<1>4. TypeOK'
  BY <1>1, <1>3, TypeSame, NoResult DEF TypeOK
<1>5. Kept /\ OneId' /\ IdsKnown'
  BY <1>1, CtxSame
<1>6. FrameOK(g)'
  BY <1>1, <1>4, <1>5, FrameKept
<1>7. StackOK'
  BY <1>1, <1>4, <1>5, <1>6, Replaced DEF SameCall
<1>8. \A i \in 1 .. n : SameCall(stack[i], stack'[i])
  BY <1>3 DEF SameCall
<1>9. Built'
  <2>1. \A id : InHand(id) => InHand(id)'
    BY <1>3, <1>8 DEF InHand, SameCall
  <2> QED BY <2>1, <1>1, CtxSame DEF Built
<1>10. Registered'
  <2> SUFFICES ASSUME NEW i \in 1 .. n PROVE Registers(stack[i])'
    BY <1>3 DEF Registered
  <2>1. PICK f : f = stack[i]
    OBVIOUS
  <2>2. PICK h : h = stack'[i]
    OBVIOUS
  <2>3. f \in Frames /\ Registers(f) /\ SameCall(f, h)
    BY <2>1, <2>2, <1>3, <1>8 DEF Registered
  <2>4. Registers(h)'
    BY <2>3, <1>1, CtxSame, FrameType DEF Registers, SameCall
  <2> QED BY <2>2, <2>4
<1>11. Imported'
  <2>1. \A u \in Usr : UnderWay(u) => UnderWay(u)'
    BY <1>3, <1>8 DEF UnderWay, SameCall
  <2> QED BY <2>1, <1>1, CtxSame, ImportedKept
<1> QED BY <1>4, <1>5, <1>7, <1>9, <1>10, <1>11

-----------------------------------------------------------------------------
(* Members, one after the other. *)

GoOn(f, t, c) == [f EXCEPT !.todo = t, !.got = c]

(* An activation with other members left.                                    *)
LEMMA Resume ==
  ASSUME NEW f \in Frames, NEW t \in Seq(Members), NEW c \in Seq(Nat),
         NEW g, g = GoOn(f, t, c)
  PROVE  g \in Frames /\ SameCall(f, g)
<1>1. /\ g.stage = f.stage /\ g.usr = f.usr /\ g.id = f.id /\ g.upgrade = f.upgrade
      /\ g.todo = t /\ g.got = c
      /\ g.fields = f.fields /\ g.bases = f.bases /\ g.methods = f.methods
      /\ g = [stage |-> g.stage, usr |-> g.usr, id |-> g.id, upgrade |-> g.upgrade,
              todo |-> g.todo, got |-> g.got, bases |-> g.bases, fields |-> g.fields,
              methods |-> g.methods]
  BY DEF Frames, GoOn
<1>2. g \in Frames
  BY <1>1, FrameType DEF Frames
<1> QED BY <1>1, <1>2 DEF SameCall

(* A hidden method is passed by.                                             *)
LEMMA SkipHiddenKeeps == ASSUME IInv, SkipHidden PROVE IInv'
<1> USE DEF IInv
<1>1. /\ stack # << >> /\ call = NoUsr /\ ret = NoRet /\ Top.todo # << >>
      /\ Head(Top.todo).part = "method"
      /\ stack' = SetTop([Top EXCEPT !.todo = Tail(@), !.got = << >>])
      /\ UNCHANGED <<program, ctxVars, cursor, call, ret>>
  BY DEF SkipHidden, AtMember, IsHidden
<1>2. PICK f : f = Top
  OBVIOUS
<1>3. f \in Frames /\ FrameOK(f)
  BY <1>1, <1>2, TopWants
<1>4. PICK g : g = GoOn(f, Tail(f.todo), << >>)
  OBVIOUS
<1>8. g = [f EXCEPT !.todo = Tail(@), !.got = << >>]
  BY <1>3, <1>4 DEF Frames, GoOn
<1>5. /\ g \in Frames /\ SameCall(f, g) /\ g.todo = Tail(f.todo) /\ g.got = << >>
      /\ g.fields = f.fields /\ g.bases = f.bases
  <2>1. Tail(f.todo) \in Seq(Members) /\ << >> \in Seq(Nat)
    BY <1>1, <1>2, <1>3, TailType
  <2>2. f \in Frames
    BY <1>3
  <2>3. g \in Frames /\ SameCall(f, g)
    BY ONLY <2>1, <2>2, <1>4, Resume
  <2>4. g.todo = Tail(f.todo) /\ g.got = << >> /\ g.fields = f.fields /\ g.bases = f.bases
    BY ONLY <2>2, <1>4 DEF GoOn, Frames
  <2> QED BY <2>3, <2>4
<1>6. Brings(f, g)
  BY <1>1, <1>2, <1>5 DEF Brings
<1>7. FrameOK(g)
  BY <1>1, <1>2, <1>3, <1>5, <1>6, FrameStep
<1> QED BY <1>1, <1>2, <1>5, <1>7, <1>8, Stepped DEF Idle

(* A method or a substitution that fails is left out.                        *)
LEMMA SkipMemberKeeps == ASSUME IInv, SkipMember PROVE IInv'
<1> USE DEF IInv
<1>1. /\ stack # << >> /\ call = NoUsr /\ ret # NoRet
      /\ Head(Top.todo).part \in {"method", "subst"}
      /\ stack' = SetTop([Top EXCEPT !.todo = Tail(@), !.got = << >>])
      /\ ret' = NoRet /\ UNCHANGED <<program, ctxVars, cursor, call>>
  BY DEF SkipMember, Resumed
<1>2. PICK f : f = Top
  OBVIOUS
<1>3. f \in Frames /\ FrameOK(f) /\ f.todo # << >>
  BY <1>1, <1>2, TopWants DEF StackOK, Pending
<1>4. PICK g : g = GoOn(f, Tail(f.todo), << >>)
  OBVIOUS
<1>8. g = [f EXCEPT !.todo = Tail(@), !.got = << >>]
  BY <1>3, <1>4 DEF Frames, GoOn
<1>5. /\ g \in Frames /\ SameCall(f, g) /\ g.todo = Tail(f.todo) /\ g.got = << >>
      /\ g.fields = f.fields /\ g.bases = f.bases
  <2>1. Tail(f.todo) \in Seq(Members) /\ << >> \in Seq(Nat)
    BY <1>3, TailType
  <2>2. f \in Frames
    BY <1>3
  <2>3. g \in Frames /\ SameCall(f, g)
    BY ONLY <2>1, <2>2, <1>4, Resume
  <2>4. g.todo = Tail(f.todo) /\ g.got = << >> /\ g.fields = f.fields /\ g.bases = f.bases
    BY ONLY <2>2, <1>4 DEF GoOn, Frames
  <2> QED BY <2>3, <2>4
<1>6. Brings(f, g)
  BY <1>1, <1>2, <1>5 DEF Brings
<1>7. FrameOK(g)
  BY <1>3, <1>5, <1>6, FrameStep
<1> QED BY <1>1, <1>2, <1>5, <1>7, <1>8, Stepped DEF Idle

(* A type of a member is answered.                                           *)
LEMMA TakeTypeKeeps == ASSUME IInv, TakeType PROVE IInv'
<1> USE DEF IInv
<1>1. /\ stack # << >> /\ call = NoUsr /\ ret # NoRet /\ ~Lowered
      /\ stack' = SetTop([Top EXCEPT !.got = Append(@, ret.id)])
      /\ ret' = NoRet /\ UNCHANGED <<program, ctxVars, cursor, call>>
  BY DEF TakeType, Resumed
<1>2. PICK f : f = Top
  OBVIOUS
<1>3. f \in Frames /\ FrameOK(f) /\ f.todo # << >>
  BY <1>1, <1>2, TopWants DEF StackOK, Pending
<1>4. ret.id \in Nat
  BY DEF TypeOK
<1>5. PICK g : g = GoOn(f, f.todo, Append(f.got, ret.id))
  OBVIOUS
<1>10. g = [f EXCEPT !.got = Append(@, ret.id)]
  BY <1>3, <1>5 DEF Frames, GoOn
<1>6. f.got \in Seq(Nat) /\ Len(f.got) \in Nat
  BY <1>3, FrameType
<1>7. /\ g \in Frames /\ SameCall(f, g) /\ g.todo = f.todo /\ Len(g.got) = Len(f.got) + 1
      /\ g.fields = f.fields /\ g.bases = f.bases
  <2>1. PICK t, c : t = f.todo /\ c = Append(f.got, ret.id)
    OBVIOUS
  <2>2. t \in Seq(Members) /\ c \in Seq(Nat) /\ Len(c) = Len(f.got) + 1
    BY <2>1, <1>3, <1>4, <1>6, FrameType
  <2>3. g = GoOn(f, t, c)
    BY <2>1, <1>5
  <2>4. f \in Frames
    BY <1>3
  <2>5. g \in Frames /\ SameCall(f, g)
    BY ONLY <2>2, <2>3, <2>4, Resume
  <2>6. g.todo = t /\ g.got = c /\ g.fields = f.fields /\ g.bases = f.bases
    BY ONLY <2>3, <2>4 DEF GoOn, Frames
  <2> QED BY <2>1, <2>2, <2>5, <2>6
<1>8. Len(g.got) < Len(Head(g.todo).types)
  <2>1. Len(f.got) + 1 # Len(Head(f.todo).types)
    BY <1>1, <1>2 DEF Lowered
  <2>2. Head(f.todo).types \in Seq(Type) /\ Len(f.got) + 1 \in DOMAIN Head(f.todo).types
    BY <1>3, WantedType
  <2> QED BY <2>1, <2>2, <1>6, <1>7
<1>9. FrameOK(g)
  BY <1>3, <1>7, <1>8 DEF FrameOK, SameCall, ArgsFrame, BodyFrame, BodySoFar, AttachFrame
<1> QED BY <1>1, <1>2, <1>7, <1>9, <1>10, Stepped DEF Idle

(* The last one is: the member is lowered.                                   *)
LEMMA TakeMemberKeeps == ASSUME IInv, TakeMember PROVE IInv'
<1> USE DEF IInv
<1>1. /\ stack # << >> /\ call = NoUsr /\ ret # NoRet /\ ret # Err /\ Lowered
      /\ ret' = NoRet /\ UNCHANGED <<program, ctxVars, cursor, call>>
  BY DEF TakeMember, Resumed
<1>2. PICK f : f = Top
  OBVIOUS
<1>3. f \in Frames /\ FrameOK(f) /\ f.todo # << >>
  BY <1>1, <1>2, TopWants DEF StackOK, Pending
<1>4. PICK x : x = Head(f.todo)
  OBVIOUS
<1>5. PICK r : r = ret.id
  OBVIOUS
<1>6. PICK g : g = [f EXCEPT
          !.todo = Tail(@), !.got = << >>,
          !.fields = IF x.part = "field" THEN Append(@, r) ELSE @,
          !.bases = IF x.part = "base" THEN Append(@, [class |-> r, virt |-> x.flag]) ELSE @,
          !.methods = IF x.part = "method"
                      THEN Append(@, [n |-> x.n, virtual |-> x.flag, params |-> f.got])
                      ELSE @]
  OBVIOUS
<1>7. stack' = SetTop(g)
  BY <1>2, <1>4, <1>5, <1>6 DEF TakeMember
<1>8. r \in 0 .. Len(classes) /\ r \in Nat /\ x \in Members
  BY <1>3, <1>4, <1>5, TailType DEF TypeOK
<1>9. /\ f.todo \in Seq(Members) /\ f.got \in Seq(Nat) /\ f.bases \in Seq(BaseDef)
      /\ f.fields \in Seq(Nat) /\ f.methods \in Seq(MethodDef)
      /\ Tail(f.todo) \in Seq(Members)
  BY <1>3, FrameType, TailType
<1>10. /\ [class |-> r, virt |-> x.flag] \in BaseDef
       /\ [n |-> x.n, virtual |-> x.flag, params |-> f.got] \in MethodDef
  BY <1>8, <1>9 DEF BaseDef, MethodDef, Members
<1>11. /\ g.stage = f.stage /\ g.usr = f.usr /\ g.id = f.id /\ g.upgrade = f.upgrade
       /\ g.todo = Tail(f.todo) /\ g.got = << >>
       /\ g.fields = IF x.part = "field" THEN Append(f.fields, r) ELSE f.fields
       /\ g.bases = IF x.part = "base" THEN Append(f.bases, [class |-> r, virt |-> x.flag])
                    ELSE f.bases
       /\ g.methods = IF x.part = "method"
                      THEN Append(f.methods, [n |-> x.n, virtual |-> x.flag, params |-> f.got])
                      ELSE f.methods
       /\ g = [stage |-> g.stage, usr |-> g.usr, id |-> g.id, upgrade |-> g.upgrade,
               todo |-> g.todo, got |-> g.got, bases |-> g.bases, fields |-> g.fields,
               methods |-> g.methods]
  BY <1>3, <1>6 DEF Frames
<1>12. g.fields \in Seq(Nat) /\ g.bases \in Seq(BaseDef) /\ g.methods \in Seq(MethodDef)
       /\ g.got \in Seq(Nat)
  BY <1>8, <1>9, <1>10, <1>11
<1>13. g \in Frames
  BY <1>3, <1>9, <1>11, <1>12, FrameType DEF Frames
<1>14. x.part \in {"field", "base"} => TypeOfId(r) = x.types[1]
  <2>1. ret.kind = "ok"
    BY <1>1 DEF TypeOK, NoRet, Err
  <2>2. TypeOfId(r) = Wanted(f)
    BY <1>1, <1>2, <1>5, <2>1 DEF StackOK, Pending, Answers
  <2>3. x.part \in {"field", "base"} => Len(x.types) = 1
    <3>1. f.stage = "args" => x.part = "arg"
      BY <1>3, <1>4, TailType DEF FrameOK, ArgsFrame
    <3>2. f.stage = "attach" => x.part = "method"
      BY <1>3, <1>4, TailType DEF FrameOK, AttachFrame
    <3>3. ASSUME f.stage = "body", x.part \in {"field", "base"} PROVE Len(x.types) = 1
      BY <1>3, <1>4, <3>3, NextMember DEF FrameOK, BodyFrame
    <3> QED BY <3>1, <3>2, <3>3, <1>3, FrameType
  <2>4. Len(f.got) + 1 = Len(x.types)
    BY <1>1, <1>2, <1>4 DEF Lowered
  <2> QED BY <2>2, <2>3, <2>4, <1>4 DEF Wanted
<1>15. Brings(f, g)
  BY <1>4, <1>8, <1>11, <1>14 DEF Brings
<1>16. FrameOK(g)
  BY <1>3, <1>11, <1>13, <1>15, FrameStep DEF SameCall
<1> QED BY <1>1, <1>2, <1>7, <1>11, <1>13, <1>16, Stepped DEF Idle, SameCall
-----------------------------------------------------------------------------
(* An activation ends without its class. *)

(* The stack without its top.                                                *)
LEMMA PopShape ==
  ASSUME TypeOK, stack # << >>, stack' = Front(stack), NEW n, n = Len(stack)
  PROVE  /\ n \in Nat \ {0} /\ DOMAIN stack = 1 .. n /\ stack \in Seq(Frames)
         /\ stack' \in Seq(Frames) /\ DOMAIN stack' = 1 .. n - 1
         /\ \A i \in 1 .. n - 1 : stack'[i] = stack[i]
         /\ Top = stack[n] /\ (n > 1 <=> stack' # << >>)
<1>1. stack \in Seq(Frames)
  BY DEF TypeOK
<1>2. n \in Nat \ {0} /\ DOMAIN stack = 1 .. n /\ Top = stack[n]
  BY <1>1 DEF Top, Last
<1>3. stack' = SubSeq(stack, 1, n - 1)
  BY DEF Front
<1>4. stack' \in Seq(Frames) /\ Len(stack') = n - 1 /\ \A i \in 1 .. n - 1 : stack'[i] = stack[i]
  BY <1>1, <1>2, <1>3
<1> QED BY <1>1, <1>2, <1>4

(* The record of an activation whose member failed is not supported.         *)
LEMMA NotSupported ==
  ASSUME TypeOK, StackOK, stack # << >>, ret = Err, NEW f, f = Top,
         Head(f.todo).part \in {"arg", "field", "base"}
  PROVE  /\ ~Supported(f.usr) /\ f.stage # "attach" /\ f.todo # << >>
         /\ Head(f.todo).part = "arg" => f.stage = "args"
         /\ Head(f.todo).part # "arg" => f.stage = "body"
<1>1. f.todo # << >> /\ Answers(ret, Wanted(f))
  BY NoResult DEF StackOK, Pending
<1>2. f \in Frames /\ FrameOK(f)
  BY <1>1, TopWants
<1>3. ~CanImport(Wanted(f))
  BY <1>1, NoResult DEF Answers
<1>4. Head(f.todo) = f.todo[1] /\ 1 \in DOMAIN f.todo
  BY <1>1, <1>2, TailType
<1>5. Len(f.got) \in Nat /\ Len(f.got) + 1 \in DOMAIN Head(f.todo).types
  BY <1>1, <1>2, WantedType, FrameType
<1>6. f.stage # "attach"
  BY <1>2, <1>4 DEF FrameOK, AttachFrame
<1>7. CASE f.stage = "args"
  <2>1. ArgsFrame(f)
    BY <1>2, <1>7 DEF FrameOK
  <2>2. Head(f.todo).part = "arg" /\ Wanted(f) \in Deps(f.usr)
    BY <2>1, <1>4, <1>5 DEF ArgsFrame, Wanted
  <2> QED BY <2>2, <1>1, <1>3, <1>7, SupportedDeps
<1>8. CASE f.stage = "body"
  <2>1. BodySoFar(f)
    BY <1>2, <1>8 DEF FrameOK, BodyFrame
  <2>2. Head(f.todo).part # "arg"
    <3> SUFFICES ASSUME Head(f.todo).part = "arg" PROVE FALSE
      OBVIOUS
    <3>1. PICK d : d = program.decl[f.usr]
      OBVIOUS
    <3>2. PICK F, B : F = Len(f.fields) /\ B = Len(f.bases)
      OBVIOUS
    <3>3. PICK nf, nb : nf = Len(d.fields) - F /\ nb = Len(d.bases) - B
      OBVIOUS
    <3>4. PICK s : s = f.todo
      OBVIOUS
    <3>5. F \in Nat /\ B \in Nat /\ nf \in Int /\ nb \in Int /\ Left(s, d, F, B, nf, nb)
      BY <1>2, <2>1, <3>1, <3>2, <3>3, <3>4, BodyParts
    <3>6. nf \in Nat /\ nb \in Nat
      BY <3>5 DEF Left
    <3>7. s \in Seq(Members) /\ Len(s) >= 1 /\ s[1].part = "arg"
      BY <3>4, <1>1, <1>2, TailType
    <3>8. ~(nf > 0) /\ ~(nb > 0)
      BY ONLY <3>5, <3>6, <3>7, NextLeft
    <3>9. 1 \in nf + nb + 1 .. Len(s)
      BY <3>6, <3>7, <3>8
    <3> QED BY <3>5, <3>7, <3>9 DEF Left
  <2>3. Len(Head(f.todo).types) = 1 /\ Head(f.todo).types[1] \in Deps(f.usr)
    BY <1>1, <1>2, <2>1, <2>2, NextMember
  <2>4. Head(f.todo).types \in Seq(Type)
    BY <1>1, <1>2, WantedType
  <2>5. Wanted(f) \in Deps(f.usr)
    BY <2>3, <2>4, <1>5 DEF Wanted
  <2> QED BY <2>2, <2>5, <1>1, <1>3, <1>8, SupportedDeps
<1> QED BY <1>2, <1>6, <1>7, <1>8, FrameType

(* The class stays as it is, for a record that cannot be imported.           *)
LEMMA PoppedBad ==
  ASSUME IInv, UNCHANGED <<program, ctxVars, cursor>>, stack # << >>,
         Top.stage # "attach", stack' = Front(stack), call' = NoUsr,
         ret' \in [kind : {"none", "ok", "err"}, id : 0 .. Len(classes)],
         ret'.kind # "ok" => ret'.id = 0,
         NEW w, w = Top.usr, ~Supported(w), Answers(ret, w)'
  PROVE  IInv'
<1> USE DEF IInv
<1>1. /\ UNCHANGED <<program, ctxVars, tu>> /\ UNCHANGED <<program, cursor>>
      /\ phase' = phase /\ pos' = pos /\ mem' = mem
      /\ classes' = classes /\ cache' = cache /\ poisoned' = poisoned
  BY DEF cursor, ctxVars
<1>2. PICK n : n = Len(stack)
  OBVIOUS
<1>3. /\ n \in Nat \ {0} /\ DOMAIN stack = 1 .. n /\ stack \in Seq(Frames)
      /\ stack' \in Seq(Frames) /\ DOMAIN stack' = 1 .. n - 1
      /\ \A i \in 1 .. n - 1 : stack'[i] = stack[i]
      /\ Top = stack[n] /\ (n > 1 <=> stack' # << >>)
  BY <1>2, PopShape
<1>4. TypeOK'
  BY <1>1, <1>3, TypeSame DEF TypeOK
<1>5. Kept /\ OneId' /\ IdsKnown'
  BY <1>1, CtxSame
<1>6. StackOK'
  BY <1>1, <1>4, <1>5, Popped
<1>7. Built'
  <2> SUFFICES ASSUME NEW u \in Usr, Good(u), Healthy(cache[u])
               PROVE  Complete(cache[u]) \/ InHand(cache[u])'
    BY <1>1, CtxSame DEF Built
  <2>1. CASE Complete(cache[u])
    BY <2>1
  <2>2. CASE InHand(cache[u])
    <3>1. PICK i \in 1 .. n : stack[i].stage = "body" /\ stack[i].id = cache[u]
      BY <2>2, <1>3 DEF InHand
    <3>2. stack[i].usr = u
      <4>1. classes[stack[i].id].usr = stack[i].usr
        BY <3>1, <1>3 DEF StackOK, Activations, FrameOK, BodyFrame
      <4> QED BY <3>1, <4>1 DEF OneId, Healthy
    <3>3. i # n
      BY <3>2, <1>3 DEF Good
    <3>4. i \in 1 .. n - 1
      BY <3>3, <1>3
    <3> QED BY <3>1, <3>4, <1>1, <1>3 DEF InHand
  <2> QED BY <2>1, <2>2 DEF Built
<1>8. Registered'
  <2> SUFFICES ASSUME NEW i \in 1 .. n - 1 PROVE Registers(stack[i])'
    BY <1>3 DEF Registered
  <2>1. PICK f : f = stack[i] /\ f = stack'[i]
    BY <1>3
  <2>2. f \in Frames /\ Registers(f)
    BY <2>1, <1>3 DEF Registered
  <2>3. Registers(f)'
    BY <2>2, <1>1, CtxSame, FrameType DEF Registers
  <2> QED BY <2>1, <2>3
<1>9. Imported'
  <2>1. ASSUME NEW u \in Usr, Good(u), UnderWay(u) PROVE UnderWay(u)'
    <3>1. u = stack[1].usr
      BY <2>1 DEF UnderWay
    <3>2. n # 1
      BY <3>1, <2>1, <1>3 DEF Good
    <3> QED BY <3>1, <3>2, <1>3 DEF UnderWay
  <2> QED BY <2>1, <1>1, CtxSame, ImportedKept
<1> QED BY <1>4, <1>5, <1>6, <1>7, <1>8, <1>9

(* A field or a base fails: the record is not supported.                     *)
LEMMA FailBodyKeeps == ASSUME IInv, FailBody PROVE IInv'
<1> USE DEF IInv
<1>1. /\ stack # << >> /\ call = NoUsr /\ ret = Err
      /\ Head(Top.todo).part \in {"field", "base"} /\ stack' = Front(stack)
      /\ UNCHANGED <<program, ctxVars, cursor>> /\ call' = call /\ ret' = ret
  BY DEF FailBody, Resumed
<1>2. PICK f : f = Top
  OBVIOUS
<1>3. ~Supported(f.usr) /\ f.stage # "attach"
  BY <1>1, <1>2, NotSupported
<1>4. f.usr # Scalar
  BY <1>1, <1>2, TopType, FrameType, NamesAssumption
<1>5. ~CanImport(f.usr)' /\ ret'.kind = "err"
  BY <1>1, <1>3, <1>4, NoResult DEF CanImport, Supported, Deps
<1>6. Answers(ret, f.usr)'
  BY <1>5 DEF Answers
<1> QED BY <1>1, <1>2, <1>3, <1>6, PoppedBad DEF TypeOK
-----------------------------------------------------------------------------
(* The classes after a step. *)

(* The parts of a class.                                                     *)
LEMMA ClassType ==
  ASSUME TypeOK, NEW id \in ClassIds
  PROVE  /\ classes[id] \in Class /\ classes[id].usr \in Usr
         /\ classes[id].bases \in Seq(BaseDef) /\ classes[id].fields \in Seq(Nat)
         /\ classes[id].methods \in Seq(MethodDef) /\ classes[id].poly \in BOOLEAN
<1>1. classes[id] \in Class
  BY DEF TypeOK, ClassIds
<1> QED BY <1>1 DEF Class

(* A class whose fields and bases stand stays complete, or not.              *)
LEMMA CompleteKept ==
  ASSUME TypeOK, TypeOK', Kept, IdsKnown, NEW id \in ClassIds,
         classes'[id].fields = classes[id].fields, classes'[id].bases = classes[id].bases,
         Complete(id)
  PROVE  Complete(id)'
<1>1. PICK d : d = program.decl[classes[id].usr]
  OBVIOUS
<1>2. PICK fs, bs : fs = classes[id].fields /\ bs = classes[id].bases
  OBVIOUS
<1>3. fs \in Seq(Nat) /\ bs \in Seq(BaseDef)
  BY <1>2, ClassType
<1>4. Known(fs, bs)
  BY <1>2 DEF IdsKnown
<1>5. ASSUME NEW i \in DOMAIN fs PROVE TypeOfId(fs[i])' = TypeOfId(fs[i])
  <2>1. PICK k : k = fs[i]
    OBVIOUS
  <2>2. k \in 0 .. Len(classes)
    BY <2>1, <1>3, <1>4 DEF Known, TypeOK
  <2> QED BY <2>1, <2>2, TypeKept
<1>6. ASSUME NEW b \in DOMAIN bs PROVE TypeOfId(bs[b].class)' = TypeOfId(bs[b].class)
  <2>1. PICK k : k = bs[b].class
    OBVIOUS
  <2>2. bs[b] \in BaseDef
    BY <1>3
  <2>3. k \in Nat
    BY <2>1, <2>2 DEF BaseDef
  <2>4. k \in 0 .. Len(classes)
    BY <2>1, <2>3, <1>4 DEF Known, TypeOK
  <2> QED BY <2>1, <2>4, TypeKept
<1>7. /\ d.fields = [i \in DOMAIN fs |-> TypeOfId(fs[i])]
      /\ d.bases = [b \in DOMAIN bs |-> [class |-> TypeOfId(bs[b].class), virt |-> bs[b].virt]]
  BY <1>1, <1>2 DEF Complete
<1>8. /\ d.fields = [i \in DOMAIN fs |-> TypeOfId(fs[i])']
      /\ d.bases = [b \in DOMAIN bs |-> [class |-> TypeOfId(bs[b].class)', virt |-> bs[b].virt]]
  BY <1>5, <1>6, <1>7
<1>9. classes'[id].fields = fs /\ classes'[id].bases = bs
      /\ program'.decl[classes'[id].usr] = d
  BY <1>1, <1>2 DEF Kept
<1> QED BY <1>8, <1>9 DEF Complete

(* The class without a body.                                                 *)
LEMMA EmptyType ==
  ASSUME NEW u \in Usr
  PROVE  /\ EmptyClass(u) \in Class /\ EmptyClass(u).usr = u
         /\ EmptyClass(u).fields = << >> /\ EmptyClass(u).bases = << >>
BY DEF EmptyClass, Class

(* One class more, the class of a record in the cache.                       *)
LEMMA ClassAdded ==
  ASSUME TypeOK, OneId, IdsKnown, program' = program, tu' = tu, NEW u \in Usr,
         ~IsSpec(u) => cache[u] = 0,
         NEW k, k = NewId,
         classes' = Append(classes, EmptyClass(u)), cache' = [cache EXCEPT ![u] = k]
  PROVE  /\ Kept /\ OneId' /\ IdsKnown'
         /\ classes' \in Seq(Class) /\ Len(classes') = k /\ k \in Nat \ {0}
         /\ k \notin ClassIds /\ ClassIds \subseteq 1 .. k
         /\ cache' \in [Usr -> 0 .. k] /\ cache'[u] = k
         /\ \A v \in Usr : v # u => cache'[v] = cache[v]
         /\ \A id \in ClassIds : classes'[id] = classes[id]
         /\ classes'[k].usr = u
<1>1. classes \in Seq(Class) /\ Len(classes) \in Nat /\ k = Len(classes) + 1
      /\ cache \in [Usr -> 0 .. Len(classes)] /\ ClassIds = 1 .. Len(classes)
  BY DEF TypeOK, NewId, ClassIds
<1>2. PICK e : e = EmptyClass(u)
  OBVIOUS
<1>3. e \in Class /\ e.usr = u /\ e.fields = << >> /\ e.bases = << >>
  BY <1>2, EmptyType
<1>4. classes' \in Seq(Class) /\ Len(classes') = k /\ classes'[k] = e
      /\ \A id \in 1 .. Len(classes) : classes'[id] = classes[id]
  BY <1>1, <1>2, <1>3
<1>5. cache' \in [Usr -> 0 .. k] /\ cache'[u] = k
      /\ \A v \in Usr : v # u => cache'[v] = cache[v]
  BY <1>1
<1>6. Kept
  BY <1>1, <1>4 DEF Kept
<1>7. ClassIds' = 1 .. k /\ \A v : IsSpec(v)' <=> IsSpec(v)
  BY <1>4 DEF ClassIds, IsSpec
<1>8. OneId'
  <2>1. ASSUME NEW v \in Usr, cache'[v] # 0 PROVE classes'[cache'[v]].usr = v
    <3>1. CASE v = u
      BY <3>1, <1>3, <1>4, <1>5
    <3>2. CASE v # u
      <4>1. cache'[v] = cache[v] /\ cache[v] \in 1 .. Len(classes)
        BY <3>2, <2>1, <1>1, <1>5
      <4> QED BY <4>1, <1>4 DEF OneId
    <3> QED BY <3>1, <3>2
  <2>2. ASSUME NEW id \in 1 .. k, ~IsSpec(classes'[id].usr)
        PROVE  cache'[classes'[id].usr] = id
    <3>1. CASE id = k
      BY <3>1, <1>3, <1>4, <1>5
    <3>2. CASE id \in 1 .. Len(classes)
      <4>1. PICK v : v = classes[id].usr
        OBVIOUS
      <4>2. v \in Usr /\ classes'[id].usr = v
        BY <4>1, <3>2, <1>1, <1>4, ClassType
      <4>3. cache[v] = id
        BY <4>1, <4>2, <2>2, <3>2, <1>1 DEF OneId
      <4>4. v # u
        BY <4>2, <4>3, <2>2, <3>2, <1>1
      <4> QED BY <4>2, <4>3, <4>4, <1>5
    <3> QED BY <3>1, <3>2, <1>1
  <2> QED BY <2>1, <2>2, <1>7 DEF OneId
<1>9. IdsKnown'
  <2> SUFFICES ASSUME NEW id \in 1 .. k
               PROVE  Known(classes[id].fields, classes[id].bases)'
    BY <1>7 DEF IdsKnown
  <2>1. CASE id = k
    BY <2>1, <1>3, <1>4 DEF Known
  <2>2. CASE id \in 1 .. Len(classes)
    <3>1. PICK fs, bs : fs = classes[id].fields /\ bs = classes[id].bases
      OBVIOUS
    <3>2. Known(fs, bs) /\ fs \in Seq(Nat) /\ bs \in Seq(BaseDef)
      BY <3>1, <2>2, <1>1, ClassType DEF IdsKnown
    <3>3. \A i \in DOMAIN fs : fs[i] <= k
      BY <3>2, <1>1 DEF Known
    <3>4. \A b \in DOMAIN bs : bs[b].class <= k
      <4>1. \A b \in DOMAIN bs : bs[b] \in BaseDef
        BY <3>2
      <4>2. \A b \in DOMAIN bs : bs[b].class \in Nat
        BY <4>1 DEF BaseDef
      <4> QED BY <4>2, <3>2, <1>1 DEF Known
    <3> QED BY <3>1, <3>3, <3>4, <2>2, <1>4 DEF Known
  <2> QED BY <2>1, <2>2, <1>1
<1>10. classes'[k].usr = u /\ k \in Nat \ {0} /\ k \notin ClassIds /\ ClassIds \subseteq 1 .. k
  BY <1>1, <1>3, <1>4
<1> QED BY <1>1, <1>4, <1>5, <1>6, <1>8, <1>9, <1>10

(* Every activation waits, so none depends on the cache.                     *)
LEMMA StackWaits ==
  ASSUME TypeOK, TypeOK', StackOK, Kept, UNCHANGED stack,
         stack # << >> => Top.todo # << >>
  PROVE  Activations'
<1>1. stack \in Seq(Frames) /\ DOMAIN stack = 1 .. Len(stack) /\ Len(stack) \in Nat
  BY DEF TypeOK
<1>2. \A i \in DOMAIN stack' : FrameOK(stack[i])'
  <2> TAKE i \in DOMAIN stack'
  <2>1. PICK f : f = stack[i]
    OBVIOUS
  <2>2. CASE i = Len(stack)
    <3>1. f \in Frames /\ f.todo # << >> /\ FrameOK(f)
      BY <2>1, <2>2, <1>1 DEF StackOK, Activations, Top, Last
    <3>2. FrameOK(f)'
      BY <3>1, FrameKept
    <3> QED BY <2>1, <3>2
  <2>3. CASE i # Len(stack)
    <3>1. f \in Frames /\ f.todo # << >> /\ FrameOK(f)
      BY <2>1, <2>3, <1>1, BelowTop
    <3>2. FrameOK(f)'
      BY <3>1, FrameKept
    <3> QED BY <2>1, <3>2
  <2> QED BY <2>2, <2>3
<1> QED BY <1>2 DEF StackOK, Activations, Wanted
-----------------------------------------------------------------------------
(* poison_class. *)

(* The class poison_class adds.                                              *)
LEMMA PoisonType ==
  ASSUME TypeOK, OneId, IdsKnown, UNCHANGED <<program, cursor>>,
         call' \in Usr \union {NoUsr}, stack' \in Seq(Frames),
         NEW u \in Usr, PoisonNew(u), ~IsSpec(u) => cache[u] = 0
  PROVE  /\ TypeOK' /\ Kept /\ OneId' /\ IdsKnown'
         /\ Answers(ret, u)'
<1>1. PICK k : k = NewId
  OBVIOUS
<1>2. /\ classes' = Append(classes, EmptyClass(u)) /\ cache' = [cache EXCEPT ![u] = k]
      /\ poisoned' = poisoned \union {k} /\ ret' = Ok(k)
      /\ program' = program /\ tu' = tu /\ phase' = phase /\ pos' = pos /\ mem' = mem
  BY <1>1 DEF PoisonNew, cursor
<1>3. /\ Kept /\ OneId' /\ IdsKnown'
      /\ classes' \in Seq(Class) /\ Len(classes') = k /\ k \in Nat \ {0}
      /\ ClassIds \subseteq 1 .. k /\ cache' \in [Usr -> 0 .. k]
      /\ classes'[k].usr = u
  BY <1>1, <1>2, ClassAdded
<1>4. /\ ret' \in [kind : {"none", "ok", "err"}, id : 0 .. k]
      /\ ret'.kind = "ok" /\ ret'.id = k
  BY <1>2, <1>3 DEF Ok
<1>5. TypeOK'
  BY <1>2, <1>3, <1>4 DEF TypeOK, ClassIds
<1>6. Answers(ret, u)'
  BY <1>3, <1>4 DEF Answers, TypeOfId
<1> QED BY <1>3, <1>5, <1>6

(* It keeps the invariant.                                                   *)
LEMMA PoisonNewKeeps ==
  ASSUME IInv, TypeOK', StackOK', UNCHANGED <<program, cursor>>,
         NEW u \in Usr, PoisonNew(u), ~IsSpec(u) => cache[u] = 0,
         Good(u) => ~Healthy(cache[u]),
         \A i \in DOMAIN stack' :
           /\ i \in DOMAIN stack /\ stack'[i] = stack[i]
           /\ stack[i].stage # "attach" => ~(Good(u) /\ stack[i].usr = u),
         \A id : InHand(id) => InHand(id)',
         \A v \in Usr : Good(v) /\ Defined(v) /\ UnderWay(v) => UnderWay(v)'
  PROVE  IInv'
<1> USE DEF IInv
<1>1. PICK k : k = NewId
  OBVIOUS
<1>2. /\ classes' = Append(classes, EmptyClass(u)) /\ cache' = [cache EXCEPT ![u] = k]
      /\ poisoned' = poisoned \union {k}
      /\ program' = program /\ tu' = tu
  BY <1>1 DEF PoisonNew, cursor
<1>3. /\ Kept /\ OneId' /\ IdsKnown'
      /\ k \notin ClassIds /\ cache'[u] = k
      /\ \A v \in Usr : v # u => cache'[v] = cache[v]
      /\ \A id \in ClassIds : classes'[id] = classes[id]
  BY <1>1, <1>2, ClassAdded
<1>4. \A v \in Usr : cache[v] # 0 => cache[v] \in ClassIds
  BY DEF TypeOK, ClassIds
<1>5. \A v \in Usr : Healthy(cache[v])' <=> v # u /\ Healthy(cache[v])
  BY <1>2, <1>3, <1>4 DEF Healthy
<1>6. \A v : Good(v)' <=> Good(v)
  BY <1>2 DEF Good, Supported, Deps
<1>7. Built'
  <2> SUFFICES ASSUME NEW v \in Usr, Good(v), v # u, Healthy(cache[v])
               PROVE  Complete(cache[v])' \/ InHand(cache[v])'
    BY <1>5, <1>6 DEF Built
  <2>1. PICK id : id = cache[v]
    OBVIOUS
  <2>2. id \in ClassIds /\ cache'[v] = id /\ classes'[id] = classes[id]
    BY <2>1, <1>3, <1>4 DEF Healthy
  <2>3. Complete(id) \/ InHand(id)
    BY <2>1 DEF Built
  <2>4. Complete(id) => Complete(id)'
    BY <2>2, <1>3, CompleteKept
  <2> QED BY <2>1, <2>2, <2>3, <2>4
<1>8. Registered'
  <2> SUFFICES ASSUME NEW i \in DOMAIN stack' PROVE Registers(stack[i])'
    BY DEF Registered
  <2>1. PICK f : f = stack[i] /\ f = stack'[i]
    OBVIOUS
  <2>2. f \in Frames /\ Registers(f)
    BY <2>1 DEF Registered, TypeOK
  <2>3. f.stage # "attach" => ~(Good(u) /\ f.usr = u)
    BY <2>1
  <2>4. f.usr \in Usr
    BY <2>2, FrameType
  <2>5. f.usr # u => cache'[f.usr] = cache[f.usr] /\ (Healthy(cache[f.usr])' <=> Healthy(cache[f.usr]))
    BY <2>4, <1>3, <1>5
  <2>6. Registers(f)'
    BY <2>2, <2>3, <2>5, <1>6 DEF Registers
  <2> QED BY <2>1, <2>6
<1>9. Imported'
  BY <1>5, ImportedKept
<1> QED BY <1>3, <1>7, <1>8, <1>9

(* A record of a system header, or one this header only declares.            *)
LEMMA ReturnOpaqueKeeps == ASSUME IInv, ReturnOpaque PROVE IInv'
<1> USE DEF IInv
<1>1. PICK u : u = call
  OBVIOUS
<1>2. /\ call # NoUsr /\ ~Healthy(cache[u]) /\ (program.decl[u].system \/ ~Defined(u))
      /\ call' = NoUsr /\ UNCHANGED <<program, cursor, stack>>
      /\ UNCHANGED <<program, cursor>>
  BY <1>1 DEF ReturnOpaque
<1>3. u \in Usr
  BY <1>1, <1>2 DEF TypeOK
<1>4. ~(Good(u) /\ Defined(u))
  BY <1>2 DEF Good
<1>5. CASE cache[u] \in poisoned
  <2>1. ret' = Ok(cache[u]) /\ UNCHANGED ctxVars /\ UNCHANGED <<program, ctxVars, cursor, stack>>
    BY <1>1, <1>2, <1>5 DEF ReturnOpaque
  <2>2. cache[u] # 0
    BY <1>5 DEF TypeOK, ClassIds
  <2> QED BY <2>1, <2>2, <1>1, <1>2, <1>4, CachedKeeps
<1>6. CASE cache[u] \notin poisoned
  <2>1. PoisonNew(u) /\ cache[u] = 0
    BY <1>1, <1>2, <1>6 DEF ReturnOpaque, Healthy
  <2>2. stack' = stack /\ stack' \in Seq(Frames)
    BY <1>2 DEF TypeOK
  <2>3. TypeOK' /\ Kept /\ Answers(ret, u)'
    BY <2>1, <2>2, <1>2, <1>3, PoisonType
  <2>4. stack # << >> => Top.todo # << >> /\ Wanted(Top) = u
    BY <1>1, <1>2 DEF StackOK, Pending
  <2>5. Activations'
    BY <2>2, <2>3, <2>4, StackWaits
  <2>6. phase' \in {"walk", "attach"}
    BY <1>2 DEF StackOK, Pending, Idle, TypeOK, cursor
  <2>7. stack # << >> => Answers(ret, Wanted(Top))'
    BY <2>2, <2>3, <2>4 DEF Answers, Wanted, Top
  <2>8. StackOK'
    BY <2>2, <2>4, <2>5, <2>6, <2>7, <1>2 DEF StackOK, Pending, Top
  <2>9. ASSUME NEW i \in DOMAIN stack, stack[i].stage # "attach"
        PROVE  ~(Good(u) /\ stack[i].usr = u)
    BY <2>9, <1>4 DEF StackOK, Activations, FrameOK
  <2>10. \A v \in Usr : Good(v) /\ Defined(v) /\ UnderWay(v) => UnderWay(v)'
    BY <2>2, <1>1, <1>4 DEF UnderWay
  <2>11. \A id : InHand(id) => InHand(id)'
    BY <2>2 DEF InHand
  <2> QED BY <2>1, <2>2, <2>3, <2>8, <2>9, <2>10, <2>11, <1>2, <1>3, PoisonNewKeeps
<1> QED BY <1>5, <1>6

(* A template argument fails.                                                *)
LEMMA FailArgumentKeeps == ASSUME IInv, FailArgument PROVE IInv'
<1> USE DEF IInv
<1>1. PICK f : f = Top
  OBVIOUS
<1>2. /\ stack # << >> /\ call = NoUsr /\ ret = Err
      /\ Head(f.todo).part = "arg" /\ stack' = Front(stack)
      /\ UNCHANGED <<program, cursor>> /\ call' = NoUsr
  BY <1>1 DEF FailArgument, Resumed
<1>3. ~Supported(f.usr) /\ f.stage = "args" /\ f.todo # << >>
  BY <1>1, <1>2, NotSupported
<1>4. f \in Frames /\ FrameOK(f) /\ f.usr \in Usr
  BY <1>1, <1>2, <1>3, TopWants, FrameType
<1>5. ArgsFrame(f)
  BY <1>3, <1>4 DEF FrameOK
<1>6. CASE f.upgrade # 0
  <2>1. ret' = Ok(f.upgrade) /\ UNCHANGED ctxVars /\ UNCHANGED <<program, ctxVars, cursor>>
    BY <1>1, <1>2, <1>6 DEF FailArgument
  <2>2. f.upgrade \in 0 .. Len(classes) /\ classes[f.upgrade].usr = f.usr
    BY <1>5, <1>6 DEF ArgsFrame, ClassIds, TypeOK
  <2>3. ret' \in [kind : {"none", "ok", "err"}, id : 0 .. Len(classes)]
        /\ ret'.kind = "ok" /\ ret'.id = f.upgrade
    BY <2>1, <2>2, NoResult
  <2>4. Answers(ret, f.usr)'
    BY <2>1, <2>2, <2>3, <1>6 DEF Answers, TypeOfId, ctxVars
  <2> QED BY <2>1, <2>3, <2>4, <1>1, <1>2, <1>3, PoppedBad
<1>7. CASE f.upgrade = 0
  <2>1. PICK u : u = f.usr
    OBVIOUS
  <2>2. PoisonNew(u) /\ u \in Usr
    BY <2>1, <1>1, <1>4, <1>7 DEF FailArgument
  <2>3. IsSpec(u)
    BY <2>1, <1>3, <1>5 DEF ArgsFrame
  <2>4. PICK n : n = Len(stack)
    OBVIOUS
  <2>5. /\ n \in Nat \ {0} /\ DOMAIN stack = 1 .. n /\ stack \in Seq(Frames)
        /\ stack' \in Seq(Frames) /\ DOMAIN stack' = 1 .. n - 1
        /\ \A i \in 1 .. n - 1 : stack'[i] = stack[i]
        /\ Top = stack[n] /\ (n > 1 <=> stack' # << >>)
    BY <2>4, <1>2, PopShape
  <2>6. TypeOK' /\ Kept /\ Answers(ret, u)'
    BY <2>2, <2>3, <2>5, <1>2, PoisonType
  <2>7. StackOK'
    BY <2>1, <2>6, <1>1, <1>2, <1>3, Popped DEF cursor
  <2>8. ~Good(u)
    BY <2>1, <1>3 DEF Good
  <2>9. \A id : InHand(id) => InHand(id)'
    <3> SUFFICES ASSUME NEW id, NEW i \in 1 .. n, stack[i].stage = "body", stack[i].id = id
                 PROVE  InHand(id)'
      BY <2>5 DEF InHand
    <3>1. i # n
      BY <2>5, <1>1, <1>3
    <3>2. i \in DOMAIN stack' /\ stack'[i] = stack[i]
      BY <3>1, <2>5
    <3> QED BY <3>2 DEF InHand
  <2>10. ASSUME NEW v \in Usr, Good(v), UnderWay(v) PROVE UnderWay(v)'
    <3>1. v = stack[1].usr
      BY <2>10, <1>2 DEF UnderWay
    <3>2. n # 1
      BY <3>1, <2>1, <2>5, <2>8, <2>10, <1>1
    <3> QED BY <3>1, <3>2, <2>5 DEF UnderWay
  <2>11. \A i \in DOMAIN stack' : i \in DOMAIN stack /\ stack'[i] = stack[i]
    BY <2>5
  <2> QED BY <2>2, <2>3, <2>6, <2>7, <2>8, <2>9, <2>10, <2>11, <1>2, PoisonNewKeeps
<1> QED BY <1>6, <1>7
-----------------------------------------------------------------------------
(* The body of a class, before the first of its members. *)

(* One sequence of members after another.                                    *)
LEMMA Concat ==
  ASSUME NEW a \in Seq(Members), NEW b \in Seq(Members)
  PROVE  /\ a \o b \in Seq(Members) /\ Len(a \o b) = Len(a) + Len(b)
         /\ \A i \in 1 .. Len(a) : (a \o b)[i] = a[i]
         /\ \A i \in 1 .. Len(b) : (a \o b)[Len(a) + i] = b[i]
OBVIOUS

(* The body to lower: the fields, the bases, and last the methods.           *)
LEMMA BodyFresh ==
  ASSUME TypeOK, NEW u \in Usr, NEW d, d = program.decl[u]
  PROVE  /\ Body(u) \in Seq(Members)
         /\ Left(Body(u), d, 0, 0, Len(d.fields), Len(d.bases))
         /\ Len(d.methods) \in Nat /\ Len(d.methods) <= Len(Body(u))
         /\ \A i \in 1 .. Len(Body(u)) - Len(d.methods) : Body(u)[i].part # "method"
         /\ \A i \in 1 .. Len(d.methods) :
              Body(u)[Len(Body(u)) - Len(d.methods) + i] = MethodMember(u, i)
<1>1. /\ d.fields \in Seq(Type) /\ d.bases \in Seq([class : Usr, virt : BOOLEAN])
      /\ d.methods \in Seq(Method)
  BY DeclType
<1>2. PICK nf, nb : nf = Len(d.fields) /\ nb = Len(d.bases)
  OBVIOUS
<1>3. PICK s1 : s1 = [i \in DOMAIN d.fields |-> Member("field", i, <<d.fields[i]>>, FALSE)]
  OBVIOUS
<1>4. PICK s2 : s2 = [i \in DOMAIN d.bases |->
                        Member("base", i, <<d.bases[i].class>>, d.bases[i].virt)]
  OBVIOUS
<1>5. PICK s3 : s3 = Args(u, "subst")
  OBVIOUS
<1>6. PICK s4 : s4 = [m \in DOMAIN d.methods |-> MethodMember(u, m)]
  OBVIOUS
<1>7. s1 \in Seq(Members) /\ Len(s1) = nf /\ DOMAIN s1 = 1 .. nf
  <2>1. ASSUME NEW i \in DOMAIN d.fields PROVE s1[i] \in Members
    <3>1. d.fields[i] \in Type /\ i \in Nat
      BY <1>1
    <3>2. PICK x : x = d.fields[i]
      OBVIOUS
    <3>3. <<x>> \in Seq(Type) \ {<< >>}
      BY <3>1, <3>2
    <3>4. s1[i] = Member("field", i, <<x>>, FALSE)
      BY <3>2, <1>3
    <3> QED BY <3>1, <3>3, <3>4 DEF Member, Members
  <2>2. nf \in Nat /\ DOMAIN d.fields = 1 .. nf
    BY <1>1, <1>2
  <2>3. s1 \in [1 .. nf -> Members]
    BY <2>1, <2>2, <1>3
  <2> QED BY <2>2, <2>3
<1>8. s2 \in Seq(Members) /\ Len(s2) = nb /\ DOMAIN s2 = 1 .. nb
  <2>1. ASSUME NEW i \in DOMAIN d.bases PROVE s2[i] \in Members
    <3>0. PICK s, R : s = d.bases /\ R = [class : Usr, virt : BOOLEAN]
      OBVIOUS
    <3>6. s \in Seq(R) /\ i \in DOMAIN s
      BY <3>0, <1>1
    <3>7. s[i] \in R /\ i \in Nat
      BY ONLY <3>6
    <3>1. d.bases[i] \in [class : Usr, virt : BOOLEAN] /\ i \in Nat
      BY <3>0, <3>7
    <3>2. d.bases[i].class \in Type /\ d.bases[i].virt \in BOOLEAN
      BY <3>1 DEF Type
    <3>3. PICK x, y : x = d.bases[i].class /\ y = d.bases[i].virt
      OBVIOUS
    <3>4. <<x>> \in Seq(Type) \ {<< >>}
      BY <3>2, <3>3
    <3>5. s2[i] = Member("base", i, <<x>>, y)
      BY <3>3, <1>4
    <3> QED BY <3>1, <3>2, <3>3, <3>4, <3>5 DEF Member, Members
  <2>2. nb \in Nat /\ DOMAIN d.bases = 1 .. nb
    BY <1>1, <1>2
  <2>3. s2 \in [1 .. nb -> Members]
    BY <2>1, <2>2, <1>4
  <2> QED BY <2>2, <2>3
<1>9. s3 \in Seq(Members) /\ \A k \in 1 .. Len(s3) : s3[k].part = "subst"
  BY <1>5, ArgsMembers
<1>10. s4 \in Seq(Members) /\ \A k \in 1 .. Len(s4) : s4[k].part = "method"
  <2>1. ASSUME NEW m \in DOMAIN d.methods
        PROVE  s4[m] \in Members /\ s4[m].part = "method"
    <3>1. d.methods[m] \in Method /\ m \in Nat
      BY <1>1
    <3>2. d.methods[m].types \in Seq(Type) \ {<< >>} /\ d.methods[m].virtual \in BOOLEAN
      BY <3>1 DEF Method
    <3> QED BY <3>1, <3>2, <1>6 DEF MethodMember, Member, Members
  <2>2. PICK n \in Nat : DOMAIN d.methods = 1 .. n
    <3>1. Len(d.methods) \in Nat /\ DOMAIN d.methods = 1 .. Len(d.methods)
      BY <1>1
    <3> QED BY <3>1
  <2>3. s4 \in [1 .. n -> Members]
    BY <2>1, <2>2, <1>6
  <2>4. s4 \in Seq(Members) /\ Len(s4) = n
    BY <2>2, <2>3
  <2> QED BY <2>1, <2>2, <2>4
<1>11. PICK t12 : t12 = s1 \o s2
  OBVIOUS
<1>12. PICK t123 : t123 = t12 \o s3
  OBVIOUS
<1>13. PICK t : t = t123 \o s4
  OBVIOUS
<1>14. Body(u) = t
  BY <1>3, <1>4, <1>5, <1>6, <1>11, <1>12, <1>13 DEF Body
<1>15. /\ t12 \in Seq(Members) /\ Len(t12) = nf + nb /\ nf \in Nat /\ nb \in Nat
       /\ \A i \in 1 .. nf : t12[i] = s1[i]
       /\ \A i \in 1 .. nb : t12[nf + i] = s2[i]
  <2>1. nf \in Nat /\ nb \in Nat
    BY <1>7, <1>8
  <2>5. s1 \in Seq(Members) /\ s2 \in Seq(Members)
    BY <1>7, <1>8
  <2>2. t12 \in Seq(Members) /\ Len(t12) = Len(s1) + Len(s2)
    BY ONLY <2>5, <1>11
  <2>3. \A i \in 1 .. nf : t12[i] = s1[i]
    BY ONLY <1>7, <1>8, <1>11, Concat
  <2>4. \A i \in 1 .. nb : t12[nf + i] = s2[i]
    BY ONLY <1>7, <1>8, <1>11, Concat
  <2> QED BY <2>1, <2>2, <2>3, <2>4, <1>7, <1>8
<1>16. PICK n12, n3 : n12 = Len(t12) /\ n3 = Len(s3)
  OBVIOUS
<1>17. /\ t123 \in Seq(Members) /\ Len(t123) = n12 + n3 /\ n12 \in Nat /\ n3 \in Nat
       /\ \A i \in 1 .. n12 : t123[i] = t12[i]
       /\ \A i \in 1 .. n3 : t123[n12 + i] = s3[i]
  <2>1. n12 \in Nat /\ n3 \in Nat /\ t12 \in Seq(Members)
    BY <1>9, <1>15, <1>16
  <2>2. t123 \in Seq(Members) /\ Len(t123) = Len(t12) + Len(s3)
    BY ONLY <2>1, <1>9, <1>12
  <2>3. \A i \in 1 .. n12 : t123[i] = t12[i]
    BY ONLY <2>1, <1>9, <1>12, <1>16, Concat
  <2>4. \A i \in 1 .. n3 : t123[n12 + i] = s3[i]
    BY ONLY <2>1, <1>9, <1>12, <1>16, Concat
  <2> QED BY <2>1, <2>2, <2>3, <2>4, <1>16
<1>18. PICK n123, n4 : n123 = Len(t123) /\ n4 = Len(s4)
  OBVIOUS
<1>19. /\ t \in Seq(Members) /\ Len(t) = n123 + n4 /\ n123 \in Nat /\ n4 \in Nat
       /\ \A i \in 1 .. n123 : t[i] = t123[i]
       /\ \A i \in 1 .. n4 : t[n123 + i] = s4[i]
  <2>1. n123 \in Nat /\ n4 \in Nat /\ t123 \in Seq(Members)
    BY <1>10, <1>17, <1>18
  <2>2. t \in Seq(Members) /\ Len(t) = Len(t123) + Len(s4)
    BY ONLY <2>1, <1>10, <1>13
  <2>3. \A i \in 1 .. n123 : t[i] = t123[i]
    BY ONLY <2>1, <1>10, <1>13, <1>18, Concat
  <2>4. \A i \in 1 .. n4 : t[n123 + i] = s4[i]
    BY ONLY <2>1, <1>10, <1>13, <1>18, Concat
  <2> QED BY <2>1, <2>2, <2>3, <2>4, <1>18
<1>20. n12 = nf + nb /\ n123 = nf + nb + n3 /\ Len(t) = nf + nb + n3 + n4
  BY <1>15, <1>16, <1>17, <1>18, <1>19
<1>21. ASSUME NEW i \in 1 .. nf
       PROVE  t[i] = Member("field", 0 + i, <<d.fields[0 + i]>>, FALSE)
  <2>1. i \in 1 .. n12 /\ i \in 1 .. n123 /\ 0 + i = i
    BY <1>15, <1>17, <1>20
  <2>2. t[i] = s1[i]
    BY <2>1, <1>15, <1>17, <1>19
  <2>3. i \in DOMAIN d.fields
    BY <1>3, <1>7
  <2> QED BY <2>1, <2>2, <2>3, <1>3
<1>22. ASSUME NEW b \in 1 .. nb
       PROVE  t[nf + b] = Member("base", 0 + b, <<d.bases[0 + b].class>>, d.bases[0 + b].virt)
  <2>1. nf + b \in 1 .. n12 /\ nf + b \in 1 .. n123 /\ 0 + b = b
    BY <1>15, <1>17, <1>20
  <2>2. t[nf + b] = s2[b]
    BY <2>1, <1>15, <1>17, <1>19
  <2>3. b \in DOMAIN d.bases
    BY <1>4, <1>8
  <2> QED BY <2>1, <2>2, <2>3, <1>4
<1>23. ASSUME NEW k \in nf + nb + 1 .. Len(t) PROVE t[k].part \in {"subst", "method"}
  <2>1. CASE k <= n123
    <3>1. PICK j \in Nat : k = n12 + j /\ j \in 1 .. n3
      <4>1. k - n12 \in 1 .. n3 /\ k = n12 + (k - n12)
        BY <2>1, <1>15, <1>17, <1>20
      <4> QED BY <4>1
    <3>2. k \in 1 .. n123
      BY <2>1, <1>15, <1>19, <1>20
    <3>3. t[k] = s3[j]
      BY <3>1, <3>2, <1>17, <1>19
    <3> QED BY <3>1, <3>3, <1>9, <1>16
  <2>2. CASE k > n123
    <3>1. PICK j \in Nat : k = n123 + j /\ j \in 1 .. n4
      <4>1. k - n123 \in 1 .. n4 /\ k = n123 + (k - n123)
        BY <2>2, <1>15, <1>17, <1>19, <1>20
      <4> QED BY <4>1
    <3>2. t[k] = s4[j]
      BY <3>1, <1>19
    <3> QED BY <3>1, <3>2, <1>10, <1>18
  <2> QED BY <2>1, <2>2, <1>15, <1>19
<1>24. Left(t, d, 0, 0, nf, nb)
  <2>1. nf >= 0 /\ nb >= 0 /\ nf + nb <= Len(t)
    BY <1>15, <1>17, <1>19, <1>20
  <2> QED BY ONLY <2>1, <1>21, <1>22, <1>23 DEF Left
<1>25. n4 = Len(d.methods) /\ n123 = Len(t) - Len(d.methods) /\ Len(d.methods) <= Len(t)
  <2>1. DOMAIN s4 = 1 .. n4 /\ DOMAIN d.methods = 1 .. Len(d.methods) /\ Len(d.methods) \in Nat
    BY <1>1, <1>10, <1>18
  <2>2. n4 = Len(d.methods)
    BY <2>1, <1>6, <1>19
  <2> QED BY <2>2, <1>19
<1>26. ASSUME NEW i \in 1 .. n123 PROVE t[i].part # "method"
  <2>1. i \in Nat /\ n123 <= Len(t) /\ (i <= nf \/ i > nf)
    BY <1>19, <1>15
  <2>2. CASE i <= nf
    <3>1. i \in 1 .. nf
      BY <2>1, <2>2, <1>15
    <3>2. t[i] = Member("field", 0 + i, <<d.fields[0 + i]>>, FALSE)
      BY <3>1, <1>21
    <3> QED BY <3>2 DEF Member
  <2>3. CASE i > nf /\ i <= nf + nb
    <3>1. PICK b : b = i - nf
      OBVIOUS
    <3>2. b \in 1 .. nb /\ i = nf + b
      BY <2>1, <2>3, <3>1, <1>15
    <3>3. t[nf + b] = Member("base", 0 + b, <<d.bases[0 + b].class>>, d.bases[0 + b].virt)
      BY <3>2, <1>22
    <3> QED BY <3>2, <3>3 DEF Member
  <2>4. CASE i > nf + nb
    <3>1. PICK j : j = i - n12
      OBVIOUS
    <3>2. j \in 1 .. n3 /\ i = n12 + j
      BY <2>1, <2>4, <3>1, <1>15, <1>17, <1>20
    <3>3. t[i] = s3[j]
      BY <3>2, <1>17, <1>19
    <3> QED BY <3>2, <3>3, <1>9, <1>16
  <2> QED BY <2>1, <2>2, <2>3, <2>4, <1>15
<1>27. ASSUME NEW i \in 1 .. n4 PROVE t[n123 + i] = MethodMember(u, i)
  <2>1. t[n123 + i] = s4[i]
    BY <1>19
  <2>2. i \in DOMAIN d.methods
    BY <1>1, <1>25
  <2> QED BY <2>1, <2>2, <1>6
<1>28. /\ Len(d.methods) \in Nat /\ Len(d.methods) <= Len(t)
       /\ \A i \in 1 .. Len(t) - Len(d.methods) : t[i].part # "method"
       /\ \A i \in 1 .. Len(d.methods) : t[Len(t) - Len(d.methods) + i] = MethodMember(u, i)
  BY <1>19, <1>25, <1>26, <1>27
<1> QED BY <1>2, <1>14, <1>19, <1>24, <1>28
-----------------------------------------------------------------------------
(* A class is registered, its body still to come.                            *)

(* One class is overwritten by one of the same record.                       *)
LEMMA ClassChanged ==
  ASSUME TypeOK, OneId, IdsKnown, program' = program, tu' = tu, cache' = cache,
         NEW k \in ClassIds, NEW c \in Class, c.usr = classes[k].usr,
         Known(c.fields, c.bases), classes' = [classes EXCEPT ![k] = c]
  PROVE  /\ Kept /\ OneId' /\ IdsKnown'
         /\ classes' \in Seq(Class) /\ Len(classes') = Len(classes)
         /\ \A id \in ClassIds : id # k => classes'[id] = classes[id]
         /\ classes'[k] = c
<1>1. classes \in Seq(Class) /\ Len(classes) \in Nat /\ ClassIds = 1 .. Len(classes)
      /\ cache \in [Usr -> 0 .. Len(classes)]
  BY DEF TypeOK, ClassIds
<1>2. classes' \in Seq(Class) /\ Len(classes') = Len(classes) /\ classes'[k] = c
      /\ \A id \in 1 .. Len(classes) : id # k => classes'[id] = classes[id]
  BY <1>1
<1>3. ClassIds' = ClassIds /\ \A v : IsSpec(v)' <=> IsSpec(v)
  BY <1>1, <1>2 DEF ClassIds, IsSpec
<1>4. \A id \in ClassIds : classes'[id].usr = classes[id].usr
  BY <1>1, <1>2
<1>5. Kept
  BY <1>1, <1>2, <1>4 DEF Kept
<1>6. \A v \in Usr : cache[v] # 0 => cache[v] \in ClassIds
  BY <1>1
<1>7. OneId'
  <2>1. \A v \in Usr : cache'[v] # 0 => classes'[cache'[v]].usr = v
    BY <1>4, <1>6 DEF OneId
  <2>2. \A id \in ClassIds' : ~IsSpec(classes'[id].usr) => cache'[classes'[id].usr] = id
    BY <1>3, <1>4 DEF OneId
  <2> QED BY <2>1, <2>2, <1>3 DEF OneId
<1>8. IdsKnown'
  <2> SUFFICES ASSUME NEW id \in ClassIds
               PROVE  Known(classes[id].fields, classes[id].bases)'
    BY <1>3 DEF IdsKnown
  <2>1. CASE id = k
    BY <2>1, <1>2 DEF Known
  <2>2. CASE id # k
    <3>1. Known(classes[id].fields, classes[id].bases)
      BY DEF IdsKnown
    <3> QED BY <3>1, <2>2, <1>1, <1>2 DEF Known
  <2> QED BY <2>1, <2>2
<1> QED BY <1>1, <1>2, <1>5, <1>7, <1>8

(* The frame RegisterClass goes on with.                                     *)
LEMMA FreshBody ==
  ASSUME TypeOK, TypeOK', Kept, NEW u \in Usr, NEW k \in ClassIds', classes'[k].usr = u,
         NEW up \in {0, k}, Defined(u), ~program.decl[u].system,
         NEW g, g = Frame("body", u, k, up, Body(u))
  PROVE  g \in Frames /\ FrameOK(g)'
<1>1. PICK d : d = program.decl[u]
  OBVIOUS
<1>2. Body(u) \in Seq(Members) /\ Left(Body(u), d, 0, 0, Len(d.fields), Len(d.bases))
  BY <1>1, BodyFresh
<1>3. k \in Nat /\ up \in Nat
  BY DEF TypeOK, ClassIds
<1>4. /\ g.stage = "body" /\ g.usr = u /\ g.id = k /\ g.upgrade = up /\ g.todo = Body(u)
      /\ g.got = << >> /\ g.fields = << >> /\ g.bases = << >>
  BY DEF Frame
<1>5. g \in Frames
  BY <1>2, <1>3 DEF Frame, Frames
<1>6. BodySoFar(g)
  <2>1. PICK F, B : F = Len(g.fields) /\ B = Len(g.bases)
    OBVIOUS
  <2>2. F = 0 /\ B = 0
    BY <2>1, <1>4
  <2>3. PICK nf, nb : nf = Len(d.fields) - F /\ nb = Len(d.bases) - B
    OBVIOUS
  <2>4. nf = Len(d.fields) /\ nb = Len(d.bases)
    <3>1. d.fields \in Seq(Type) /\ d.bases \in Seq([class : Usr, virt : BOOLEAN])
      BY <1>1, DeclType
    <3>2. Len(d.fields) \in Nat
      BY <3>1
    <3>3. Len(d.bases) \in Nat
      BY <3>1
    <3> QED BY <2>2, <2>3, <3>2, <3>3
  <2>5. Left(g.todo, d, F, B, nf, nb)
    BY <1>2, <1>4, <2>2, <2>4
  <2>6. Have(g, d, F, B)
    BY <2>2 DEF Have
  <2> QED BY <2>1, <2>3, <2>5, <2>6, <1>1, <1>4, <1>5, BodyParts
<1>7. Known(g.fields, g.bases) /\ Known(g.fields, g.bases)'
  BY <1>4 DEF Known
<1>8. BodySoFar(g)'
  BY <1>5, <1>6, <1>7, BodyKept
<1>9. BodyFrame(g)'
  BY <1>4, <1>8 DEF BodyFrame
<1>10. g.todo # << >> => Len(g.got) < Len(Head(g.todo).types)
  BY <1>4, <1>5, Room
<1>11. (Defined(u) /\ ~program.decl[u].system)'
  BY DEF Defined, Kept
<1> QED BY <1>4, <1>5, <1>7, <1>9, <1>10, <1>11 DEF FrameOK
LEMMA RegisterCtx ==
  ASSUME TypeOK, OneId, IdsKnown, StackOK, RegisterClass, NEW f, f = Top, NEW u, u = f.usr,
         NEW k, k = IF f.upgrade # 0 THEN f.upgrade ELSE NewId
  PROVE  /\ f \in Frames /\ u \in Usr /\ f.stage = "args"
         /\ Defined(u) /\ ~program.decl[u].system
         /\ Kept /\ OneId' /\ IdsKnown'
         /\ classes' \in Seq(Class) /\ k \in 1 .. Len(classes')
         /\ cache' \in [Usr -> 0 .. Len(classes')]
         /\ poisoned' = poisoned /\ poisoned \subseteq 1 .. Len(classes')
         /\ classes'[k].usr = u
         /\ \A id \in ClassIds : id # k => classes'[id] = classes[id]
         /\ \A v \in Usr : v # u => cache'[v] = cache[v]
         /\ f.upgrade # 0 => cache' = cache /\ k = f.upgrade
         /\ f.upgrade = 0 => cache'[u] = k /\ k \notin ClassIds
<1>1. /\ stack # << >> /\ f.stage = "args" /\ f.todo = << >>
      /\ IF f.upgrade # 0
         THEN classes' = [classes EXCEPT ![k] = EmptyClass(u)] /\ cache' = cache
         ELSE /\ classes' = Append(classes, EmptyClass(u))
              /\ cache' = [cache EXCEPT ![u] = k]
      /\ program' = program /\ poisoned' = poisoned /\ tu' = tu
  BY DEF RegisterClass, cursor
<1>2. f \in Frames /\ FrameOK(f)
  BY <1>1, TopType DEF StackOK, Activations
<1>3. u \in Usr /\ f.upgrade \in Nat
  BY <1>2, FrameType
<1>4. Defined(u) /\ ~program.decl[u].system /\ ArgsFrame(f)
  BY <1>1, <1>2 DEF FrameOK
<1>5. /\ classes \in Seq(Class) /\ Len(classes) \in Nat /\ ClassIds = 1 .. Len(classes)
      /\ cache \in [Usr -> 0 .. Len(classes)] /\ poisoned \subseteq 1 .. Len(classes)
  BY DEF TypeOK, ClassIds
<1>6. CASE f.upgrade # 0
  <2>1. k = f.upgrade /\ k \in ClassIds /\ classes[k].usr = u
    BY <1>4, <1>6 DEF ArgsFrame
  <2>2. classes' = [classes EXCEPT ![k] = EmptyClass(u)] /\ cache' = cache
    BY <1>1, <1>6
  <2>3. /\ Kept /\ OneId' /\ IdsKnown'
        /\ classes' \in Seq(Class) /\ Len(classes') = Len(classes)
        /\ \A id \in ClassIds : id # k => classes'[id] = classes[id]
        /\ classes'[k].usr = u
    <3>1. PICK e : e = EmptyClass(u)
      OBVIOUS
    <3>2. e \in Class /\ e.usr = classes[k].usr /\ Known(e.fields, e.bases)
      BY <3>1, <2>1, <1>3, EmptyType DEF Known
    <3> QED BY <3>1, <3>2, <2>1, <2>2, <1>1, <1>3, EmptyType, ClassChanged
  <2> QED BY <2>1, <2>2, <2>3, <1>1, <1>2, <1>3, <1>4, <1>5, <1>6
<1>7. CASE f.upgrade = 0
  <2>1. k = NewId /\ (~IsSpec(u) => cache[u] = 0)
    BY <1>4, <1>7 DEF ArgsFrame
  <2>2. classes' = Append(classes, EmptyClass(u)) /\ cache' = [cache EXCEPT ![u] = k]
    BY <1>1, <1>7
  <2>3. /\ Kept /\ OneId' /\ IdsKnown'
        /\ classes' \in Seq(Class) /\ Len(classes') = k /\ k \in Nat \ {0}
        /\ k \notin ClassIds /\ ClassIds \subseteq 1 .. k
        /\ cache' \in [Usr -> 0 .. k] /\ cache'[u] = k
        /\ \A v \in Usr : v # u => cache'[v] = cache[v]
        /\ \A id \in ClassIds : classes'[id] = classes[id]
        /\ classes'[k].usr = u
    BY <2>1, <2>2, <1>1, <1>3, ClassAdded
  <2> QED BY <2>3, <1>1, <1>2, <1>3, <1>4, <1>5, <1>7
<1> QED BY <1>6, <1>7

(* The class is registered, or the poisoned one overwritten.                 *)
LEMMA RegisterClassKeeps == ASSUME IInv, RegisterClass PROVE IInv'
<1> USE DEF IInv
<1>1. PICK f : f = Top
  OBVIOUS
<1>2. PICK u : u = f.usr
  OBVIOUS
<1>3. PICK k : k = IF f.upgrade # 0 THEN f.upgrade ELSE NewId
  OBVIOUS
<1>4. /\ f \in Frames /\ u \in Usr /\ f.stage = "args"
      /\ Defined(u) /\ ~program.decl[u].system
      /\ Kept /\ OneId' /\ IdsKnown'
      /\ classes' \in Seq(Class) /\ k \in 1 .. Len(classes')
      /\ cache' \in [Usr -> 0 .. Len(classes')]
      /\ poisoned' = poisoned /\ poisoned \subseteq 1 .. Len(classes')
      /\ classes'[k].usr = u
      /\ \A id \in ClassIds : id # k => classes'[id] = classes[id]
      /\ \A v \in Usr : v # u => cache'[v] = cache[v]
      /\ f.upgrade # 0 => cache' = cache /\ k = f.upgrade
      /\ f.upgrade = 0 => cache'[u] = k /\ k \notin ClassIds
  BY <1>1, <1>2, <1>3, RegisterCtx
<1>5. PICK g : g = Frame("body", u, k, f.upgrade, Body(u))
  OBVIOUS
<1>6. /\ stack # << >> /\ call = NoUsr /\ ret = NoRet
      /\ IF SkipsBody(u) THEN stack' = Front(stack) /\ ret' = Ok(k)
         ELSE stack' = SetTop(g) /\ ret' = ret
      /\ program' = program /\ tu' = tu /\ phase' = phase /\ pos' = pos /\ mem' = mem
      /\ call' = NoUsr /\ UNCHANGED <<program, cursor>>
  BY <1>1, <1>2, <1>3, <1>5 DEF RegisterClass, cursor
<1>7. PICK n : n = Len(stack)
  OBVIOUS
<1>8. /\ stack \in Seq(Frames) /\ n \in Nat \ {0} /\ DOMAIN stack = 1 .. n /\ f = stack[n]
  BY <1>1, <1>6, <1>7, TopType DEF TypeOK
<1>9. g.stage = "body" /\ g.usr = u /\ g.id = k /\ g.upgrade = f.upgrade
  BY <1>5 DEF Frame
<1>10. g \in Frames
  <2>1. Body(u) \in Seq(Members) /\ k \in Nat /\ f.upgrade \in Nat
    <3>1. u \in Usr /\ k \in Nat
      BY <1>4
    <3>2. Body(u) \in Seq(Members)
      BY <3>1, BodyFresh
    <3> QED BY <3>1, <3>2, <1>4, FrameType
  <2> QED BY <2>1, <1>4, <1>5 DEF Frame, Frames
<1>11. /\ stack' \in Seq(Frames)
       /\ SkipsBody(u) => /\ DOMAIN stack' = 1 .. n - 1 /\ (n > 1 <=> stack' # << >>)
       /\ ~SkipsBody(u) => /\ DOMAIN stack' = 1 .. n /\ stack' # << >> /\ stack'[n] = g
       /\ \A i \in 1 .. n - 1 : stack'[i] = stack[i]
  <2>1. CASE SkipsBody(u)
    BY <2>1, <1>6, <1>7, PopShape
  <2>2. CASE ~SkipsBody(u)
    <3>1. stack' = [stack EXCEPT ![n] = g]
      BY <2>2, <1>6, <1>7 DEF SetTop
    <3>2. stack' \in Seq(Frames) /\ DOMAIN stack' = 1 .. n /\ stack'[n] = g
      BY ONLY <3>1, <1>7, <1>8, <1>10
    <3>3. \A i \in 1 .. n - 1 : stack'[i] = stack[i]
      BY ONLY <3>1, <1>7, <1>8
    <3>4. stack' # << >>
      BY <3>2, <1>8
    <3> QED BY <2>2, <3>2, <3>3, <3>4
  <2> QED BY <2>1, <2>2
<1>12. TypeOK'
  <2>1. ret' \in [kind : {"none", "ok", "err"}, id : 0 .. Len(classes')]
        /\ (ret'.kind # "ok" => ret'.id = 0)
    <3>1. Len(classes') \in Nat
      BY <1>4
    <3> QED BY <3>1, <1>4, <1>6 DEF Ok, NoRet
  <2> QED BY <2>1, <1>4, <1>6, <1>11 DEF TypeOK, ClassIds
<1>13. \A v : Good(v)' <=> Good(v)
  BY <1>6 DEF Good, Supported, Deps
<1>14. \A v \in Usr : cache[v] # 0 => cache[v] \in ClassIds
  BY DEF TypeOK, ClassIds
<1>15. f.upgrade = 0 => Healthy(cache[u])'
  BY <1>4 DEF Healthy, TypeOK
<1>16. \A v \in Usr : Healthy(cache[v]) => Healthy(cache[v])'
  BY <1>4, <1>15 DEF Healthy
<1>17. StackOK'
  <2>1. CASE SkipsBody(u)
    <3>1. ret'.kind = "ok" /\ ret'.id = k /\ k # 0
      BY <2>1, <1>4, <1>6 DEF Ok
    <3>2. Answers(ret, u)'
      BY <3>1, <1>4 DEF Answers, TypeOfId
    <3> QED BY <3>2, <2>1, <1>1, <1>2, <1>4, <1>6, <1>12, Popped
  <2>2. CASE ~SkipsBody(u)
    <3>1. k \in ClassIds' /\ f.upgrade \in {0, k}
      BY <1>4 DEF ClassIds
    <3>2. FrameOK(g)'
      BY <3>1, <1>4, <1>5, <1>12, FreshBody
    <3>3. phase \in {"walk", "attach"}
      BY <1>6 DEF StackOK, Pending, Idle, TypeOK
    <3> QED BY <3>2, <2>2, <1>1, <1>2, <1>4, <1>6, <1>9, <1>10, <1>12, Replaced DEF Idle
  <2> QED BY <2>1, <2>2
<1>18. Built'
  <2> SUFFICES ASSUME NEW v \in Usr, Good(v), Healthy(cache[v])'
               PROVE  Complete(cache[v])' \/ InHand(cache[v])'
    BY <1>13 DEF Built
  <2>1. PICK id : id = cache'[v]
    OBVIOUS
  <2>2. CASE id = k
    <3>1. u = v
      BY <2>1, <2>2, <1>4 DEF OneId, Healthy
    <3>2. ~SkipsBody(u)
      BY <3>1 DEF SkipsBody, Good
    <3> QED BY <3>2, <2>1, <2>2, <1>8, <1>9, <1>11 DEF InHand
  <2>3. CASE id # k
    <3>1. cache[v] = id
      BY <2>1, <2>3, <1>4, FrameType
    <3>2. Healthy(cache[v]) /\ id \in ClassIds
      BY <3>1, <2>1, <1>4, <1>14 DEF Healthy
    <3>3. Complete(id) \/ InHand(id)
      BY <3>1, <3>2 DEF Built
    <3>4. Complete(id) => Complete(id)'
      BY <2>3, <3>2, <1>4, <1>12, CompleteKept
    <3>5. InHand(id) => InHand(id)'
      <4> SUFFICES ASSUME NEW i \in 1 .. n, stack[i].stage = "body", stack[i].id = id
                   PROVE  InHand(id)'
        BY <1>8 DEF InHand
      <4>1. i # n
        BY <1>4, <1>8
      <4>2. i \in 1 .. n - 1
        BY <4>1, <1>8
      <4>3. i \in DOMAIN stack' /\ stack'[i] = stack[i]
        BY <4>2, <1>8, <1>11
      <4> QED BY <4>3 DEF InHand
    <3> QED BY <2>1, <3>3, <3>4, <3>5
  <2> QED BY <2>2, <2>3
<1>19. Registered'
  <2>1. ASSUME NEW h \in Frames, Registers(h) PROVE Registers(h)'
    <3>1. h.usr \in Usr
      BY FrameType
    <3>2. CASE h.usr # u \/ f.upgrade # 0
      BY <2>1, <3>1, <3>2, <1>4, <1>13, <1>16 DEF Registers
    <3>3. CASE h.usr = u /\ f.upgrade = 0
      BY <3>3, <1>15 DEF Registers
    <3> QED BY <3>2, <3>3
  <2>2. ~SkipsBody(u) => Registers(g)'
    <3>1. Registers(f)
      BY <1>8 DEF Registered
    <3> QED BY <3>1, <1>2, <1>4, <1>9, <1>13, <1>15, <1>16 DEF Registers
  <2> SUFFICES ASSUME NEW i \in DOMAIN stack' PROVE Registers(stack[i])'
    BY DEF Registered
  <2>3. CASE i = n
    <3>1. ~SkipsBody(u) /\ stack'[i] = g
      BY <2>3, <1>8, <1>11
    <3> QED BY <3>1, <2>2
  <2>4. CASE i # n
    <3>1. PICK h : h = stack[i]
      OBVIOUS
    <3>2. i \in 1 .. n - 1
      BY <2>4, <1>8, <1>11
    <3>3. h \in Frames /\ Registers(h) /\ h = stack'[i]
      BY <3>1, <3>2, <1>8, <1>11 DEF Registered
    <3> QED BY <3>3, <2>1
  <2> QED BY <2>3, <2>4
<1>20. Imported'
  <2>1. ASSUME NEW v \in Usr, Good(v), UnderWay(v) PROVE UnderWay(v)'
    <3>1. v = stack[1].usr
      BY <2>1, <1>6 DEF UnderWay
    <3>2. CASE n > 1
      BY <3>1, <3>2, <1>8, <1>11 DEF UnderWay
    <3>3. CASE n = 1
      <4>1. v = u /\ ~SkipsBody(u)
        BY <3>1, <3>3, <2>1, <1>2, <1>8 DEF SkipsBody, Good
      <4> QED BY <4>1, <3>3, <1>9, <1>11 DEF UnderWay
    <3> QED BY <3>2, <3>3, <1>8
  <2> QED BY <2>1, <1>6, <1>16, ImportedKept
<1> QED BY <1>4, <1>12, <1>17, <1>18, <1>19, <1>20
-----------------------------------------------------------------------------
(* A class is finished. *)

(* A body with nothing left is the whole body.                               *)
LEMMA WholeBody ==
  ASSUME TypeOK, TypeOK', Kept, NEW f \in Frames, BodySoFar(f)', f.todo = << >>, NEW k,
         classes'[k].usr = f.usr, classes'[k].fields = f.fields, classes'[k].bases = f.bases
  PROVE  Complete(k)'
<1>1. PICK d : d = program.decl[f.usr]
  OBVIOUS
<1>2. PICK fs, bs : fs = f.fields /\ bs = f.bases
  OBVIOUS
<1>3. fs \in Seq(Nat) /\ bs \in Seq(BaseDef)
  BY <1>2, FrameType
<1>4. d.fields \in Seq(Type) /\ d.bases \in Seq([class : Usr, virt : BOOLEAN])
  BY <1>1, FrameType, DeclType
<1>5. PICK R : R = [class : Usr, virt : BOOLEAN]
  OBVIOUS
<1>6. PICK n, m : n = Len(d.fields) /\ m = Len(d.bases)
  OBVIOUS
<1>7. n \in Nat /\ DOMAIN d.fields = 1 .. n /\ d.fields = [i \in 1 .. n |-> d.fields[i]]
  BY <1>4, <1>6
<1>8. /\ m \in Nat /\ DOMAIN d.bases = 1 .. m /\ d.bases = [b \in 1 .. m |-> d.bases[b]]
      /\ \A b \in 1 .. m : d.bases[b] \in R
  <2>1. PICK s : s = d.bases
    OBVIOUS
  <2>2. s \in Seq(R) /\ m = Len(s)
    BY <2>1, <1>4, <1>5, <1>6
  <2>3. m \in Nat /\ DOMAIN s = 1 .. m /\ s = [b \in 1 .. m |-> s[b]]
        /\ \A b \in 1 .. m : s[b] \in R
    BY ONLY <2>2
  <2> QED BY <2>1, <2>3
<1>9. program' = program
  BY DEF Kept
<1>10. /\ n - Len(fs) >= 0 /\ m - Len(bs) >= 0
       /\ (n - Len(fs)) + (m - Len(bs)) <= Len(f.todo)
       /\ \A i \in 1 .. Len(fs) : TypeOfId(fs[i])' = d.fields[i]
       /\ \A b \in 1 .. Len(bs) : /\ TypeOfId(bs[b].class)' = d.bases[b].class
                                   /\ bs[b].virt = d.bases[b].virt
  BY <1>1, <1>2, <1>6, <1>9 DEF BodySoFar
<1>11. Len(fs) \in Nat /\ DOMAIN fs = 1 .. Len(fs) /\ Len(bs) \in Nat /\ DOMAIN bs = 1 .. Len(bs)
       /\ Len(f.todo) = 0
  BY <1>3
<1>12. Len(fs) = n /\ Len(bs) = m
  <2>1. PICK x, y : x = Len(fs) /\ y = Len(bs)
    OBVIOUS
  <2>2. x \in Nat /\ y \in Nat /\ n \in Nat /\ m \in Nat
    BY <2>1, <1>7, <1>8, <1>11
  <2>3. n - x >= 0 /\ m - y >= 0 /\ (n - x) + (m - y) <= 0
    BY <2>1, <1>10, <1>11
  <2>4. x = n /\ y = m
    BY ONLY <2>2, <2>3
  <2> QED BY <2>1, <2>4
<1>13. d.fields = [i \in DOMAIN fs |-> TypeOfId(fs[i])']
  BY <1>7, <1>10, <1>11, <1>12
<1>14. ASSUME NEW b \in 1 .. m
       PROVE  d.bases[b] = [class |-> TypeOfId(bs[b].class)', virt |-> bs[b].virt]
  <2>1. PICK x : x = d.bases[b]
    OBVIOUS
  <2>2. x \in [class : Usr, virt : BOOLEAN]
    BY <2>1, <1>5, <1>8
  <2>3. x = [class |-> x.class, virt |-> x.virt]
    BY ONLY <2>2
  <2>4. TypeOfId(bs[b].class)' = x.class /\ bs[b].virt = x.virt
    BY <2>1, <1>10, <1>12
  <2> QED BY <2>1, <2>3, <2>4
<1>15. d.bases = [b \in DOMAIN bs |-> [class |-> TypeOfId(bs[b].class)', virt |-> bs[b].virt]]
  BY <1>8, <1>11, <1>12, <1>14
<1> QED BY <1>1, <1>2, <1>9, <1>13, <1>15 DEF Complete

(* The body is assigned: the class is complete.                              *)
LEMMA FinishCtx ==
  ASSUME TypeOK, OneId, IdsKnown, StackOK, FinishClass, NEW f, f = Top, NEW k, k = f.id
  PROVE  /\ f \in Frames /\ f.stage = "body" /\ k \in ClassIds
         /\ f.upgrade \in {0, k} /\ classes[k].usr = f.usr
         /\ TypeOK' /\ Kept /\ OneId' /\ IdsKnown' /\ StackOK'
         /\ \A id \in ClassIds : id # k => classes'[id] = classes[id]
         /\ Complete(k)'
<1>1. /\ stack # << >> /\ call = NoUsr /\ f.stage = "body" /\ f.todo = << >>
      /\ classes' = [classes EXCEPT ![k] =
                      [@ EXCEPT !.bases = f.bases, !.fields = f.fields, !.methods = f.methods,
                                !.poly = Polymorphic(f.bases, f.methods)]]
      /\ poisoned' \subseteq poisoned
      /\ stack' = Front(stack) /\ ret' = Ok(k) /\ call' = NoUsr
      /\ program' = program /\ cache' = cache
      /\ tu' = tu /\ phase' = phase /\ pos' = pos /\ mem' = mem
  BY DEF FinishClass, cursor
<1>2. f \in Frames /\ FrameOK(f)
  BY <1>1, TopType DEF StackOK, Activations
<1>3. BodyFrame(f)
  BY <1>1, <1>2 DEF FrameOK
<1>4. k \in ClassIds /\ f.upgrade \in {0, k} /\ classes[k].usr = f.usr
  BY <1>3 DEF BodyFrame
<1>5. PICK p : p = Polymorphic(f.bases, f.methods)
  OBVIOUS
<1>6. p \in BOOLEAN
  BY <1>5 DEF Polymorphic
<1>7. PICK c : c = [classes[k] EXCEPT !.bases = f.bases, !.fields = f.fields,
                                      !.methods = f.methods, !.poly = p]
  OBVIOUS
<1>8. classes[k] \in Class
  BY <1>4, ClassType
<1>9. /\ c.usr = f.usr /\ c.bases = f.bases /\ c.fields = f.fields /\ c.methods = f.methods
      /\ c.poly = p
      /\ c = [usr |-> c.usr, bases |-> c.bases, fields |-> c.fields,
              methods |-> c.methods, poly |-> c.poly]
  BY <1>4, <1>7, <1>8 DEF Class
<1>10. c \in Class
  BY <1>2, <1>6, <1>9, FrameType DEF Class
<1>11. classes' = [classes EXCEPT ![k] = c]
  BY <1>1, <1>5, <1>7
<1>12. Known(c.fields, c.bases)
  BY <1>2, <1>9 DEF FrameOK
<1>13. /\ Kept /\ OneId' /\ IdsKnown'
       /\ classes' \in Seq(Class) /\ Len(classes') = Len(classes)
       /\ \A id \in ClassIds : id # k => classes'[id] = classes[id]
       /\ classes'[k] = c
  <2>1. c.usr = classes[k].usr /\ program' = program /\ tu' = tu /\ cache' = cache
    BY <1>1, <1>4, <1>9
  <2>2. k \in ClassIds
    BY <1>4
  <2> QED BY <2>1, <2>2, <1>10, <1>11, <1>12, ClassChanged
<1>14. TypeOK'
  <2>1. stack' \in Seq(Frames)
    <3>1. PICK n : n = Len(stack)
      OBVIOUS
    <3> QED BY <3>1, <1>1, PopShape
  <2>2. /\ ret' \in [kind : {"none", "ok", "err"}, id : 0 .. Len(classes')]
        /\ ret'.kind = "ok"
    BY <1>1, <1>4, <1>13 DEF Ok, ClassIds, TypeOK
  <2> QED BY <2>1, <2>2, <1>1, <1>13 DEF TypeOK, ClassIds
<1>15. StackOK'
  <2>1. ret'.kind = "ok" /\ ret'.id = k /\ k # 0
    BY <1>1, <1>4 DEF Ok, ClassIds
  <2>2. PICK u : u = f.usr
    OBVIOUS
  <2>3. Answers(ret, u)'
    BY <2>1, <2>2, <1>9, <1>13 DEF Answers, TypeOfId
  <2> QED BY <2>2, <2>3, <1>1, <1>13, <1>14, Popped
<1>16. Complete(k)'
  <2>1. BodySoFar(f)'
    BY <1>2, <1>3, <1>13, <1>14, BodyKept DEF BodyFrame, FrameOK
  <2> QED BY <2>1, <1>1, <1>2, <1>9, <1>13, <1>14, WholeBody
<1> QED BY <1>1, <1>2, <1>4, <1>13, <1>14, <1>15, <1>16

(* It stays in the cache, healthy.                                           *)
LEMMA FinishClassKeeps == ASSUME IInv, FinishClass PROVE IInv'
<1> USE DEF IInv
<1>1. PICK f : f = Top
  OBVIOUS
<1>2. PICK k : k = f.id
  OBVIOUS
<1>3. /\ f \in Frames /\ f.stage = "body" /\ k \in ClassIds
      /\ f.upgrade \in {0, k} /\ classes[k].usr = f.usr
      /\ TypeOK' /\ Kept /\ OneId' /\ IdsKnown' /\ StackOK'
      /\ \A id \in ClassIds : id # k => classes'[id] = classes[id]
      /\ Complete(k)'
  BY <1>1, <1>2, FinishCtx
<1>4. /\ stack # << >> /\ stack' = Front(stack) /\ program' = program /\ cache' = cache
      /\ poisoned' = IF f.upgrade # 0 THEN poisoned \ {k} ELSE poisoned
      /\ UNCHANGED <<program, cursor>>
  BY <1>1, <1>2 DEF FinishClass
<1>5. PICK n : n = Len(stack)
  OBVIOUS
<1>6. /\ n \in Nat \ {0} /\ DOMAIN stack = 1 .. n /\ stack \in Seq(Frames)
      /\ DOMAIN stack' = 1 .. n - 1 /\ f = stack[n] /\ (n > 1 <=> stack' # << >>)
      /\ \A i \in 1 .. n - 1 : stack'[i] = stack[i]
  BY <1>1, <1>4, <1>5, PopShape
<1>7. \A v : Good(v)' <=> Good(v)
  BY <1>4 DEF Good, Supported, Deps
<1>8. \A v \in Usr : Healthy(cache[v]) => Healthy(cache[v])'
  BY <1>4 DEF Healthy
<1>9. \A v \in Usr : cache[v] # 0 => cache[v] \in ClassIds
  BY DEF TypeOK, ClassIds
<1>10. Built'
  <2> SUFFICES ASSUME NEW v \in Usr, Good(v), Healthy(cache[v])'
               PROVE  Complete(cache[v])' \/ InHand(cache[v])'
    BY <1>7 DEF Built
  <2>1. PICK id : id = cache[v] /\ id = cache'[v]
    BY <1>4
  <2>2. CASE id = k
    BY <2>1, <2>2, <1>3
  <2>3. CASE id # k
    <3>1. Healthy(cache[v]) /\ id \in ClassIds
      BY <2>1, <2>3, <1>4, <1>9 DEF Healthy
    <3>2. Complete(id) \/ InHand(id)
      BY <2>1, <3>1 DEF Built
    <3>3. Complete(id) => Complete(id)'
      BY <2>3, <3>1, <1>3, CompleteKept
    <3>4. InHand(id) => InHand(id)'
      <4> SUFFICES ASSUME NEW i \in 1 .. n, stack[i].stage = "body", stack[i].id = id
                   PROVE  InHand(id)'
        BY <1>6 DEF InHand
      <4>1. i \in 1 .. n - 1
        BY <2>3, <1>2, <1>6
      <4>2. i \in DOMAIN stack' /\ stack'[i] = stack[i]
        BY <4>1, <1>6
      <4> QED BY <4>2 DEF InHand
    <3> QED BY <2>1, <3>2, <3>3, <3>4
  <2> QED BY <2>2, <2>3
<1>11. Registered'
  <2> SUFFICES ASSUME NEW i \in 1 .. n - 1 PROVE Registers(stack[i])'
    BY <1>6 DEF Registered
  <2>1. PICK h : h = stack[i]
    OBVIOUS
  <2>2. h \in Frames /\ Registers(h) /\ h = stack'[i]
    BY <2>1, <1>6 DEF Registered
  <2>3. Registers(h)'
    BY <2>2, <1>4, <1>7, <1>8, FrameType DEF Registers
  <2> QED BY <2>2, <2>3
<1>12. Imported'
  <2>1. ASSUME NEW v \in Usr, Good(v), UnderWay(v) PROVE Healthy(cache[v])' \/ UnderWay(v)'
    <3>1. v = stack[1].usr
      BY <2>1, <1>4 DEF UnderWay
    <3>2. CASE n > 1
      BY <3>1, <3>2, <1>6 DEF UnderWay
    <3>3. CASE n = 1
      <4>1. v = f.usr /\ Registers(f)
        BY <3>1, <3>3, <1>6 DEF Registered
      <4>2. Healthy(cache[v]) \/ (f.upgrade = k /\ f.upgrade # 0 /\ cache[v] = k)
        BY <4>1, <2>1, <1>3 DEF Registers
      <4> QED BY <4>2, <1>4, <1>8 DEF Healthy
    <3> QED BY <3>2, <3>3, <1>6
  <2> QED BY <2>1, <1>4, <1>8, ImportedKept
<1> QED BY <1>3, <1>10, <1>11, <1>12
-----------------------------------------------------------------------------
(* The second and third passes. *)

(* An activation of the second pass is alone, and only the last header ends  *)
(* the run.                                                                  *)
Passes ==
  /\ \A i \in DOMAIN stack : stack[i].stage = "attach" => phase = "attach"
  /\ phase = "done" => tu = Len(program.tus)

(* The second pass visits a method.                                          *)
LEMMA VisitMethodKeeps == ASSUME IInv, VisitMethod PROVE IInv'
<1> USE DEF IInv
<1>1. PICK u : u = ThisRecord
  OBVIOUS
<1>2. PICK g : g = Frame("attach", u, cache[u], 0, <<MethodMember(u, mem)>>)
  OBVIOUS
<1>3. /\ phase = "attach" /\ stack = << >> /\ call = NoUsr /\ ret = NoRet /\ pos <= Len(Records)
      /\ mem <= Len(program.decl[u].methods) /\ mem' = mem + 1
      /\ stack' = <<g>> /\ call' = NoUsr /\ ret' = NoRet
      /\ UNCHANGED <<program, ctxVars, tu>> /\ phase' = phase /\ pos' = pos
      /\ cache' = cache /\ poisoned' = poisoned /\ program' = program /\ tu' = tu
  BY <1>1, <1>2 DEF VisitMethod, AtRecord, Idle, MethodsLeft, ctxVars
<1>4. u \in Usr
  <2>1. Records \in Seq(Usr) /\ pos \in Nat \ {0}
    BY HeaderType DEF Records, TypeOK
  <2>2. pos \in DOMAIN Records
    BY <2>1, <1>3
  <2> QED BY <2>1, <2>2, <1>1 DEF ThisRecord
<1>5. MethodMember(u, mem) \in Members /\ MethodMember(u, mem).part = "method"
  <2>1. program.decl[u].methods \in Seq(Method) /\ mem \in Nat \ {0}
    BY <1>4, DeclType DEF TypeOK
  <2>2. program.decl[u].methods[mem] \in Method
    BY <2>1, <1>3
  <2> QED BY <2>1, <2>2 DEF MethodMember, Member, Members, Method
<1>6. /\ g.stage = "attach" /\ g.todo = <<MethodMember(u, mem)>> /\ g.got = << >>
      /\ g.fields = << >> /\ g.bases = << >>
  BY <1>2 DEF Frame
<1>7. g \in Frames
  <2>1. cache[u] \in Nat
    BY <1>4 DEF TypeOK
  <2> QED BY <2>1, <1>2, <1>4, <1>5 DEF Frame, Frames
<1>8. stack' \in Seq(Frames) /\ DOMAIN stack' = {1} /\ stack'[1] = g
  BY <1>3, <1>7
<1>9. TypeOK'
  <2>1. mem' \in Nat \ {0}
    BY <1>3 DEF TypeOK
  <2> QED BY <2>1, <1>3, <1>8, NoResult, TypeSame DEF TypeOK
<1>10. Kept /\ OneId' /\ IdsKnown'
  BY <1>3, CtxSame
<1>11. FrameOK(g)'
  <2>1. \A k \in DOMAIN g.todo : g.todo[k].part = "method"
    BY <1>5, <1>6
  <2>2. g.todo # << >> => Len(g.got) < Len(Head(g.todo).types)
    BY <1>6, <1>7, Room
  <2> QED BY <2>1, <2>2, <1>6 DEF FrameOK, AttachFrame, Known
<1>12. StackOK'
  BY <1>3, <1>8, <1>11 DEF StackOK, Activations, Pending
<1>13. Built'
  <2>1. \A id : ~InHand(id)
    BY <1>3 DEF InHand
  <2> QED BY <2>1, <1>3, CtxSame DEF Built
<1>14. Registered'
  BY <1>6, <1>8 DEF Registered, Registers
<1>15. Imported'
  <2>1. \A u1 : Good(u1)' <=> Good(u1)
    BY <1>3 DEF Good, Supported, Deps
  <2>2. \A i, k : Passed(i, k)' <=> Passed(i, k)
    BY <1>3 DEF Passed
  <2> QED BY <2>1, <2>2, <1>3 DEF Imported, Healthy
<1> QED BY <1>9, <1>10, <1>12, <1>13, <1>14, <1>15

(* Methods and is_polymorphic do not bear on what is complete.               *)
LEMMA TouchedKeeps ==
  ASSUME IInv, UNCHANGED <<program, cursor, poisoned, cache>>, phase # "walk",
         call' = NoUsr, ret' = NoRet, stack' = << >>, \A id : ~InHand(id),
         \/ classes' = classes
         \/ \E k \in ClassIds, c \in Class :
              /\ classes' = [classes EXCEPT ![k] = c] /\ c.usr = classes[k].usr
              /\ c.fields = classes[k].fields /\ c.bases = classes[k].bases
  PROVE  IInv'
<1> USE DEF IInv
<1>1. /\ program' = program /\ tu' = tu /\ phase' = phase /\ pos' = pos /\ mem' = mem
      /\ cache' = cache /\ poisoned' = poisoned /\ UNCHANGED <<program, cursor>>
  BY DEF cursor
<1>2. /\ Kept /\ OneId' /\ IdsKnown' /\ classes' \in Seq(Class) /\ Len(classes') = Len(classes)
      /\ \A id \in ClassIds : /\ classes'[id].fields = classes[id].fields
                              /\ classes'[id].bases = classes[id].bases
  <2>1. CASE classes' = classes
    BY <2>1, <1>1, CtxSame DEF ctxVars, TypeOK
  <2>2. CASE \E k \in ClassIds, c \in Class :
               /\ classes' = [classes EXCEPT ![k] = c] /\ c.usr = classes[k].usr
               /\ c.fields = classes[k].fields /\ c.bases = classes[k].bases
    <3>1. PICK k \in ClassIds, c \in Class :
               /\ classes' = [classes EXCEPT ![k] = c] /\ c.usr = classes[k].usr
               /\ c.fields = classes[k].fields /\ c.bases = classes[k].bases
      BY <2>2
    <3>2. Known(c.fields, c.bases)
      BY <3>1 DEF IdsKnown
    <3>3. /\ Kept /\ OneId' /\ IdsKnown' /\ classes' \in Seq(Class)
          /\ Len(classes') = Len(classes)
          /\ \A id \in ClassIds : id # k => classes'[id] = classes[id]
          /\ classes'[k] = c
      BY <3>1, <3>2, <1>1, ClassChanged
    <3> QED BY <3>1, <3>3
  <2> QED BY <2>1, <2>2
<1>3. TypeOK'
  <2>1. << >> \in Seq(Frames)
    OBVIOUS
  <2>2. Len(classes) \in Nat /\ ret' \in [kind : {"none", "ok", "err"}, id : 0 .. Len(classes)]
        /\ ret'.id = 0
    BY NoResult DEF TypeOK
  <2> QED BY <2>1, <2>2, <1>1, <1>2 DEF TypeOK, ClassIds
<1>4. StackOK'
  BY DEF StackOK, Activations, Pending, Idle
<1>5. Registered'
  BY DEF Registered
<1>6. \A v : Good(v)' <=> Good(v)
  BY <1>1 DEF Good, Supported, Deps
<1>7. Built'
  <2> SUFFICES ASSUME NEW v \in Usr, Good(v), Healthy(cache[v]) PROVE Complete(cache[v])'
    BY <1>1, <1>6 DEF Built, Healthy
  <2>1. PICK id : id = cache[v] /\ id = cache'[v]
    BY <1>1
  <2>2. id \in ClassIds
    BY <2>1 DEF Healthy, TypeOK, ClassIds
  <2>3. Complete(id)
    BY <2>1 DEF Built
  <2>4. Complete(id)'
    BY <2>2, <2>3, <1>2, <1>3, CompleteKept
  <2> QED BY <2>1, <2>4
<1>8. Imported'
  <2>1. \A i, k : Passed(i, k)' <=> Passed(i, k)
    BY <1>1 DEF Passed
  <2> QED BY <2>1, <1>1, <1>6 DEF Imported, Healthy
<1> QED BY <1>2, <1>3, <1>4, <1>5, <1>7, <1>8

(* It attaches it, to no effect on fields and bases.                         *)
LEMMA AttachMethodKeeps == ASSUME IInv, Passes, AttachMethod PROVE IInv'
<1> USE DEF IInv
<1>1. PICK f : f = Top
  OBVIOUS
<1>2. PICK k : k = f.id
  OBVIOUS
<1>3. PICK x : x = f.methods[1]
  OBVIOUS
<1>4. /\ stack # << >> /\ call = NoUsr /\ ret = NoRet /\ f.stage = "attach"
      /\ classes' = IF f.methods = << >> \/ Duplicate(k, x) THEN classes
                    ELSE [classes EXCEPT ![k].methods = Append(@, x)]
      /\ stack' = << >> /\ call' = NoUsr /\ ret' = NoRet
      /\ UNCHANGED <<program, cursor, poisoned, cache>>
  BY <1>1, <1>2, <1>3 DEF AttachMethod
<1>5. PICK n : n = Len(stack)
  OBVIOUS
<1>6. n \in Nat \ {0} /\ DOMAIN stack = 1 .. n /\ f = stack[n] /\ f \in Frames
  BY <1>1, <1>4, <1>5, TopType
<1>7. phase = "attach"
  BY <1>4, <1>6 DEF Passes
<1>8. n = 1
  BY <1>4, <1>6 DEF StackOK, Activations
<1>9. \A id : ~InHand(id)
  BY <1>4, <1>6, <1>8 DEF InHand
<1>10. CASE classes' = classes
  BY <1>4, <1>7, <1>9, <1>10, TouchedKeeps
<1>11. CASE classes' # classes
  <2>1. f.methods # << >> /\ classes' = [classes EXCEPT ![k].methods = Append(@, x)]
    BY <1>4, <1>11
  <2>2. classes \in Seq(Class) /\ ClassIds = DOMAIN classes
    BY DEF TypeOK, ClassIds
  <2>3. k \in ClassIds
    BY <2>1, <2>2, <1>11
  <2>4. x \in MethodDef
    <3>1. f.methods \in Seq(MethodDef)
      BY <1>6, FrameType
    <3> QED BY <3>1, <2>1, <1>3
  <2>5. PICK ms : ms = Append(classes[k].methods, x)
    OBVIOUS
  <2>6. classes[k] \in Class /\ classes[k].methods \in Seq(MethodDef)
    BY <2>3, ClassType
  <2>7. ms \in Seq(MethodDef)
    BY <2>4, <2>5, <2>6
  <2>8. PICK c : c = [classes[k] EXCEPT !.methods = ms]
    OBVIOUS
  <2>9. /\ c.usr = classes[k].usr /\ c.bases = classes[k].bases
        /\ c.fields = classes[k].fields /\ c.methods = ms /\ c.poly = classes[k].poly
        /\ c = [usr |-> c.usr, bases |-> c.bases, fields |-> c.fields,
                methods |-> c.methods, poly |-> c.poly]
    BY <2>6, <2>8 DEF Class
  <2>10. c \in Class
    BY <2>3, <2>7, <2>9, ClassType DEF Class
  <2>11. classes' = [classes EXCEPT ![k] = c]
    BY <2>1, <2>2, <2>3, <2>5, <2>8
  <2> QED BY <2>3, <2>9, <2>10, <2>11, <1>4, <1>7, <1>9, TouchedKeeps
<1> QED BY <1>10, <1>11

(* The third pass changes is_polymorphic only.                               *)
LEMMA RecomputeKeeps == ASSUME IInv, Recompute PROVE IInv'
<1> USE DEF IInv
<1>1. PICK u \in Usr : cache[u] # 0 /\ classes' = [classes EXCEPT ![cache[u]].poly = ~@]
  BY DEF Recompute
<1>2. /\ phase = "repoly" /\ UNCHANGED <<program, poisoned, cache, cursor, machine>>
      /\ UNCHANGED <<program, cursor, poisoned, cache>>
  BY DEF Recompute
<1>3. Idle
  BY <1>2 DEF StackOK, Pending
<1>4. stack' = << >> /\ call' = NoUsr /\ ret' = NoRet /\ \A id : ~InHand(id)
  BY <1>2, <1>3 DEF machine, Idle, InHand
<1>5. PICK k : k = cache[u]
  OBVIOUS
<1>6. k \in ClassIds /\ classes \in Seq(Class) /\ ClassIds = DOMAIN classes
  BY <1>1, <1>5 DEF TypeOK, ClassIds
<1>7. classes[k] \in Class /\ classes[k].poly \in BOOLEAN
  BY <1>6, ClassType
<1>8. PICK b : b = ~classes[k].poly
  OBVIOUS
<1>9. b \in BOOLEAN
  BY <1>8
<1>10. PICK c : c = [classes[k] EXCEPT !.poly = b]
  OBVIOUS
<1>11. /\ c.usr = classes[k].usr /\ c.bases = classes[k].bases
       /\ c.fields = classes[k].fields /\ c.methods = classes[k].methods /\ c.poly = b
       /\ c = [usr |-> c.usr, bases |-> c.bases, fields |-> c.fields,
               methods |-> c.methods, poly |-> c.poly]
  BY <1>7, <1>10 DEF Class
<1>12. c \in Class
  BY <1>6, <1>9, <1>11, ClassType DEF Class
<1>13. classes' = [classes EXCEPT ![k] = c]
  BY <1>1, <1>5, <1>6, <1>8, <1>10
<1> QED BY <1>2, <1>4, <1>6, <1>11, <1>12, <1>13, TouchedKeeps
-----------------------------------------------------------------------------
(* The invariant. *)

(* The passes follow one another.                                            *)
LEMMA PassesKeep == ASSUME IInv, Passes, [Next]_vars PROVE Passes'
<1> USE DEF IInv
<1>1. phase \notin {"walk", "attach"} => stack = << >>
  BY DEF StackOK, Pending, Idle
<1>2. tu \in DOMAIN program.tus /\ program.tus \in Seq(Header) /\ tu \in Nat
  BY HeaderType DEF TypeOK
<1>3. ASSUME UNCHANGED <<program, cursor>>, NEW n \in Nat, n = Len(stack),
             DOMAIN stack' \subseteq 1 .. n,
             \A i \in DOMAIN stack' : stack'[i].stage = "attach" => stack[i].stage = "attach"
      PROVE  Passes'
  <2>1. DOMAIN stack = 1 .. n
    BY <1>3 DEF TypeOK
  <2> QED BY <1>3, <2>1 DEF Passes, cursor
<1>4. PICK n : n = Len(stack)
  OBVIOUS
<1>5. n \in Nat /\ stack \in Seq(Frames) /\ DOMAIN stack = 1 .. n
  BY <1>4 DEF TypeOK
<1>6. ASSUME stack # << >>, NEW g, stack' = SetTop(g),
             g.stage = "attach" => Top.stage = "attach", UNCHANGED <<program, cursor>>
      PROVE  Passes'
  <2>1. stack' = [stack EXCEPT ![n] = g] /\ Top = stack[n] /\ n \in 1 .. n
    BY <1>4, <1>6, TopType DEF SetTop
  <2>2. DOMAIN stack' = 1 .. n
    BY <1>5, <2>1
  <2>3. ASSUME NEW i \in DOMAIN stack', stack'[i].stage = "attach"
        PROVE  stack[i].stage = "attach"
    <3>1. CASE i = n
      BY <3>1, <2>1, <2>3, <1>5, <1>6
    <3>2. CASE i # n
      BY <3>2, <2>1, <2>2, <2>3, <1>5
    <3> QED BY <3>1, <3>2
  <2> QED BY <1>3, <1>4, <1>5, <1>6, <2>2, <2>3
<1>7. ASSUME stack # << >>, stack' = Front(stack), UNCHANGED <<program, cursor>> PROVE Passes'
  <2>1. DOMAIN stack' = 1 .. n - 1 /\ \A i \in 1 .. n - 1 : stack'[i] = stack[i]
    BY <1>4, <1>7, PopShape
  <2> QED BY <1>3, <1>4, <1>5, <1>7, <2>1
<1>8. ASSUME UNCHANGED <<program, cursor, stack>> PROVE Passes'
  BY <1>8 DEF Passes, cursor
<1>9. ASSUME stack = << >>, stack' = << >>, UNCHANGED <<program, tu>>, phase' # "done" PROVE Passes'
  BY <1>9 DEF Passes
<1>10. CASE WalkRecord \/ WalkReturn \/ WalkDone \/ NextRecord \/ SkipMethod \/ AttachDone
  BY <1>9, <1>10 DEF WalkRecord, WalkReturn, WalkDone, NextRecord, SkipMethod, AttachDone,
                      AtRecord, Idle, machine
<1>11. CASE HeaderDone
  <2>1. stack' = << >> /\ program' = program
    BY <1>1, <1>11 DEF HeaderDone, machine
  <2>2. phase' = "done" => tu' = tu /\ tu = Len(program.tus)
    BY <1>2, <1>11 DEF HeaderDone
  <2> QED BY <2>1, <2>2 DEF Passes
<1>12. CASE ReturnCached \/ ReturnOpaque \/ ImportRecord \/ ImportLeaf
  BY <1>8, <1>12 DEF ReturnCached, ReturnOpaque, ImportRecord, ImportLeaf
<1>13. CASE EnterClass
  <2>1. PICK g : g = Frame("args", call, 0, UpgradeTarget(call), Args(call, "arg"))
    OBVIOUS
  <2>2. g.stage = "args" /\ stack' = Append(stack, g) /\ UNCHANGED <<program, cursor>>
    BY <2>1, <1>13 DEF EnterClass, Frame
  <2>3. ASSUME NEW i \in DOMAIN stack', stack'[i].stage = "attach"
        PROVE  i \in DOMAIN stack /\ stack[i].stage = "attach"
    BY <2>2, <2>3, <1>5
  <2> QED BY <2>2, <2>3 DEF Passes, cursor
<1>14. CASE RegisterClass
  <2>1. PICK u, k : u = Top.usr /\ k = IF Top.upgrade # 0 THEN Top.upgrade ELSE NewId
    OBVIOUS
  <2>2. PICK g : g = Frame("body", u, k, Top.upgrade, Body(u))
    OBVIOUS
  <2>3. /\ stack # << >> /\ UNCHANGED <<program, cursor>>
        /\ stack' = Front(stack) \/ stack' = SetTop(g)
    BY <2>1, <2>2, <1>14 DEF RegisterClass
  <2>4. g.stage = "body"
    BY <2>2 DEF Frame
  <2> QED BY <2>3, <2>4, <1>6, <1>7
<1>15. CASE SkipHidden \/ SkipMember
  <2>1. PICK g : g = [Top EXCEPT !.todo = Tail(@), !.got = << >>]
    OBVIOUS
  <2>2. stack # << >> /\ stack' = SetTop(g) /\ UNCHANGED <<program, cursor>>
    BY <2>1, <1>15 DEF SkipHidden, SkipMember, AtMember, Resumed
  <2>3. g.stage = Top.stage
    BY <2>1, <2>2, TopType DEF Frames
  <2> QED BY <2>2, <2>3, <1>6
<1>16. CASE TakeType
  <2>1. PICK g : g = [Top EXCEPT !.got = Append(@, ret.id)]
    OBVIOUS
  <2>2. stack # << >> /\ stack' = SetTop(g) /\ UNCHANGED <<program, cursor>>
    BY <2>1, <1>16 DEF TakeType, Resumed
  <2>3. g.stage = Top.stage
    BY <2>1, <2>2, TopType DEF Frames
  <2> QED BY <2>2, <2>3, <1>6
<1>17. CASE TakeMember
  <2>1. PICK x : x = Head(Top.todo)
    OBVIOUS
  <2>2. PICK g : g = [Top EXCEPT
          !.todo = Tail(@), !.got = << >>,
          !.fields = IF x.part = "field" THEN Append(@, ret.id) ELSE @,
          !.bases = IF x.part = "base" THEN Append(@, [class |-> ret.id, virt |-> x.flag]) ELSE @,
          !.methods = IF x.part = "method"
                      THEN Append(@, [n |-> x.n, virtual |-> x.flag, params |-> Top.got])
                      ELSE @]
    OBVIOUS
  <2>3. stack # << >> /\ stack' = SetTop(g) /\ UNCHANGED <<program, cursor>>
    BY <2>1, <2>2, <1>17 DEF TakeMember, Resumed
  <2>4. g.stage = Top.stage
    BY <2>2, <2>3, TopType DEF Frames
  <2> QED BY <2>3, <2>4, <1>6
<1>18. CASE FailArgument \/ FailBody \/ FinishClass
  BY <1>7, <1>18 DEF FailArgument, FailBody, FinishClass, Resumed
<1>19. CASE VisitMethod
  <2>1. phase = "attach" /\ phase' = phase /\ tu' = tu /\ program' = program
    BY <1>19 DEF VisitMethod, AtRecord
  <2> QED BY <2>1 DEF Passes
<1>20. CASE AttachMethod
  BY <1>3, <1>4, <1>5, <1>20 DEF AttachMethod
<1>21. CASE Recompute
  BY <1>8, <1>21 DEF Recompute, machine
<1>22. CASE UNCHANGED vars
  BY <1>8, <1>22 DEF vars, machine
<1> QED BY <1>10, <1>11, <1>12, <1>13, <1>14, <1>15, <1>16, <1>17, <1>18, <1>19, <1>20,
           <1>21, <1>22 DEF Next

(* At the beginning.                                                         *)
LEMMA InitHolds == Init => IInv /\ Passes
<1> SUFFICES ASSUME Init PROVE IInv /\ Passes
  OBVIOUS
<1>1. /\ program \in Programs /\ classes = << >> /\ poisoned = {} /\ cache = [u \in Usr |-> 0]
      /\ tu = 1 /\ phase = "walk" /\ pos = 1 /\ mem = 1
      /\ stack = << >> /\ call = NoUsr /\ ret = NoRet
  BY DEF Init
<1>2. program.tus \in Seq(Header) /\ program.tus # << >>
  BY <1>1, ProgramAssumption DEF WellFormed
<1>3. TypeOK
  <2>1. tu \in DOMAIN program.tus
    BY <1>1, <1>2
  <2>2. /\ classes \in Seq(Class) /\ Len(classes) = 0 /\ stack \in Seq(Frames)
        /\ cache \in [Usr -> 0 .. 0]
        /\ ret \in [kind : {"none", "ok", "err"}, id : 0 .. 0] /\ ret.id = 0
    BY <1>1 DEF NoRet
  <2> QED BY <1>1, <2>1, <2>2 DEF TypeOK, ClassIds
<1>4. OneId /\ IdsKnown
  BY <1>1 DEF OneId, IdsKnown, ClassIds
<1>5. StackOK
  BY <1>1 DEF StackOK, Activations, Pending
<1>6. Built /\ Registered
  BY <1>1 DEF Built, Registered, Healthy
<1>7. Imported
  <2> SUFFICES ASSUME NEW i \in DOMAIN program.tus,
                      NEW k \in DOMAIN program.tus[i].cursors
               PROVE  ~Passed(i, k)
    BY DEF Imported
  <2>1. i \in Nat \ {0}
    BY <1>2
  <2>2. k \in Nat \ {0}
    BY <1>3, HeaderType
  <2> QED BY <2>1, <2>2, <1>1 DEF Passed
<1>8. Passes
  BY <1>1 DEF Passes
<1> QED BY <1>3, <1>4, <1>5, <1>6, <1>7, <1>8 DEF IInv

(* When nothing happens.                                                     *)
LEMMA StutterKeeps == ASSUME IInv, UNCHANGED vars PROVE IInv'
<1>1. UNCHANGED <<program, ctxVars, cursor, stack>> /\ UNCHANGED <<call, ret>>
      /\ classes' = classes /\ phase' = phase
  BY DEF vars, machine, ctxVars, cursor
<1>2. TypeOK'
  BY <1>1, TypeSame DEF IInv, TypeOK, cursor
<1>3. Pending'
  BY <1>1 DEF IInv, StackOK, Pending, Idle, Top, Wanted, Answers, TypeOfId, CanImport,
              Supported, Deps
<1>4. \A u : UnderWay(u) => UnderWay(u)'
  BY <1>1 DEF UnderWay
<1> QED BY <1>1, <1>2, <1>3, <1>4, AskKeeps

(* Every step keeps the invariant.                                           *)
LEMMA NextKeeps == ASSUME IInv, Passes, [Next]_vars PROVE IInv'
BY WalkRecordKeeps, WalkReturnKeeps, BetweenKeeps, ReturnCachedKeeps, ReturnOpaqueKeeps,
   EnterClassKeeps, RegisterClassKeeps, SkipHiddenKeeps, ImportRecordKeeps, ImportLeafKeeps,
   TakeTypeKeeps, TakeMemberKeeps, SkipMemberKeeps, FailArgumentKeeps, FailBodyKeeps,
   FinishClassKeeps, VisitMethodKeeps, AttachMethodKeeps, RecomputeKeeps, HeaderDoneKeeps,
   StutterKeeps DEF Next

(* In every state of the importer (import.rs), the activations of            *)
(* import_class wait for one another, what the cache holds is a class of its *)
(* record, a healthy class is complete or is being completed, and a record   *)
(* the walk has passed is healthy.                                           *)
THEOREM ImporterInvariant == Spec => [](IInv /\ Passes)
<1>1. IInv /\ Passes /\ [Next]_vars => (IInv /\ Passes)'
  BY NextKeeps, PassesKeep
<1> QED BY <1>1, InitHolds, PTL DEF Spec

(* No record but a specialization is ever given a second ClassId: a forward  *)
(* declaration import_class poisoned is upgraded in place (import.rs,        *)
(* upgrade_id), so the ids earlier classes hold stay those of the record.    *)
THEOREM OneClassCorrect == Spec => []OneClassPerRecord
<1>1. IInv => OneClassPerRecord
  BY DEF IInv, OneId, OneClassPerRecord
<1> QED BY <1>1, ImporterInvariant, PTL

(* When parse_all has done its last header, every record a header defines at *)
(* namespace scope and the importer supports is healthy and complete: its    *)
(* class has the fields and the bases of its declaration, whichever class    *)
(* reached it first, through cycles and forward declarations.                *)
THEOREM ImportedCorrect == Spec => []DefinedIsImported
<1>1. ASSUME IInv, Passes PROVE DefinedIsImported
  <2> SUFFICES ASSUME phase = "done", NEW u \in Usr, Walked(u), Supported(u)
               PROVE  Healthy(cache[u]) /\ Complete(cache[u])
    BY DEF DefinedIsImported
  <2>1. Good(u)
    BY DEF Walked, Good
  <2>2. PICK i \in DOMAIN program.tus :
          \E k \in DOMAIN program.tus[i].cursors : program.tus[i].cursors[k] = u
    BY DEF Walked
  <2>9. PICK k \in DOMAIN program.tus[i].cursors : program.tus[i].cursors[k] = u
    BY <2>2
  <2>3. TypeOK /\ tu = Len(program.tus)
    BY <1>1 DEF IInv, Passes
  <2>4. i < tu \/ i = tu
    BY <2>3, HeaderType
  <2>5. Passed(i, k)
    BY <2>4 DEF Passed
  <2>6. Healthy(cache[u])
    BY <1>1, <2>1, <2>5, <2>9 DEF IInv, Imported
  <2>7. stack = << >>
    BY <1>1 DEF IInv, StackOK, Pending, Idle
  <2>8. Complete(cache[u])
    BY <1>1, <2>1, <2>6, <2>7 DEF IInv, Built, InHand
  <2> QED BY <2>6, <2>8
<1> QED BY <1>1, ImporterInvariant, PTL

(* A poisoned class stops being poisoned only in the step that assigns its   *)
(* whole body (import.rs, the end of import_class): no other record, and no  *)
(* later pass, ever sees it concrete and half built.                         *)
THEOREM UpgradeCorrect == Spec => UpgradeAtomic
<1>1. ASSUME IInv, [Next]_vars PROVE [\A id \in poisoned \ poisoned' : Complete(id)']_vars
  <2>1. ASSUME FinishClass, NEW id \in poisoned \ poisoned' PROVE Complete(id)'
    <3>1. PICK f : f = Top
      OBVIOUS
    <3>2. PICK k : k = f.id
      OBVIOUS
    <3>3. id = k
      BY <3>1, <3>2, <2>1 DEF FinishClass
    <3>4. Complete(k)'
      BY <3>1, <3>2, <1>1, <2>1, FinishCtx DEF IInv
    <3> QED BY <3>3, <3>4
  <2>2. FinishClass \/ poisoned \subseteq poisoned'
    BY <1>1 DEF Next, WalkRecord, WalkReturn, WalkDone, ReturnCached, ReturnOpaque, PoisonNew,
         EnterClass, RegisterClass, SkipHidden, ImportRecord, ImportLeaf, TakeType, TakeMember,
         SkipMember, FailArgument, FailBody, NextRecord, SkipMethod, VisitMethod, AttachMethod,
         AttachDone, Recompute, HeaderDone, vars, ctxVars
  <2> QED BY <2>1, <2>2
<1> QED BY <1>1, ImporterInvariant, PTL DEF Spec, UpgradeAtomic

-----------------------------------------------------------------------------
(* What is above a class.  Ancestors goes up as many times as there are      *)
(* classes: by then nothing new is found.                                    *)

Less == {ss \in Nat \X Nat : ss[1] < ss[2]}

(* Induction, for a property written as the set of numbers that have it.     *)
LEMMA Induct ==
  ASSUME NEW T, \A n \in Nat : (\A k \in Nat : k < n => k \in T) => n \in T
  PROVE  Nat \subseteq T
<1> SUFFICES ASSUME Nat \ T # {} PROVE FALSE
  OBVIOUS
<1>1. IsWellFoundedOn(Less, Nat)
  BY NatLessThanWellFounded DEF OpToRel, Less
<1>2. PICK x \in Nat \ T : \A y \in Nat \ T : ~ (<<y, x>> \in Less)
  BY <1>1, WFMin
<1>3. \A k \in Nat : k < x => k \in T
  BY <1>2 DEF Less
<1> QED BY <1>2, <1>3

IsUp(f, id, n) ==
  f = [m \in 0 .. n |-> IF m = 0 THEN BasesOf(id)
                        ELSE f[m - 1] \union UNION {BasesOf(a) : a \in f[m - 1]}]

(* The recursive function of Ancestors exists.                               *)
LEMMA UpExists ==
  ASSUME NEW id, NEW n \in Nat
  PROVE  \E f : IsUp(f, id, n)
<1> DEFINE T == {j \in Nat : \E f : IsUp(f, id, j)}
<1>1. ASSUME NEW j \in Nat, \A k \in Nat : k < j => k \in T PROVE j \in T
  <2>1. CASE j = 0
    <3>1. IsUp([m \in 0 .. 0 |-> BasesOf(id)], id, 0)
      BY DEF IsUp
    <3> QED BY <3>1, <2>1
  <2>2. CASE j # 0
    <3>1. PICK f : IsUp(f, id, j - 1)
      BY <1>1, <2>2
    <3> DEFINE up(g, m) == IF m = 0 THEN BasesOf(id)
                           ELSE g[m - 1] \union UNION {BasesOf(a) : a \in g[m - 1]}
               g == [m \in 0 .. j |-> IF m = j THEN up(f, j) ELSE f[m]]
    <3>2. ASSUME NEW m \in 0 .. j PROVE g[m] = up(g, m)
      <4>1. m # 0 => g[m - 1] = f[m - 1]
        BY <1>1
      <4>2. m # j => f[m] = up(f, m)
        <5>1. m # j => m \in 0 .. (j - 1)
          BY <1>1
        <5> QED BY <3>1, <5>1 DEF IsUp
      <4>3. g[m] = IF m = j THEN up(f, j) ELSE f[m]
        OBVIOUS
      <4> HIDE DEF g
      <4>4. up(g, m) = up(f, m)
        BY <4>1
      <4> QED BY <4>2, <4>3, <4>4
    <3>3. g = [m \in 0 .. j |-> up(g, m)]
      BY <3>2
    <3>4. IsUp(g, id, j)
      BY <3>3 DEF IsUp
    <3> QED BY <3>4
  <2> QED BY <2>1, <2>2
<1>2. Nat \subseteq T
  <2> HIDE DEF T
  <2> QED BY <1>1, Induct
<1> QED BY <1>2

(* Ancestors is its last layer.                                              *)
LEMMA AncestorsUp ==
  ASSUME TypeOK, NEW id
  PROVE  \E f : IsUp(f, id, Len(classes)) /\ Ancestors(id) = f[Len(classes)]
<1>1. Len(classes) \in Nat
  BY DEF TypeOK
<1>2. \E f : IsUp(f, id, Len(classes))
  BY <1>1, UpExists
<1> DEFINE up == CHOOSE f : IsUp(f, id, Len(classes))
<1>3. IsUp(up, id, Len(classes))
  BY <1>2
<1>4. Ancestors(id) = up[Len(classes)]
  BY DEF Ancestors, IsUp
<1> QED BY <1>3, <1>4

(* Each layer holds the one below and its bases.                             *)
LEMMA UpLayers ==
  ASSUME NEW n \in Nat, NEW id, NEW f, IsUp(f, id, n)
  PROVE  /\ f[0] = BasesOf(id)
         /\ \A m \in Nat : m < n => f[m + 1] = f[m] \union UNION {BasesOf(a) : a \in f[m]}
<1>1. f[0] = BasesOf(id)
  BY DEF IsUp
<1>2. ASSUME NEW m \in Nat, m < n
      PROVE  f[m + 1] = f[m] \union UNION {BasesOf(a) : a \in f[m]}
  <2>1. m + 1 \in 0 .. n /\ m + 1 # 0 /\ (m + 1) - 1 = m
    BY <1>2
  <2>2. f[m + 1] = f[(m + 1) - 1] \union UNION {BasesOf(a) : a \in f[(m + 1) - 1]}
    BY <2>1 DEF IsUp
  <2> QED BY <2>1, <2>2
<1> QED BY <1>1, <1>2

(* A set with the bases of id and of its members holds every ancestor.       *)
LEMMA AncestorsLeast ==
  ASSUME TypeOK, NEW id, NEW S, BasesOf(id) \subseteq S, \A a \in S : BasesOf(a) \subseteq S
  PROVE  Ancestors(id) \subseteq S
<1>1. PICK f : IsUp(f, id, Len(classes)) /\ Ancestors(id) = f[Len(classes)]
  BY AncestorsUp
<1>2. PICK N : N = Len(classes)
  OBVIOUS
<1>3. N \in Nat
  BY <1>2 DEF TypeOK
<1>4. /\ f[0] = BasesOf(id)
      /\ \A m \in Nat : m < N => f[m + 1] = f[m] \union UNION {BasesOf(a) : a \in f[m]}
  BY <1>1, <1>2, <1>3, UpLayers
<1> DEFINE T == {n \in Nat : n <= N => f[n] \subseteq S}
<1>5. ASSUME NEW n \in Nat, \A k \in Nat : k < n => k \in T PROVE n \in T
  <2>1. CASE n = 0
    BY <2>1, <1>4
  <2>2. CASE n # 0
    <3>1. n - 1 \in Nat /\ n - 1 < n /\ (n - 1) + 1 = n
      BY <2>2
    <3>2. n <= N => f[n - 1] \subseteq S
      BY <3>1, <1>3, <1>5
    <3>3. n <= N => f[n] = f[n - 1] \union UNION {BasesOf(a) : a \in f[n - 1]}
      BY <3>1, <1>3, <1>4
    <3> QED BY <3>2, <3>3
  <2> QED BY <2>1, <2>2
<1>6. Nat \subseteq T
  <2> HIDE DEF T
  <2> QED BY <1>5, Induct
<1> QED BY <1>1, <1>2, <1>3, <1>6

(* The bases of classes are classes.                                         *)
BasesInside == \A id \in ClassIds : BasesOf(id) \subseteq ClassIds

(* The ancestors of a class are classes, its bases and theirs among them.    *)
LEMMA AncestorsClosed ==
  ASSUME TypeOK, BasesInside, NEW id \in ClassIds
  PROVE  /\ Ancestors(id) \subseteq ClassIds
         /\ BasesOf(id) \subseteq Ancestors(id)
         /\ \A a \in Ancestors(id) : BasesOf(a) \subseteq Ancestors(id)
<1>1. PICK f : IsUp(f, id, Len(classes)) /\ Ancestors(id) = f[Len(classes)]
  BY AncestorsUp
<1>2. PICK N : N = Len(classes)
  OBVIOUS
<1>3. N \in Nat /\ ClassIds = 1 .. N
  BY <1>2 DEF TypeOK, ClassIds
<1>4. /\ f[0] = BasesOf(id)
      /\ \A m \in Nat : m < N => f[m + 1] = f[m] \union UNION {BasesOf(a) : a \in f[m]}
  BY <1>1, <1>2, <1>3, UpLayers
<1>5. Ancestors(id) \subseteq ClassIds
  BY AncestorsLeast DEF BasesInside
<1>6. IsFiniteSet(ClassIds) /\ Cardinality(ClassIds) = N
  BY <1>3, FS_Interval
<1> DEFINE closed(n) == \A a \in f[n] : BasesOf(a) \subseteq f[n]
           T == {n \in Nat : n <= N => /\ f[n] \subseteq ClassIds /\ BasesOf(id) \subseteq f[n]
                                       /\ closed(n) \/ Cardinality(f[n]) >= n + 1}
<1>7. ASSUME NEW n \in Nat, \A k \in Nat : k < n => k \in T PROVE n \in T
  <2>1. CASE n = 0
    <3>1. f[0] \subseteq ClassIds
      BY <1>4 DEF BasesInside
    <3>2. IsFiniteSet(f[0])
      BY <3>1, <1>6, FS_Subset
    <3>3. Cardinality(f[0]) \in Nat /\ (Cardinality(f[0]) = 0 => f[0] = {})
      BY <3>2, FS_CardinalityType, FS_EmptySet
    <3> QED BY <2>1, <3>1, <3>3, <1>4
  <2>2. CASE n # 0
    <3> SUFFICES ASSUME n <= N
                 PROVE  /\ f[n] \subseteq ClassIds /\ BasesOf(id) \subseteq f[n]
                        /\ closed(n) \/ Cardinality(f[n]) >= n + 1
      OBVIOUS
    <3>1. PICK k \in Nat : k < n /\ k + 1 = n
      BY <2>2
    <3>2. /\ f[k] \subseteq ClassIds /\ BasesOf(id) \subseteq f[k]
          /\ closed(k) \/ Cardinality(f[k]) >= k + 1
      BY <3>1, <1>3, <1>7
    <3>3. f[n] = f[k] \union UNION {BasesOf(a) : a \in f[k]}
      BY <3>1, <1>3, <1>4
    <3>4. f[n] \subseteq ClassIds /\ BasesOf(id) \subseteq f[n] /\ f[k] \subseteq f[n]
      BY <3>2, <3>3 DEF BasesInside
    <3>5. CASE closed(k)
      <4>1. f[n] = f[k]
        BY <3>3, <3>5
      <4> QED BY <4>1, <3>4, <3>5
    <3>6. CASE ~closed(k)
      <4>1. f[k] # f[n]
        BY <3>3, <3>6
      <4>2. IsFiniteSet(f[k]) /\ IsFiniteSet(f[n])
        BY <3>2, <3>4, <1>6, FS_Subset
      <4>3. Cardinality(f[k]) \in Nat /\ Cardinality(f[n]) \in Nat
        BY <4>2, FS_CardinalityType
      <4>4. Cardinality(f[k]) < Cardinality(f[n])
        BY <4>1, <4>2, <4>3, <3>4, FS_Subset
      <4> QED BY <4>3, <4>4, <3>1, <3>2, <3>4, <3>6
    <3> QED BY <3>5, <3>6
  <2> QED BY <2>1, <2>2
<1>8. Nat \subseteq T
  <2> HIDE DEF T
  <2> QED BY <1>7, Induct
<1>9. f[N] \subseteq ClassIds /\ BasesOf(id) \subseteq f[N]
      /\ (closed(N) \/ Cardinality(f[N]) >= N + 1)
  BY <1>3, <1>8
<1>10. Cardinality(f[N]) <= N
  BY <1>6, <1>9, FS_Subset
<1>11. Cardinality(f[N]) \in Nat
  BY <1>6, <1>9, FS_Subset, FS_CardinalityType
<1>12. closed(N)
  BY <1>3, <1>9, <1>10, <1>11
<1> QED BY <1>1, <1>2, <1>5, <1>9, <1>12

-----------------------------------------------------------------------------
(* What the third pass leaves. *)

(* The bases a class has by now are the first of those declared.             *)
BasesDeclared ==
  \A id \in ClassIds : \A b \in DOMAIN classes[id].bases :
    /\ b \in DOMAIN program.decl[classes[id].usr].bases
    /\ TypeOfId(classes[id].bases[b].class) = program.decl[classes[id].usr].bases[b].class

Recomputed == phase = "done" => \A u \in Usr : cache[u] # 0 => ~Stale(cache[u])

(* A step that gives a class its whole body, or empties one, or neither.     *)
LEMMA BasesStep ==
  ASSUME IInv, BasesDeclared, TypeOK', program' = program,
         \A id \in ClassIds : id \in ClassIds' /\ classes'[id].usr = classes[id].usr,
         \A id \in ClassIds' : \/ id \in ClassIds /\ classes'[id].bases = classes[id].bases
                               \/ classes'[id].bases = << >>
                               \/ Complete(id)'
  PROVE  BasesDeclared'
<1> SUFFICES ASSUME NEW id \in ClassIds', NEW b \in DOMAIN classes'[id].bases
             PROVE  /\ b \in DOMAIN program'.decl[classes'[id].usr].bases
                    /\ TypeOfId(classes[id].bases[b].class)'
                         = program'.decl[classes'[id].usr].bases[b].class
  BY DEF BasesDeclared
<1>1. CASE id \in ClassIds /\ classes'[id].bases = classes[id].bases
  <2>1. PICK n : n = classes[id].bases[b].class
    OBVIOUS
  <2>2. PICK bs : bs = classes[id].bases
    OBVIOUS
  <2>3. bs \in Seq(BaseDef) /\ b \in DOMAIN bs /\ n = bs[b].class
    BY <1>1, <2>1, <2>2, ClassType DEF IInv
  <2>4. bs[b] \in BaseDef
    BY <2>3
  <2>5. n \in Nat
    BY <2>3, <2>4 DEF BaseDef
  <2>6. n <= Len(classes)
    BY <1>1, <2>2, <2>3 DEF IInv, IdsKnown, Known
  <2>7. n = 0 \/ n \in ClassIds
    BY <2>5, <2>6 DEF ClassIds, IInv, TypeOK
  <2>8. TypeOfId(n)' = TypeOfId(n)
    BY <2>7 DEF TypeOfId
  <2>9. /\ b \in DOMAIN program.decl[classes[id].usr].bases
        /\ TypeOfId(n) = program.decl[classes[id].usr].bases[b].class
    BY <1>1, <2>1, <2>2, <2>3 DEF BasesDeclared
  <2> QED BY <1>1, <2>1, <2>8, <2>9
<1>2. CASE classes'[id].bases = << >>
  BY <1>2
<1>3. CASE Complete(id)'
  <2>1. PICK d : d = program'.decl[classes'[id].usr]
    OBVIOUS
  <2>2. d.bases = [i \in DOMAIN classes'[id].bases |->
                     [class |-> TypeOfId(classes[id].bases[i].class)',
                      virt |-> classes'[id].bases[i].virt]]
    BY <1>3, <2>1 DEF Complete
  <2> QED BY <2>1, <2>2
<1> QED BY <1>1, <1>2, <1>3

(* An action that leaves the classes alone.                                  *)
LEMMA BasesSame ==
  ASSUME BasesDeclared, UNCHANGED <<program, classes>>
  PROVE  BasesDeclared'
BY DEF BasesDeclared, ClassIds, TypeOfId

(* A poisoned class has no bases yet.                                        *)
LEMMA PoisonBases ==
  ASSUME IInv, BasesDeclared, TypeOK', program' = program, NEW u, PoisonNew(u)
  PROVE  BasesDeclared'
<1>1. classes' = Append(classes, EmptyClass(u)) /\ classes \in Seq(Class)
      /\ classes' \in Seq(Class)
  BY DEF PoisonNew, IInv, TypeOK
<1>2. EmptyClass(u).bases = << >>
  BY DEF EmptyClass
<1>3. PICK e : e = EmptyClass(u)
  OBVIOUS
<1>4. \A id \in ClassIds : id \in ClassIds' /\ classes'[id] = classes[id]
  BY <1>1, <1>3 DEF ClassIds
<1>5. \A id \in ClassIds' : id \in ClassIds \/ classes'[id] = e
  BY <1>1, <1>3 DEF ClassIds
<1> QED BY <1>2, <1>3, <1>4, <1>5, BasesStep

(* Nor has one that was just registered.                                     *)
LEMMA RegisterBases == ASSUME IInv, IInv', BasesDeclared, RegisterClass PROVE BasesDeclared'
<1>1. PICK f : f = Top
  OBVIOUS
<1>2. PICK u : u = f.usr
  OBVIOUS
<1>3. PICK k : k = IF f.upgrade # 0 THEN f.upgrade ELSE NewId
  OBVIOUS
<1>4. /\ Kept /\ k \in 1 .. Len(classes')
      /\ \A id \in ClassIds : id # k => classes'[id] = classes[id]
      /\ f.upgrade = 0 => k \notin ClassIds
  BY <1>1, <1>2, <1>3, RegisterCtx DEF IInv
<1>5. classes \in Seq(Class) /\ classes' \in Seq(Class)
  BY DEF IInv, TypeOK
<1>6. PICK e : e = EmptyClass(u)
  OBVIOUS
<1>7. e.bases = << >>
  BY <1>6 DEF EmptyClass
<1>8. /\ f.upgrade # 0 => classes' = [classes EXCEPT ![k] = e]
      /\ f.upgrade = 0 => classes' = Append(classes, e)
  BY <1>1, <1>2, <1>3, <1>6 DEF RegisterClass
<1>9. classes'[k] = e
  BY <1>3, <1>4, <1>5, <1>8 DEF NewId
<1>10. \A id \in ClassIds' : id \in ClassIds \/ id = k
  BY <1>3, <1>5, <1>8 DEF ClassIds, NewId
<1>11. \A id \in ClassIds : id \in ClassIds' /\ classes'[id].usr = classes[id].usr
  BY <1>4, <1>5 DEF Kept, ClassIds
<1>12. program' = program
  BY <1>4 DEF Kept
<1>13. \A id \in ClassIds' : \/ id \in ClassIds /\ classes'[id].bases = classes[id].bases
                             \/ classes'[id].bases = << >>
  BY <1>4, <1>7, <1>9, <1>10
<1> QED BY <1>11, <1>12, <1>13, BasesStep DEF IInv

(* A finished class has all.                                                 *)
LEMMA FinishBases == ASSUME IInv, IInv', BasesDeclared, FinishClass PROVE BasesDeclared'
<1>1. PICK f : f = Top
  OBVIOUS
<1>2. PICK k : k = f.id
  OBVIOUS
<1>3. /\ Kept /\ Complete(k)' /\ k \in ClassIds
      /\ \A id \in ClassIds : id # k => classes'[id] = classes[id]
  BY <1>1, <1>2, FinishCtx DEF IInv
<1>4. classes \in Seq(Class) /\ Len(classes') = Len(classes)
  BY DEF FinishClass, IInv, TypeOK
<1>5. ClassIds' = ClassIds
  BY <1>4 DEF ClassIds
<1> QED BY <1>3, <1>5, BasesStep DEF Kept, IInv

(* The later passes change methods and is_polymorphic only.                  *)
LEMMA LaterBases ==
  ASSUME IInv, IInv', BasesDeclared, program' = program, NEW k, NEW c,
         classes' = [classes EXCEPT ![k] = c],
         k \in ClassIds => c.usr = classes[k].usr /\ c.bases = classes[k].bases
  PROVE  BasesDeclared'
<1>1. classes \in Seq(Class) /\ Len(classes') = Len(classes)
  BY DEF IInv, TypeOK
<1>2. ClassIds' = ClassIds /\ \A id \in ClassIds : id \in DOMAIN classes
  BY <1>1 DEF ClassIds
<1>3. \A id \in ClassIds : /\ classes'[id].usr = classes[id].usr
                           /\ classes'[id].bases = classes[id].bases
  BY <1>2
<1> QED BY <1>2, <1>3, BasesStep DEF IInv

(* Every step.                                                               *)
LEMMA BasesKeep ==
  ASSUME IInv, Passes, BasesDeclared, [Next]_vars
  PROVE  BasesDeclared'
<1>1. IInv'
  BY NextKeeps
<1>2. CASE UNCHANGED <<program, classes>>
  BY <1>2, BasesSame
<1>3. CASE ReturnOpaque \/ FailArgument
  <2>1. program' = program /\ (classes' = classes \/ \E u : PoisonNew(u))
    BY <1>3 DEF ReturnOpaque, FailArgument, ctxVars
  <2> QED BY <2>1, <1>1, PoisonBases, BasesSame DEF IInv
<1>4. CASE RegisterClass
  BY <1>1, <1>4, RegisterBases
<1>5. CASE FinishClass
  BY <1>1, <1>5, FinishBases
<1>6. CASE AttachMethod
  <2>1. PICK k, ms : \/ classes' = classes
                     \/ classes' = [classes EXCEPT ![k] = [@ EXCEPT !.methods = ms]]
    <3>1. PICK k : k = Top.id
      OBVIOUS
    <3>2. PICK ms : ms = Append(classes[k].methods, Top.methods[1])
      OBVIOUS
    <3> QED BY <1>6, <3>1, <3>2 DEF AttachMethod
  <2>2. PICK c : c = [classes[k] EXCEPT !.methods = ms]
    OBVIOUS
  <2>3. k \in ClassIds => c.usr = classes[k].usr /\ c.bases = classes[k].bases
    <3> SUFFICES ASSUME k \in ClassIds PROVE c.usr = classes[k].usr /\ c.bases = classes[k].bases
      OBVIOUS
    <3>1. classes[k] \in Class
      BY ClassType DEF IInv
    <3> QED BY <3>1, <2>2 DEF Class
  <2>4. program' = program /\ (classes' = classes \/ classes' = [classes EXCEPT ![k] = c])
    BY <2>1, <2>2, <1>6 DEF AttachMethod
  <2> QED BY <2>3, <2>4, <1>1, LaterBases, BasesSame
<1>7. CASE Recompute
  <2>1. PICK k, p : classes' = [classes EXCEPT ![k] = [@ EXCEPT !.poly = p]]
    <3>1. PICK u \in Usr : classes' = [classes EXCEPT ![cache[u]].poly = ~@]
      BY <1>7 DEF Recompute
    <3>2. PICK k : k = cache[u]
      OBVIOUS
    <3>3. PICK p : p = ~classes[k].poly
      OBVIOUS
    <3> QED BY <3>1, <3>2, <3>3
  <2>2. PICK c : c = [classes[k] EXCEPT !.poly = p]
    OBVIOUS
  <2>3. k \in ClassIds => c.usr = classes[k].usr /\ c.bases = classes[k].bases
    <3> SUFFICES ASSUME k \in ClassIds PROVE c.usr = classes[k].usr /\ c.bases = classes[k].bases
      OBVIOUS
    <3>1. classes[k] \in Class
      BY ClassType DEF IInv
    <3> QED BY <3>1, <2>2 DEF Class
  <2>4. program' = program /\ classes' = [classes EXCEPT ![k] = c]
    BY <2>1, <2>2, <1>7 DEF Recompute
  <2> QED BY <2>3, <2>4, <1>1, LaterBases
<1> QED BY <1>2, <1>3, <1>4, <1>5, <1>6, <1>7
      DEF Next, WalkRecord, WalkReturn, WalkDone, ReturnCached, EnterClass, SkipHidden,
          ImportRecord, ImportLeaf, TakeType, TakeMember, SkipMember, FailBody, NextRecord,
          SkipMethod, VisitMethod, AttachDone, HeaderDone, vars, ctxVars

(* Whether a class is stale depends on the classes only.                     *)
LEMMA StaleSame ==
  ASSUME classes' = classes, NEW id
  PROVE  Stale(id)' <=> Stale(id)
BY DEF Stale, Polymorphic, HasVirtualBase, Ancestors, BasesOf

(* The pass ends when nothing is stale, and nothing happens after the last.  *)
LEMMA RecomputedKeeps ==
  ASSUME IInv, Recomputed, [Next]_vars
  PROVE  Recomputed'
<1>1. CASE phase = "done"
  <2>1. Idle
    BY <1>1 DEF IInv, StackOK, Pending
  <2>2. UNCHANGED vars
    BY <1>1, <2>1 DEF Idle, Next, WalkRecord, WalkReturn, WalkDone, ReturnCached, ReturnOpaque,
         EnterClass, RegisterClass, SkipHidden, ImportRecord, ImportLeaf, TakeType, TakeMember,
         SkipMember, FailArgument, FailBody, FinishClass, NextRecord, SkipMethod, VisitMethod,
         AttachMethod, AttachDone, Recompute, HeaderDone, AtMember, AtType, Resumed, AtRecord
  <2>3. classes' = classes /\ cache' = cache
    BY <2>2 DEF vars, ctxVars
  <2>4. \A id : Stale(id)' <=> Stale(id)
    BY <2>3, StaleSame
  <2> QED BY <1>1, <2>3, <2>4 DEF Recomputed
<1>2. CASE phase # "done" /\ phase' = "done"
  <2>1. HeaderDone
    <3>1. CASE WalkRecord \/ WalkReturn \/ WalkDone \/ NextRecord \/ SkipMethod \/ VisitMethod
                 \/ AttachDone
      BY <1>2, <3>1 DEF WalkRecord, WalkReturn, WalkDone, NextRecord, SkipMethod, VisitMethod,
                        AttachDone
    <3>2. ~UNCHANGED cursor
      BY <1>2 DEF cursor
    <3> QED BY <3>1, <3>2 DEF Next, ReturnCached, ReturnOpaque, EnterClass, RegisterClass,
           SkipHidden, ImportRecord, ImportLeaf, TakeType, TakeMember, SkipMember,
           FailArgument, FailBody, FinishClass, AttachMethod, Recompute, vars
  <2>2. classes' = classes /\ cache' = cache /\ \A u \in Usr : cache[u] # 0 => ~Stale(cache[u])
    BY <2>1 DEF HeaderDone, ctxVars
  <2>3. \A id : Stale(id)' <=> Stale(id)
    BY <2>2, StaleSame
  <2> QED BY <2>2, <2>3 DEF Recomputed
<1> QED BY <1>1, <1>2 DEF Recomputed

-----------------------------------------------------------------------------
(* What is_polymorphic means once nothing is stale. *)

(* A base is a class, of a record lower in any ranking that falls.           *)
LEMMA BaseOfClass ==
  ASSUME IInv, BasesDeclared, NEW id \in ClassIds, NEW b \in BasesOf(id)
  PROVE  /\ b \in ClassIds
         /\ \E n \in DOMAIN program.decl[classes[id].usr].bases :
              program.decl[classes[id].usr].bases[n].class = classes[b].usr
<1>1. PICK n \in DOMAIN classes[id].bases : b = classes[id].bases[n].class
  BY DEF BasesOf
<1>2. PICK bs, u : bs = classes[id].bases /\ u = classes[id].usr
  OBVIOUS
<1>3. bs \in Seq(BaseDef) /\ u \in Usr /\ n \in DOMAIN bs /\ b = bs[n].class
  BY <1>1, <1>2, ClassType DEF IInv
<1>4. bs[n] \in BaseDef
  BY <1>3
<1>5. b \in Nat
  BY <1>3, <1>4 DEF BaseDef
<1>6. b <= Len(classes)
  BY <1>2, <1>3 DEF IInv, IdsKnown, Known
<1>7. PICK ds : ds = program.decl[u].bases
  OBVIOUS
<1>8. n \in DOMAIN ds /\ TypeOfId(b) = ds[n].class
  BY <1>1, <1>2, <1>7 DEF BasesDeclared
<1>9. ds \in Seq([class : Usr, virt : BOOLEAN])
  BY <1>3, <1>7, DeclType DEF IInv
<1>10. ds[n] \in [class : Usr, virt : BOOLEAN]
  <2>1. PICK R : R = [class : Usr, virt : BOOLEAN]
    OBVIOUS
  <2>2. ds \in Seq(R) /\ n \in DOMAIN ds
    BY <2>1, <1>8, <1>9
  <2>3. ds[n] \in R
    BY ONLY <2>2
  <2> QED BY <2>1, <2>3
<1>11. ds[n].class \in Usr
  BY <1>10
<1>12. b # 0 /\ classes[b].usr = ds[n].class
  BY <1>8, <1>11, NamesAssumption DEF TypeOfId
<1> QED BY <1>2, <1>5, <1>6, <1>7, <1>8, <1>12 DEF ClassIds, IInv, TypeOK

(* Something above the class, itself included, is virtual.                   *)
VirtualAbove(id) == \E a \in Ancestors(id) \union {id} : Virtuals(a)

(* The classes above, itself included, are those in the cache.               *)
CachedAbove(id) == \A a \in Ancestors(id) \union {id} : cache[classes[a].usr] = a

(* The step up: a class that is not stale, whose bases are right, is right.  *)
LEMMA PolyStep ==
  ASSUME TypeOK, BasesInside, NEW id \in ClassIds, ~Stale(id),
         \A b \in BasesOf(id) : classes[b].poly <=> VirtualAbove(b)
  PROVE  classes[id].poly <=> VirtualAbove(id)
<1>1. PICK bs, ms : bs = classes[id].bases /\ ms = classes[id].methods
  OBVIOUS
<1>2. /\ BasesOf(id) \subseteq Ancestors(id)
      /\ \A a \in Ancestors(id) : BasesOf(a) \subseteq Ancestors(id)
  BY AncestorsClosed
<1>3. ASSUME NEW b \in BasesOf(id) PROVE Ancestors(b) \union {b} \subseteq Ancestors(id)
  <2>1. BasesOf(b) \subseteq Ancestors(id)
    BY <1>2, <1>3
  <2> QED BY <2>1, <1>2, <1>3, AncestorsLeast
<1>4. ASSUME NEW a \in Ancestors(id) PROVE \E b \in BasesOf(id) : a \in Ancestors(b) \union {b}
  <2> DEFINE S == UNION {Ancestors(b) \union {b} : b \in BasesOf(id)}
  <2>1. \A b \in BasesOf(id) :
          b \in ClassIds /\ BasesOf(b) \subseteq Ancestors(b)
          /\ \A x \in Ancestors(b) : BasesOf(x) \subseteq Ancestors(b)
    BY AncestorsClosed DEF BasesInside
  <2>2. BasesOf(id) \subseteq S /\ \A x \in S : BasesOf(x) \subseteq S
    BY <2>1
  <2>3. Ancestors(id) \subseteq S
    <3> HIDE DEF S
    <3> QED BY <2>2, AncestorsLeast
  <2> QED BY <2>3, <1>4
<1>5. classes[id].poly <=> Polymorphic(bs, ms)
  <2>1. classes[id].poly \in BOOLEAN
    BY ClassType
  <2> QED BY <2>1, <1>1 DEF Stale, Polymorphic
<1>6. \A n \in DOMAIN bs : bs[n].class \in BasesOf(id)
  BY <1>1 DEF BasesOf
<1>7. ASSUME Polymorphic(bs, ms) PROVE VirtualAbove(id)
  <2>1. CASE \E m \in DOMAIN ms : ms[m].virtual
    BY <2>1, <1>1 DEF VirtualAbove, Virtuals
  <2>2. CASE \E n \in DOMAIN bs : bs[n].virt
    BY <2>2, <1>1 DEF VirtualAbove, Virtuals
  <2>3. CASE \E n \in DOMAIN bs : classes[bs[n].class].poly \/ HasVirtualBase(bs[n].class)
    <3>1. PICK n \in DOMAIN bs : classes[bs[n].class].poly \/ HasVirtualBase(bs[n].class)
      BY <2>3
    <3>2. PICK b \in BasesOf(id) : b = bs[n].class
      BY <1>6
    <3>3. HasVirtualBase(b) => VirtualAbove(b)
      BY DEF HasVirtualBase, VirtualAbove, Virtuals
    <3>4. VirtualAbove(b)
      BY <3>1, <3>2, <3>3
    <3> QED BY <3>4, <1>3 DEF VirtualAbove
  <2> QED BY <1>7, <2>1, <2>2, <2>3 DEF Polymorphic
<1>8. ASSUME VirtualAbove(id) PROVE Polymorphic(bs, ms)
  <2>1. PICK a \in Ancestors(id) \union {id} : Virtuals(a)
    BY <1>8 DEF VirtualAbove
  <2>2. CASE a = id
    BY <2>1, <2>2, <1>1 DEF Virtuals, Polymorphic
  <2>3. CASE a \in Ancestors(id)
    <3>1. PICK b \in BasesOf(id) : a \in Ancestors(b) \union {b}
      BY <2>3, <1>4
    <3>2. classes[b].poly
      BY <2>1, <3>1 DEF VirtualAbove
    <3>3. PICK n \in DOMAIN bs : bs[n].class = b
      BY <1>1 DEF BasesOf
    <3> QED BY <3>2, <3>3 DEF Polymorphic
  <2> QED BY <2>2, <2>3
<1> QED BY <1>5, <1>7, <1>8

(* is_polymorphic is right below a record of any rank.                       *)
LEMMA PolyRight ==
  ASSUME IInv, BasesDeclared, \A u \in Usr : cache[u] # 0 => ~Stale(cache[u]),
         NEW id \in ClassIds, CachedAbove(id)
  PROVE  classes[id].poly <=> VirtualAbove(id)
<1>1. PICK rank \in [Usr -> 0 .. Cardinality(Usr)] : Falls(rank, program.decl)
  BY ProgramAssumption DEF IInv, TypeOK, WellFormed
<1>2. Cardinality(Usr) \in Nat
  BY RecordsAssumption, FS_CardinalityType
<1>3. \A u \in Usr : rank[u] \in Nat
  BY <1>1, <1>2
<1>4. BasesInside
  BY BaseOfClass DEF BasesInside
<1> DEFINE T == {n \in Nat : \A c \in ClassIds : rank[classes[c].usr] = n /\ CachedAbove(c) =>
                               (classes[c].poly <=> VirtualAbove(c))}
<1>5. ASSUME NEW n \in Nat, \A k \in Nat : k < n => k \in T PROVE n \in T
  <2> SUFFICES ASSUME NEW c \in ClassIds, rank[classes[c].usr] = n, CachedAbove(c)
               PROVE  classes[c].poly <=> VirtualAbove(c)
    OBVIOUS
  <2>1. /\ BasesOf(c) \subseteq Ancestors(c)
        /\ \A a \in Ancestors(c) : BasesOf(a) \subseteq Ancestors(c)
    BY <1>4, AncestorsClosed DEF IInv
  <2>2. ASSUME NEW b \in BasesOf(c) PROVE classes[b].poly <=> VirtualAbove(b)
    <3>1. b \in ClassIds
      BY BaseOfClass
    <3>2. rank[classes[b].usr] < n
      <4>1. PICK u : u = classes[c].usr
        OBVIOUS
      <4>2. u \in Usr
        BY <4>1, ClassType DEF IInv
      <4>3. PICK m \in DOMAIN program.decl[u].bases : program.decl[u].bases[m].class = classes[b].usr
        BY <4>1, BaseOfClass
      <4> QED BY <4>1, <4>2, <4>3, <1>1 DEF Falls
    <3>3. Ancestors(b) \union {b} \subseteq Ancestors(c)
      <4>1. BasesOf(b) \subseteq Ancestors(c)
        BY <2>1
      <4> QED BY <4>1, <2>1, AncestorsLeast DEF IInv
    <3>4. CachedAbove(b)
      BY <3>3 DEF CachedAbove
    <3>5. classes[b].usr \in Usr
      BY <3>1, ClassType DEF IInv
    <3>6. PICK k \in Nat : k = rank[classes[b].usr]
      BY <3>5, <1>3
    <3>7. k \in T
      BY <3>2, <3>6, <1>5
    <3> QED BY <3>1, <3>4, <3>6, <3>7
  <2>3. ~Stale(c)
    <3>1. PICK u : u = classes[c].usr
      OBVIOUS
    <3>2. u \in Usr /\ cache[u] = c /\ c # 0
      BY <3>1, ClassType DEF CachedAbove, IInv, ClassIds
    <3> QED BY <3>2
  <2> QED BY <2>2, <2>3, <1>4, PolyStep DEF IInv
<1>6. Nat \subseteq T
  <2> HIDE DEF T
  <2> QED BY <1>5, Induct
<1>7. PICK n \in Nat : n = rank[classes[id].usr]
  BY <1>3, ClassType DEF IInv
<1> QED BY <1>6, <1>7

(* In every state.                                                           *)
LEMMA AlwaysRecomputed == Spec => [](IInv /\ BasesDeclared /\ Recomputed)
<1>1. Init => BasesDeclared /\ Recomputed
  BY DEF Init, BasesDeclared, Recomputed, ClassIds
<1>2. IInv /\ Passes /\ BasesDeclared /\ Recomputed /\ [Next]_vars => (BasesDeclared /\ Recomputed)'
  BY BasesKeep, RecomputedKeeps
<1> QED BY <1>1, <1>2, ImporterInvariant, PTL DEF Spec

(* When the importer is done, is_polymorphic of a cached class says whether  *)
(* a virtual method or a virtual base is anywhere above it, although the     *)
(* classes were finished in any order and from half-built bases (import.rs,  *)
(* the passes after the walk), as long as the cache holds those above it.    *)
THEOREM PolyCorrect == Spec => []PolyClosed
<1>1. ASSUME IInv, BasesDeclared, Recomputed PROVE PolyClosed
  <2> SUFFICES ASSUME phase = "done", NEW u \in Usr, cache[u] # 0, CachedAbove(cache[u])
               PROVE  classes[cache[u]].poly <=> VirtualAbove(cache[u])
    BY DEF PolyClosed, CachedAbove, VirtualAbove
  <2>1. PICK id : id = cache[u]
    OBVIOUS
  <2>2. id \in ClassIds
    BY <1>1, <2>1 DEF IInv, TypeOK, ClassIds
  <2>3. classes[id].poly <=> VirtualAbove(id)
    BY <1>1, <2>1, <2>2, PolyRight DEF Recomputed
  <2> QED BY <2>1, <2>3
<1> QED BY <1>1, AlwaysRecomputed, PTL

-----------------------------------------------------------------------------
(* The order of the methods.                                                 *)

MethodsOf(u) == program.decl[u].methods

(* A record whose methods name classes that can be imported, with one id.    *)
Plain(u) ==
  \A m \in DOMAIN MethodsOf(u) : \A t \in Range(MethodsOf(u)[m].types) \cap Usr :
    /\ Supported(t)
    /\ \A i, j \in ClassIds : classes[i].usr = t /\ classes[j].usr = t => i = j

(* The n-th method is to be lowered, and can be when the record is plain.    *)
Lowers(u, n) ==
  ~MethodsOf(u)[n].hidden /\ Unsupported \notin Range(MethodsOf(u)[n].types)

(* The ids are the classes of the types; m is a lowering of its declaration. *)
Answered(ids, types) ==
  \A i \in DOMAIN ids : ids[i] <= Len(classes) /\ TypeOfId(ids[i]) = types[i]

Lowering(u, m) ==
  /\ m.n \in DOMAIN MethodsOf(u)
  /\ Len(m.params) + 1 = Len(MethodsOf(u)[m.n].types)
  /\ Answered(m.params, MethodsOf(u)[m.n].types)
  /\ Unsupported \notin Range(MethodsOf(u)[m.n].types)

Increasing(ms) == \A i, j \in DOMAIN ms : i < j => ms[i].n < ms[j].n
Has(ms, n) == \E k \in DOMAIN ms : ms[k].n = n
Covers(u, ms, lo, hi) == \A n \in lo .. hi : Lowers(u, n) => Has(ms, n)
Whole(u, ms) == Covers(u, ms, 1, Len(MethodsOf(u)))

(* The methods an activation lowers are First .. Last, or the one the second *)
(* pass visits; those up to Done have been.                                  *)
FirstOf(f) == IF f.stage = "attach" THEN mem - 1 ELSE 1
LastOf(f) == IF f.stage = "attach" THEN mem - 1 ELSE Len(MethodsOf(f.usr))
DoneOf(f) == LastOf(f) - Len(f.todo)

MethodsSoFar(f) ==
  /\ \A i \in DOMAIN f.todo :
       IF DoneOf(f) + i >= FirstOf(f)
       THEN f.todo[i] = MethodMember(f.usr, DoneOf(f) + i)
       ELSE f.todo[i].part # "method"
  /\ \A k \in DOMAIN f.methods :
       Lowering(f.usr, f.methods[k]) /\ f.methods[k].n \in FirstOf(f) .. DoneOf(f)
  /\ Increasing(f.methods)
  /\ Plain(f.usr) => Covers(f.usr, f.methods, FirstOf(f), DoneOf(f))

(* The second pass is at u, and visits the method before mem.                *)
Attaching(u) == phase = "attach" /\ pos <= Len(Records) /\ Records[pos] = u

Visits(f) ==
  /\ Attaching(f.usr)
  /\ ~IsSpec(f.usr)
  /\ f.id = cache[f.usr] /\ f.id # 0
  /\ mem - 1 \in DOMAIN MethodsOf(f.usr)
  /\ ~MethodsOf(f.usr)[mem - 1].hidden
  /\ Len(f.todo) <= 1

MFrame(f) ==
  /\ f.todo # << >> => Answered(f.got, Head(f.todo).types)
  /\ f.stage # "args" => MethodsSoFar(f)
  /\ f.stage = "attach" => Visits(f)

AtAttach ==
  phase = "attach" /\ ~Idle => stack # << >> /\ stack[1].stage = "attach"

(* The class an upgrade is to overwrite is still poisoned.                   *)
Upgrades ==
  stack # << >> /\ Top.stage = "args" /\ ~IsSpec(Top.usr) => Top.upgrade \in poisoned \union {0}

(* The next method the second pass attaches.                                 *)
NextMem == IF stack = << >> THEN mem ELSE mem - 1

(* A poisoned class of a record import_class would upgrade; the walk has     *)
(* called for u; a cursor of u is behind the walk, or ahead of the second    *)
(* pass.  The walk upgrades what is loose, so nothing loose is due.          *)
Loose(id) == id \in poisoned /\ ~program.decl[classes[id].usr].system
Entering(u) ==
  \/ stack = << >> /\ call = u
  \/ Len(stack) = 1 /\ stack[1].stage = "args" /\ stack[1].usr = u
Due(u) ==
  \E k \in DOMAIN Records : Records[k] = u /\
    \/ phase = "walk" /\ k < pos /\ ~(k = pos - 1 /\ Entering(u))
    \/ phase = "attach" /\ k >= pos

(* A class has all its methods; or the second pass is at its record and it   *)
(* has those before the next, all of them unless it is loose; or it has none *)
(* yet, or is loose and the second pass of this header does not come to it.  *)
Ordered(id) ==
  LET u == classes[id].usr
      ms == classes[id].methods
  IN \/ Whole(u, ms)
     \/ /\ Attaching(u)
        /\ \A k \in DOMAIN ms : ms[k].n < NextMem
        /\ Loose(id) \/ Covers(u, ms, 1, NextMem - 1)
     \/ /\ ~Attaching(u)
        /\ ms = << >> \/ (Loose(id) /\ ~Due(u))

MClass(id) ==
  LET u == classes[id].usr
      ms == classes[id].methods
  IN /\ \A k \in DOMAIN ms : Lowering(u, ms[k])
     /\ Plain(u) => /\ Increasing(ms)
                    /\ IsSpec(u) \/ Ordered(id)

MStack == \A i \in DOMAIN stack : MFrame(stack[i])
MClasses == \A id \in ClassIds : MClass(id)
MInv == MStack /\ AtAttach /\ Upgrades /\ MClasses

-----------------------------------------------------------------------------
(* Lemmas.                                                                   *)

(* Answers stay answers when a step keeps the classes.                       *)
LEMMA AnsweredKept ==
  ASSUME TypeOK, TypeOK', Kept, NEW ids \in Seq(Nat), NEW types, Answered(ids, types)
  PROVE  Answered(ids, types)'
<1>1. ASSUME NEW i \in DOMAIN ids
      PROVE  ids[i] <= Len(classes') /\ TypeOfId(ids[i])' = types[i]
  <2>1. PICK n : n = ids[i]
    OBVIOUS
  <2>2. n \in Nat /\ n <= Len(classes) /\ TypeOfId(n) = types[i]
    BY <2>1 DEF Answered
  <2>3. Len(classes) \in Nat /\ Len(classes') \in Nat /\ Len(classes) <= Len(classes')
    BY DEF TypeOK, Kept
  <2>4. TypeOfId(n)' = TypeOfId(n)
    BY <2>2, <2>3, TypeKept
  <2> QED BY <2>1, <2>2, <2>3, <2>4
<1> QED BY <1>1 DEF Answered

(* So do the lowered methods.                                                *)
LEMMA LoweringKept ==
  ASSUME TypeOK, TypeOK', Kept, NEW u, NEW m \in MethodDef, Lowering(u, m)
  PROVE  Lowering(u, m)'
<1>1. m.params \in Seq(Nat)
  BY DEF MethodDef
<1>2. program' = program
  BY DEF Kept
<1>3. PICK types : types = MethodsOf(u)[m.n].types
  OBVIOUS
<1>4. PICK ps : ps = m.params
  OBVIOUS
<1>5. Answered(ps, types)'
  BY <1>1, <1>3, <1>4, AnsweredKept DEF Lowering
<1> QED BY <1>2, <1>3, <1>4, <1>5 DEF Lowering, MethodsOf

(* A record whose methods are plain after a step had plain methods before.   *)
LEMMA PlainKept ==
  ASSUME TypeOK, TypeOK', Kept, NEW u, Plain(u)'
  PROVE  Plain(u)
<1>1. program' = program
  BY DEF Kept
<1>2. \A t : Supported(t)' => Supported(t)
  BY <1>1 DEF Supported, Deps
<1>3. \A i \in ClassIds : i \in ClassIds' /\ classes'[i].usr = classes[i].usr
  BY DEF Kept, ClassIds, TypeOK
<1> QED BY <1>1, <1>2, <1>3 DEF Plain, MethodsOf

(* The declarations do not change.                                           *)
LEMMA ProgramSame ==
  ASSUME program' = program
  PROVE  \A u : /\ MethodsOf(u)' = MethodsOf(u)
                /\ \A n : Lowers(u, n)' <=> Lowers(u, n)
                /\ \A n : MethodMember(u, n)' = MethodMember(u, n)
                /\ \A ms, lo, hi : Covers(u, ms, lo, hi)' <=> Covers(u, ms, lo, hi)
                /\ IsSpec(u)' <=> IsSpec(u)
BY DEF MethodsOf, Lowers, MethodMember, Covers, IsSpec

(* An activation and the methods it has lowered.                             *)
LEMMA SoFarKept ==
  ASSUME TypeOK, TypeOK', Kept, NEW f \in Frames, MethodsSoFar(f),
         f.stage = "attach" => mem' = mem
  PROVE  MethodsSoFar(f)'
<1>1. PICK a, b, u : a = FirstOf(f) /\ b = DoneOf(f) /\ u = f.usr
  OBVIOUS
<1>2. program' = program
  BY DEF Kept
<1>3. FirstOf(f)' = a /\ DoneOf(f)' = b
  BY <1>1, <1>2 DEF FirstOf, DoneOf, LastOf, MethodsOf
<1>4. \A i \in DOMAIN f.todo : IF b + i >= a THEN f.todo[i] = MethodMember(u, b + i)'
                               ELSE f.todo[i].part # "method"
  BY <1>1, <1>2, ProgramSame DEF MethodsSoFar
<1>5. ASSUME NEW k \in DOMAIN f.methods
      PROVE  Lowering(u, f.methods[k])' /\ f.methods[k].n \in a .. b
  <2>1. PICK m : m = f.methods[k]
    OBVIOUS
  <2>2. m \in MethodDef
    BY <2>1, FrameType
  <2>3. Lowering(u, m) /\ m.n \in a .. b
    BY <2>1, <1>1 DEF MethodsSoFar
  <2> QED BY <2>1, <2>2, <2>3, LoweringKept
<1>6. Plain(u)' => Covers(u, f.methods, a, b)'
  BY <1>1, <1>2, PlainKept, ProgramSame DEF MethodsSoFar
<1>7. Increasing(f.methods)
  BY DEF MethodsSoFar
<1> QED BY <1>1, <1>3, <1>4, <1>5, <1>6, <1>7 DEF MethodsSoFar, Increasing

(* What an activation knows of its methods stays true.                       *)
LEMMA MFrameKept ==
  ASSUME TypeOK, TypeOK', OneId, OneId', Kept, NEW f \in Frames, MFrame(f),
         f.stage = "attach" => UNCHANGED <<phase, pos, mem>>
  PROVE  MFrame(f)'
<1>1. f.todo # << >> => Answered(f.got, Head(f.todo).types)'
  <2>1. PICK c, ts : c = f.got /\ ts = Head(f.todo).types
    OBVIOUS
  <2> QED BY <2>1, FrameType, AnsweredKept DEF MFrame
<1>2. f.stage # "args" => MethodsSoFar(f)'
  BY SoFarKept DEF MFrame
<1>3. ASSUME f.stage = "attach" PROVE Visits(f)'
  <2>1. Visits(f) /\ UNCHANGED <<phase, pos, mem, program, tu>>
    BY <1>3 DEF MFrame, Kept
  <2>2. PICK u, k : u = f.usr /\ k = f.id
    OBVIOUS
  <2>3. u \in Usr /\ k \in ClassIds /\ cache[u] = k /\ classes[k].usr = u /\ ~IsSpec(u)
    BY <2>1, <2>2, FrameType DEF Visits, TypeOK, OneId, ClassIds
  <2>4. k \in ClassIds' /\ classes'[k].usr = u /\ ~IsSpec(u)'
    BY <2>1, <2>3 DEF Kept, ClassIds, TypeOK, IsSpec
  <2>5. cache'[u] = k
    BY <2>4 DEF OneId
  <2> QED BY <2>1, <2>2, <2>5 DEF Visits, Attaching, Records, IsSpec, MethodsOf
<1> QED BY <1>1, <1>2, <1>3 DEF MFrame

(* Every activation of the new stack is an old one, or fits.                 *)
LEMMA StackKeeps ==
  ASSUME TypeOK, TypeOK', OneId, OneId', Kept, MStack, UNCHANGED cursor,
         \A i \in DOMAIN stack' :
           \/ i \in DOMAIN stack /\ stack'[i] = stack[i]
           \/ \E g \in Frames : stack'[i] = g /\ MFrame(g)'
  PROVE  MStack'
<1>1. UNCHANGED <<phase, pos, mem>>
  BY DEF cursor
<1>2. ASSUME NEW i \in DOMAIN stack' PROVE \E g \in Frames : stack'[i] = g /\ MFrame(g)'
  <2>1. CASE i \in DOMAIN stack /\ stack'[i] = stack[i]
    <3>1. PICK g : g = stack[i]
      OBVIOUS
    <3>2. g \in Frames /\ MFrame(g)
      BY <2>1, <3>1 DEF MStack, TypeOK
    <3>3. MFrame(g)'
      BY <1>1, <3>2, MFrameKept
    <3> QED BY <2>1, <3>1, <3>2, <3>3
  <2> QED BY <2>1
<1> QED BY <1>2 DEF MStack

-----------------------------------------------------------------------------
(* The next method.                                                          *)

(* The place of the member in hand among the methods.                        *)
LEMMA SoFarShape ==
  ASSUME TypeOK, NEW f \in Frames, MFrame(f), f.stage # "args"
  PROVE  /\ FirstOf(f) \in Nat \ {0} /\ LastOf(f) \in Nat /\ DoneOf(f) \in Int
         /\ LastOf(f) <= Len(MethodsOf(f.usr))
         /\ DoneOf(f) = LastOf(f) - Len(f.todo) /\ Len(f.todo) \in Nat
         /\ MethodsOf(f.usr) \in Seq(Method)
<1>1. MethodsOf(f.usr) \in Seq(Method)
  BY FrameType, DeclType DEF MethodsOf
<1>2. f.stage = "attach" => mem - 1 \in DOMAIN MethodsOf(f.usr)
  BY DEF MFrame, Visits
<1>3. Len(f.todo) \in Nat
  BY FrameType
<1> QED BY <1>1, <1>2, <1>3 DEF FirstOf, LastOf, DoneOf

(* The method in hand.                                                       *)
LEMMA HeadMethod ==
  ASSUME TypeOK, NEW f \in Frames, MFrame(f), f.stage # "args", f.todo # << >>,
         NEW x, x = Head(f.todo), x.part = "method"
  PROVE  /\ x = MethodMember(f.usr, x.n) /\ x.n = DoneOf(f) + 1 /\ x.n >= FirstOf(f)
         /\ x.n \in DOMAIN MethodsOf(f.usr) /\ x.types = MethodsOf(f.usr)[x.n].types
<1>1. /\ FirstOf(f) \in Nat \ {0} /\ LastOf(f) \in Nat /\ DoneOf(f) \in Int
      /\ LastOf(f) <= Len(MethodsOf(f.usr))
      /\ DoneOf(f) = LastOf(f) - Len(f.todo) /\ Len(f.todo) \in Nat
      /\ MethodsOf(f.usr) \in Seq(Method)
  BY SoFarShape
<1>2. 1 \in DOMAIN f.todo /\ x = f.todo[1] /\ Len(f.todo) >= 1
  BY FrameType
<1>3. PICK n : n = DoneOf(f) + 1
  OBVIOUS
<1>4. n >= FirstOf(f) /\ x = MethodMember(f.usr, n)
  BY <1>2, <1>3 DEF MFrame, MethodsSoFar
<1>5. x.n = n /\ x.types = MethodsOf(f.usr)[n].types
  BY <1>4 DEF MethodMember, Member, MethodsOf
<1>6. n \in 1 .. Len(MethodsOf(f.usr))
  BY <1>1, <1>2, <1>3, <1>4
<1> QED BY <1>1, <1>3, <1>4, <1>5, <1>6

(* One method further.                                                       *)
LEMMA CoversNext ==
  ASSUME NEW u, NEW ms, NEW a \in Int, NEW b \in Int, Covers(u, ms, a, b),
         Lowers(u, b + 1) => Has(ms, b + 1)
  PROVE  Covers(u, ms, a, b + 1)
<1>1. \A n \in a .. b + 1 : n \in a .. b \/ n = b + 1
  OBVIOUS
<1> QED BY <1>1 DEF Covers

(* A method more.                                                            *)
LEMMA CoversMore ==
  ASSUME NEW u, NEW ms \in Seq(MethodDef), NEW m, NEW a, NEW b, Covers(u, ms, a, b)
  PROVE  Covers(u, Append(ms, m), a, b)
<1>1. ASSUME NEW k \in DOMAIN ms
      PROVE  k \in DOMAIN Append(ms, m) /\ Append(ms, m)[k] = ms[k]
  OBVIOUS
<1>2. \A n : Has(ms, n) => Has(Append(ms, m), n)
  BY <1>1 DEF Has
<1> QED BY <1>2 DEF Covers

(* A later method appended.                                                  *)
LEMMA Appended ==
  ASSUME NEW ms \in Seq(MethodDef), NEW m \in MethodDef, Increasing(ms),
         \A k \in DOMAIN ms : ms[k].n < m.n
  PROVE  /\ Increasing(Append(ms, m)) /\ Has(Append(ms, m), m.n)
         /\ Append(ms, m) \in Seq(MethodDef)
         /\ \A k \in DOMAIN Append(ms, m) :
              \/ k \in DOMAIN ms /\ Append(ms, m)[k] = ms[k]
              \/ k = Len(ms) + 1 /\ Append(ms, m)[k] = m
<1>1. PICK ns : ns = Append(ms, m)
  OBVIOUS
<1>2. /\ ns \in Seq(MethodDef) /\ Len(ms) \in Nat /\ DOMAIN ms = 1 .. Len(ms)
      /\ DOMAIN ns = 1 .. Len(ms) + 1 /\ ns[Len(ms) + 1] = m
      /\ \A k \in 1 .. Len(ms) : ns[k] = ms[k]
  BY <1>1
<1>3. Increasing(ns)
  <2> SUFFICES ASSUME NEW i \in DOMAIN ns, NEW j \in DOMAIN ns, i < j PROVE ns[i].n < ns[j].n
    BY DEF Increasing
  <2>1. i \in 1 .. Len(ms)
    BY <1>2
  <2>2. j \in 1 .. Len(ms) \/ j = Len(ms) + 1
    BY <1>2
  <2> QED BY <2>1, <2>2, <1>2 DEF Increasing
<1>4. Has(ns, m.n)
  <2>1. Len(ms) + 1 \in DOMAIN ns
    BY <1>2
  <2> QED BY <2>1, <1>2 DEF Has
<1>5. \A k \in DOMAIN ns : \/ k \in DOMAIN ms /\ ns[k] = ms[k]
                           \/ k = Len(ms) + 1 /\ ns[k] = m
  BY <1>2
<1> QED BY <1>1, <1>2, <1>3, <1>4, <1>5

(* A member is dropped, left out or lowered.                                 *)
LEMMA SoFarStep ==
  ASSUME TypeOK, NEW f \in Frames, NEW g \in Frames, MFrame(f), f.stage # "args",
         f.todo # << >>, SameCall(f, g), g.todo = Tail(f.todo),
         NEW x, x = Head(f.todo),
         \/ x.part # "method" /\ g.methods = f.methods
         \/ /\ x.part = "method" /\ g.methods = f.methods
            /\ Plain(f.usr) => ~Lowers(f.usr, x.n)
         \/ \E m \in MethodDef : /\ x.part = "method" /\ g.methods = Append(f.methods, m)
                                 /\ m.n = x.n /\ Lowering(f.usr, m)
  PROVE  MethodsSoFar(g)
<1>1. PICK a, b, u, ms : a = FirstOf(f) /\ b = DoneOf(f) /\ u = f.usr /\ ms = f.methods
  OBVIOUS
<1>2. /\ a \in Nat \ {0} /\ b \in Int /\ ms \in Seq(MethodDef)
      /\ b = LastOf(f) - Len(f.todo) /\ LastOf(f) \in Nat /\ f.todo \in Seq(Members)
  BY <1>1, SoFarShape, FrameType
<1>3. /\ Len(g.todo) = Len(f.todo) - 1 /\ Len(f.todo) \in Nat \ {0}
      /\ \A i \in DOMAIN g.todo : i + 1 \in DOMAIN f.todo /\ g.todo[i] = f.todo[i + 1]
      /\ \A i \in DOMAIN g.todo : i \in Nat
  BY <1>2
<1>4. g.usr = u /\ FirstOf(g) = a /\ LastOf(g) = LastOf(f)
  BY <1>1 DEF SameCall, FirstOf, LastOf
<1>5. DoneOf(g) = b + 1
  BY <1>2, <1>3, <1>4 DEF DoneOf
<1>6. ASSUME NEW i \in DOMAIN g.todo
      PROVE  IF b + 1 + i >= a THEN g.todo[i] = MethodMember(u, b + 1 + i)
             ELSE g.todo[i].part # "method"
  <2>1. b + (i + 1) = b + 1 + i
    BY <1>2, <1>3
  <2>2. IF b + (i + 1) >= a THEN f.todo[i + 1] = MethodMember(u, b + (i + 1))
        ELSE f.todo[i + 1].part # "method"
    BY <1>1, <1>3 DEF MFrame, MethodsSoFar
  <2> QED BY <2>1, <2>2, <1>3
<1>7. /\ \A k \in DOMAIN ms : Lowering(u, ms[k]) /\ ms[k].n \in a .. b
      /\ Increasing(ms)
      /\ Plain(u) => Covers(u, ms, a, b)
  BY <1>1 DEF MFrame, MethodsSoFar
<1>8. x.part = "method" => x.n = b + 1 /\ x.n >= a
  BY <1>1, HeadMethod
<1>9. x.part # "method" => b + 1 < a
  <2>1. 1 \in DOMAIN f.todo /\ x = f.todo[1]
    BY <1>2, <1>3
  <2>2. IF b + 1 >= a THEN x = MethodMember(u, b + 1) ELSE x.part # "method"
    BY <1>1, <2>1 DEF MFrame, MethodsSoFar
  <2> QED BY <1>2, <2>2 DEF MethodMember, Member
<1>10. CASE g.methods = ms
  <2>1. \A k \in DOMAIN ms : ms[k].n \in a .. b + 1
    BY <1>2, <1>7
  <2>2. Plain(u) => Covers(u, ms, a, b + 1)
    <3>1. CASE x.part # "method"
      <4>1. a .. b + 1 = {}
        BY <3>1, <1>2, <1>9
      <4> QED BY <4>1 DEF Covers
    <3>2. CASE x.part = "method"
      <4>1. Plain(u) => (Lowers(u, b + 1) => Has(ms, b + 1))
        <5>1. ASSUME NEW m \in MethodDef, g.methods = Append(ms, m) PROVE FALSE
          <6>1. Len(Append(ms, m)) = Len(ms) + 1 /\ Len(ms) \in Nat
            BY <1>2
          <6> QED BY <6>1, <5>1, <1>10
        <5> QED BY <5>1, <3>2, <1>1, <1>8
      <4>2. a \in Int
        BY <1>2
      <4>3. ASSUME Plain(u) PROVE Covers(u, ms, a, b + 1)
        <5>1. Covers(u, ms, a, b) /\ (Lowers(u, b + 1) => Has(ms, b + 1))
          BY <4>1, <4>3, <1>7
        <5> QED BY <5>1, <4>2, <1>2, CoversNext
      <4> QED BY <4>3
    <3> QED BY <3>1, <3>2
  <2>3. /\ \A k \in DOMAIN ms : Lowering(u, ms[k]) /\ ms[k].n \in a .. b + 1
        /\ Increasing(ms)
    BY <2>1, <1>7
  <2> QED BY <2>2, <2>3, <1>4, <1>5, <1>6, <1>10 DEF MethodsSoFar
<1>11. CASE \E m \in MethodDef : /\ x.part = "method" /\ g.methods = Append(ms, m)
                                 /\ m.n = x.n /\ Lowering(u, m)
  <2>1. PICK m \in MethodDef : /\ x.part = "method" /\ g.methods = Append(ms, m)
                               /\ m.n = x.n /\ Lowering(u, m)
    BY <1>11
  <2>2. m.n = b + 1 /\ m.n >= a
    BY <2>1, <1>8
  <2>3. \A k \in DOMAIN ms : ms[k].n < m.n
    BY <2>2, <1>2, <1>7
  <2>4. PICK ns : ns = Append(ms, m)
    OBVIOUS
  <2>5. /\ Increasing(ns) /\ Has(ns, m.n)
        /\ \A k \in DOMAIN ns : \/ k \in DOMAIN ms /\ ns[k] = ms[k]
                                \/ k = Len(ms) + 1 /\ ns[k] = m
    <3>1. ms \in Seq(MethodDef) /\ m \in MethodDef /\ Increasing(ms)
      BY <1>2, <1>7
    <3> QED BY <3>1, <2>3, <2>4, Appended
  <2>6. \A k \in DOMAIN ns : Lowering(u, ns[k]) /\ ns[k].n \in a .. b + 1
    <3>1. \A k \in DOMAIN ms : ms[k].n \in a .. b + 1
      BY <1>2, <1>7
    <3>2. m.n \in a .. b + 1
      BY <1>2, <2>2
    <3> QED BY <3>1, <3>2, <2>1, <2>5, <1>7
  <2>7. Plain(u) => Covers(u, ns, a, b + 1)
    <3> SUFFICES ASSUME Plain(u) PROVE Covers(u, ns, a, b + 1)
      OBVIOUS
    <3>1. ms \in Seq(MethodDef) /\ Covers(u, ms, a, b)
      BY <1>2, <1>7
    <3>2. Covers(u, ns, a, b)
      BY <3>1, <2>4, CoversMore
    <3>3. Has(ns, b + 1) /\ a \in Int /\ b \in Int
      BY <2>2, <2>5, <1>2
    <3> QED BY <3>2, <3>3, CoversNext
  <2> QED BY <2>1, <2>4, <2>5, <2>6, <2>7, <1>4, <1>5, <1>6 DEF MethodsSoFar
<1> QED BY <1>1, <1>10, <1>11

-----------------------------------------------------------------------------
(* The activations, one member further.                                      *)

(* A step of an activation keeps what it knows.                              *)
LEMMA MFrameStep ==
  ASSUME NEW f \in Frames, NEW g \in Frames, MFrame(f), SameCall(f, g),
         Len(g.todo) <= Len(f.todo),
         g.todo # << >> => Answered(g.got, Head(g.todo).types),
         f.stage # "args" => MethodsSoFar(g)
  PROVE  MFrame(g)
<1>1. Len(f.todo) \in Nat /\ Len(g.todo) \in Nat
  BY FrameType
<1>2. g.stage = "attach" => Visits(g)
  BY <1>1 DEF MFrame, Visits, SameCall
<1> QED BY <1>2 DEF MFrame, SameCall

(* So does one of the activation at the top, for the whole stack.            *)
LEMMA MStepped ==
  ASSUME IInv, IInv', MStack, UNCHANGED <<program, ctxVars, cursor>>, stack # << >>,
         NEW g \in Frames, stack' = SetTop(g), MFrame(g)
  PROVE  MStack'
<1>1. UNCHANGED <<program, ctxVars, tu>> /\ UNCHANGED cursor /\ UNCHANGED <<phase, pos, mem>>
  BY DEF cursor
<1>2. TypeOK /\ TypeOK' /\ OneId /\ OneId' /\ Kept
  BY <1>1, CtxSame DEF IInv
<1>3. MFrame(g)'
  BY <1>1, <1>2, MFrameKept
<1>4. PICK n : n = Len(stack)
  OBVIOUS
<1>5. n \in Nat \ {0} /\ DOMAIN stack = 1 .. n /\ stack \in Seq(Frames)
  BY <1>2, <1>4, TopType DEF TypeOK
<1>6. \A i \in DOMAIN stack' : i \in DOMAIN stack /\ (stack'[i] = stack[i] \/ stack'[i] = g)
  BY <1>4, <1>5 DEF SetTop
<1> QED BY <1>1, <1>2, <1>3, <1>6, StackKeeps

(* An activation that passes a member by.                                    *)
LEMMA GoneOn ==
  ASSUME NEW f \in Frames, f.todo # << >>, NEW g,
         g = [f EXCEPT !.todo = Tail(@), !.got = << >>]
  PROVE  /\ g \in Frames /\ SameCall(f, g) /\ g.todo = Tail(f.todo) /\ g.got = << >>
         /\ g.methods = f.methods /\ Len(g.todo) <= Len(f.todo)
         /\ Answered(g.got, Head(g.todo).types)
<1>1. g = GoOn(f, Tail(f.todo), << >>)
  BY DEF Frames, GoOn
<1>2. Tail(f.todo) \in Seq(Members) /\ << >> \in Seq(Nat)
  BY TailType
<1>3. g \in Frames /\ SameCall(f, g)
  BY ONLY <1>1, <1>2, f \in Frames, Resume
<1>4. g.todo = Tail(f.todo) /\ g.got = << >> /\ g.methods = f.methods
  BY ONLY <1>1, f \in Frames DEF GoOn, Frames
<1>5. Len(g.todo) <= Len(f.todo)
  BY <1>4, TailType
<1>6. Answered(g.got, Head(g.todo).types)
  BY <1>4 DEF Answered
<1> QED BY <1>3, <1>4, <1>5, <1>6

(* No class is the class of an unsupported type.                             *)
LEMMA NotUnsupported ==
  ASSUME TypeOK, NEW id \in Nat, id <= Len(classes)
  PROVE  TypeOfId(id) # Unsupported
<1>1. id = 0 \/ id \in ClassIds
  BY DEF TypeOK, ClassIds
<1>2. id \in ClassIds => classes[id].usr \in Usr
  BY ClassType
<1> QED BY <1>1, <1>2, NamesAssumption DEF TypeOfId

(* What cannot be imported is no class of a plain method.                    *)
LEMMA NotLowered ==
  ASSUME TypeOK, NEW u, NEW n \in DOMAIN MethodsOf(u), Plain(u),
         NEW t \in Range(MethodsOf(u)[n].types), t \in Type, ~CanImport(t)
  PROVE  ~Lowers(u, n)
<1>1. t \notin Usr
  BY DEF Plain, CanImport
<1>2. t = Unsupported
  BY <1>1 DEF Type, CanImport
<1> QED BY <1>2 DEF Lowers

(* A hidden method is no method to lower.                                    *)
LEMMA SkipHiddenMethods == ASSUME IInv, IInv', MStack, SkipHidden PROVE MStack'
<1> USE DEF IInv
<1>1. /\ stack # << >> /\ Top.todo # << >> /\ IsHidden(Top.usr, Head(Top.todo))
      /\ stack' = SetTop([Top EXCEPT !.todo = Tail(@), !.got = << >>])
      /\ UNCHANGED <<program, ctxVars, cursor>>
  BY DEF SkipHidden, AtMember
<1>2. PICK f, x : f = Top /\ x = Head(f.todo)
  OBVIOUS
<1>3. f \in Frames /\ MFrame(f) /\ f.todo # << >>
  BY <1>1, <1>2, TopType DEF MStack
<1>4. PICK g : g = [f EXCEPT !.todo = Tail(@), !.got = << >>]
  OBVIOUS
<1>5. /\ g \in Frames /\ SameCall(f, g) /\ g.todo = Tail(f.todo) /\ g.methods = f.methods
      /\ Len(g.todo) <= Len(f.todo) /\ Answered(g.got, Head(g.todo).types)
  BY <1>3, <1>4, GoneOn
<1>6. x.part = "method" /\ ~Lowers(f.usr, x.n)
  BY <1>1, <1>2 DEF IsHidden, Lowers, MethodsOf
<1>7. f.stage # "args" => MethodsSoFar(g)
  BY <1>2, <1>3, <1>5, <1>6, SoFarStep
<1>8. MFrame(g)
  BY <1>3, <1>5, <1>7, MFrameStep
<1> QED BY <1>1, <1>2, <1>4, <1>5, <1>8, MStepped

(* A method that fails names what cannot be imported.                        *)
LEMMA SkipMemberMethods == ASSUME IInv, IInv', MStack, SkipMember PROVE MStack'
<1> USE DEF IInv
<1>1. /\ stack # << >> /\ ret # NoRet /\ ret = Err
      /\ Head(Top.todo).part \in {"method", "subst"}
      /\ stack' = SetTop([Top EXCEPT !.todo = Tail(@), !.got = << >>])
      /\ UNCHANGED <<program, ctxVars, cursor>>
  BY DEF SkipMember, Resumed
<1>2. PICK f, x : f = Top /\ x = Head(f.todo)
  OBVIOUS
<1>3. f \in Frames /\ MFrame(f) /\ FrameOK(f) /\ f.todo # << >> /\ Answers(ret, Wanted(f))
  BY <1>1, <1>2, TopType DEF MStack, StackOK, Pending, Activations
<1>4. PICK g : g = [f EXCEPT !.todo = Tail(@), !.got = << >>]
  OBVIOUS
<1>5. /\ g \in Frames /\ SameCall(f, g) /\ g.todo = Tail(f.todo) /\ g.methods = f.methods
      /\ Len(g.todo) <= Len(f.todo) /\ Answered(g.got, Head(g.todo).types)
  BY <1>3, <1>4, GoneOn
<1>6. PICK t : t = Wanted(f)
  OBVIOUS
<1>7. t \in Type /\ ~CanImport(t) /\ t \in Range(x.types)
  <2>1. ret.kind = "err"
    BY <1>1 DEF Err
  <2>2. Len(f.got) + 1 \in DOMAIN x.types /\ t \in Type
    BY <1>2, <1>3, <1>6, WantedType
  <2>3. t = x.types[Len(f.got) + 1]
    BY <1>2, <1>6 DEF Wanted
  <2> QED BY <2>1, <2>2, <2>3, <1>3, <1>6 DEF Answers, Range
<1>8. f.stage # "args" => MethodsSoFar(g)
  <2> SUFFICES ASSUME f.stage # "args" PROVE MethodsSoFar(g)
    OBVIOUS
  <2>1. CASE x.part # "method"
    BY <2>1, <1>2, <1>3, <1>5, SoFarStep
  <2>2. CASE x.part = "method"
    <3>1. x.n \in DOMAIN MethodsOf(f.usr) /\ x.types = MethodsOf(f.usr)[x.n].types
      BY <2>2, <1>2, <1>3, HeadMethod
    <3>2. Plain(f.usr) => ~Lowers(f.usr, x.n)
      BY <3>1, <1>7, NotLowered
    <3> QED BY <3>2, <2>2, <1>2, <1>3, <1>5, SoFarStep
  <2> QED BY <2>1, <2>2
<1>9. MFrame(g)
  BY <1>3, <1>5, <1>8, MFrameStep
<1> QED BY <1>1, <1>2, <1>4, <1>5, <1>9, MStepped

(* A type answered.                                                          *)
LEMMA TakeTypeMethods == ASSUME IInv, IInv', MStack, TakeType PROVE MStack'
<1> USE DEF IInv
<1>1. /\ stack # << >> /\ ret # NoRet /\ ret # Err
      /\ stack' = SetTop([Top EXCEPT !.got = Append(@, ret.id)])
      /\ UNCHANGED <<program, ctxVars, cursor>>
  BY DEF TakeType, Resumed
<1>2. PICK f, r : f = Top /\ r = ret.id
  OBVIOUS
<1>3. f \in Frames /\ MFrame(f) /\ FrameOK(f) /\ f.todo # << >> /\ Answers(ret, Wanted(f))
  BY <1>1, <1>2, TopType DEF MStack, StackOK, Pending, Activations
<1>4. r \in Nat /\ r <= Len(classes) /\ Len(classes) \in Nat
  BY <1>2 DEF TypeOK
<1>5. PICK t, c : t = f.todo /\ c = Append(f.got, r)
  OBVIOUS
<1>6. t \in Seq(Members) /\ f.got \in Seq(Nat) /\ c \in Seq(Nat)
  BY <1>3, <1>4, <1>5, FrameType
<1>7. PICK g : g = GoOn(f, t, c)
  OBVIOUS
<1>8. g = [f EXCEPT !.got = Append(@, r)]
  BY <1>3, <1>5, <1>7 DEF Frames, GoOn
<1>9. g \in Frames /\ SameCall(f, g)
  BY ONLY <1>3, <1>6, <1>7, Resume
<1>10. g.todo = t /\ g.got = c /\ g.methods = f.methods
  BY ONLY <1>3, <1>7 DEF GoOn, Frames
<1>11. PICK ts : ts = Head(f.todo).types
  OBVIOUS
<1>12. Answered(c, ts)
  <2>1. TypeOfId(r) = ts[Len(f.got) + 1]
    <3>1. ret.kind = "ok"
      BY <1>1 DEF TypeOK, NoRet, Err
    <3> QED BY <3>1, <1>2, <1>3, <1>11 DEF Answers, Wanted
  <2>2. \A i \in DOMAIN c : \/ i \in DOMAIN f.got /\ c[i] = f.got[i]
                            \/ i = Len(f.got) + 1 /\ c[i] = r
    BY <1>4, <1>5, <1>6
  <2>3. Answered(f.got, ts)
    BY <1>3, <1>11 DEF MFrame
  <2> QED BY <2>1, <2>2, <2>3, <1>4 DEF Answered
<1>13. f.stage # "args" => MethodsSoFar(g)
  <2>1. FirstOf(g) = FirstOf(f) /\ DoneOf(g) = DoneOf(f) /\ g.usr = f.usr
    BY <1>5, <1>9, <1>10 DEF FirstOf, LastOf, DoneOf, SameCall
  <2> QED BY <2>1, <1>3, <1>5, <1>10 DEF MFrame, MethodsSoFar
<1>14. MFrame(g)
  <2>1. Len(g.todo) <= Len(f.todo)
    BY <1>5, <1>6, <1>10
  <2> QED BY <2>1, <1>3, <1>5, <1>9, <1>10, <1>11, <1>12, <1>13, MFrameStep
<1> QED BY <1>1, <1>2, <1>8, <1>9, <1>14, MStepped

(* A member lowered, a method perhaps.                                       *)
LEMMA TakeMemberMethods == ASSUME IInv, IInv', MStack, TakeMember PROVE MStack'
<1> USE DEF IInv
<1>1. /\ stack # << >> /\ ret # NoRet /\ ret # Err /\ Lowered
      /\ UNCHANGED <<program, ctxVars, cursor>>
  BY DEF TakeMember, Resumed
<1>2. PICK f, x, r : f = Top /\ x = Head(f.todo) /\ r = ret.id
  OBVIOUS
<1>3. f \in Frames /\ MFrame(f) /\ FrameOK(f) /\ f.todo # << >> /\ Answers(ret, Wanted(f))
  BY <1>1, <1>2, TopType DEF MStack, StackOK, Pending, Activations
<1>4. r \in Nat /\ r <= Len(classes) /\ Len(classes) \in Nat
  BY <1>2 DEF TypeOK
<1>5. PICK g : g = [f EXCEPT
          !.todo = Tail(@), !.got = << >>,
          !.fields = IF x.part = "field" THEN Append(@, r) ELSE @,
          !.bases = IF x.part = "base" THEN Append(@, [class |-> r, virt |-> x.flag]) ELSE @,
          !.methods = IF x.part = "method"
                      THEN Append(@, [n |-> x.n, virtual |-> x.flag, params |-> f.got])
                      ELSE @]
  OBVIOUS
<1>6. stack' = SetTop(g)
  BY <1>2, <1>5 DEF TakeMember
<1>7. PICK m : m = [n |-> x.n, virtual |-> x.flag, params |-> f.got]
  OBVIOUS
<1>8. /\ x \in Members /\ f.todo \in Seq(Members) /\ f.got \in Seq(Nat) /\ f.bases \in Seq(BaseDef)
      /\ f.fields \in Seq(Nat) /\ f.methods \in Seq(MethodDef)
      /\ Tail(f.todo) \in Seq(Members) /\ Len(Tail(f.todo)) <= Len(f.todo)
  BY <1>2, <1>3, FrameType, TailType
<1>9. [class |-> r, virt |-> x.flag] \in BaseDef /\ m \in MethodDef /\ m.n = x.n /\ m.params = f.got
  BY <1>4, <1>7, <1>8 DEF BaseDef, MethodDef, Members
<1>10. /\ g.stage = f.stage /\ g.usr = f.usr /\ g.id = f.id /\ g.upgrade = f.upgrade
       /\ g.todo = Tail(f.todo) /\ g.got = << >>
       /\ g.fields = IF x.part = "field" THEN Append(f.fields, r) ELSE f.fields
       /\ g.bases = IF x.part = "base" THEN Append(f.bases, [class |-> r, virt |-> x.flag])
                    ELSE f.bases
       /\ g.methods = IF x.part = "method" THEN Append(f.methods, m) ELSE f.methods
       /\ g = [stage |-> g.stage, usr |-> g.usr, id |-> g.id, upgrade |-> g.upgrade,
               todo |-> g.todo, got |-> g.got, bases |-> g.bases, fields |-> g.fields,
               methods |-> g.methods]
  BY <1>3, <1>5, <1>7 DEF Frames
<1>11. g.fields \in Seq(Nat) /\ g.bases \in Seq(BaseDef) /\ g.methods \in Seq(MethodDef)
       /\ g.got \in Seq(Nat)
  BY <1>4, <1>8, <1>9, <1>10
<1>12. g \in Frames /\ SameCall(f, g)
  BY <1>3, <1>8, <1>10, <1>11, FrameType DEF Frames, SameCall
<1>13. ASSUME f.stage # "args", x.part = "method" PROVE Lowering(f.usr, m)
  <2>1. x.n \in DOMAIN MethodsOf(f.usr) /\ x.types = MethodsOf(f.usr)[x.n].types
    BY <1>2, <1>3, <1>13, HeadMethod
  <2>2. x.types \in Seq(Type) /\ Len(f.got) + 1 = Len(x.types) /\ Len(f.got) \in Nat
    BY <1>1, <1>2, <1>8 DEF Lowered, Members
  <2>3. Answered(f.got, x.types)
    BY <1>2, <1>3 DEF MFrame
  <2>4. Unsupported \notin Range(x.types)
    <3>1. ret.kind = "ok"
      BY <1>1 DEF TypeOK, NoRet, Err
    <3>2. x.types[Len(f.got) + 1] = TypeOfId(r)
      BY <3>1, <1>2, <1>3 DEF Answers, Wanted
    <3>3. TypeOfId(r) # Unsupported
      BY <1>4, NotUnsupported
    <3>4. ASSUME NEW i \in 1 .. Len(f.got) PROVE x.types[i] # Unsupported
      <4>1. PICK id : id = f.got[i]
        OBVIOUS
      <4>2. id \in Nat /\ id <= Len(classes) /\ TypeOfId(id) = x.types[i]
        BY <4>1, <2>3, <1>8 DEF Answered
      <4> QED BY <4>2, NotUnsupported
    <3>5. \A i \in DOMAIN x.types : i \in 1 .. Len(f.got) \/ i = Len(f.got) + 1
      BY <2>2
    <3> QED BY <3>2, <3>3, <3>4, <3>5 DEF Range
  <2> QED BY <2>1, <2>2, <2>3, <2>4, <1>9 DEF Lowering
<1>14. f.stage # "args" => MethodsSoFar(g)
  <2> SUFFICES ASSUME f.stage # "args" PROVE MethodsSoFar(g)
    OBVIOUS
  <2>1. CASE x.part # "method"
    BY <2>1, <1>2, <1>3, <1>10, <1>12, SoFarStep
  <2>2. CASE x.part = "method"
    <3>1. /\ x.part = "method" /\ g.methods = Append(f.methods, m)
          /\ m \in MethodDef /\ m.n = x.n /\ Lowering(f.usr, m)
      BY <2>2, <1>9, <1>10, <1>13
    <3> QED BY <3>1, <1>2, <1>3, <1>10, <1>12, SoFarStep
  <2> QED BY <2>1, <2>2
<1>15. Answered(g.got, Head(g.todo).types)
  BY <1>10 DEF Answered
<1>16. MFrame(g)
  BY <1>3, <1>8, <1>10, <1>12, <1>14, <1>15, MFrameStep
<1> QED BY <1>1, <1>6, <1>12, <1>16, MStepped

-----------------------------------------------------------------------------
(* The activations, when import_class is entered or left.                    *)

Machine ==
  \/ ReturnCached \/ ReturnOpaque \/ EnterClass \/ RegisterClass
  \/ SkipHidden \/ ImportRecord \/ ImportLeaf \/ TakeType \/ TakeMember \/ SkipMember
  \/ FailArgument \/ FailBody \/ FinishClass

(* A step leaves the classes alone, poisons a record, or is one of two.      *)
LEMMA MachineCtx ==
  ASSUME IInv, Machine
  PROVE  /\ UNCHANGED <<program, cursor>>
         /\ \/ UNCHANGED ctxVars
            \/ ReturnOpaque /\ call # NoUsr /\ cache[call] = 0 /\ PoisonNew(call)
            \/ FailArgument /\ IsSpec(Top.usr) /\ PoisonNew(Top.usr)
            \/ RegisterClass
            \/ FinishClass
<1> USE DEF IInv
<1>1. UNCHANGED <<program, cursor>>
  BY DEF Machine, ReturnCached, ReturnOpaque, EnterClass, RegisterClass, SkipHidden,
         ImportRecord, ImportLeaf, TakeType, TakeMember, SkipMember, FailArgument, FailBody,
         FinishClass
<1>2. ReturnCached \/ EnterClass \/ SkipHidden \/ ImportRecord \/ ImportLeaf \/ TakeType
        \/ TakeMember \/ SkipMember \/ FailBody => UNCHANGED ctxVars
  BY DEF ReturnCached, EnterClass, SkipHidden, ImportRecord, ImportLeaf, TakeType, TakeMember,
         SkipMember, FailBody, ctxVars
<1>3. CASE ReturnOpaque
  <2>1. call # NoUsr /\ ~Healthy(cache[call])
        /\ (UNCHANGED ctxVars \/ (cache[call] \notin poisoned /\ PoisonNew(call)))
    BY <1>3 DEF ReturnOpaque
  <2>2. cache[call] \notin poisoned => cache[call] = 0
    BY <2>1 DEF Healthy
  <2> QED BY <2>1, <2>2, <1>1, <1>3
<1>4. CASE FailArgument
  <2>1. /\ stack # << >> /\ ret # NoRet /\ Head(Top.todo).part = "arg"
        /\ UNCHANGED ctxVars \/ PoisonNew(Top.usr)
    BY <1>4 DEF FailArgument, Resumed
  <2>2. Top.todo # << >> /\ Top \in Frames /\ FrameOK(Top)
    BY <2>1, TopType DEF StackOK, Pending, Activations
  <2>3. PICK f : f = Top
    OBVIOUS
  <2>4. f.stage = "args"
    BY <2>1, <2>2, <2>3, <1>4, NotSupported DEF FailArgument, Resumed
  <2>5. IsSpec(f.usr)
    BY <2>2, <2>3, <2>4 DEF FrameOK, ArgsFrame
  <2> QED BY <2>1, <2>3, <2>5, <1>1, <1>4
<1> QED BY <1>1, <1>2, <1>3, <1>4 DEF Machine

(* A step of import_class keeps the classes and the cursor of the pass.      *)
LEMMA MachineKept ==
  ASSUME IInv, IInv', Machine
  PROVE  Kept /\ UNCHANGED cursor
<1> USE DEF IInv
<1>1. UNCHANGED <<program, cursor>>
  BY MachineCtx
<1>2. program' = program /\ tu' = tu /\ UNCHANGED cursor
  BY <1>1 DEF cursor
<1>3. CASE UNCHANGED ctxVars
  BY <1>2, <1>3, CtxSame
<1>4. ASSUME NEW u, PoisonNew(u) PROVE Kept
  <2>1. PICK e : e = EmptyClass(u)
    OBVIOUS
  <2>2. classes' = Append(classes, e) /\ classes \in Seq(Class)
    BY <2>1, <1>4 DEF PoisonNew, TypeOK
  <2> QED BY <2>2, <1>2 DEF Kept, ClassIds
<1>5. CASE RegisterClass
  BY <1>2, <1>5, RegisterCtx
<1>6. CASE FinishClass
  BY <1>2, <1>6, FinishCtx
<1> QED BY <1>2, <1>3, <1>4, <1>5, <1>6, MachineCtx

(* A body just begun has lowered no method.                                  *)
LEMMA BodyMethods ==
  ASSUME TypeOK, NEW u \in Usr, NEW k, NEW up,
         NEW g \in Frames, g = Frame("body", u, k, up, Body(u))
  PROVE  MFrame(g)
<1>1. g.stage = "body" /\ g.usr = u /\ g.todo = Body(u) /\ g.got = << >> /\ g.methods = << >>
  BY DEF Frame
<1>0. PICK d : d = program.decl[u]
  OBVIOUS
<1>2. PICK b, M, L : b = Body(u) /\ M = Len(d.methods) /\ L = Len(b)
  OBVIOUS
<1>3. /\ b \in Seq(Members) /\ M \in Nat /\ M <= L /\ L \in Nat /\ DOMAIN b = 1 .. L
      /\ \A i \in 1 .. L - M : b[i].part # "method"
      /\ \A i \in 1 .. M : b[L - M + i] = MethodMember(u, i)
  <2>1. /\ Body(u) \in Seq(Members)
        /\ Left(Body(u), d, 0, 0, Len(d.fields), Len(d.bases))
        /\ Len(d.methods) \in Nat /\ Len(d.methods) <= Len(Body(u))
        /\ \A i \in 1 .. Len(Body(u)) - Len(d.methods) : Body(u)[i].part # "method"
        /\ \A i \in 1 .. Len(d.methods) :
             Body(u)[Len(Body(u)) - Len(d.methods) + i] = MethodMember(u, i)
    BY ONLY TypeOK, u \in Usr, <1>0, BodyFresh, Zenon
  <2>2. /\ b \in Seq(Members) /\ M \in Nat /\ M <= L
        /\ \A i \in 1 .. L - M : b[i].part # "method"
        /\ \A i \in 1 .. M : b[L - M + i] = MethodMember(u, i)
    BY ONLY <2>1, <1>2, Zenon
  <2>3. L \in Nat /\ DOMAIN b = 1 .. L
    BY ONLY <2>2, <1>2
  <2> QED BY ONLY <2>2, <2>3, Zenon
<1>4. FirstOf(g) = 1 /\ DoneOf(g) = M - L
  BY <1>0, <1>1, <1>2 DEF FirstOf, DoneOf, LastOf, MethodsOf
<1>5. ASSUME NEW i \in DOMAIN b
      PROVE  IF M - L + i >= 1 THEN b[i] = MethodMember(u, M - L + i)
             ELSE b[i].part # "method"
  <2>1. i \in 1 .. L
    BY <1>3
  <2>2. CASE M - L + i >= 1
    <3>1. PICK j : j = M - L + i
      OBVIOUS
    <3>2. j \in 1 .. M /\ i = L - M + j
      BY <2>1, <2>2, <3>1, <1>3
    <3>3. b[L - M + j] = MethodMember(u, j)
      BY <3>2, <1>3
    <3> QED BY <2>2, <3>1, <3>2, <3>3
  <2>3. CASE ~(M - L + i >= 1)
    <3>1. i \in 1 .. L - M
      BY <2>1, <2>3, <1>3
    <3> QED BY <2>3, <3>1, <1>3
  <2> QED BY <2>2, <2>3
<1>6. 1 .. M - L = {}
  <2>1. M - L < 1 /\ M - L \in Int
    BY <1>3
  <2> QED BY <2>1
<1>7. MethodsSoFar(g)
  <2>1. \A i \in DOMAIN g.todo :
          IF DoneOf(g) + i >= FirstOf(g) THEN g.todo[i] = MethodMember(g.usr, DoneOf(g) + i)
          ELSE g.todo[i].part # "method"
    BY <1>1, <1>2, <1>4, <1>5
  <2>2. DOMAIN g.methods = {}
    BY <1>1
  <2>3. Increasing(g.methods)
    BY <2>2 DEF Increasing
  <2>4. Covers(g.usr, g.methods, FirstOf(g), DoneOf(g))
    BY <1>4, <1>6 DEF Covers
  <2> QED BY <2>1, <2>2, <2>3, <2>4 DEF MethodsSoFar
<1>8. Answered(g.got, Head(g.todo).types)
  BY <1>1 DEF Answered
<1> QED BY <1>1, <1>7, <1>8 DEF MFrame

(* The activations after a step of import_class.                             *)
LEMMA MachineStack == ASSUME IInv, IInv', MStack, Machine PROVE MStack'
<1>1. Kept /\ UNCHANGED cursor /\ TypeOK /\ TypeOK' /\ OneId /\ OneId' /\ StackOK /\ IdsKnown
  BY MachineKept DEF IInv
<1>2. PICK n : n = Len(stack)
  OBVIOUS
<1>3. n \in Nat /\ DOMAIN stack = 1 .. n /\ stack \in Seq(Frames) /\ stack' \in Seq(Frames)
  BY <1>1, <1>2 DEF TypeOK
<1>4. CASE stack' = stack
  BY <1>1, <1>4, StackKeeps
<1>5. CASE stack' = Front(stack) /\ stack # << >>
  <2>1. /\ DOMAIN stack' = 1 .. n - 1
        /\ \A i \in 1 .. n - 1 : stack'[i] = stack[i]
    BY <1>1, <1>2, <1>5, PopShape
  <2>2. \A i \in DOMAIN stack' : i \in DOMAIN stack /\ stack'[i] = stack[i]
    BY <2>1, <1>3
  <2> QED BY <2>2, <1>1, StackKeeps
<1>6. ASSUME NEW g \in Frames, MFrame(g)',
             stack' = Append(stack, g) \/ (stack' = SetTop(g) /\ stack # << >>)
      PROVE  MStack'
  <2>1. \A i \in DOMAIN stack' : (i \in DOMAIN stack /\ stack'[i] = stack[i]) \/ stack'[i] = g
    <3>1. CASE stack' = Append(stack, g)
      BY <3>1, <1>3, <1>2
    <3>2. CASE stack' = SetTop(g) /\ stack # << >>
      BY <3>2, <1>3, <1>2 DEF SetTop
    <3> QED BY <3>1, <3>2, <1>6
  <2> QED BY <2>1, <1>1, <1>6, StackKeeps
<1>7. CASE EnterClass
  <2>1. PICK u, up, ar : u = call /\ up = UpgradeTarget(call) /\ ar = Args(call, "arg")
    OBVIOUS
  <2>2. PICK g : g = Frame("args", u, 0, up, ar)
    OBVIOUS
  <2>3. stack' = Append(stack, g)
    BY <1>7, <2>1, <2>2 DEF EnterClass
  <2>4. g \in Frames
    <3>1. Len(stack') = n + 1 /\ stack'[n + 1] = g
      BY <2>3, <1>2, <1>3
    <3>2. n + 1 \in DOMAIN stack'
      BY <3>1, <1>3
    <3> QED BY <3>1, <3>2, <1>3
  <2>5. g.stage = "args" /\ g.got = << >>
    BY <2>2 DEF Frame
  <2>6. MFrame(g)'
    BY <2>5 DEF MFrame, Answered
  <2> QED BY <2>3, <2>4, <2>6, <1>6
<1>8. CASE RegisterClass
  <2>1. PICK f, u, k : f = Top /\ u = f.usr /\ k = IF f.upgrade # 0 THEN f.upgrade ELSE NewId
    OBVIOUS
  <2>2. PICK up, bd : up = f.upgrade /\ bd = Body(u)
    OBVIOUS
  <2>3. PICK g : g = Frame("body", u, k, up, bd)
    OBVIOUS
  <2>4. stack # << >> /\ (stack' = Front(stack) \/ stack' = SetTop(g))
    BY <1>8, <2>1, <2>2, <2>3 DEF RegisterClass
  <2>5. ASSUME stack' = SetTop(g) PROVE MStack'
    <3>1. stack'[n] = g /\ n \in DOMAIN stack'
      BY <2>4, <2>5, <1>2, <1>3 DEF SetTop
    <3>2. g \in Frames
      BY <3>1, <1>3
    <3>3. u \in Usr
      BY <1>1, <1>8, <2>1, RegisterCtx
    <3>4. MFrame(g)
      BY <3>2, <3>3, <2>2, <2>3, <1>1, BodyMethods
    <3>5. g.stage # "attach"
      BY <2>3 DEF Frame
    <3>6. MFrame(g)'
      BY <3>2, <3>4, <3>5, <1>1, MFrameKept
    <3> QED BY <2>4, <2>5, <3>2, <3>6, <1>6
  <2> QED BY <2>4, <2>5, <1>5
<1>9. CASE FailArgument \/ FailBody \/ FinishClass
  BY <1>5, <1>9 DEF FailArgument, FailBody, FinishClass, Resumed
<1>10. CASE ReturnCached \/ ReturnOpaque \/ ImportRecord \/ ImportLeaf
  BY <1>4, <1>10 DEF ReturnCached, ReturnOpaque, ImportRecord, ImportLeaf
<1>11. CASE SkipHidden \/ TakeType \/ TakeMember \/ SkipMember
  BY <1>11, SkipHiddenMethods, TakeTypeMethods, TakeMemberMethods, SkipMemberMethods
<1> QED BY <1>7, <1>8, <1>9, <1>10, <1>11 DEF Machine

-----------------------------------------------------------------------------
(* The classes a step of import_class does not touch.                        *)

GoesOn(f, g) ==
  /\ g.stage = "attach" \/ f.stage # "attach"
  /\ g.stage = "args" => f.stage = "args" /\ f.usr = g.usr /\ f.todo # << >>

(* A step pushes, pops or replaces an activation, or leaves the stack alone. *)
LEMMA StackShape ==
  ASSUME IInv, Machine
  PROVE  /\ call # NoUsr \/ stack # << >>
         /\ \/ stack' = stack
            \/ EnterClass /\ call # NoUsr /\ \E g : stack' = Append(stack, g)
            \/ stack # << >> /\ Top.stage # "attach" /\ stack' = Front(stack)
            \/ stack # << >> /\ \E g : stack' = SetTop(g) /\ GoesOn(Top, g)
<1> USE DEF IInv
<1>1. CASE ReturnCached \/ ReturnOpaque \/ ImportRecord \/ ImportLeaf
  BY <1>1 DEF ReturnCached, ReturnOpaque, ImportRecord, ImportLeaf, AtType, AtMember
<1>2. CASE EnterClass
  <2>1. PICK g : g = Frame("args", call, 0, UpgradeTarget(call), Args(call, "arg"))
    OBVIOUS
  <2> QED BY <1>2, <2>1 DEF EnterClass
<1>3. CASE RegisterClass
  <2>1. stack # << >> /\ Top.stage = "args"
    BY <1>3 DEF RegisterClass
  <2>2. PICK u, k, up, bd : /\ u = Top.usr /\ k = (IF Top.upgrade # 0 THEN Top.upgrade ELSE NewId)
                            /\ up = Top.upgrade /\ bd = Body(u)
    OBVIOUS
  <2>3. PICK g : g = Frame("body", u, k, up, bd)
    OBVIOUS
  <2>4. stack' = Front(stack) \/ stack' = SetTop(g)
    BY <1>3, <2>2, <2>3 DEF RegisterClass
  <2>5. GoesOn(Top, g)
    BY <2>1, <2>3 DEF Frame, GoesOn
  <2> QED BY <2>1, <2>4, <2>5
<1>4. CASE FailArgument \/ FailBody
  <2>1. stack # << >> /\ ret = Err /\ Head(Top.todo).part \in {"arg", "field", "base"}
        /\ stack' = Front(stack)
    BY <1>4 DEF FailArgument, FailBody, Resumed
  <2> QED BY <2>1, NotSupported
<1>5. CASE FinishClass
  BY <1>5 DEF FinishClass
<1>6. ASSUME NEW g, stack # << >>, stack' = SetTop(g), g.stage = Top.stage, g.usr = Top.usr,
             Top.todo # << >>
      PROVE  \E h : stack' = SetTop(h) /\ GoesOn(Top, h)
  BY <1>6 DEF GoesOn
<1>7. CASE SkipHidden \/ SkipMember
  <2>1. PICK g : g = [Top EXCEPT !.todo = Tail(@), !.got = << >>]
    OBVIOUS
  <2>2. stack # << >> /\ stack' = SetTop(g)
    BY <1>7, <2>1 DEF SkipHidden, SkipMember, AtMember, Resumed
  <2>4. Top.todo # << >>
    BY <1>7 DEF SkipHidden, SkipMember, AtMember, Resumed, StackOK, Pending
  <2>3. g.stage = Top.stage /\ g.usr = Top.usr
    BY <2>1, <2>2, TopType DEF Frames
  <2> QED BY <2>2, <2>3, <2>4, <1>6
<1>8. CASE TakeType
  <2>1. PICK g : g = [Top EXCEPT !.got = Append(@, ret.id)]
    OBVIOUS
  <2>2. stack # << >> /\ stack' = SetTop(g)
    BY <1>8, <2>1 DEF TakeType, Resumed
  <2>4. Top.todo # << >>
    BY <1>8 DEF TakeType, Resumed, StackOK, Pending
  <2>3. g.stage = Top.stage /\ g.usr = Top.usr
    BY <2>1, <2>2, TopType DEF Frames
  <2> QED BY <2>2, <2>3, <2>4, <1>6
<1>9. CASE TakeMember
  <2>1. PICK f, x, r : f = Top /\ x = Head(f.todo) /\ r = ret.id
    OBVIOUS
  <2>2. PICK g : g = [f EXCEPT
          !.todo = Tail(@), !.got = << >>,
          !.fields = IF x.part = "field" THEN Append(@, r) ELSE @,
          !.bases = IF x.part = "base" THEN Append(@, [class |-> r, virt |-> x.flag]) ELSE @,
          !.methods = IF x.part = "method"
                      THEN Append(@, [n |-> x.n, virtual |-> x.flag, params |-> f.got])
                      ELSE @]
    OBVIOUS
  <2>3. stack # << >> /\ stack' = SetTop(g)
    <3>1. stack' = SetTop(g)
      BY <1>9, <2>1, <2>2 DEF TakeMember
    <3> QED BY <1>9, <3>1 DEF TakeMember, Resumed
  <2>4. g.stage = Top.stage /\ g.usr = Top.usr
    BY <2>1, <2>2, <2>3, TopType DEF Frames
  <2>5. Top.todo # << >>
    BY <1>9 DEF TakeMember, Resumed, StackOK, Pending
  <2> QED BY <2>3, <2>4, <2>5, <1>6
<1> QED BY <1>1, <1>2, <1>3, <1>4, <1>5, <1>7, <1>8, <1>9 DEF Machine

(* In the second pass, the visit of a method stays at the bottom.            *)
LEMMA BottomStays ==
  ASSUME IInv, AtAttach, Machine, phase = "attach"
  PROVE  /\ stack # << >> /\ stack' # << >> /\ stack[1].stage = "attach"
         /\ stack'[1].stage = "attach"
<1> USE DEF IInv
<1>1. stack # << >> /\ stack[1].stage = "attach"
  BY StackShape DEF AtAttach, Idle
<1>2. PICK n : n = Len(stack)
  OBVIOUS
<1>3. n \in Nat \ {0} /\ DOMAIN stack = 1 .. n /\ Top = stack[n] /\ stack \in Seq(Frames)
  BY <1>1, <1>2, TopType DEF TypeOK
<1>4. ASSUME NEW g, stack' = Append(stack, g) PROVE stack' # << >> /\ stack'[1] = stack[1]
  BY <1>2, <1>3, <1>4
<1>5. ASSUME Top.stage # "attach", stack' = Front(stack)
      PROVE  stack' # << >> /\ stack'[1] = stack[1]
  <2>1. n > 1
    BY <1>1, <1>3, <1>5
  <2>2. /\ \A i \in 1 .. n - 1 : stack'[i] = stack[i]
        /\ n > 1 <=> stack' # << >>
    BY <1>1, <1>2, <1>5, PopShape
  <2> QED BY <2>1, <2>2, <1>3
<1>6. ASSUME NEW g, stack' = SetTop(g), GoesOn(Top, g)
      PROVE  stack' # << >> /\ stack'[1].stage = "attach"
  <2>1. DOMAIN stack' = 1 .. n /\ stack'[n] = g /\ \A i \in 1 .. n : i # n => stack'[i] = stack[i]
    BY <1>2, <1>3, <1>6 DEF SetTop
  <2>2. n = 1 => g.stage = "attach"
    BY <1>1, <1>3, <1>6 DEF GoesOn
  <2>3. stack' # << >>
    BY <2>1, <1>3
  <2> QED BY <2>1, <2>2, <2>3, <1>1, <1>3
<1> QED BY <1>1, <1>4, <1>5, <1>6, StackShape

(* The walk has asked for a poisoned class: the next steps register it.      *)
LEMMA Entered ==
  ASSUME IInv, NEW u \in Usr, ~IsSpec(u), Entering(u)
  PROVE  \/ call = u /\ stack = << >> /\ ret = NoRet
         \/ /\ call = NoUsr /\ ret = NoRet /\ Len(stack) = 1 /\ stack # << >>
            /\ Top.stage = "args" /\ Top.usr = u /\ Top.todo = << >>
<1> USE DEF IInv
<1>1. CASE stack = << >> /\ call = u
  <2>1. u # NoUsr
    BY NamesAssumption DEF Type
  <2> QED BY <1>1, <2>1 DEF StackOK, Pending
<1>2. CASE Len(stack) = 1 /\ stack[1].stage = "args" /\ stack[1].usr = u
  <2>1. stack # << >> /\ Top = stack[1] /\ DOMAIN stack = 1 .. 1
    <3>1. stack # << >>
      <4>1. stack \in Seq(Frames)
        BY DEF TypeOK
      <4> QED BY <4>1, <1>2
    <3> QED BY <3>1, <1>2, TopType
  <2>2. FrameOK(stack[1])
    BY <2>1 DEF StackOK, Activations
  <2>3. PICK f : f = stack[1]
    OBVIOUS
  <2>4. f.todo = << >>
    BY <2>2, <2>3, <1>2 DEF FrameOK, ArgsFrame
  <2> QED BY <2>1, <2>3, <2>4, <1>2 DEF StackOK, Pending
<1> QED BY <1>1, <1>2 DEF Entering

(* It is entered until it is registered.                                     *)
LEMMA StillEntering ==
  ASSUME IInv, Machine, NEW u \in Usr, ~IsSpec(u), Entering(u),
         cache[u] \in poisoned, ~program.decl[u].system, Defined(u)
  PROVE  Entering(u)' \/ (RegisterClass /\ Top.usr = u)
<1> USE DEF IInv
<1>1. u # NoUsr
  BY NamesAssumption DEF Type
<1>2. CASE call = u /\ stack = << >> /\ ret = NoRet
  <2>1. EnterClass
    BY <1>1, <1>2 DEF Machine, ReturnCached, ReturnOpaque, RegisterClass, SkipHidden,
       ImportRecord, ImportLeaf, TakeType, TakeMember, SkipMember, FailArgument, FailBody,
       FinishClass, Resumed, AtType, AtMember, Healthy
  <2>2. PICK g : g = Frame("args", call, 0, UpgradeTarget(call), Args(call, "arg"))
    OBVIOUS
  <2>3. stack' = Append(stack, g)
    BY <2>1, <2>2 DEF EnterClass
  <2>4. Len(stack') = 1 /\ stack'[1] = g
    BY <2>3, <1>2
  <2>5. g.stage = "args" /\ g.usr = u
    BY <2>2, <1>2 DEF Frame
  <2> QED BY <2>4, <2>5 DEF Entering
<1>3. CASE /\ call = NoUsr /\ ret = NoRet /\ Len(stack) = 1 /\ stack # << >>
           /\ Top.stage = "args" /\ Top.usr = u /\ Top.todo = << >>
  BY <1>3 DEF Machine, ReturnCached, ReturnOpaque, EnterClass, SkipHidden,
     ImportRecord, ImportLeaf, TakeType, TakeMember, SkipMember, FailArgument, FailBody,
     FinishClass, Resumed, AtType, AtMember
<1> QED BY <1>2, <1>3, Entered

-----------------------------------------------------------------------------
(* The classes after a step of import_class.                                 *)

(* The order of the methods of a class a step leaves alone.                  *)
LEMMA OrderedSame ==
  ASSUME IInv, IInv', Kept, UNCHANGED cursor, NEW id \in ClassIds,
         NEW u, u = classes[id].usr, Ordered(id),
         classes'[id].methods = classes[id].methods, id \in poisoned => id \in poisoned',
         Attaching(u) => (stack = << >> <=> stack' = << >>),
         \A k \in DOMAIN Records :
           Records[k] = u /\ phase = "walk" /\ Loose(id) /\ Entering(u) => Entering(u)'
  PROVE  Ordered(id)'
<1>1. PICK ms : ms = classes[id].methods
  OBVIOUS
<1>2. program' = program /\ phase' = phase /\ pos' = pos /\ mem' = mem /\ tu' = tu
  BY DEF Kept, cursor
<1>3. classes'[id].usr = u /\ classes'[id].methods = ms
  BY <1>1 DEF Kept
<1>4. (Attaching(u)' <=> Attaching(u)) /\ Records' = Records
  BY <1>2 DEF Attaching, Records
<1>5. Loose(id) => Loose(id)'
  BY <1>2, <1>3 DEF Loose
<1>6. Attaching(u) => NextMem' = NextMem
  BY <1>2 DEF NextMem
<1>7. Loose(id) /\ ~Due(u) => ~Due(u)'
  BY <1>2, <1>4 DEF Due
<1>8. \A lo, hi : Covers(u, ms, lo, hi)' <=> Covers(u, ms, lo, hi)
  BY <1>2, ProgramSame
<1>9. Whole(u, ms)' <=> Whole(u, ms)
  BY <1>2, <1>8 DEF Whole, MethodsOf
<1>10. CASE Whole(u, ms)
  <2>1. Whole(u, ms)'
    BY <1>9, <1>10
  <2> QED BY <2>1, <1>3 DEF Ordered
<1>11. CASE /\ Attaching(u)
            /\ \A k \in DOMAIN ms : ms[k].n < NextMem
            /\ Loose(id) \/ Covers(u, ms, 1, NextMem - 1)
  <2>1. PICK p : p = NextMem /\ p = NextMem'
    BY <1>6, <1>11
  <2>2. Covers(u, ms, 1, p - 1) => Covers(u, ms, 1, p - 1)'
    BY <1>8
  <2>3. /\ Attaching(u)'
        /\ \A k \in DOMAIN ms : ms[k].n < NextMem'
        /\ Loose(id)' \/ Covers(u, ms, 1, p - 1)'
    BY <2>1, <2>2, <1>4, <1>5, <1>11
  <2> QED BY <2>1, <2>3, <1>3 DEF Ordered
<1>12. CASE ~Attaching(u) /\ (ms = << >> \/ (Loose(id) /\ ~Due(u)))
  <2>1. ~Attaching(u)' /\ (ms = << >> \/ (Loose(id)' /\ ~Due(u)'))
    BY <1>4, <1>5, <1>7, <1>12
  <2> QED BY <2>1, <1>3 DEF Ordered
<1> QED BY <1>1, <1>10, <1>11, <1>12 DEF Ordered

(* A class whose methods a step leaves alone.                                *)
LEMMA ClassSame ==
  ASSUME TypeOK, TypeOK', Kept, NEW id \in ClassIds, NEW u, u = classes[id].usr, MClass(id),
         classes'[id].methods = classes[id].methods,
         ~IsSpec(u) /\ Ordered(id) => Ordered(id)'
  PROVE  MClass(id)'
<1>1. PICK ms : ms = classes[id].methods
  OBVIOUS
<1>2. classes'[id].usr = u /\ classes'[id].methods = ms /\ program' = program
  BY <1>1 DEF Kept
<1>3. ms \in Seq(MethodDef)
  BY <1>1, ClassType
<1>4. ASSUME NEW k \in DOMAIN ms PROVE Lowering(u, ms[k])'
  <2>1. PICK m : m = ms[k]
    OBVIOUS
  <2>2. m \in MethodDef /\ Lowering(u, m)
    BY <2>1, <1>1, <1>3 DEF MClass
  <2> QED BY <2>1, <2>2, LoweringKept
<1>5. Plain(u)' => Increasing(ms) /\ (IsSpec(u)' \/ Ordered(id)')
  BY <1>1, <1>2, PlainKept DEF MClass, IsSpec
<1>6. Increasing(ms)' <=> Increasing(ms)
  BY DEF Increasing
<1> QED BY <1>2, <1>4, <1>5, <1>6 DEF MClass

(* A class that import_class is not about to register or to finish.          *)
LEMMA MachineOther ==
  ASSUME IInv, IInv', AtAttach, Machine, NEW id \in ClassIds, MClass(id),
         classes'[id].methods = classes[id].methods, id \in poisoned => id \in poisoned',
         NEW u, u = classes[id].usr, RegisterClass /\ Top.usr = u => IsSpec(u)
  PROVE  MClass(id)'
<1> USE DEF IInv
<1>1. Kept /\ UNCHANGED cursor
  BY MachineKept
<1>2. u \in Usr
  BY ClassType
<1>3. ASSUME ~IsSpec(u), Ordered(id) PROVE Ordered(id)'
  <2>1. Attaching(u) => (stack = << >> <=> stack' = << >>)
    BY BottomStays DEF Attaching
  <2>2. ASSUME NEW k \in DOMAIN Records, Records[k] = u, phase = "walk", Loose(id), Entering(u)
        PROVE  Entering(u)'
    <3>1. cache[u] = id
      BY <1>3 DEF OneId
    <3>2. Defined(u)
      BY <2>2, HeaderType DEF TypeOK, Records, Defined
    <3> QED BY <3>1, <3>2, <1>2, <1>3, <2>2, StillEntering DEF Loose
  <2> QED BY <1>1, <1>3, <2>1, <2>2, OrderedSame
<1> QED BY <1>1, <1>3, ClassSame

(* A class without methods.                                                  *)
LEMMA NoMethods ==
  ASSUME NEW id, NEW u, classes'[id].usr = u, classes'[id].methods = << >>,
         ~IsSpec(u)' /\ Attaching(u)' => Loose(id)'
  PROVE  MClass(id)'
<1>1. PICK ms : ms = classes'[id].methods
  OBVIOUS
<1>2. DOMAIN ms = {} /\ ms = << >>
  BY <1>1
<1>3. Increasing(ms)'
  BY <1>2 DEF Increasing
<1>4. IsSpec(u)' \/ Ordered(id)'
  BY <1>1, <1>2 DEF Ordered
<1> QED BY <1>1, <1>2, <1>3, <1>4 DEF MClass

(* The class whose methods the second pass visits is in the cache.           *)
LEMMA AttachCached ==
  ASSUME IInv, AtAttach, MStack, stack # << >>, NEW u, Attaching(u)
  PROVE  cache[u] # 0 /\ ~IsSpec(u) /\ stack[1] \in Frames /\ stack[1].stage = "attach"
         /\ MFrame(stack[1]) /\ stack[1].usr = u /\ 1 \in DOMAIN stack
<1>1. stack[1].stage = "attach" /\ 1 \in DOMAIN stack /\ stack[1] \in Frames
  BY TopType DEF AtAttach, Attaching, Idle, IInv, TypeOK
<1>2. MFrame(stack[1])
  BY <1>1 DEF MStack
<1>3. PICK f : f = stack[1]
  OBVIOUS
<1>4. Visits(f)
  BY <1>1, <1>2, <1>3 DEF MFrame
<1>5. f.usr = u
  BY <1>4 DEF Visits, Attaching
<1> QED BY <1>1, <1>2, <1>3, <1>4, <1>5 DEF Visits

(* A poisoned class more.                                                    *)
LEMMA PoisonMethods ==
  ASSUME IInv, IInv', AtAttach, MStack, MClasses, Machine, NEW u, PoisonNew(u),
         IsSpec(u) \/ cache[u] = 0, ~RegisterClass
  PROVE  MClasses'
<1> USE DEF IInv
<1>1. PICK e, k : e = EmptyClass(u) /\ k = NewId
  OBVIOUS
<1>2. /\ classes' = Append(classes, e) /\ poisoned' = poisoned \union {k}
      /\ classes \in Seq(Class) /\ Kept /\ UNCHANGED cursor
  BY <1>1, MachineKept DEF PoisonNew, TypeOK
<1>3. /\ k \in Nat /\ classes'[k] = e
      /\ \A id \in ClassIds : classes'[id] = classes[id]
      /\ \A id \in ClassIds' : id \in ClassIds \/ id = k
  BY <1>1, <1>2 DEF NewId, ClassIds
<1>4. e.usr = u /\ e.methods = << >>
  BY <1>1 DEF EmptyClass
<1>5. ASSUME NEW id \in ClassIds PROVE MClass(id)'
  <2>1. PICK v : v = classes[id].usr
    OBVIOUS
  <2> QED BY <2>1, <1>2, <1>3, MachineOther DEF MClasses
<1>6. ~IsSpec(u)' => ~Attaching(u)'
  <2>1. phase' = phase /\ pos' = pos /\ program' = program /\ tu' = tu
    BY <1>2 DEF cursor, Kept
  <2>2. Attaching(u) => cache[u] # 0 /\ ~IsSpec(u)
    BY BottomStays, AttachCached DEF Attaching
  <2> QED BY <2>1, <2>2 DEF Attaching, IsSpec, Records
<1>7. MClass(k)'
  BY <1>3, <1>4, <1>6, NoMethods
<1> QED BY <1>3, <1>5, <1>7 DEF MClasses

(* A class registered, or a poisoned one overwritten.                        *)
LEMMA RegisterMethods ==
  ASSUME IInv, IInv', AtAttach, Upgrades, MStack, MClasses, RegisterClass
  PROVE  MClasses'
<1> USE DEF IInv
<1>0. Machine
  BY DEF Machine
<1>1. PICK f : f = Top
  OBVIOUS
<1>2. PICK u : u = f.usr
  OBVIOUS
<1>3. PICK k : k = IF f.upgrade # 0 THEN f.upgrade ELSE NewId
  OBVIOUS
<1>4. /\ f \in Frames /\ u \in Usr /\ f.stage = "args" /\ ~program.decl[u].system /\ Kept
      /\ poisoned' = poisoned /\ classes'[k].usr = u
      /\ \A id \in ClassIds : id # k => classes'[id] = classes[id]
      /\ f.upgrade = 0 => k \notin ClassIds
  BY <1>1, <1>2, <1>3, RegisterCtx
<1>5. stack # << >> /\ Top.stage = "args" /\ Top.todo = << >>
  BY DEF RegisterClass
<1>6. FrameOK(f) /\ ArgsFrame(f)
  BY <1>1, <1>4, <1>5, TopType DEF StackOK, Activations, FrameOK
<1>7. PICK e : e = EmptyClass(u)
  OBVIOUS
<1>8. e.methods = << >>
  BY <1>7 DEF EmptyClass
<1>9. /\ f.upgrade # 0 => classes' = [classes EXCEPT ![k] = e]
      /\ f.upgrade = 0 => classes' = Append(classes, e)
  BY <1>1, <1>2, <1>3, <1>7 DEF RegisterClass
<1>10. classes \in Seq(Class) /\ classes' \in Seq(Class)
  BY DEF TypeOK
<1>11. classes'[k] = e /\ \A id \in ClassIds' : id \in ClassIds \/ id = k
  <2>1. CASE f.upgrade # 0
    <3>1. k \in ClassIds /\ classes' = [classes EXCEPT ![k] = e]
      BY <2>1, <1>3, <1>6, <1>9 DEF ArgsFrame
    <3> QED BY <3>1, <1>10 DEF ClassIds
  <2>2. CASE f.upgrade = 0
    <3>1. k = Len(classes) + 1 /\ classes' = Append(classes, e)
      BY <2>2, <1>3, <1>9 DEF NewId
    <3> QED BY <3>1, <1>10 DEF ClassIds
  <2> QED BY <2>1, <2>2
<1>12. ASSUME ~IsSpec(u) PROVE (f.upgrade = 0 => cache[u] = 0) /\ (f.upgrade # 0 => cache[u] = k)
  BY <1>2, <1>3, <1>6, <1>12 DEF ArgsFrame, OneId
<1>13. ASSUME NEW id \in ClassIds, id # k PROVE MClass(id)'
  <2>1. PICK v : v = classes[id].usr
    OBVIOUS
  <2>2. v = u => IsSpec(u)
    <3> SUFFICES ASSUME v = u, ~IsSpec(u) PROVE FALSE
      OBVIOUS
    <3>1. cache[u] = id
      BY <2>1 DEF OneId
    <3> QED BY <3>1, <1>12, <1>13 DEF ClassIds
  <2> QED BY <2>1, <2>2, <1>0, <1>1, <1>2, <1>4, <1>13, MachineOther DEF MClasses
<1>14. ASSUME ~IsSpec(u)', Attaching(u)' PROVE Loose(k)'
  <2>1. program' = program /\ tu' = tu /\ phase' = phase /\ pos' = pos
    BY <1>0, MachineKept DEF Kept, cursor
  <2>2. ~IsSpec(u) /\ Attaching(u)
    BY <1>14, <2>1 DEF IsSpec, Attaching, Records
  <2>3. cache[u] # 0
    BY <2>2, <1>5, AttachCached
  <2>4. f.upgrade # 0
    BY <2>2, <2>3, <1>12
  <2>5. k \in poisoned
    BY <2>2, <2>4, <1>1, <1>2, <1>3, <1>5 DEF Upgrades
  <2> QED BY <2>1, <2>5, <1>4 DEF Loose
<1>15. MClass(k)'
  BY <1>4, <1>8, <1>11, <1>14, NoMethods
<1> QED BY <1>11, <1>13, <1>15 DEF MClasses

(* A class finished: all its methods at once.                                *)
LEMMA FinishMethods ==
  ASSUME IInv, IInv', AtAttach, MStack, MClasses, FinishClass
  PROVE  MClasses'
<1> USE DEF IInv
<1>0. Machine
  BY DEF Machine
<1>1. PICK f, k : f = Top /\ k = f.id
  OBVIOUS
<1>2. /\ f \in Frames /\ f.stage = "body" /\ k \in ClassIds /\ classes[k].usr = f.usr
      /\ TypeOK' /\ Kept
      /\ \A id \in ClassIds : id # k => classes'[id] = classes[id]
  BY <1>1, FinishCtx
<1>3. stack # << >> /\ f.todo = << >>
  BY <1>1 DEF FinishClass
<1>4. MFrame(f) /\ MethodsSoFar(f)
  <2>1. MFrame(f)
    BY <1>1, <1>3, TopType DEF MStack
  <2> QED BY <2>1, <1>2 DEF MFrame
<1>5. PICK u, ms : u = f.usr /\ ms = f.methods
  OBVIOUS
<1>6. /\ \A id \in ClassIds : id \in poisoned /\ id # k => id \in poisoned'
      /\ ClassIds' = ClassIds /\ classes'[k].methods = ms /\ classes'[k].usr = u
  <2>1. poisoned' = IF Top.upgrade # 0 THEN poisoned \ {k} ELSE poisoned
    BY <1>1 DEF FinishClass
  <2>2. PICK p : p = Polymorphic(f.bases, f.methods)
    OBVIOUS
  <2>3. classes' = [classes EXCEPT ![k] = [@ EXCEPT !.bases = f.bases, !.fields = f.fields,
                                             !.methods = f.methods, !.poly = p]]
    BY <1>1, <2>2 DEF FinishClass
  <2>4. classes \in Seq(Class)
    BY DEF TypeOK
  <2>5. ClassIds' = ClassIds /\ k \in DOMAIN classes
    BY <2>3, <2>4, <1>2 DEF ClassIds
  <2>6. classes'[k] = [classes[k] EXCEPT !.bases = f.bases, !.fields = f.fields,
                                         !.methods = f.methods, !.poly = p]
    BY <2>3, <2>4, <2>5
  <2>7. classes[k] \in Class
    BY <1>2, ClassType
  <2>8. classes'[k].methods = ms
    BY <2>6, <2>7, <1>5 DEF Class
  <2> QED BY <2>1, <2>5, <2>8, <1>2, <1>5 DEF Kept
<1>7. ASSUME NEW id \in ClassIds, id # k PROVE MClass(id)'
  <2>1. PICK v : v = classes[id].usr
    OBVIOUS
  <2>2. ~RegisterClass
    BY DEF RegisterClass, FinishClass
  <2> QED BY <2>1, <2>2, <1>0, <1>2, <1>6, <1>7, MachineOther DEF MClasses
<1>8. MClass(k)'
  <2>1. ms \in Seq(MethodDef) /\ program' = program /\ u \in Usr
    BY <1>2, <1>5, FrameType DEF Kept
  <2>2. ASSUME NEW i \in DOMAIN ms PROVE Lowering(u, ms[i])'
    <3>1. PICK m : m = ms[i]
      OBVIOUS
    <3>2. m \in MethodDef /\ Lowering(u, m)
      BY <3>1, <2>1, <1>4, <1>5 DEF MethodsSoFar
    <3> QED BY <3>1, <3>2, <1>2, LoweringKept
  <2>3. Increasing(ms)'
    BY <1>4, <1>5 DEF MethodsSoFar, Increasing
  <2>4. FirstOf(f) = 1 /\ DoneOf(f) = Len(MethodsOf(u))
    <3>1. Len(f.todo) = 0 /\ Len(MethodsOf(u)) \in Nat
      BY <1>3, <2>1, DeclType DEF MethodsOf
    <3> QED BY <3>1, <1>2, <1>5 DEF FirstOf, DoneOf, LastOf
  <2>5. Plain(u)' => Whole(u, ms)'
    <3> SUFFICES ASSUME Plain(u)' PROVE Whole(u, ms)'
      OBVIOUS
    <3>1. Plain(u)
      BY <1>2, PlainKept
    <3>2. PICK M : M = Len(MethodsOf(u))
      OBVIOUS
    <3>3. Covers(u, ms, 1, M)
      BY <3>1, <3>2, <2>4, <1>4, <1>5 DEF MethodsSoFar
    <3>4. Covers(u, ms, 1, M)'
      BY <3>3, <2>1, ProgramSame
    <3> QED BY <3>2, <3>4, <2>1 DEF Whole, MethodsOf
  <2> QED BY <2>2, <2>3, <2>5, <1>6 DEF MClass, Ordered
<1> QED BY <1>6, <1>7, <1>8 DEF MClasses

(* The classes after any step of import_class.                               *)
LEMMA MachineClasses ==
  ASSUME IInv, IInv', AtAttach, Upgrades, MStack, MClasses, Machine
  PROVE  MClasses'
<1>1. CASE RegisterClass
  BY <1>1, RegisterMethods
<1>2. CASE FinishClass
  BY <1>2, FinishMethods
<1>3. ASSUME NEW u, PoisonNew(u), IsSpec(u) \/ cache[u] = 0, ReturnOpaque \/ FailArgument
      PROVE  MClasses'
  <2>1. ~RegisterClass
    BY <1>3 DEF RegisterClass, ReturnOpaque, FailArgument, Resumed
  <2> QED BY <2>1, <1>3, PoisonMethods
<1>4. CASE UNCHANGED ctxVars /\ ~RegisterClass
  <2>1. classes' = classes /\ poisoned' = poisoned /\ ClassIds' = ClassIds
    BY <1>4 DEF ctxVars, ClassIds
  <2>2. ASSUME NEW id \in ClassIds PROVE MClass(id)'
    <3>1. PICK v : v = classes[id].usr
      OBVIOUS
    <3> QED BY <3>1, <2>1, <1>4, MachineOther DEF MClasses
  <2> QED BY <2>1, <2>2 DEF MClasses
<1> QED BY <1>1, <1>2, <1>3, <1>4, MachineCtx

(* An upgrade overwrites a class that is still poisoned.                     *)
LEMMA MachineUpgrades == ASSUME IInv, IInv', Upgrades, Machine PROVE Upgrades'
<1> USE DEF IInv
<1>1. SUFFICES ASSUME stack' # << >>, Top'.stage = "args", ~IsSpec(Top.usr)'
               PROVE  Top'.upgrade \in poisoned' \union {0}
  BY DEF Upgrades
<1>2. PICK h : h = Top'
  OBVIOUS
<1>3. PICK n : n = Len(stack)
  OBVIOUS
<1>4. n \in Nat /\ DOMAIN stack = 1 .. n /\ stack \in Seq(Frames) /\ stack' \in Seq(Frames)
  BY <1>3 DEF TypeOK
<1>5. Kept
  BY MachineKept
<1>6. h.stage = "args" /\ ~IsSpec(h.usr) /\ h.todo = << >> /\ h = Last(stack') /\ h \in Frames
  <2>1. h = Last(stack')
    BY <1>2 DEF Top
  <2>2. h = stack'[Len(stack')] /\ Len(stack') \in DOMAIN stack' /\ h \in Frames
    BY <2>1, <1>1, <1>4 DEF Last
  <2>3. FrameOK(h)'
    BY <2>2 DEF StackOK, Activations
  <2>4. h.stage = "args" /\ ~IsSpec(h.usr)'
    BY <1>1, <1>2 DEF IsSpec
  <2>5. h.todo = << >>
    BY <2>3, <2>4 DEF FrameOK, ArgsFrame
  <2> QED BY <2>1, <2>2, <2>4, <2>5, <1>5 DEF IsSpec, Kept
<1>7. ASSUME NEW f \in Frames, FrameOK(f), f.stage = "args", ~IsSpec(f.usr) PROVE f.todo = << >>
  BY <1>7 DEF FrameOK, ArgsFrame
<1>8. CASE stack' = stack
  <2>1. h = Top /\ stack # << >> /\ h.upgrade \in poisoned \union {0}
    BY <1>1, <1>6, <1>8 DEF Top, Upgrades
  <2>2. poisoned \subseteq poisoned'
    <3>1. ~FinishClass
      <4>1. ASSUME FinishClass PROVE FALSE
        <5>1. Top.stage = "body"
          BY <4>1 DEF FinishClass
        <5> QED BY <5>1, <2>1, <1>6
      <4> QED BY <4>1
    <3> QED BY <3>1, MachineCtx DEF ctxVars, PoisonNew, RegisterClass
  <2> QED BY <2>1, <2>2, <1>2
<1>9. CASE EnterClass
  <2>1. PICK up, u, ar : up = UpgradeTarget(call) /\ u = call /\ ar = Args(call, "arg")
    OBVIOUS
  <2>2. PICK g : g = Frame("args", u, 0, up, ar)
    OBVIOUS
  <2>3. stack' = Append(stack, g) /\ poisoned' = poisoned
    BY <1>9, <2>1, <2>2 DEF EnterClass, ctxVars
  <2>4. h = g
    BY <2>3, <1>4, <1>6 DEF Last
  <2>5. up \in poisoned \union {0}
    BY <2>1 DEF UpgradeTarget
  <2> QED BY <2>2, <2>3, <2>4, <2>5, <1>2 DEF Frame
<1>10. ASSUME stack # << >>, stack' = Front(stack) PROVE FALSE
  <2>1. /\ n \in Nat \ {0} /\ DOMAIN stack' = 1 .. n - 1
        /\ \A i \in 1 .. n - 1 : stack'[i] = stack[i]
        /\ n > 1 <=> stack' # << >>
    BY <1>3, <1>10, PopShape
  <2>2. n > 1 /\ Len(stack') = n - 1
    BY <2>1, <1>1, <1>4
  <2>3. h = stack[n - 1] /\ n - 1 \in DOMAIN stack /\ (n - 1) + 1 \in DOMAIN stack
    BY <2>1, <2>2, <1>4, <1>6 DEF Last
  <2>4. PICK i : i = n - 1
    OBVIOUS
  <2>5. stack[i].todo # << >>
    BY <2>3, <2>4, BelowTop
  <2> QED BY <2>3, <2>4, <2>5, <1>6
<1>11. ASSUME NEW g, stack # << >>, stack' = SetTop(g), GoesOn(Top, g) PROVE FALSE
  <2>1. h = g
    <3>1. DOMAIN stack' = 1 .. n /\ stack'[n] = g /\ n # 0
      BY <1>3, <1>4, <1>11 DEF SetTop
    <3>2. Len(stack') = n
      BY <3>1, <1>4
    <3> QED BY <3>1, <3>2, <1>6 DEF Last
  <2>2. Top.stage = "args" /\ Top.usr = h.usr /\ Top.todo # << >>
    BY <2>1, <1>6, <1>11 DEF GoesOn
  <2>3. Top \in Frames /\ FrameOK(Top)
    BY <1>11, TopType DEF StackOK, Activations
  <2>4. PICK f : f = Top
    OBVIOUS
  <2> QED BY <2>2, <2>3, <2>4, <1>6, <1>7
<1> QED BY <1>8, <1>9, <1>10, <1>11, StackShape

(* The second pass goes on with the method it visits.                        *)
LEMMA MachineAtAttach == ASSUME IInv, IInv', AtAttach, Machine PROVE AtAttach'
<1>1. phase' = phase
  BY MachineKept DEF cursor
<1> QED BY <1>1, BottomStays DEF AtAttach

-----------------------------------------------------------------------------
(* The passes, between two activations.                                      *)

(* Neither the program nor the classes change.                               *)
LEMMA DefsSame ==
  ASSUME UNCHANGED <<program, ctxVars>>
  PROVE  /\ \A u, m : Lowering(u, m) => Lowering(u, m)'
         /\ \A u : Plain(u)' => Plain(u)
         /\ \A u : IsSpec(u)' <=> IsSpec(u)
         /\ \A id : Loose(id) => Loose(id)'
         /\ classes' = classes /\ ClassIds' = ClassIds /\ program' = program
<1>1. program' = program /\ classes' = classes /\ poisoned' = poisoned /\ ClassIds' = ClassIds
  BY DEF ctxVars, ClassIds
<1>2. \A id : TypeOfId(id)' = TypeOfId(id)
  BY <1>1 DEF TypeOfId
<1>3. \A u, m : Lowering(u, m) => Lowering(u, m)'
  BY <1>1, <1>2 DEF Lowering, Answered, MethodsOf
<1>4. \A t : Supported(t)' => Supported(t)
  BY <1>1 DEF Supported, Deps
<1>5. \A u : Plain(u)' => Plain(u)
  BY <1>1, <1>4 DEF Plain, MethodsOf
<1> QED BY <1>1, <1>3, <1>5 DEF IsSpec, Loose

(* The classes stay while the pass goes on, if their order does.             *)
LEMMA Moved ==
  ASSUME UNCHANGED <<program, ctxVars>>, MClasses,
         \A id \in ClassIds : ~IsSpec(classes[id].usr) /\ Ordered(id) => Ordered(id)'
  PROVE  MClasses'
<1>1. ASSUME NEW id \in ClassIds PROVE MClass(id)'
  <2>1. PICK u, ms : u = classes[id].usr /\ ms = classes[id].methods
    OBVIOUS
  <2>2. classes'[id].usr = u /\ classes'[id].methods = ms
    BY <2>1, DefsSame
  <2>3. ~IsSpec(u) /\ Ordered(id) => Ordered(id)'
    BY <2>1
  <2>4. \A k \in DOMAIN ms : Lowering(u, ms[k])
    BY <2>1 DEF MClasses, MClass
  <2>5. ASSUME NEW k \in DOMAIN ms PROVE Lowering(u, ms[k])'
    <3>1. PICK m : m = ms[k]
      OBVIOUS
    <3> QED BY <3>1, <2>4, DefsSame
  <2>6. Plain(u)' => Increasing(ms) /\ (IsSpec(u)' \/ Ordered(id)')
    BY <2>1, <2>3, DefsSame DEF MClasses, MClass
  <2>7. Increasing(ms)' <=> Increasing(ms)
    BY DEF Increasing
  <2> QED BY <2>2, <2>5, <2>6, <2>7 DEF MClass
<1> QED BY <1>1, DefsSame DEF MClasses

(* The order of the methods of a class once the pass has gone on.            *)
LEMMA LaterAt ==
  ASSUME UNCHANGED <<program, ctxVars>>, NEW id, NEW u, u = classes[id].usr,
         NEW ms, ms = classes[id].methods, NEW p, p = NextMem',
         \/ Whole(u, ms)
         \/ /\ Attaching(u)'
            /\ \A k \in DOMAIN ms : ms[k].n < p
            /\ Loose(id) \/ Covers(u, ms, 1, p - 1)
         \/ ~Attaching(u)' /\ (ms = << >> \/ (Loose(id) /\ ~Due(u)'))
  PROVE  Ordered(id)'
<1>1. classes'[id].usr = u /\ classes'[id].methods = ms /\ (Loose(id) => Loose(id)')
  BY DefsSame
<1>2. \A lo, hi : Covers(u, ms, lo, hi)' <=> Covers(u, ms, lo, hi)
  BY ProgramSame
<1>3. MethodsOf(u)' = MethodsOf(u)
  BY ProgramSame
<1>4. CASE Whole(u, ms)
  <2>1. PICK M : M = Len(MethodsOf(u))
    OBVIOUS
  <2>2. Covers(u, ms, 1, M)'
    BY <2>1, <1>2, <1>4 DEF Whole
  <2>3. Whole(u, ms)'
    BY <2>1, <2>2, <1>3 DEF Whole
  <2> QED BY <2>3, <1>1 DEF Ordered
<1>5. CASE /\ Attaching(u)'
           /\ \A k \in DOMAIN ms : ms[k].n < p
           /\ Loose(id) \/ Covers(u, ms, 1, p - 1)
  <2>1. Loose(id)' \/ Covers(u, ms, 1, p - 1)'
    BY <1>1, <1>2, <1>5
  <2> QED BY <2>1, <1>1, <1>5 DEF Ordered
<1>6. CASE ~Attaching(u)' /\ (ms = << >> \/ (Loose(id) /\ ~Due(u)'))
  BY <1>1, <1>6 DEF Ordered
<1> QED BY <1>4, <1>5, <1>6

(* The same, when no activation is left.                                     *)
LEMMA Later ==
  ASSUME UNCHANGED <<program, ctxVars>>, NEW id, NEW u, u = classes[id].usr,
         NEW ms, ms = classes[id].methods, stack' = << >>,
         \/ Whole(u, ms)
         \/ /\ Attaching(u)'
            /\ \A k \in DOMAIN ms : ms[k].n < mem'
            /\ Loose(id) \/ Covers(u, ms, 1, mem' - 1)
         \/ ~Attaching(u)' /\ (ms = << >> \/ (Loose(id) /\ ~Due(u)'))
  PROVE  Ordered(id)'
<1>1. PICK p : p = mem'
  OBVIOUS
<1>2. NextMem' = p
  BY <1>1 DEF NextMem
<1> QED BY <1>1, <1>2, LaterAt

(* Before it goes on.                                                        *)
LEMMA Before ==
  ASSUME stack = << >>, NEW id, NEW u, u = classes[id].usr,
         NEW ms, ms = classes[id].methods, Ordered(id)
  PROVE  \/ Whole(u, ms)
         \/ /\ Attaching(u)
            /\ \A k \in DOMAIN ms : ms[k].n < mem
            /\ Loose(id) \/ Covers(u, ms, 1, mem - 1)
         \/ ~Attaching(u) /\ (ms = << >> \/ (Loose(id) /\ ~Due(u)))
BY DEF Ordered, NextMem

(* The cursors of a header.                                                  *)
LEMMA Cursors ==
  ASSUME TypeOK
  PROVE  /\ Records \in Seq(Usr) /\ DOMAIN Records = 1 .. Len(Records) /\ Len(Records) \in Nat
         /\ pos \in Nat \ {0} /\ mem \in Nat \ {0}
         /\ \A j, k \in DOMAIN Records : Records[j] = Records[k] => j = k
<1>1. Records \in Seq(Usr)
  BY HeaderType DEF TypeOK, Records
<1>2. WellFormed(program)
  BY ProgramAssumption DEF TypeOK
<1>3. \A j, k \in DOMAIN Records : Records[j] = Records[k] => j = k
  BY <1>2 DEF WellFormed, Records, TypeOK
<1> QED BY <1>1, <1>3 DEF TypeOK

(* The walk asks for the next record.                                        *)
LEMMA WalkRecordOrders ==
  ASSUME IInv, WalkRecord, NEW id \in ClassIds, Ordered(id)
  PROVE  Ordered(id)'
<1> USE DEF IInv
<1>1. PICK u, ms : u = classes[id].usr /\ ms = classes[id].methods
  OBVIOUS
<1>2. /\ phase = "walk" /\ stack = << >> /\ call = NoUsr /\ pos <= Len(Records)
      /\ call' = IF program.decl[Records[pos]].system THEN NoUsr ELSE Records[pos]
      /\ pos' = pos + 1 /\ phase' = phase /\ stack' = << >>
      /\ UNCHANGED <<program, ctxVars>> /\ Records' = Records
  BY DEF WalkRecord, Idle, Records
<1>3. ~Attaching(u) /\ ~Attaching(u)'
  BY <1>2 DEF Attaching
<1>4. u \in Usr /\ u # NoUsr
  BY <1>1, ClassType, NamesAssumption DEF Type
<1>5. ASSUME Loose(id), Due(u)' PROVE Due(u)
  <2>1. PICK k \in DOMAIN Records : /\ Records[k] = u /\ k < pos'
                                    /\ ~(k = pos' - 1 /\ Entering(u)')
    BY <1>2, <1>5 DEF Due
  <2>2. k # pos
    <3> SUFFICES ASSUME k = pos PROVE FALSE
      OBVIOUS
    <3>1. call' = u
      BY <2>1, <1>1, <1>2, <1>5 DEF Loose
    <3>2. Entering(u)'
      BY <3>1, <1>2 DEF Entering
    <3> QED BY <3>2, <2>1, <1>2, Cursors
  <2>3. k < pos
    BY <2>1, <2>2, <1>2, Cursors
  <2>4. ~Entering(u)
    BY <1>2, <1>4 DEF Entering
  <2> QED BY <2>1, <2>3, <2>4, <1>2 DEF Due
<1> QED BY <1>1, <1>2, <1>3, <1>5, Before, Later

(* The walk has an answer.                                                   *)
LEMMA WalkReturnOrders ==
  ASSUME IInv, WalkReturn, NEW id \in ClassIds, Ordered(id)
  PROVE  Ordered(id)'
<1>1. PICK u, ms : u = classes[id].usr /\ ms = classes[id].methods
  OBVIOUS
<1>2. /\ phase = "walk" /\ stack = << >> /\ phase' \in {"walk", "failed"} /\ stack' = << >>
      /\ call' = call /\ pos' = pos /\ UNCHANGED <<program, ctxVars>> /\ Records' = Records
  BY DEF WalkReturn, Records
<1>3. ~Attaching(u) /\ ~Attaching(u)'
  BY <1>2 DEF Attaching
<1>4. Due(u)' => Due(u)
  BY <1>2 DEF Due, Entering
<1> QED BY <1>1, <1>2, <1>3, <1>4, Before, Later

(* The second pass begins: what is still poisoned is in no cursor.           *)
LEMMA WalkDoneOrders ==
  ASSUME IInv, WalkDone, NEW id \in ClassIds, Ordered(id)
  PROVE  Ordered(id)'
<1> USE DEF IInv
<1>1. PICK u, ms : u = classes[id].usr /\ ms = classes[id].methods
  OBVIOUS
<1>2. /\ phase = "walk" /\ stack = << >> /\ call = NoUsr /\ pos > Len(Records)
      /\ phase' = "attach" /\ pos' = 1 /\ mem' = 1 /\ stack' = << >>
      /\ UNCHANGED <<program, ctxVars>> /\ Records' = Records
  BY DEF WalkDone, Idle, Records, machine
<1>3. ~Attaching(u)
  BY <1>2 DEF Attaching
<1>4. u \in Usr /\ u # NoUsr
  BY <1>1, ClassType, NamesAssumption DEF Type
<1>5. ASSUME NEW k \in DOMAIN Records, Records[k] = u PROVE Due(u)
  <2>1. k < pos
    BY <1>2, Cursors
  <2>2. ~Entering(u)
    BY <1>2, <1>4 DEF Entering
  <2> QED BY <2>1, <2>2, <1>2, <1>5 DEF Due
<1>6. ASSUME Attaching(u)' \/ Due(u)' PROVE Due(u)
  <2>1. PICK k \in DOMAIN Records : Records[k] = u
    BY <1>2, <1>6, Cursors DEF Attaching, Due
  <2> QED BY <2>1, <1>5
<1>7. CASE Whole(u, ms)
  BY <1>1, <1>2, <1>7, Later
<1>8. CASE ms = << >>
  <2>1. \A k \in DOMAIN ms : ms[k].n < mem'
    BY <1>8
  <2>2. Covers(u, ms, 1, mem' - 1)
    BY <1>2 DEF Covers
  <2> QED BY <2>1, <2>2, <1>1, <1>2, <1>8, Later
<1>9. CASE Loose(id) /\ ~Due(u)
  <2>1. ~Attaching(u)' /\ ~Due(u)'
    BY <1>6, <1>9
  <2> QED BY <2>1, <1>1, <1>2, <1>9, Later
<1> QED BY <1>1, <1>2, <1>3, <1>7, <1>8, <1>9, Before

(* The second pass leaves a record, whose cursor does not come again.        *)
LEMMA NextRecordOrders ==
  ASSUME IInv, NextRecord, NEW id \in ClassIds, Ordered(id)
  PROVE  Ordered(id)'
<1> USE DEF IInv
<1>1. PICK u, ms : u = classes[id].usr /\ ms = classes[id].methods
  OBVIOUS
<1>2. /\ phase = "attach" /\ stack = << >> /\ pos <= Len(Records) /\ phase' = phase
      /\ mem > Len(MethodsOf(Records[pos])) /\ pos' = pos + 1 /\ mem' = 1 /\ stack' = << >>
      /\ UNCHANGED <<program, ctxVars>> /\ Records' = Records
  <2>1. ~(mem <= Len(MethodsOf(Records[pos])))
    BY DEF NextRecord, MethodsLeft, ThisRecord, MethodsOf
  <2>2. Records[pos] \in Usr
    BY Cursors DEF NextRecord, AtRecord
  <2>3. Len(MethodsOf(Records[pos])) \in Nat /\ mem \in Nat
    BY <2>2, Cursors, DeclType DEF MethodsOf
  <2> QED BY <2>1, <2>3 DEF NextRecord, AtRecord, Idle, Records, machine
<1>3. u \in Usr
  BY <1>1, ClassType
<1>4. Len(MethodsOf(u)) \in Nat
  BY <1>3, DeclType DEF MethodsOf
<1>5. ASSUME Due(u)' \/ Attaching(u)' PROVE \E k \in DOMAIN Records : Records[k] = u /\ k > pos
  <2>1. PICK k \in DOMAIN Records : Records[k] = u /\ k >= pos'
    <3>1. CASE Due(u)'
      BY <3>1, <1>2 DEF Due
    <3>2. CASE Attaching(u)'
      <4>1. pos' \in DOMAIN Records /\ Records[pos'] = u /\ pos' >= pos'
        BY <3>2, <1>2, Cursors DEF Attaching
      <4> QED BY <4>1
    <3> QED BY <3>1, <3>2, <1>5
  <2> QED BY <2>1, <1>2, Cursors
<1>6. CASE Whole(u, ms)
  BY <1>1, <1>2, <1>6, Later
<1>7. CASE /\ Attaching(u)
           /\ \A k \in DOMAIN ms : ms[k].n < mem
           /\ Loose(id) \/ Covers(u, ms, 1, mem - 1)
  <2>1. Records[pos] = u /\ pos \in DOMAIN Records
    BY <1>2, <1>7, Cursors DEF Attaching
  <2>2. ~Due(u)' /\ ~Attaching(u)'
    <3>1. ASSUME NEW k \in DOMAIN Records, Records[k] = u PROVE ~(k > pos)
      <4>1. k = pos
        BY <2>1, <3>1, Cursors
      <4> QED BY <4>1, Cursors
    <3> QED BY <3>1, <1>5
  <2>3. Covers(u, ms, 1, mem - 1) => Whole(u, ms)
    <3>1. \A n \in 1 .. Len(MethodsOf(u)) : n \in 1 .. mem - 1
      BY <2>1, <1>2, <1>4, Cursors
    <3> QED BY <3>1 DEF Covers, Whole
  <2> QED BY <2>2, <2>3, <1>1, <1>2, <1>7, Later
<1>8. CASE ms = << >>
  <2>1. \A k \in DOMAIN ms : ms[k].n < mem'
    BY <1>8
  <2>2. Covers(u, ms, 1, mem' - 1)
    BY <1>2 DEF Covers
  <2> QED BY <2>1, <2>2, <1>1, <1>2, <1>8, Later
<1>9. CASE Loose(id) /\ ~Due(u)
  <2>1. ASSUME NEW k \in DOMAIN Records, Records[k] = u, k > pos PROVE Due(u)
    <3>1. k >= pos
      BY <2>1, Cursors
    <3> QED BY <3>1, <2>1, <1>2 DEF Due
  <2>2. ~Attaching(u)' /\ ~Due(u)'
    BY <2>1, <1>5, <1>9
  <2> QED BY <2>2, <1>1, <1>2, <1>9, Later
<1> QED BY <1>1, <1>2, <1>6, <1>7, <1>8, <1>9, Before

(* The second pass passes a method by.                                       *)
LEMMA SkipMethodOrders ==
  ASSUME IInv, SkipMethod, NEW id \in ClassIds, Ordered(id), ~IsSpec(classes[id].usr)
  PROVE  Ordered(id)'
<1> USE DEF IInv
<1>1. PICK u, ms : u = classes[id].usr /\ ms = classes[id].methods
  OBVIOUS
<1>2. /\ phase = "attach" /\ stack = << >> /\ pos <= Len(Records) /\ phase' = phase
      /\ pos' = pos /\ mem' = mem + 1 /\ stack' = << >>
      /\ UNCHANGED <<program, ctxVars>> /\ Records' = Records
      /\ \/ cache[Records[pos]] = 0
         \/ IsSpec(Records[pos])
         \/ MethodsOf(Records[pos])[mem].hidden
  BY DEF SkipMethod, AtRecord, Idle, Records, machine, ThisRecord, MethodsOf
<1>3. Attaching(u)' <=> Attaching(u)
  BY <1>2 DEF Attaching
<1>4. Due(u)' => Due(u)
  BY <1>2 DEF Due
<1>5. ms \in Seq(MethodDef) /\ u \in Usr
  BY <1>1, ClassType
<1>6. CASE Whole(u, ms)
  BY <1>1, <1>2, <1>6, Later
<1>7. CASE /\ Attaching(u)
           /\ \A k \in DOMAIN ms : ms[k].n < mem
           /\ Loose(id) \/ Covers(u, ms, 1, mem - 1)
  <2>1. Records[pos] = u
    BY <1>7 DEF Attaching
  <2>2. cache[u] = id /\ id # 0
    BY <1>1 DEF OneId, ClassIds
  <2>3. ~Lowers(u, mem)
    BY <2>1, <2>2, <1>1, <1>2 DEF Lowers
  <2>4. PICK b : b = mem - 1
    OBVIOUS
  <2>5. b \in Int /\ b + 1 = mem /\ mem' - 1 = mem
    BY <2>4, <1>2, Cursors
  <2>6. Covers(u, ms, 1, mem - 1) => Covers(u, ms, 1, mem' - 1)
    BY <2>3, <2>4, <2>5, CoversNext
  <2>7. ASSUME NEW k \in DOMAIN ms PROVE ms[k].n < mem'
    <3>1. ms[k] \in MethodDef
      BY <1>5
    <3>2. ms[k].n \in Nat
      BY <3>1 DEF MethodDef
    <3>3. ms[k].n < mem
      BY <1>7
    <3> QED BY <3>2, <3>3, <1>2, Cursors
  <2> QED BY <2>6, <2>7, <1>1, <1>2, <1>3, <1>7, Later
<1>8. CASE ~Attaching(u) /\ (ms = << >> \/ (Loose(id) /\ ~Due(u)))
  BY <1>1, <1>2, <1>3, <1>4, <1>8, Later
<1>9. stack = << >>
  BY <1>2
<1> QED BY <1>1, <1>6, <1>7, <1>8, <1>9, Before

(* The second pass ends, or the header does.                                 *)
LEMMA HeaderOrders ==
  ASSUME IInv, AttachDone \/ HeaderDone, NEW id \in ClassIds, Ordered(id)
  PROVE  Ordered(id)'
<1> USE DEF IInv
<1>1. PICK u, ms : u = classes[id].usr /\ ms = classes[id].methods
  OBVIOUS
<1>2. stack = << >> /\ stack' = << >> /\ UNCHANGED <<program, ctxVars>>
  BY DEF AttachDone, HeaderDone, Idle, machine, StackOK, Pending
<1>3. ~Attaching(u)
  BY Cursors DEF AttachDone, HeaderDone, Attaching
<1>4. phase' \in {"repoly", "done"} \/ (phase' = "walk" /\ pos' = 1)
  BY DEF AttachDone, HeaderDone
<1>5. ~Attaching(u)' /\ ~Due(u)'
  <2>1. ~Attaching(u)'
    BY <1>4 DEF Attaching
  <2>2. ASSUME phase' = "walk", pos' = 1, Due(u)' PROVE FALSE
    <3>1. PICK k \in DOMAIN Records' : k < 1
      BY <2>2 DEF Due
    <3>2. TypeOK'
      BY HeaderDoneKeeps, BetweenKeeps
    <3>3. Records' \in Seq(Usr)
      <4>1. PICK i : i = tu'
        OBVIOUS
      <4>2. program' = program
        BY DEF AttachDone, HeaderDone
      <4>3. i \in DOMAIN program.tus /\ Records' = program.tus[i].cursors
        BY <4>1, <4>2, <3>2 DEF TypeOK, Records
      <4> QED BY <4>3, HeaderType
    <3> QED BY <3>1, <3>3
  <2> QED BY <2>1, <2>2, <1>4 DEF Due
<1> QED BY <1>1, <1>2, <1>3, <1>5, Before, Later

-----------------------------------------------------------------------------
(* The second pass visits a method and attaches it.                          *)

(* A method is visited.                                                      *)
LEMMA VisitMethods ==
  ASSUME IInv, IInv', MClasses, VisitMethod
  PROVE  MInv'
<1> USE DEF IInv
<1>1. PICK u, k : u = ThisRecord /\ k = cache[u]
  OBVIOUS
<1>2. PICK x : x = MethodMember(u, mem)
  OBVIOUS
<1>3. PICK g : g = Frame("attach", u, k, 0, <<x>>)
  OBVIOUS
<1>4. /\ phase = "attach" /\ stack = << >> /\ pos <= Len(Records) /\ u = Records[pos]
      /\ mem <= Len(MethodsOf(u)) /\ mem' = mem + 1 /\ stack' = <<g>>
      /\ k # 0 /\ ~IsSpec(u) /\ ~MethodsOf(u)[mem].hidden
      /\ UNCHANGED <<program, ctxVars>> /\ tu' = tu /\ phase' = phase /\ pos' = pos
  BY <1>1, <1>2, <1>3 DEF VisitMethod, AtRecord, Idle, MethodsLeft, ThisRecord, MethodsOf
<1>5. program' = program /\ Records' = Records /\ cache' = cache
  BY <1>4 DEF Records, ctxVars
<1>6. /\ g.stage = "attach" /\ g.usr = u /\ g.id = k /\ g.todo = <<x>> /\ g.got = << >>
      /\ g.methods = << >>
  BY <1>3 DEF Frame
<1>7. DOMAIN stack' = {1} /\ stack'[1] = g /\ Len(stack') = 1
  BY <1>4
<1>8. u \in Usr /\ mem \in Nat \ {0} /\ MethodsOf(u) \in Seq(Method)
  <2>1. u \in Usr /\ mem \in Nat \ {0}
    BY <1>4, Cursors
  <2> QED BY <2>1, DeclType DEF MethodsOf
<1>9. MFrame(g)'
  <2>1. Answered(<< >>, Head(g.todo).types)'
    BY DEF Answered
  <2>2. PICK p : p = mem
    OBVIOUS
  <2>3. FirstOf(g)' = p /\ LastOf(g)' = p /\ DoneOf(g)' = p - 1
    BY <2>2, <1>4, <1>6, <1>8 DEF FirstOf, LastOf, DoneOf
  <2>4. MethodsSoFar(g)'
    <3>1. x = MethodMember(u, p)'
      BY <2>2, <1>2, <1>5, ProgramSame
    <3>2. \A i \in DOMAIN g.todo : i = 1
      BY <1>6
    <3>3. p \in Nat \ {0} /\ p - 1 + 1 = p /\ (p - 1) + 1 >= p
      BY <2>2, <1>8
    <3>4. \A i \in DOMAIN g.todo :
            IF (p - 1) + i >= p THEN g.todo[i] = MethodMember(u, (p - 1) + i)'
            ELSE g.todo[i].part # "method"
      BY <3>1, <3>2, <3>3, <1>6
    <3>5. DOMAIN g.methods = {} /\ Increasing(g.methods)
      BY <1>6 DEF Increasing
    <3>6. Covers(u, g.methods, p, p - 1)'
      BY <3>3 DEF Covers
    <3> QED BY <2>3, <3>4, <3>5, <3>6, <1>6 DEF MethodsSoFar, Increasing
  <2>5. Visits(g)'
    <3>1. Attaching(u)'
      BY <1>4, <1>5 DEF Attaching
    <3>2. ~IsSpec(u)' /\ MethodsOf(u)' = MethodsOf(u)
      BY <1>4, <1>5, ProgramSame
    <3>3. mem' - 1 = mem /\ mem \in DOMAIN MethodsOf(u) /\ Len(g.todo) <= 1
      BY <1>4, <1>6, <1>8
    <3> QED BY <3>1, <3>2, <3>3, <1>1, <1>4, <1>5, <1>6 DEF Visits
  <2> QED BY <2>1, <2>4, <2>5, <1>6 DEF MFrame
<1>10. MStack' /\ AtAttach' /\ Upgrades'
  <2>1. Top' = g /\ stack' # << >>
    BY <1>4, <1>7 DEF Top, Last
  <2> QED BY <2>1, <1>6, <1>7, <1>9 DEF MStack, AtAttach, Upgrades
<1>11. MClasses'
  <2>1. NextMem' = mem
    BY <1>4, <1>8 DEF NextMem
  <2>2. ASSUME NEW id \in ClassIds, Ordered(id) PROVE Ordered(id)'
    <3>1. PICK v, ms : v = classes[id].usr /\ ms = classes[id].methods
      OBVIOUS
    <3>2. Attaching(v)' <=> Attaching(v)
      BY <1>4, <1>5 DEF Attaching
    <3>3. Due(v)' => Due(v)
      BY <1>4, <1>5 DEF Due
    <3>4. \/ Whole(v, ms)
          \/ /\ Attaching(v)
             /\ \A i \in DOMAIN ms : ms[i].n < mem
             /\ Loose(id) \/ Covers(v, ms, 1, mem - 1)
          \/ ~Attaching(v) /\ (ms = << >> \/ (Loose(id) /\ ~Due(v)))
      BY <2>2, <3>1, <1>4, Before
    <3> QED BY <2>1, <3>1, <3>2, <3>3, <3>4, <1>4, LaterAt
  <2> QED BY <2>2, <1>4, Moved
<1> QED BY <1>10, <1>11 DEF MInv

(* Two ways to lower the same method of a plain record agree.                *)
LEMMA SameParams ==
  ASSUME TypeOK, NEW u, Plain(u), NEW a \in MethodDef, NEW b \in MethodDef, a.n = b.n,
         Lowering(u, a), Lowering(u, b), MethodsOf(u) \in Seq(Method)
  PROVE  a.params = b.params
<1>1. PICK n : n = a.n
  OBVIOUS
<1>2. PICK types : types = MethodsOf(u)[n].types
  OBVIOUS
<1>3. n \in DOMAIN MethodsOf(u) /\ types \in Seq(Type)
  <2>1. n \in DOMAIN MethodsOf(u)
    BY <1>1 DEF Lowering
  <2>2. MethodsOf(u)[n] \in Method
    BY <2>1
  <2> QED BY <2>1, <2>2, <1>2 DEF Method
<1>4. PICK p, q : p = a.params /\ q = b.params
  OBVIOUS
<1>5. /\ p \in Seq(Nat) /\ q \in Seq(Nat) /\ Len(p) + 1 = Len(types) /\ Len(q) + 1 = Len(types)
      /\ Answered(p, types) /\ Answered(q, types)
  BY <1>1, <1>2, <1>4 DEF Lowering, MethodDef
<1>6. Len(p) = Len(q) /\ \A i \in DOMAIN p : i \in DOMAIN q /\ i \in DOMAIN types
  BY <1>3, <1>5
<1>7. ASSUME NEW i \in DOMAIN p PROVE p[i] = q[i]
  <2>1. PICK c, d, t : c = p[i] /\ d = q[i] /\ t = types[i]
    OBVIOUS
  <2>2. /\ c \in Nat /\ d \in Nat /\ c <= Len(classes) /\ d <= Len(classes)
        /\ TypeOfId(c) = t /\ TypeOfId(d) = t /\ Len(classes) \in Nat
    BY <2>1, <1>5, <1>6 DEF Answered, TypeOK
  <2>3. \A e \in {c, d} : e # 0 => e \in ClassIds /\ classes[e].usr = t /\ t \in Usr
    <3> SUFFICES ASSUME NEW e \in {c, d}, e # 0
                 PROVE  e \in ClassIds /\ classes[e].usr = t /\ t \in Usr
      OBVIOUS
    <3>1. e \in ClassIds /\ classes[e].usr = t
      BY <2>2 DEF ClassIds, TypeOfId
    <3> QED BY <3>1, ClassType
  <2>4. \A e \in {c, d} : e = 0 => t \notin Usr
    BY <2>2, NamesAssumption DEF TypeOfId
  <2>5. t \in Range(types)
    BY <2>1, <1>6 DEF Range
  <2>6. t \in Usr => \A j, k \in ClassIds : classes[j].usr = t /\ classes[k].usr = t => j = k
    BY <2>5, <1>2, <1>3 DEF Plain
  <2> QED BY <2>1, <2>3, <2>4, <2>6
<1> QED BY <1>4, <1>5, <1>6, <1>7

(* It is attached: it is there in a finished class, the last in a loose one. *)
LEMMA AttachMethods ==
  ASSUME IInv, IInv', MStack, MClasses, AttachMethod
  PROVE  MInv'
<1> USE DEF IInv
<1>1. PICK f, k : f = Top /\ k = f.id
  OBVIOUS
<1>2. PICK x, fs : fs = f.methods /\ x = fs[1]
  OBVIOUS
<1>3. /\ stack # << >> /\ f.stage = "attach" /\ f.todo = << >>
      /\ classes' = IF fs = << >> \/ Duplicate(k, x) THEN classes
                    ELSE [classes EXCEPT ![k].methods = Append(@, x)]
      /\ stack' = << >> /\ call' = NoUsr /\ ret' = NoRet /\ call = NoUsr /\ ret = NoRet
      /\ program' = program /\ UNCHANGED cursor /\ poisoned' = poisoned /\ cache' = cache
  BY <1>1, <1>2 DEF AttachMethod
<1>4. PICK n : n = Len(stack)
  OBVIOUS
<1>5. n \in Nat \ {0} /\ DOMAIN stack = 1 .. n /\ f = stack[n] /\ f \in Frames
  BY <1>1, <1>3, <1>4, TopType
<1>6. MFrame(f)
  BY <1>5 DEF MStack
<1>7. PICK u : u = f.usr
  OBVIOUS
<1>8. PICK p : p = mem - 1
  OBVIOUS
<1>9. /\ Attaching(u) /\ ~IsSpec(u) /\ k = cache[u] /\ k # 0
      /\ p \in DOMAIN MethodsOf(u) /\ ~MethodsOf(u)[p].hidden
  BY <1>1, <1>3, <1>6, <1>7, <1>8 DEF MFrame, Visits
<1>10. u \in Usr /\ k \in ClassIds /\ classes[k].usr = u /\ MethodsOf(u) \in Seq(Method)
  <2>1. u \in Usr
    BY <1>5, <1>7, FrameType
  <2>2. k \in ClassIds
    BY <2>1, <1>9 DEF TypeOK, ClassIds
  <2> QED BY <2>1, <2>2, <1>9, DeclType DEF OneId, MethodsOf
<1>11. p \in Nat \ {0} /\ mem = p + 1
  BY <1>8, <1>9, <1>10, Cursors
<1>12. NextMem = p /\ NextMem' = p + 1
  BY <1>3, <1>8, <1>11 DEF NextMem, cursor
<1>13. FirstOf(f) = p /\ DoneOf(f) = p
  BY <1>3, <1>8, <1>11 DEF FirstOf, DoneOf, LastOf
<1>14. /\ fs \in Seq(MethodDef)
       /\ \A i \in DOMAIN fs : Lowering(u, fs[i]) /\ fs[i].n = p
       /\ Plain(u) => Covers(u, fs, p, p)
  <2>1. MethodsSoFar(f)
    BY <1>3, <1>6 DEF MFrame
  <2>2. \A i \in p .. p : i = p
    BY <1>11
  <2> QED BY <2>1, <2>2, <1>2, <1>5, <1>7, <1>13, FrameType DEF MethodsSoFar
<1>15. fs # << >> => x \in MethodDef /\ Lowering(u, x) /\ x.n = p
  BY <1>2, <1>14
<1>16. PICK ms : ms = classes[k].methods
  OBVIOUS
<1>17. ms \in Seq(MethodDef) /\ classes \in Seq(Class) /\ ClassIds = DOMAIN classes
  BY <1>10, <1>16, ClassType DEF TypeOK, ClassIds
<1>18. PICK new : new = IF fs = << >> \/ Duplicate(k, x) THEN ms ELSE Append(ms, x)
  OBVIOUS
<1>19. /\ classes'[k].methods = new /\ classes'[k].usr = u /\ ClassIds' = ClassIds
       /\ \A id \in ClassIds : id # k => classes'[id] = classes[id]
  <2>1. CASE fs = << >> \/ Duplicate(k, x)
    BY <2>1, <1>3, <1>10, <1>16, <1>18 DEF ClassIds
  <2>2. CASE ~(fs = << >> \/ Duplicate(k, x))
    <3>1. classes' = [classes EXCEPT ![k].methods = Append(@, x)]
      BY <2>2, <1>3
    <3>2. classes'[k] = [classes[k] EXCEPT !.methods = Append(@, x)]
      BY <3>1, <1>10, <1>17
    <3>3. classes[k] \in Class
      BY <1>10, ClassType
    <3>4. classes'[k].methods = Append(ms, x) /\ classes'[k].usr = u
      BY <3>2, <3>3, <1>10, <1>16 DEF Class
    <3>5. ClassIds' = ClassIds /\ \A id \in ClassIds : id # k => classes'[id] = classes[id]
      BY <3>1, <1>17 DEF ClassIds
    <3> QED BY <2>2, <3>4, <3>5, <1>18
  <2> QED BY <2>1, <2>2
<1>20. Kept
  <2>1. \A id \in ClassIds : classes'[id].usr = classes[id].usr
    BY <1>10, <1>19
  <2>2. Len(classes') = Len(classes)
    BY <1>3, <1>17
  <2> QED BY <2>1, <2>2, <1>3, <1>17 DEF Kept, cursor
<1>21. Attaching(u)' /\ ~IsSpec(u)'
  BY <1>3, <1>9 DEF Attaching, Records, cursor, IsSpec
<1>22. MClass(k)
  BY <1>10 DEF MClasses
<1>23. ASSUME NEW j \in DOMAIN new PROVE Lowering(u, new[j])'
  <2>1. PICK m : m = new[j]
    OBVIOUS
  <2>2. m \in MethodDef /\ Lowering(u, m)
    <3>1. ASSUME NEW i \in DOMAIN ms PROVE ms[i] \in MethodDef /\ Lowering(u, ms[i])
      BY <1>10, <1>16, <1>17, <1>22 DEF MClass
    <3>2. CASE new = ms
      BY <3>1, <3>2, <2>1
    <3>3. CASE new # ms
      <4>1. fs # << >> /\ new = Append(ms, x)
        BY <3>3, <1>18
      <4>2. (j \in DOMAIN ms /\ new[j] = ms[j]) \/ new[j] = x
        BY <4>1, <1>15, <1>17
      <4> QED BY <4>1, <4>2, <3>1, <2>1, <1>15
    <3> QED BY <3>2, <3>3
  <2> QED BY <2>1, <2>2, <1>20, LoweringKept
<1>24. ASSUME Plain(u)' PROVE Increasing(new) /\ Ordered(k)'
  <2>1. Plain(u)
    BY <1>24, <1>20, PlainKept
  <2>2. Increasing(ms) /\ Ordered(k)
    BY <2>1, <1>9, <1>10, <1>16, <1>22 DEF MClass
  <2>3. \A lo, hi : Covers(u, new, lo, hi)' <=> Covers(u, new, lo, hi)
    BY <1>3, ProgramSame
  <2>4. CASE Whole(u, ms)
    <3>1. fs # << >> => Duplicate(k, x)
      <4> SUFFICES ASSUME fs # << >> PROVE Duplicate(k, x)
        OBVIOUS
      <4>1. Lowers(u, p)
        BY <1>9, <1>15 DEF Lowering, Lowers
      <4>2. p \in 1 .. Len(MethodsOf(u))
        BY <1>9, <1>10
      <4>3. PICK j \in DOMAIN ms : ms[j].n = p
        BY <4>1, <4>2, <2>4 DEF Whole, Covers, Has
      <4>4. ms[j] \in MethodDef /\ Lowering(u, ms[j])
        BY <1>10, <1>16, <1>17, <1>22 DEF MClass
      <4>5. PICK m : m = ms[j]
        OBVIOUS
      <4>6. m.params = x.params
        BY <4>3, <4>4, <4>5, <2>1, <1>10, <1>15, SameParams
      <4> QED BY <4>3, <4>5, <4>6, <1>15, <1>16 DEF Duplicate
    <3>2. new = ms
      BY <3>1, <1>18
    <3>3. PICK M : M = Len(MethodsOf(u))
      OBVIOUS
    <3>4. Covers(u, new, 1, M)'
      BY <3>2, <3>3, <2>3, <2>4 DEF Whole
    <3>5. Whole(u, new)'
      BY <3>3, <3>4, <1>3, ProgramSame DEF Whole
    <3> QED BY <3>2, <3>5, <2>2, <1>19 DEF Ordered
  <2>5. CASE /\ \A i \in DOMAIN ms : ms[i].n < p
             /\ Loose(k) \/ Covers(u, ms, 1, p - 1)
    <3>1. Loose(k) => Loose(k)'
      BY <1>3, <1>10, <1>19 DEF Loose
    <3>2. p - 1 \in Int /\ (p - 1) + 1 = p /\ (p + 1) - 1 = p
      BY <1>11
    <3>3. CASE fs = << >>
      <4>1. new = ms
        BY <3>3, <1>18
      <4>2. ~Lowers(u, p)
        <5>1. p \in p .. p /\ ~Has(fs, p)
          BY <3>3, <1>11 DEF Has
        <5> QED BY <5>1, <2>1, <1>14 DEF Covers
      <4>3. Covers(u, ms, 1, p - 1) => Covers(u, ms, 1, p)
        BY <4>2, <3>2, CoversNext
      <4>4. \A i \in DOMAIN ms : ms[i].n < p + 1
        <5>1. \A i \in DOMAIN ms : ms[i] \in MethodDef
          BY <1>17
        <5> QED BY <5>1, <2>5, <1>11 DEF MethodDef
      <4>5. Loose(k)' \/ Covers(u, new, 1, p)'
        BY <4>1, <4>3, <3>1, <2>3, <2>5
      <4> QED BY <4>1, <4>4, <4>5, <3>2, <2>2, <1>12, <1>19, <1>21 DEF Ordered
    <3>4. CASE fs # << >>
      <4>1. new = Append(ms, x)
        <5>1. ~Duplicate(k, x)
          <6>1. ASSUME NEW i \in DOMAIN ms, ms[i].n = x.n PROVE FALSE
            BY <6>1, <3>4, <2>5, <1>11, <1>15
          <6> QED BY <6>1, <1>16 DEF Duplicate
        <5> QED BY <5>1, <3>4, <1>18
      <4>2. x \in MethodDef /\ x.n = p
        BY <3>4, <1>15
      <4>3. /\ Increasing(new) /\ Has(new, p)
            /\ \A i \in DOMAIN new :
                 \/ i \in DOMAIN ms /\ new[i] = ms[i]
                 \/ i = Len(ms) + 1 /\ new[i] = x
        BY <4>1, <4>2, <2>2, <2>5, <1>17, Appended
      <4>4. Covers(u, ms, 1, p - 1) => Covers(u, new, 1, p)
        <5>1. Covers(u, ms, 1, p - 1) => Covers(u, new, 1, p - 1)
          BY <4>1, <1>17, CoversMore
        <5> QED BY <5>1, <4>3, <3>2, CoversNext
      <4>5. \A i \in DOMAIN new : new[i].n < p + 1
        <5>1. \A i \in DOMAIN ms : ms[i] \in MethodDef
          BY <1>17
        <5>2. \A i \in DOMAIN ms : ms[i].n \in Nat /\ ms[i].n < p
          BY <5>1, <2>5 DEF MethodDef
        <5> QED BY <5>2, <4>2, <4>3, <1>11
      <4>6. Loose(k)' \/ Covers(u, new, 1, p)'
        BY <4>4, <3>1, <2>3, <2>5
      <4> QED BY <4>3, <4>5, <4>6, <3>2, <1>12, <1>19, <1>21 DEF Ordered
    <3> QED BY <3>3, <3>4
  <2> QED BY <2>2, <2>4, <2>5, <1>9, <1>10, <1>12, <1>16 DEF Ordered
<1>25. MClass(k)'
  <2>1. Increasing(new)' <=> Increasing(new)
    BY DEF Increasing
  <2> QED BY <2>1, <1>19, <1>23, <1>24 DEF MClass
<1>26. ASSUME NEW id \in ClassIds, id # k PROVE MClass(id)'
  <2>1. PICK v : v = classes[id].usr
    OBVIOUS
  <2>2. classes'[id].methods = classes[id].methods
    BY <1>19, <1>26
  <2>3. ASSUME ~IsSpec(v), Ordered(id) PROVE Ordered(id)'
    <3>1. v # u
      <4>1. cache[v] = id
        BY <2>1, <2>3 DEF OneId
      <4> QED BY <4>1, <1>9, <1>26
    <3>2. ~Attaching(v) /\ phase # "walk"
      BY <3>1, <1>9 DEF Attaching
    <3> QED BY <2>1, <2>2, <2>3, <3>2, <1>3, <1>20, OrderedSame
  <2>4. MClass(id)
    BY DEF MClasses
  <2> QED BY <2>1, <2>2, <2>3, <2>4, <1>20, ClassSame
<1>27. MClasses'
  BY <1>19, <1>25, <1>26 DEF MClasses
<1>28. MStack' /\ AtAttach' /\ Upgrades'
  BY <1>3 DEF MStack, AtAttach, Upgrades, Idle
<1> QED BY <1>27, <1>28 DEF MInv

(* The third pass leaves the methods alone.                                  *)
LEMMA RecomputeMethods ==
  ASSUME IInv, IInv', MClasses, Recompute
  PROVE  MInv'
<1> USE DEF IInv
<1>1. stack = << >> /\ stack' = << >> /\ phase' = "repoly" /\ UNCHANGED <<program, cursor>>
      /\ poisoned' = poisoned /\ phase = "repoly" /\ call' = call
  BY DEF Recompute, machine, cursor, StackOK, Pending, Idle
<1>2. PICK u \in Usr : cache[u] # 0 /\ classes' = [classes EXCEPT ![cache[u]].poly = ~@]
  BY DEF Recompute
<1>3. PICK k : k = cache[u]
  OBVIOUS
<1>4. k \in ClassIds /\ classes \in Seq(Class) /\ ClassIds = DOMAIN classes
  BY <1>2, <1>3 DEF TypeOK, ClassIds
<1>5. \A id \in ClassIds : classes'[id].methods = classes[id].methods
                           /\ classes'[id].usr = classes[id].usr
  BY <1>2, <1>3, <1>4 DEF Class
<1>6. Len(classes') = Len(classes) /\ ClassIds' = ClassIds
  BY <1>2, <1>4 DEF ClassIds
<1>7. Kept
  BY <1>1, <1>4, <1>5, <1>6 DEF Kept, cursor
<1>8. ASSUME NEW id \in ClassIds PROVE MClass(id)'
  <2>1. PICK v : v = classes[id].usr
    OBVIOUS
  <2>2. Ordered(id) => Ordered(id)'
    BY <2>1, <1>1, <1>5, <1>7, OrderedSame
  <2>3. MClass(id)
    BY DEF MClasses
  <2> QED BY <2>1, <2>2, <2>3, <1>5, <1>7, ClassSame
<1>9. MClasses'
  BY <1>6, <1>8 DEF MClasses
<1> QED BY <1>1, <1>9 DEF MInv, MStack, AtAttach, Upgrades

(* The steps of the passes.                                                  *)
LEMMA MovesKeep ==
  ASSUME IInv, MClasses, \/ WalkRecord \/ WalkReturn \/ WalkDone
                         \/ NextRecord \/ SkipMethod \/ AttachDone \/ HeaderDone
  PROVE  MInv'
<1> USE DEF IInv
<1>1. stack' = << >> /\ UNCHANGED <<program, ctxVars>> /\ (phase' = "attach" => Idle')
  <2>1. CASE WalkRecord \/ WalkReturn
    BY <2>1 DEF WalkRecord, WalkReturn, Idle
  <2>2. CASE WalkDone \/ NextRecord \/ SkipMethod \/ AttachDone
    BY <2>2 DEF WalkDone, NextRecord, SkipMethod, AttachDone, AtRecord, machine, Idle
  <2>3. CASE HeaderDone
    BY <2>3 DEF HeaderDone, machine, StackOK, Pending, Idle
  <2> QED BY <2>1, <2>2, <2>3
<1>2. MClasses'
  <2>1. \A id \in ClassIds : ~IsSpec(classes[id].usr) /\ Ordered(id) => Ordered(id)'
    BY WalkRecordOrders, WalkReturnOrders, WalkDoneOrders, NextRecordOrders, SkipMethodOrders,
       HeaderOrders
  <2> QED BY <2>1, <1>1, Moved
<1> QED BY <1>1, <1>2 DEF MInv, MStack, AtAttach, Upgrades

(* The steps of import_class.                                                *)
LEMMA MachineMethods ==
  ASSUME IInv, IInv', MInv, Machine
  PROVE  MInv'
BY MachineStack, MachineClasses, MachineUpgrades, MachineAtAttach DEF MInv

(* Every step.                                                               *)
LEMMA MInvKeeps ==
  ASSUME IInv, IInv', MInv, [Next]_vars
  PROVE  MInv'
<1>1. CASE Next
  <2>1. CASE Machine
    BY <2>1, MachineMethods
  <2>2. CASE \/ WalkRecord \/ WalkReturn \/ WalkDone
             \/ NextRecord \/ SkipMethod \/ AttachDone \/ HeaderDone
    BY <2>2, MovesKeep DEF MInv
  <2>3. CASE VisitMethod
    BY <2>3, VisitMethods DEF MInv
  <2>4. CASE AttachMethod
    BY <2>4, AttachMethods DEF MInv
  <2>5. CASE Recompute
    BY <2>5, RecomputeMethods DEF MInv
  <2> QED BY <1>1, <2>1, <2>2, <2>3, <2>4, <2>5 DEF Next, Machine
<1>2. CASE UNCHANGED vars
  <2>1. /\ UNCHANGED <<program, ctxVars>> /\ UNCHANGED cursor
        /\ stack' = stack /\ call' = call /\ ret' = ret
        /\ program' = program /\ tu' = tu /\ classes' = classes /\ poisoned' = poisoned
    BY <1>2 DEF vars, machine, cursor, ctxVars
  <2>2. Kept
    BY <2>1 DEF Kept, IInv, TypeOK
  <2>3. MStack'
    BY <2>1, <2>2, StackKeeps DEF IInv, MInv
  <2>4. AtAttach' /\ Upgrades'
    BY <2>1 DEF MInv, AtAttach, Upgrades, Idle, Top, IsSpec, cursor
  <2>5. ASSUME NEW id \in ClassIds, Ordered(id) PROVE Ordered(id)'
    <3>1. PICK u : u = classes[id].usr
      OBVIOUS
    <3>2. Entering(u) => Entering(u)'
      BY <2>1 DEF Entering
    <3> QED BY <2>1, <2>2, <2>5, <3>1, <3>2, OrderedSame
  <2>6. MClasses'
    BY <2>1, <2>5, Moved DEF MInv
  <2> QED BY <2>3, <2>4, <2>6 DEF MInv
<1> QED BY <1>1, <1>2

(* In every state.                                                           *)
LEMMA AlwaysMethods == Spec => [](IInv /\ MInv)
<1>1. Init => MInv
  BY DEF Init, MInv, MStack, AtAttach, Upgrades, MClasses, ClassIds, Idle
<1>2. (IInv /\ Passes) /\ MInv /\ (IInv /\ Passes)' /\ [Next]_vars => MInv'
  BY MInvKeeps
<1> QED BY <1>1, <1>2, ImporterInvariant, PTL DEF Spec

(* A set of at most one element.                                             *)
LEMMA AtMostOne ==
  ASSUME NEW S, IsFiniteSet(S), Cardinality(S) <= 1, NEW a \in S, NEW b \in S
  PROVE  a = b
<1>1. Cardinality(S) \in Nat /\ Cardinality(S) # 0
  BY FS_CardinalityType, FS_EmptySet
<1>2. Cardinality(S) = 1
  BY <1>1
<1>3. PICK x : S = {x}
  BY <1>2, FS_Singleton
<1> QED BY <1>3

(* The methods of a class are in the order of their declarations, each once, *)
(* although two passes over several headers lower them (import.rs,           *)
(* attach_methods_recursively), when the classes they name can be imported   *)
(* and have one id each.                                                     *)
THEOREM MethodsCorrect == Spec => []MethodsInOrder
<1>1. ASSUME IInv, MInv PROVE MethodsInOrder
  <2> SUFFICES ASSUME NEW u \in Usr, cache[u] # 0,
                      \A m \in DOMAIN program.decl[u].methods :
                        \A t \in Range(program.decl[u].methods[m].types) \cap Usr :
                          Supported(t) /\ Unique(t),
                      NEW i \in DOMAIN classes[cache[u]].methods,
                      NEW j \in DOMAIN classes[cache[u]].methods, i < j
               PROVE  classes[cache[u]].methods[i].n < classes[cache[u]].methods[j].n
    BY DEF MethodsInOrder
  <2>1. ASSUME NEW t, Unique(t), NEW a \in ClassIds, NEW b \in ClassIds,
               classes[a].usr = t, classes[b].usr = t
        PROVE  a = b
    <3> DEFINE S == {id \in ClassIds : classes[id].usr = t}
    <3>1. PICK n : n = Len(classes)
      OBVIOUS
    <3>2. n \in Nat
      BY <1>1, <3>1 DEF IInv, TypeOK
    <3>3. IsFiniteSet(1 .. n)
      <4>1. 1 \in Int /\ n \in Int
        BY <3>2
      <4> QED BY <4>1, FS_Interval
    <3>4. S \in SUBSET (1 .. n)
      BY <3>1 DEF ClassIds
    <3>5. Cardinality(S) <= 1 /\ a \in S /\ b \in S
      BY <2>1 DEF Unique
    <3> HIDE DEF S
    <3>6. IsFiniteSet(S)
      BY <3>3, <3>4, FS_Subset
    <3> QED BY <3>5, <3>6, AtMostOne
  <2>2. Plain(u)
    BY <2>1 DEF Plain, MethodsOf
  <2>3. PICK id : id = cache[u]
    OBVIOUS
  <2>4. id \in ClassIds /\ classes[id].usr = u
    BY <1>1, <2>3 DEF IInv, TypeOK, OneId, ClassIds
  <2>5. Increasing(classes[id].methods)
    BY <1>1, <2>2, <2>4 DEF MInv, MClasses, MClass
  <2> QED BY <2>3, <2>5 DEF Increasing
<1> QED BY <1>1, AlwaysMethods, PTL
=============================================================================
