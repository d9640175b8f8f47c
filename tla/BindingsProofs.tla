--------------------------- MODULE BindingsProofs ---------------------------
(***************************************************************************)
(* What the emitters of Bindings write, for every type context.            *)
(*                                                                         *)
(* The walk keeps, of each class rendered and of the one in hand, what the *)
(* properties compare, never the texts: which method a block stands for,   *)
(* of which kind it is and how its identifier follows from its name.       *)
(***************************************************************************)
EXTENDS Wrappers, SequenceLemmas

(* A finite sequence grows by one.                                           *)
LEMMA Grown ==
  ASSUME NEW s, IsSeq(s), NEW x
  PROVE  /\ IsSeq(Append(s, x))
         /\ \E n \in Nat :
              /\ Len(s) = n /\ DOMAIN s = 1 .. n
              /\ Len(Append(s, x)) = n + 1 /\ DOMAIN Append(s, x) = 1 .. (n + 1)
              /\ \A i \in 1 .. n : Append(s, x)[i] = s[i]
              /\ Append(s, x)[n + 1] = x
         /\ Range(Append(s, x)) = Range(s) \cup {x}
BY Appended DEF IsSeq, OfItsOwn

(* The empty sequence is one.                                                *)
LEMMA EmptyIsSeq == IsSeq(<<>>) /\ DOMAIN <<>> = {} /\ Range(<<>>) = {} /\ Len(<<>>) = 0
<1>1. DOMAIN <<>> = {} /\ Len(<<>>) = 0
  OBVIOUS
<1>2. Range(<<>>) = {}
  BY <1>1 DEF Range
<1>3. <<>> \in Seq({})
  OBVIOUS
<1> QED BY <1>1, <1>2, <1>3 DEF IsSeq

(* Its length and its places.                                                *)
LEMMA Places ==
  ASSUME NEW s, IsSeq(s)
  PROVE  \E n \in Nat : Len(s) = n /\ DOMAIN s = 1 .. n /\ (n = 0 <=> s = <<>>)
<1>1. s \in Seq(Range(s))
  BY DEF IsSeq
<1> QED BY <1>1, Measured

-----------------------------------------------------------------------------
(* Where the walk is: the classes before `at' are rendered, and nothing is   *)
(* in hand between two classes.                                              *)
Idle == blocks = <<>> /\ dtor = FALSE /\ k = 1
Walk ==
  /\ prog \in Programs
  /\ phase \in {"fns", "classes", "shims", "throws", "done"}
  /\ at \in Nat \ {0} /\ k \in Nat \ {0} /\ dtor \in BOOLEAN
  /\ IsSeq(blocks) /\ IsSeq(items) /\ IsSeq(fns)
  /\ phase = "fns" => at = 1 /\ items = <<>> /\ blocks = <<>> /\ dtor = FALSE
  /\ phase = "classes" =>
       /\ Len(items) = at - 1 /\ at <= Len(prog.classes) + 1
       /\ (at = Len(prog.classes) + 1 \/ Class.skip \/ Class.poisoned) => Idle
  /\ phase \in {"shims", "throws", "done"} => Len(items) = Len(prog.classes)

(* What the context of the walk is.                                          *)
LEMMA Context ==
  ASSUME prog \in Programs
  PROVE  /\ WellFormed(prog)
         /\ IsSeq(prog.fns) /\ IsSeq(prog.classes)
         /\ \A c \in DOMAIN prog.classes : IsSeq(Methods(c)) /\ IsSeq(prog.classes[c].bases)
         /\ \A c \in DOMAIN prog.classes : \A i \in DOMAIN prog.classes[c].bases :
              prog.classes[c].bases[i].class \in 1 .. (c - 1)
<1>1. WellFormed(prog)
  BY ProgramAssumption
<1> QED BY <1>1 DEF WellFormed, Methods, Range

(* The walk starts there.                                                    *)
LEMMA WalkInit == Init => Walk
<1> SUFFICES ASSUME Init PROVE Walk
  OBVIOUS
<1>1. IsSeq(blocks) /\ IsSeq(items) /\ IsSeq(fns)
  BY EmptyIsSeq DEF Init
<1>2. at = 1 /\ k = 1
  BY Zenon DEF Init
<1>3. dtor \in BOOLEAN
  BY Zenon DEF Init
<1>4. at \in Nat \ {0} /\ k \in Nat \ {0}
  BY <1>2
<1> QED BY <1>1, <1>2, <1>3, <1>4, Zenon DEF Init, Walk

(* Every step keeps it there.                                                *)
LEMMA WalkStep == Walk /\ [Next]_vars => Walk'
<1> SUFFICES ASSUME Walk, [Next]_vars PROVE Walk'
  OBVIOUS
<1>1. PICK n \in Nat : Len(prog.classes) = n /\ DOMAIN prog.classes = 1 .. n
  BY Context, Places DEF Walk
<1>2. PICK h \in Nat : Len(items) = h /\ DOMAIN items = 1 .. h
  BY Places DEF Walk
<1>3. CASE EmitFn
  <2>1. IsSeq(fns')
    BY <1>3, Grown DEF EmitFn, Walk
  <2> QED BY <1>3, <2>1 DEF EmitFn, AtFn, Walk, Idle, Class
<1>4. CASE PassFn
  BY <1>4 DEF PassFn, AtFn, Walk, Idle, Class
<1>5. CASE FnsDone
  BY <1>1, <1>2, <1>5, EmptyIsSeq DEF FnsDone, Walk, Idle, Class
<1>6. CASE SkipClass
  <2>1. IsSeq(items') /\ Len(items') = h + 1
    BY <1>2, <1>6, Grown DEF SkipClass, Walk
  <2> QED BY <1>1, <1>2, <1>6, <2>1 DEF SkipClass, AtClass, Walk, Idle, Class
<1>7. CASE OpaqueClass
  <2>1. IsSeq(items') /\ Len(items') = h + 1
    BY <1>2, <1>7, Grown DEF OpaqueClass, Walk
  <2> QED BY <1>1, <1>2, <1>7, <2>1 DEF OpaqueClass, AtClass, Walk, Idle, Class
<1>8. CASE SkipMethod
  BY <1>1, <1>8 DEF SkipMethod, AtMethod, AtClass, Walk, Idle, Class
<1>9. CASE SkipExtraCtor
  BY <1>1, <1>9 DEF SkipExtraCtor, AtMethod, AtClass, Walk, Idle, Class
<1>10. CASE EmitMethod
  <2>1. IsSeq(blocks')
    BY <1>10, Grown DEF EmitMethod, Walk
  <2>2. dtor' \in BOOLEAN
    BY <1>10 DEF EmitMethod, Walk
  <2> QED BY <1>1, <1>10, <2>1, <2>2 DEF EmitMethod, AtMethod, AtClass, Walk, Idle, Class
<1>11. CASE FinishClass
  <2>1. IsSeq(items') /\ Len(items') = h + 1
    BY <1>2, <1>11, Grown DEF FinishClass, Walk
  <2>2. IsSeq(blocks')
    BY <1>11, EmptyIsSeq DEF FinishClass
  <2>3. Idle' /\ phase' = phase /\ prog' = prog /\ at' = at + 1 /\ fns' = fns
    BY <1>11 DEF FinishClass, Idle
  <2>4. phase = "classes" /\ at <= Len(prog.classes)
    BY <1>11 DEF FinishClass, AtClass
  <2>5. at' \in Nat \ {0} /\ at' <= Len(prog.classes) + 1 /\ Len(items') = at' - 1
    BY <1>1, <1>2, <2>1, <2>3, <2>4 DEF Walk
  <2>6. k' \in Nat \ {0}
    BY <2>3 DEF Idle
  <2>7. dtor' \in BOOLEAN
    BY <2>3, Zenon DEF Idle
  <2>8. phase' = "classes"
    BY <2>3, <2>4
  <2>9. prog' \in Programs /\ IsSeq(fns')
    BY <2>3 DEF Walk
  <2> QED BY <2>1, <2>2, <2>3, <2>5, <2>6, <2>7, <2>8, <2>9 DEF Walk
<1>12. CASE ClassesDone
  BY <1>1, <1>2, <1>12 DEF ClassesDone, Walk, Idle, Class
<1>13. CASE ShimClass
  BY <1>1, <1>13 DEF ShimClass, AtShims, Walk, Idle, Class
<1>14. CASE PassUnlisted
  BY <1>1, <1>14 DEF PassUnlisted, AtShims, Walk, Idle, Class
<1>15. CASE ShimFns
  BY <1>15 DEF ShimFns, Walk, Idle, Class
<1>16. CASE ThrowsShims
  BY <1>16 DEF ThrowsShims, Walk, Idle, Class
<1>17. CASE UNCHANGED vars
  BY <1>17 DEF vars, Walk, Idle, Class
<1> QED BY <1>3, <1>4, <1>5, <1>6, <1>7, <1>8, <1>9, <1>10, <1>11, <1>12, <1>13, <1>14, <1>15,
          <1>16, <1>17 DEF Next

(* What a step does to the classes rendered: nothing, or one more.           *)
Adds(x) ==
  /\ at \in DOMAIN prog.classes /\ at \notin DOMAIN items
  /\ DOMAIN items' = DOMAIN items \cup {at}
  /\ items'[at] = x
  /\ \A c \in DOMAIN items : items'[c] = items[c]

(* A step keeps the context, and the classes rendered grow only by the one   *)
(* at hand: opaque when it is skipped or poisoned, else as FinishClass       *)
(* renders it.                                                               *)
LEMMA ItemsStep ==
  ASSUME Walk, [Next]_vars
  PROVE  /\ prog' = prog
         /\ \/ items' = items
            \/ (SkipClass \/ OpaqueClass) /\ Adds(Opaque)
            \/ FinishClass /\ Adds(Rendered(at))
<1>1. PICK n \in Nat : Len(prog.classes) = n /\ DOMAIN prog.classes = 1 .. n
  BY Context, Places DEF Walk
<1>2. ASSUME NEW x, items' = Append(items, x), AtClass PROVE Adds(x)
  <2>1. PICK h \in Nat :
          /\ Len(items) = h /\ DOMAIN items = 1 .. h
          /\ DOMAIN Append(items, x) = 1 .. (h + 1)
          /\ \A i \in 1 .. h : Append(items, x)[i] = items[i]
          /\ Append(items, x)[h + 1] = x
    BY Grown DEF Walk
  <2>2. at = h + 1 /\ at \in 1 .. n
    BY <1>1, <1>2, <2>1 DEF AtClass, Walk
  <2> QED BY <1>1, <1>2, <2>1, <2>2 DEF Adds
<1>3. CASE EmitFn
  BY <1>3 DEF EmitFn
<1>4. CASE PassFn
  BY <1>4 DEF PassFn
<1>5. CASE FnsDone
  BY <1>5 DEF FnsDone
<1>6. CASE SkipClass
  BY <1>2, <1>6 DEF SkipClass
<1>7. CASE OpaqueClass
  BY <1>2, <1>7 DEF OpaqueClass
<1>8. CASE SkipMethod
  BY <1>8 DEF SkipMethod
<1>9. CASE SkipExtraCtor
  BY <1>9 DEF SkipExtraCtor
<1>10. CASE EmitMethod
  BY <1>10 DEF EmitMethod
<1>11. CASE FinishClass
  <2>1. items' = Append(items, Rendered(at)) /\ AtClass /\ prog' = prog
    BY <1>11 DEF FinishClass
  <2> QED BY <1>2, <1>11, <2>1
<1>12. CASE ClassesDone
  BY <1>12 DEF ClassesDone
<1>13. CASE ShimClass
  BY <1>13 DEF ShimClass
<1>14. CASE PassUnlisted
  BY <1>14 DEF PassUnlisted
<1>15. CASE ShimFns
  BY <1>15 DEF ShimFns
<1>16. CASE ThrowsShims
  BY <1>16 DEF ThrowsShims
<1>17. CASE UNCHANGED vars
  BY <1>17 DEF vars
<1> QED BY <1>3, <1>4, <1>5, <1>6, <1>7, <1>8, <1>9, <1>10, <1>11, <1>12, <1>13, <1>14, <1>15,
          <1>16, <1>17 DEF Next

-----------------------------------------------------------------------------
(* What is known of a block: the method it stands for, its kind, whether it  *)
(* goes through a throwing shim, and its identifier.                         *)
OwnKinds == {"Ctor", "Instance", "Static", "Virtual"}
Described(c, e) ==
  /\ e.method \in DOMAIN Methods(c)
  /\ LET m == Methods(c)[e.method] IN
       /\ Classifies(m)
       /\ e.kind = Kind(m)
       /\ Throws(m) => e.link.to = "throws"
  /\ e.kind \in OwnKinds => e.ident = (<<"", "cxx">> \o ClassName(c)) \o e.name

(* The methods of a class are what the importer leaves.                      *)
LEMMA MethodFacts ==
  ASSUME prog \in Programs, NEW c \in DOMAIN prog.classes, NEW i \in DOMAIN Methods(c)
  PROVE  LET m == Methods(c)[i] IN
           /\ m.special \in Specials
           /\ IsSeq(m.params) /\ IsSeq(m.defaults)
           /\ m.throws => m.special \in Ctors \cup {"none"}
           /\ m.virtual => ~m.static /\ m.special \in {"none", "Dtor"}
           /\ m.special = "Dtor" => m.params = <<>> /\ (m.virtual => m.slot)
<1>1. WellFormed(prog)
  BY Context
<1>2. Methods(c)[i] \in Range(prog.classes[c].methods)
  BY DEF Methods, Range
<1> QED BY <1>1, <1>2 DEF WellFormed

(* What EmitMethod appends to the blocks is described by its method.         *)
LEMMA EmissionDescribed ==
  ASSUME prog \in Programs, NEW c \in DOMAIN prog.classes, NEW i \in DOMAIN Methods(c),
         Classifies(Methods(c)[i])
  PROVE  Described(c, Emission(c, i)) /\ Emission(c, i).ident = ExternIdent(c, i)
<1> DEFINE m == Methods(c)[i]
           e == Emission(c, i)
<1>1. /\ e.method = i /\ e.kind = Kind(m) /\ e.name = RustName(c, i)
      /\ e.ident = ExternIdent(c, i) /\ e.link = Link(c, i)
  BY DEF Emission
<1>2. Throws(m) => Link(c, i).to = "throws"
  BY DEF Link, ThrowsLink
<1>3. m.special \in Specials
  BY MethodFacts
<1>4. Kind(m) \in OwnKinds => m.special \in Ctors \cup {"none"}
  <2>1. CASE m.special \in Ctors \cup {"none"}
    BY <2>1
  <2>2. CASE m.special \notin Ctors \cup {"none"}
    <3>1. Kind(m) = m.special
      BY <2>2 DEF Kind
    <3>2. m.special \notin OwnKinds
      BY <1>3, <2>2 DEF OwnKinds, Specials, Ctors
    <3> QED BY <3>1, <3>2
  <2> QED BY <2>1, <2>2
<1>5. m.special \in Ctors \cup {"none"} =>
        ExternIdent(c, i) = (<<"", "cxx">> \o ClassName(c)) \o RustName(c, i)
  BY DEF ExternIdent, Ctors
<1> HIDE DEF e
<1>6. e.kind \in OwnKinds => e.ident = (<<"", "cxx">> \o ClassName(c)) \o e.name
  BY <1>1, <1>4, <1>5
<1> QED BY <1>1, <1>2, <1>6 DEF Described, e

-----------------------------------------------------------------------------
(* The class in hand.                                                        *)
InHand ==
  phase = "classes" /\ at \in DOMAIN prog.classes =>
    /\ \A x \in DOMAIN blocks : Described(at, blocks[x]) /\ blocks[x].ident \in seen
    /\ \A x, y \in DOMAIN blocks : blocks[x].ident = blocks[y].ident => x = y
    /\ \A i \in DOMAIN Methods(at) :
         i < k /\ Methods(at)[i].special = "Dtor" /\ Methods(at)[i].public => dtor

(* Every step keeps what is known of the class in hand: a block is appended  *)
(* only under a fresh identifier, and a destructor that is passed over is    *)
(* not public.                                                               *)
LEMMA InHandStep == Walk /\ Walk' /\ InHand /\ [Next]_vars => InHand'
<1> SUFFICES ASSUME Walk, Walk', InHand, [Next]_vars PROVE InHand'
  OBVIOUS
<1>1. PICK n \in Nat : Len(prog.classes) = n /\ DOMAIN prog.classes = 1 .. n
  BY Context, Places DEF Walk
<1>2. prog' = prog
  BY ItemsStep
<1>3. prog \in Programs
  BY DEF Walk
<1>4. ASSUME Idle' PROVE InHand'
  <2>1. DOMAIN blocks' = {} /\ k' = 1
    BY <1>4, EmptyIsSeq DEF Idle
  <2>2. ASSUME at' \in DOMAIN prog'.classes, NEW i \in DOMAIN Methods(at)', i < k' PROVE FALSE
    <3>1. at' \in DOMAIN prog.classes /\ Methods(at)' = Methods(at')
      BY <1>2, <2>2 DEF Methods
    <3>2. PICK l \in Nat : DOMAIN Methods(at') = 1 .. l
      BY <1>3, <3>1, Context, Places
    <3> QED BY <2>1, <2>2, <3>1, <3>2
  <2> QED BY <2>1, <2>2 DEF InHand
<1>5. CASE EmitFn \/ PassFn
  BY <1>5 DEF EmitFn, PassFn, AtFn, InHand
<1>6. CASE FnsDone
  BY <1>4, <1>6 DEF FnsDone, Walk, Idle
<1>7. CASE SkipClass \/ OpaqueClass
  <2>1. Idle'
    BY <1>7 DEF SkipClass, OpaqueClass, AtClass, Walk, Idle
  <2> QED BY <1>4, <2>1
<1>8. CASE SkipMethod
  <2>1. phase = "classes" /\ at \in DOMAIN prog.classes /\ k <= Len(Methods(at))
    BY <1>1, <1>8 DEF SkipMethod, AtMethod, AtClass, Walk
  <2>2. /\ k' = k + 1 /\ dtor' = dtor /\ at' = at /\ blocks' = blocks /\ seen' = seen
        /\ phase' = phase
        /\ ~Methods(at)[k].public \/ ~Classifies(Methods(at)[k])
    BY <1>8 DEF SkipMethod, Method
  <2>3. ASSUME NEW i \in DOMAIN Methods(at), i < k + 1, Methods(at)[i].special = "Dtor",
               Methods(at)[i].public
        PROVE  dtor
    <3>1. i \in Nat /\ k \in Nat
      BY <1>3, <2>1, Context, Places DEF Walk
    <3>2. CASE i = k
      <4>1. LET m == Methods(at)[i] IN m.params = <<>> /\ (m.virtual => m.slot)
        BY <1>3, <2>1, <2>3, MethodFacts
      <4>2. Classifies(Methods(at)[i])
        BY <2>3, <4>1, EmptyIsSeq DEF Classifies
      <4> QED BY <2>2, <2>3, <3>2, <4>2
    <3>3. CASE i < k
      BY <2>1, <2>3, <3>3 DEF InHand
    <3> QED BY <2>3, <3>1, <3>2, <3>3
  <2>4. Methods(at)' = Methods(at)
    BY <1>2, <2>2 DEF Methods
  <2>5. \A x \in DOMAIN blocks : Described(at, blocks[x])'
    BY <1>2, <2>1, <2>2 DEF InHand, Described, Methods, ClassName
  <2> QED BY <1>2, <2>1, <2>2, <2>3, <2>4, <2>5 DEF InHand
<1>9. CASE SkipExtraCtor
  <2>1. phase = "classes" /\ at \in DOMAIN prog.classes /\ k <= Len(Methods(at))
    BY <1>1, <1>9 DEF SkipExtraCtor, AtMethod, AtClass, Walk
  <2>2. /\ k' = k + 1 /\ dtor' = dtor /\ at' = at /\ blocks' = blocks /\ seen' = seen
        /\ phase' = phase
        /\ Kind(Methods(at)[k]) = "Ctor"
    BY <1>9 DEF SkipExtraCtor, Method
  <2>3. ASSUME NEW i \in DOMAIN Methods(at), i < k + 1, Methods(at)[i].special = "Dtor",
               Methods(at)[i].public
        PROVE  dtor
    <3>1. i \in Nat /\ k \in Nat
      BY <1>3, <2>1, Context, Places DEF Walk
    <3>2. i # k
      BY <2>2, <2>3 DEF Kind, Ctors
    <3> QED BY <2>1, <2>3, <3>1, <3>2 DEF InHand
  <2>4. Methods(at)' = Methods(at)
    BY <1>2, <2>2 DEF Methods
  <2>5. \A x \in DOMAIN blocks : Described(at, blocks[x])'
    BY <1>2, <2>1, <2>2 DEF InHand, Described, Methods, ClassName
  <2> QED BY <1>2, <2>1, <2>2, <2>3, <2>4, <2>5 DEF InHand
<1>10. CASE EmitMethod
  <2>1. phase = "classes" /\ at \in DOMAIN prog.classes /\ k <= Len(Methods(at))
    BY <1>1, <1>10 DEF EmitMethod, AtMethod, AtClass, Walk
  <2>2. PICK e : e = Emission(at, k)
    OBVIOUS
  <2>3. /\ k' = k + 1 /\ dtor' = (dtor \/ Kind(Methods(at)[k]) = "Dtor")
        /\ at' = at /\ phase' = phase /\ Classifies(Methods(at)[k])
        /\ seen' = seen \cup {ExternIdent(at, k)}
        /\ blocks' = IF ExternIdent(at, k) \notin seen THEN Append(blocks, e) ELSE blocks
    BY <1>10, <2>2 DEF EmitMethod, Method, Fresh
  <2>4. PICK l \in Nat : DOMAIN Methods(at) = 1 .. l /\ Len(Methods(at)) = l
    BY <1>3, <2>1, Context, Places
  <2>5. k \in DOMAIN Methods(at)
    BY <2>1, <2>4 DEF Walk
  <2>6. Described(at, e) /\ e.ident = ExternIdent(at, k)
    BY <1>3, <2>1, <2>2, <2>3, <2>5, EmissionDescribed
  <2>7. PICK h \in Nat :
          /\ DOMAIN blocks = 1 .. h
          /\ DOMAIN Append(blocks, e) = 1 .. (h + 1)
          /\ \A i \in 1 .. h : Append(blocks, e)[i] = blocks[i]
          /\ Append(blocks, e)[h + 1] = e
    BY Grown DEF Walk
  <2>8. /\ \A x \in DOMAIN blocks : Described(at, blocks[x]) /\ blocks[x].ident \in seen
        /\ \A x, y \in DOMAIN blocks : blocks[x].ident = blocks[y].ident => x = y
    BY <2>1 DEF InHand
  <2>9. /\ \A x \in DOMAIN blocks' : Described(at, blocks'[x]) /\ blocks'[x].ident \in seen'
        /\ \A x, y \in DOMAIN blocks' : blocks'[x].ident = blocks'[y].ident => x = y
    <3>1. CASE ExternIdent(at, k) \notin seen
      <4>1. blocks' = Append(blocks, e)
        BY <2>3, <3>1
      <4>2. /\ DOMAIN blocks' = 1 .. (h + 1)
            /\ \A i \in 1 .. h : blocks'[i] = blocks[i]
            /\ blocks'[h + 1] = e
        BY <2>7, <4>1
      <4>3. ASSUME NEW x \in DOMAIN blocks'
            PROVE  Described(at, blocks'[x]) /\ blocks'[x].ident \in seen'
        <5>1. CASE x \in 1 .. h
          BY <2>3, <2>7, <2>8, <4>2, <5>1
        <5>2. CASE x = h + 1
          BY <2>3, <2>6, <4>2, <5>2
        <5> QED BY <4>2, <5>1, <5>2
      <4>4. ASSUME NEW x \in DOMAIN blocks', NEW y \in DOMAIN blocks',
                   blocks'[x].ident = blocks'[y].ident
            PROVE  x = y
        <5>1. \A z \in 1 .. h : blocks'[z].ident # blocks'[h + 1].ident
          BY <2>6, <2>7, <2>8, <3>1, <4>2
        <5>2. CASE x \in 1 .. h /\ y \in 1 .. h
          BY <2>7, <2>8, <4>2, <4>4, <5>2
        <5> QED BY <4>2, <4>4, <5>1, <5>2
      <4> QED BY <4>3, <4>4
    <3>2. CASE ExternIdent(at, k) \in seen
      BY <2>3, <2>8, <3>2
    <3> QED BY <3>1, <3>2
  <2>10. ASSUME NEW i \in DOMAIN Methods(at), i < k + 1, Methods(at)[i].special = "Dtor",
               Methods(at)[i].public
         PROVE  dtor'
    <3>1. i \in Nat /\ k \in Nat
      BY <2>4 DEF Walk
    <3>2. CASE i = k
      <4>1. Kind(Methods(at)[k]) = "Dtor"
        BY <2>10, <3>2 DEF Kind, Ctors
      <4> QED BY <2>3, <4>1, Zenon
    <3>3. CASE i < k
      BY <2>1, <2>3, <2>10, <3>3 DEF InHand
    <3> QED BY <2>10, <3>1, <3>2, <3>3
  <2>11. Methods(at)' = Methods(at)
    BY <1>2, <2>3 DEF Methods
  <2>12. \A z : Described(at, z) => Described(at, z)'
    BY <1>2, <2>3 DEF Described, Methods, ClassName
  <2>13. \A x \in DOMAIN blocks' : Described(at, blocks[x])'
    BY <2>9, <2>12
  <2> QED BY <1>2, <2>1, <2>3, <2>9, <2>10, <2>11, <2>13 DEF InHand
<1>11. CASE FinishClass
  BY <1>4, <1>11 DEF FinishClass, Idle
<1>12. CASE ClassesDone \/ ShimClass \/ PassUnlisted \/ ShimFns \/ ThrowsShims
  BY <1>12 DEF ClassesDone, ShimClass, PassUnlisted, ShimFns, ThrowsShims, AtShims, InHand
<1>13. CASE UNCHANGED vars
  <2>1. \A z : Described(at, z) => Described(at, z)'
    BY <1>13 DEF vars, Described, Methods, ClassName
  <2> QED BY <1>13, <2>1 DEF vars, InHand, Methods
<1> QED BY <1>5, <1>6, <1>7, <1>8, <1>9, <1>10, <1>11, <1>12, <1>13 DEF Next

-----------------------------------------------------------------------------
(* The blocks of the classes rendered.                                       *)
BlocksDescribed ==
  \A c \in DOMAIN items : c \in DOMAIN prog.classes
                       /\ \A e \in Range(items[c].blocks) : Described(c, e)

(* At first nothing is rendered and nothing is in hand.                      *)
LEMMA BlocksInit == Init => BlocksDescribed /\ InHand
BY EmptyIsSeq DEF Init, BlocksDescribed, InHand

(* A class rendered keeps the blocks it had in hand.                         *)
LEMMA BlocksStep == Walk /\ InHand /\ BlocksDescribed /\ [Next]_vars => BlocksDescribed'
<1> SUFFICES ASSUME Walk, InHand, BlocksDescribed, [Next]_vars PROVE BlocksDescribed'
  OBVIOUS
<1>1. prog' = prog
  BY ItemsStep
<1>2. \A c, z : Described(c, z) => Described(c, z)'
  BY <1>1 DEF Described, Methods, ClassName
<1>3. CASE items' = items
  BY <1>1, <1>2, <1>3 DEF BlocksDescribed
<1>4. ASSUME NEW x, Adds(x), \A e \in Range(x.blocks) : Described(at, e)
      PROVE  BlocksDescribed'
  BY <1>1, <1>2, <1>4 DEF BlocksDescribed, Adds
<1>5. CASE Adds(Opaque)
  <2>1. \A e \in Range(Opaque.blocks) : Described(at, e)
    BY EmptyIsSeq DEF Opaque
  <2> QED BY <1>4, <1>5, <2>1
<1>6. CASE FinishClass /\ Adds(Rendered(at))
  <2>1. Rendered(at).blocks = blocks
    BY DEF Rendered
  <2>2. phase = "classes" /\ at \in DOMAIN prog.classes
    BY <1>6 DEF FinishClass, AtClass, Adds
  <2>3. \A e \in Range(blocks) : Described(at, e)
    BY <2>2 DEF InHand, Range
  <2> QED BY <1>4, <1>6, <2>1, <2>3
<1> QED BY <1>3, <1>5, <1>6, ItemsStep

-----------------------------------------------------------------------------
(* What the C++ file defines: the shims of the classes the walk of shims.rs  *)
(* has passed, and of the functions once it is over.                         *)
ClassShims(c) ==
  prog.classes[c].listed =>
    \A i \in DOMAIN Methods(c) : Shimmed(Methods(c)[i]) => ShimLink(<<c, i>>) \in defs
ShimsMade ==
  /\ phase = "shims" => \A c \in DOMAIN prog.classes : c < at => ClassShims(c)
  /\ phase \in {"throws", "done"} =>
       /\ \A c \in DOMAIN prog.classes : ClassShims(c)
       /\ \A i \in DOMAIN prog.fns : FnShimmed(Fn(i)) => ShimLink(<<0, i>>) \in defs
FnsListed == \A f \in Range(fns) : f.fn \in DOMAIN prog.fns /\ f.link = FnLink(f.fn)

(* EmitFn lists a function with the link the C++ side gives it.              *)
LEMMA FnsListedStep == Walk /\ FnsListed /\ [Next]_vars => FnsListed'
<1> SUFFICES ASSUME Walk, FnsListed, [Next]_vars PROVE FnsListed'
  OBVIOUS
<1>1. prog' = prog
  BY ItemsStep
<1>2. \A i : FnLink(i)' = FnLink(i)
  BY <1>1 DEF FnLink, Fn
<1>3. CASE fns' = fns
  BY <1>1, <1>2, <1>3 DEF FnsListed
<1>4. CASE EmitFn
  <2>1. PICK x : x = [fn |-> k, ident |-> FnIdent(k), link |-> FnLink(k)]
    OBVIOUS
  <2>2. fns' = Append(fns, x) /\ k <= Len(prog.fns)
    BY <1>4, <2>1 DEF EmitFn, AtFn
  <2>3. k \in DOMAIN prog.fns
    BY <2>2, Context, Places DEF Walk
  <2>4. Range(fns') = Range(fns) \cup {x}
    BY <2>2, Grown DEF Walk
  <2>5. x.fn = k /\ x.link = FnLink(k)
    BY <2>1
  <2> QED BY <1>1, <1>2, <2>3, <2>4, <2>5 DEF FnsListed
<1>5. CASE [Next]_vars /\ ~EmitFn
  BY <1>3, <1>5 DEF Next, vars, PassFn, FnsDone, SkipClass, OpaqueClass, SkipMethod,
     SkipExtraCtor, EmitMethod, FinishClass, ClassesDone, ShimClass, PassUnlisted, ShimFns,
     ThrowsShims
<1> QED BY <1>4, <1>5

(* Every step keeps what the C++ file defines so far.                        *)
LEMMA ShimsMadeStep == Walk /\ ShimsMade /\ [Next]_vars => ShimsMade'
<1> SUFFICES ASSUME Walk, ShimsMade, [Next]_vars PROVE ShimsMade'
  OBVIOUS
<1>1. prog' = prog
  BY ItemsStep
<1>2. PICK n \in Nat : Len(prog.classes) = n /\ DOMAIN prog.classes = 1 .. n
  BY Context, Places DEF Walk
<1>3. ASSUME defs \subseteq defs', NEW c, ClassShims(c) PROVE ClassShims(c)'
  BY <1>1, <1>3 DEF ClassShims, Methods
<1>4. CASE phase' \in {"fns", "classes"}
  BY <1>4 DEF ShimsMade
<1>5. CASE ClassesDone
  BY <1>1, <1>2, <1>5 DEF ClassesDone, ShimsMade
<1>6. CASE ShimClass
  <2>1. phase = "shims" /\ phase' = phase /\ at' = at + 1 /\ defs \subseteq defs'
    BY <1>6 DEF ShimClass, AtShims
  <2> PICK a : a = at
    OBVIOUS
  <2>2. ClassShims(a)'
    <3>1. \A i \in DOMAIN Methods(a) : Shimmed(Methods(a)[i]) => ShimLink(<<a, i>>) \in defs'
      BY <1>6 DEF ShimClass
    <3> QED BY <1>1, <3>1 DEF ClassShims, Methods
  <2>3. ASSUME NEW c \in DOMAIN prog.classes, c < at + 1 PROVE ClassShims(c)'
    <3>1. c \in Nat /\ at \in Nat
      BY <1>2 DEF Walk
    <3>2. CASE c = at
      BY <2>2, <3>2
    <3>3. CASE c < at
      BY <1>3, <2>1, <3>3 DEF ShimsMade
    <3> QED BY <2>3, <3>1, <3>2, <3>3
  <2> QED BY <1>1, <2>1, <2>3 DEF ShimsMade
<1>7. CASE PassUnlisted
  <2>1. phase = "shims" /\ phase' = phase /\ at' = at + 1 /\ defs' = defs
    BY <1>7 DEF PassUnlisted, AtShims
  <2>2. ~prog.classes[at].listed
    BY <1>7 DEF PassUnlisted
  <2>3. ASSUME NEW c \in DOMAIN prog.classes, c < at + 1 PROVE ClassShims(c)'
    <3>1. c \in Nat /\ at \in Nat
      BY <1>2 DEF Walk
    <3>2. CASE c = at
      BY <1>1, <2>2, <3>2 DEF ClassShims
    <3>3. CASE c < at
      BY <1>3, <2>1, <3>3 DEF ShimsMade
    <3> QED BY <2>3, <3>1, <3>2, <3>3
  <2> QED BY <1>1, <2>1, <2>3 DEF ShimsMade
<1>8. CASE ShimFns
  <2>1. phase = "shims" /\ phase' = "throws" /\ at > Len(prog.classes) /\ defs \subseteq defs'
    BY <1>8 DEF ShimFns
  <2>2. \A i \in DOMAIN prog.fns : FnShimmed(Fn(i)) => ShimLink(<<0, i>>) \in defs'
    BY <1>8 DEF ShimFns
  <2>3. ASSUME NEW c \in DOMAIN prog.classes PROVE ClassShims(c)'
    <3>1. c < at
      BY <1>2, <2>1 DEF Walk
    <3> QED BY <1>3, <2>1, <3>1 DEF ShimsMade
  <2> QED BY <1>1, <2>1, <2>2, <2>3 DEF ShimsMade, Fn
<1>9. CASE ThrowsShims
  <2>1. phase = "throws" /\ phase' = "done" /\ defs \subseteq defs'
    BY <1>9 DEF ThrowsShims
  <2> QED BY <1>1, <1>3, <2>1 DEF ShimsMade, Fn
<1>10. CASE UNCHANGED vars
  <2>1. \A c : ClassShims(c)' <=> ClassShims(c)
    BY <1>10 DEF vars, ClassShims, Methods
  <2> QED BY <1>10, <2>1 DEF vars, ShimsMade, Fn
<1>11. CASE EmitFn \/ PassFn \/ FnsDone \/ SkipClass \/ OpaqueClass \/ SkipMethod \/ SkipExtraCtor
            \/ EmitMethod \/ FinishClass
  <2>1. phase' \in {"fns", "classes"}
    BY <1>11 DEF EmitFn, PassFn, FnsDone, SkipClass, OpaqueClass, SkipMethod, SkipExtraCtor,
       EmitMethod, FinishClass, AtFn, AtMethod, AtClass
  <2> QED BY <1>4, <2>1
<1> QED BY <1>5, <1>6, <1>7, <1>8, <1>9, <1>10, <1>11 DEF Next

(* ShimsDefined, from what is known of the blocks and of the file.           *)
LEMMA ShimsFollow ==
  ASSUME Walk, BlocksDescribed, ShimsMade, FnsListed
  PROVE  ShimsDefined
<1> SUFFICES ASSUME phase = "done" PROVE
      /\ \A c \in DOMAIN items : prog.classes[c].listed => \A e \in Range(items[c].blocks) :
           LET m == Methods(c)[e.method] IN
             e.kind \in {"Instance", "Static"} /\ e.link.to # "throws" /\ m.inline /\ CppOk(m)
             => ShimLink(<<c, e.method>>) \in defs
      /\ \A f \in Range(fns) : f.link.to = "shim" /\ CppOk(Fn(f.fn)) => f.link \in defs
  BY DEF ShimsDefined
<1>1. ASSUME NEW c \in DOMAIN items, prog.classes[c].listed, NEW e \in Range(items[c].blocks),
             e.kind \in {"Instance", "Static"}, e.link.to # "throws",
             CppOk(Methods(c)[e.method])
      PROVE  ShimLink(<<c, e.method>>) \in defs
  <2> DEFINE m == Methods(c)[e.method]
  <2>1. c \in DOMAIN prog.classes /\ Described(c, e)
    BY <1>1 DEF BlocksDescribed
  <2>2. /\ e.method \in DOMAIN Methods(c) /\ Classifies(m) /\ ~Throws(m)
        /\ Kind(m) \in {"Instance", "Static"}
    BY <1>1, <2>1 DEF Described
  <2>3. m.special \in Specials /\ (m.virtual => ~m.static)
    BY <2>1, <2>2, MethodFacts DEF Walk
  <2>4. m.special = "none" /\ ~m.virtual
    BY <2>2, <2>3 DEF Kind, Specials, Ctors
  <2>5. Shimmed(m)
    BY <1>1, <2>2, <2>4 DEF Shimmed, NonDispatched, Classifies
  <2> QED BY <1>1, <2>1, <2>2, <2>5 DEF ShimsMade, ClassShims
<1>2. ASSUME NEW f \in Range(fns), f.link.to = "shim", CppOk(Fn(f.fn))
      PROVE  f.link \in defs
  <2>1. f.fn \in DOMAIN prog.fns /\ f.link = FnLink(f.fn)
    BY DEF FnsListed
  <2>2. f.link = ShimLink(<<0, f.fn>>) /\ FnRouted(Fn(f.fn))
    BY <1>2, <2>1 DEF FnLink, ThrowsLink, MangledLink, ShimLink
  <2>3. FnShimmed(Fn(f.fn))
    BY <1>2, <2>2 DEF FnRouted, FnShimmed
  <2> QED BY <2>1, <2>2, <2>3 DEF ShimsMade
<1> QED BY <1>1, <1>2

(* The inductive invariant of the walk.                                      *)
Emits == Walk /\ InHand /\ BlocksDescribed /\ FnsListed /\ ShimsMade

(* Emits holds of every type context.                                        *)
THEOREM EmitsAlways == Spec => []Emits
<1>1. Init => Emits
  <2> SUFFICES ASSUME Init PROVE Emits
    OBVIOUS
  <2>1. FnsListed /\ ShimsMade
    BY EmptyIsSeq DEF Init, FnsListed, ShimsMade
  <2> QED BY <2>1, WalkInit, BlocksInit DEF Emits
<1>2. Emits /\ [Next]_vars => Emits'
  <2> SUFFICES ASSUME Emits, [Next]_vars PROVE Emits'
    OBVIOUS
  <2>1. Walk /\ InHand /\ BlocksDescribed /\ FnsListed /\ ShimsMade
    BY DEF Emits
  <2>2. Walk'
    BY <2>1, WalkStep
  <2>3. InHand'
    BY <2>1, <2>2, InHandStep
  <2>4. BlocksDescribed' /\ FnsListed' /\ ShimsMade'
    BY <2>1, BlocksStep, FnsListedStep, ShimsMadeStep
  <2> QED BY <2>2, <2>3, <2>4 DEF Emits
<1> QED BY <1>1, <1>2, PTL DEF Spec

(* ShimsDefined, for every type context: the emitter of the bindings and the *)
(* one of the shims decide alike which inline functions need one.            *)
THEOREM InlineShims == Spec => []ShimsDefined
<1>1. Emits => ShimsDefined
  BY ShimsFollow DEF Emits
<1> QED BY <1>1, EmitsAlways, PTL

-----------------------------------------------------------------------------
(* The forwarders.  A path is a non-empty sequence of classes.               *)
PathSet == {p \in Seq(DOMAIN prog.classes) : p # <<>>}

(* Before a path, the walk has come to every class the path leads through.   *)
Earlier(ps) ==
  \A i \in DOMAIN ps : \A n \in 1 .. (Len(ps[i]) - 1) :
    \E j \in DOMAIN ps : j < i /\ Last(ps[j]) = ps[i][n]
PathList(ps) == ps \in Seqs(PathSet) /\ Earlier(ps)

(* A path one class longer at its head.                                      *)
LEMMA Longer ==
  ASSUME NEW b \in DOMAIN prog.classes, NEW p \in PathSet
  PROVE  /\ <<b>> \o p \in PathSet
         /\ Last(<<b>> \o p) = Last(p)
         /\ (<<b>> \o p)[1] = b
         /\ \A n \in 2 .. (Len(<<b>> \o p) - 1) :
              n - 1 \in 1 .. (Len(p) - 1) /\ (<<b>> \o p)[n] = p[n - 1]
<1> DEFINE D == DOMAIN prog.classes
<1>0. b \in D /\ PathSet = {q \in Seq(D) : q # <<>>}
  BY DEF PathSet
<1> HIDE DEF D
<1>1. p \in Seq(D) /\ p # <<>> /\ <<b>> \in Seq(D)
  BY <1>0
<1>2. PICK l \in Nat : l = Len(p) /\ l # 0 /\ DOMAIN p = 1 .. l
  BY <1>1, Measured
<1> DEFINE t == <<b>> \o p
<1>3. /\ t \in Seq(D) /\ Len(t) = Len(p) + 1
      /\ \A x \in 1 .. Len(p) : t[1 + x] = p[x]
      /\ t[1] = b
  BY <1>1
<1> HIDE DEF t
<1>4. Len(t) = l + 1 /\ \A x \in 1 .. l : t[1 + x] = p[x]
  BY <1>2, <1>3
<1>5. t # <<>>
  BY <1>2, <1>4
<1>6. Last(t) = Last(p)
  <2>1. Last(t) = t[l + 1] /\ Last(p) = p[l]
    BY <1>2, <1>4 DEF Last
  <2> QED BY <1>2, <1>4, <2>1
<1>7. ASSUME NEW n \in 2 .. (Len(t) - 1)
      PROVE  n - 1 \in 1 .. (Len(p) - 1) /\ t[n] = p[n - 1]
  <2>1. n \in 2 .. l
    BY <1>2, <1>4
  <2>2. n - 1 \in 1 .. (l - 1) /\ n - 1 \in 1 .. l /\ 1 + (n - 1) = n
    BY <1>2, <2>1
  <2>3. t[1 + (n - 1)] = p[n - 1]
    BY <1>4, <2>2
  <2> QED BY <1>2, <2>2, <2>3
<1> QED BY <1>0, <1>3, <1>5, <1>6, <1>7 DEF t

(* The paths that start at a base: the base itself, and on from there.       *)
From(b, ps) == << <<b>> >> \o [j \in DOMAIN ps |-> <<b>> \o ps[j]]
(* They are paths too, a class before those that lead through it.            *)
LEMMA FromList ==
  ASSUME NEW b \in DOMAIN prog.classes, NEW ps, PathList(ps)
  PROVE  PathList(From(b, ps))
<1>1. ps \in Seq(PathSet)
  BY DEF PathList, Seqs
<1>2. PICK l \in Nat : l = Len(ps) /\ DOMAIN ps = 1 .. l
  BY <1>1, Measured
<1>3. \A j \in 1 .. l : ps[j] \in PathSet
  BY <1>1, <1>2, Measured
<1> DEFINE on == [j \in DOMAIN ps |-> <<b>> \o ps[j]]
           t == From(b, ps)
<1>4. on = [j \in 1 .. l |-> <<b>> \o ps[j]]
  BY <1>2
<1>5. \A j \in 1 .. l : on[j] = <<b>> \o ps[j] /\ on[j] \in PathSet
  BY <1>3, <1>4, Longer
<1>6. on \in Seq(PathSet) /\ Len(on) = l
  BY <1>4, <1>5
<1>7. <<b>> \in PathSet /\ Len(<<b>>) = 1
  <2> DEFINE D == DOMAIN prog.classes
  <2>1. b \in D /\ PathSet = {q \in Seq(D) : q # <<>>}
    BY DEF PathSet
  <2> HIDE DEF D
  <2>2. <<b>> \in Seq(D) /\ Len(<<b>>) = 1 /\ <<b>> # <<>>
    BY <2>1
  <2> QED BY <2>1, <2>2
<1>8. t = << <<b>> >> \o on
  BY DEF From
<1> HIDE DEF on, t
<1>9. << <<b>> >> \in Seq(PathSet) /\ Len(<< <<b>> >>) = 1
  BY <1>7
<1>10. /\ t \in Seq(PathSet) /\ Len(t) = 1 + l /\ DOMAIN t = 1 .. (1 + l)
       /\ t[1] = <<b>>
       /\ \A x \in 1 .. l : t[1 + x] = on[x]
  <2>1. ASSUME NEW S, NEW x \in S, NEW s \in Seq(S), NEW z, z = Len(s)
        PROVE  /\ <<x>> \o s \in Seq(S) /\ Len(<<x>> \o s) = 1 + z
               /\ DOMAIN (<<x>> \o s) = 1 .. (1 + z)
               /\ (<<x>> \o s)[1] = x
               /\ \A y \in 1 .. z : (<<x>> \o s)[1 + y] = s[y]
    BY <2>1
  <2> HIDE DEF PathSet
  <2>2. l = Len(on) /\ <<b>> \in PathSet /\ on \in Seq(PathSet)
    BY <1>6, <1>7
  <2> DEFINE hd == <<b>>
  <2>3. t = <<hd>> \o on /\ hd \in PathSet
    BY <1>7, <1>8
  <2> HIDE DEF hd
  <2>4. /\ <<hd>> \o on \in Seq(PathSet) /\ Len(<<hd>> \o on) = 1 + l
        /\ DOMAIN (<<hd>> \o on) = 1 .. (1 + l)
        /\ (<<hd>> \o on)[1] = hd
        /\ \A y \in 1 .. l : (<<hd>> \o on)[1 + y] = on[y]
    BY <2>1, <2>2, <2>3
  <2> QED BY <2>3, <2>4 DEF hd
<1>11. ASSUME NEW i \in DOMAIN t, NEW n \in 1 .. (Len(t[i]) - 1)
       PROVE  \E j \in DOMAIN t : j < i /\ Last(t[j]) = t[i][n]
  <2>1. i # 1
    <3>1. i = 1 => Len(t[i]) = 1
      BY <1>7, <1>10
    <3>2. 1 .. (1 - 1) = {}
      OBVIOUS
    <3> QED BY <3>1, <3>2
  <2> DEFINE x == i - 1
  <2>2. x \in 1 .. l /\ 1 + x = i
    BY <1>10, <2>1
  <2> HIDE DEF x
  <2>3. t[i] = <<b>> \o ps[x] /\ ps[x] \in PathSet
    BY <1>3, <1>5, <1>10, <2>2
  <2>4. /\ (<<b>> \o ps[x])[1] = b
        /\ \A y \in 2 .. (Len(<<b>> \o ps[x]) - 1) :
             y - 1 \in 1 .. (Len(ps[x]) - 1) /\ (<<b>> \o ps[x])[y] = ps[x][y - 1]
    BY <2>3, Longer
  <2>5. CASE n = 1
    <3>1. 1 \in DOMAIN t /\ 1 < i
      BY <1>10, <2>2
    <3>2. Last(<<b>>) = b
      BY DEF Last
    <3> QED BY <1>10, <2>3, <2>4, <2>5, <3>1, <3>2
  <2>6. CASE n # 1
    <3>1. n \in 2 .. (Len(t[i]) - 1)
      BY <2>6
    <3>2. n - 1 \in 1 .. (Len(ps[x]) - 1) /\ t[i][n] = ps[x][n - 1]
      BY <2>3, <2>4, <3>1
    <3>3. PICK j \in 1 .. l : j < x /\ Last(ps[j]) = ps[x][n - 1]
      BY <1>2, <2>2, <3>2 DEF PathList, Earlier
    <3>4. 1 + j \in DOMAIN t /\ 1 + j < i
      BY <1>10, <2>2, <3>3
    <3>6. t[1 + j] = <<b>> \o ps[j]
      BY <1>5, <1>10
    <3>5. Last(<<b>> \o ps[j]) = Last(ps[j])
      BY <1>3, Longer
    <3> QED BY <3>2, <3>3, <3>4, <3>5, <3>6
  <2> QED BY <2>5, <2>6
<1>12. Earlier(t)
  BY <1>11 DEF Earlier
<1> QED BY <1>10, <1>12 DEF PathList, Seqs, t

(* Lists of paths one after the other.                                       *)
LEMMA FlatEarlier ==
  ASSUME NEW ss \in Rows(PathSet), \A i \in DOMAIN ss : Earlier(ss[i])
  PROVE  PathList(FlattenSeq(ss))
<1> DEFINE F == FlattenSeq(ss)
<1>1. F \in Seq(PathSet)
  BY Flat
<1>2. PICK off : FlatMap(F, ss, off)
  BY Flat
<1>3. PICK m \in Nat : DOMAIN F = 1 .. m
  BY <1>1, Measured
<1> HIDE DEF F
<1>4. ASSUME NEW x \in DOMAIN F, NEW n \in 1 .. (Len(F[x]) - 1)
      PROVE  \E y \in DOMAIN F : y < x /\ Last(F[y]) = F[x][n]
  <2>1. PICK i \in DOMAIN ss : \E j \in DOMAIN ss[i] : x = off[i] + j
    BY <1>2 DEF FlatMap
  <2>2. PICK j \in DOMAIN ss[i] : x = off[i] + j
    BY <2>1
  <2>3. F[x] = ss[i][j]
    BY <1>2, <2>2 DEF FlatMap
  <2>4. PICK h \in DOMAIN ss[i] : h < j /\ Last(ss[i][h]) = ss[i][j][n]
    BY <2>3 DEF Earlier
  <2>5. off[i] + h \in DOMAIN F /\ F[off[i] + h] = ss[i][h]
    BY <1>2 DEF FlatMap
  <2>6. PICK l \in Nat : DOMAIN ss[i] = 1 .. l
    BY Measured DEF Rows
  <2>7. off[i] + h < x
    BY <1>2, <2>2, <2>4, <2>6 DEF FlatMap
  <2> QED BY <2>3, <2>4, <2>5, <2>7
<1> QED BY <1>1, <1>4 DEF F, PathList, Seqs, Earlier

(* The bases that accessors lead to.                                         *)
LEMMA ReborrowedFacts ==
  ASSUME prog \in Programs, NEW c \in DOMAIN prog.classes
  PROVE  /\ \E n \in Nat : DOMAIN Reborrowed(c) = 1 .. n
         /\ \A i \in DOMAIN Reborrowed(c) : Reborrowed(c)[i].class \in 1 .. (c - 1)
<1> DEFINE bs == prog.classes[c].bases
           I == {i \in DOMAIN bs : ~bs[i].virt /\ ~prog.classes[bs[i].class].poisoned}
<1>1. bs \in Seqs(Range(bs)) /\ \A i \in DOMAIN bs : bs[i].class \in 1 .. (c - 1)
  BY Context DEF IsSeq, Seqs
<1>2. Reborrowed(c) = Sift(bs, I)
  BY DEF Reborrowed, Sift, Optional
<1> HIDE DEF bs, I
<1>3. /\ Sift(bs, I) \in Seq(Range(bs))
      /\ \E pos : Sifts(Sift(bs, I), bs, I, pos)
  BY <1>1, Sifting
<1>4. PICK n \in Nat : DOMAIN Sift(bs, I) = 1 .. n
  BY <1>3, Measured
<1>5. \A i \in DOMAIN Sift(bs, I) : Sift(bs, I)[i].class \in 1 .. (c - 1)
  BY <1>1, <1>3 DEF Sifts
<1> QED BY <1>2, <1>4, <1>5


-----------------------------------------------------------------------------
(* The walk down from a class: the paths of each base, one after the other.  *)
Through(f, d) == FlattenSeq([i \in DOMAIN Reborrowed(d) |->
                   From(Reborrowed(d)[i].class, f[Reborrowed(d)[i].class])])
IsDown(f, n) == f = [d \in 1 .. n |-> Through(f, d)]

(* It looks only at the bases, which come before the class.                  *)
LEMMA ThroughSame ==
  ASSUME prog \in Programs, NEW d \in DOMAIN prog.classes, NEW f, NEW g,
         \A b \in 1 .. (d - 1) : f[b] = g[b]
  PROVE  Through(f, d) = Through(g, d)
<1>1. \A i \in DOMAIN Reborrowed(d) :
        From(Reborrowed(d)[i].class, f[Reborrowed(d)[i].class])
        = From(Reborrowed(d)[i].class, g[Reborrowed(d)[i].class])
  BY ReborrowedFacts
<1> QED BY <1>1, Zenon DEF Through

(* So the walk is defined for every class.                                   *)
LEMMA DownExists ==
  ASSUME prog \in Programs, NEW c \in DOMAIN prog.classes
  PROVE  \E f : IsDown(f, c)
<1>1. PICK n \in Nat : DOMAIN prog.classes = 1 .. n
  BY Context, Places
<1> DEFINE T == {d \in Nat : d <= n => \E f : IsDown(f, d)}
<1>2. ASSUME NEW d \in Nat, \A b \in Nat : b < d => b \in T, d <= n
      PROVE  \E f : IsDown(f, d)
  <2>1. CASE d = 0
    <3> DEFINE e == [x \in 1 .. 0 |-> Through(<<>>, x)]
    <3>1. e = [x \in 1 .. 0 |-> Through(e, x)]
      OBVIOUS
    <3> QED BY <2>1, <3>1 DEF IsDown
  <2>2. CASE d # 0
    <3>1. d - 1 \in Nat /\ d - 1 < d /\ d - 1 <= n
      BY <1>2, <2>2
    <3>2. PICK f : IsDown(f, d - 1)
      BY <1>2, <3>1
    <3> DEFINE g == [x \in 1 .. d |-> Through(f, x)]
    <3>3. ASSUME NEW x \in 1 .. d PROVE g[x] = Through(g, x)
      <4>1. x \in DOMAIN prog.classes
        BY <1>1, <1>2
      <4>2. ASSUME NEW b \in 1 .. (x - 1) PROVE f[b] = g[b]
        <5>1. b \in 1 .. d /\ b \in 1 .. (d - 1)
          BY <1>2
        <5>2. f[b] = Through(f, b)
          BY <3>2, <5>1, Zenon DEF IsDown
        <5> QED BY <5>1, <5>2
      <4>3. Through(f, x) = Through(g, x)
        BY <4>1, <4>2, ThroughSame
      <4> QED BY <4>3
    <3>4. g = [x \in 1 .. d |-> Through(g, x)]
      BY <3>3
    <3> QED BY <3>4 DEF IsDown
  <2> QED BY <2>1, <2>2
<1>3. \A d \in Nat : (\A b \in Nat : b < d => b \in T) => d \in T
  BY <1>2
<1> HIDE DEF T
<1>4. Nat \subseteq T
  BY <1>3, Induct
<1>5. c \in Nat /\ c <= n
  BY <1>1
<1> QED BY <1>4, <1>5 DEF T

(* Those of a class are paths, a class before those that lead through it.   *)
LEMMA PathsFacts ==
  ASSUME prog \in Programs, NEW c \in DOMAIN prog.classes
  PROVE  PathList(Paths(c))
<1>1. PICK n \in Nat : DOMAIN prog.classes = 1 .. n
  BY Context, Places
<1> DEFINE g == CHOOSE f : IsDown(f, c)
<1>2. IsDown(g, c)
  BY DownExists
<1>3. Paths(c) = g[c]
  BY DEF Paths, IsDown, Through, From
<1> HIDE DEF g
<1> DEFINE T == {d \in Nat : d \in 1 .. c => PathList(g[d])}
<1>4. ASSUME NEW d \in Nat, \A b \in Nat : b < d => b \in T, d \in 1 .. c
      PROVE  PathList(g[d])
  <2>1. g[d] = Through(g, d)
    BY <1>2, <1>4, Zenon DEF IsDown
  <2>2. d \in DOMAIN prog.classes
    BY <1>1, <1>4
  <2> DEFINE row(i) == From(Reborrowed(d)[i].class, g[Reborrowed(d)[i].class])
             ss == [i \in DOMAIN Reborrowed(d) |-> row(i)]
  <2>3. ASSUME NEW i \in DOMAIN Reborrowed(d) PROVE PathList(row(i))
    <3>1. Reborrowed(d)[i].class \in 1 .. (d - 1)
      BY <2>2, ReborrowedFacts
    <3> DEFINE b == Reborrowed(d)[i].class
    <3>2. b \in DOMAIN prog.classes /\ b \in Nat /\ b < d /\ b \in 1 .. c
      BY <1>1, <1>4, <2>2, <3>1
    <3> HIDE DEF b
    <3>3. PathList(g[b])
      BY <1>4, <3>2
    <3>4. PathList(From(b, g[b]))
      BY <3>2, <3>3, FromList
    <3> QED BY <3>4 DEF b
  <2> HIDE DEF row
  <2>4. PICK m \in Nat : DOMAIN Reborrowed(d) = 1 .. m
    BY <2>2, ReborrowedFacts
  <2>5. ss \in Rows(PathSet)
    <3>1. \A i \in 1 .. m : row(i) \in Seq(PathSet)
      BY <2>3, <2>4 DEF PathList, Seqs
    <3>2. ss = [i \in 1 .. m |-> row(i)]
      BY <2>4
    <3> DEFINE S == Seq(PathSet)
    <3> HIDE DEF S
    <3>3. [i \in 1 .. m |-> row(i)] \in Seq(S)
      BY <3>1 DEF S
    <3> QED BY <3>2, <3>3 DEF Rows, S
  <2>6. \A i \in DOMAIN ss : Earlier(ss[i])
    BY <2>3 DEF PathList
  <2>7. Through(g, d) = FlattenSeq(ss)
    BY DEF Through, row
  <2> HIDE DEF ss
  <2> QED BY <2>1, <2>5, <2>6, <2>7, FlatEarlier
<1>5. \A d \in Nat : (\A b \in Nat : b < d => b \in T) => d \in T
  BY <1>4
<1> HIDE DEF T
<1>6. Nat \subseteq T
  BY <1>5, Induct
<1>7. c \in Nat /\ c \in 1 .. c
  BY <1>1
<1> QED BY <1>3, <1>6, <1>7 DEF T

(* The walk visits a class once, and still one before those that are         *)
(* reached through it.                                                       *)
LEMMA VisitsFacts ==
  ASSUME prog \in Programs, NEW c \in DOMAIN prog.classes
  PROVE  PathList(Visits(c))
<1> DEFINE ps == Paths(c)
           I == {i \in DOMAIN ps : \A j \in 1 .. (i - 1) : Last(ps[j]) # Last(ps[i])}
           v == Visits(c)
<1>1. ps \in Seqs(PathSet) /\ Earlier(ps)
  BY PathsFacts DEF PathList
<1>2. v = Sift(ps, I)
  <2>1. \A i \in DOMAIN ps :
          Optional(ps[i], \A j \in 1 .. (i - 1) : Last(ps[j]) # Last(ps[i]))
          = IF i \in I THEN <<ps[i]>> ELSE <<>>
    BY DEF Optional
  <2> QED BY <2>1, Zenon DEF Visits, Sift
<1>3. v \in Seq(PathSet) /\ \E pos : Sifts(v, ps, I, pos)
  BY <1>1, <1>2, Sifting
<1>4. PICK pos : Sifts(v, ps, I, pos)
  BY <1>3
<1>5. PICK l \in Nat : DOMAIN ps = 1 .. l
  BY <1>1, Measured DEF Seqs
<1>6. PICK h \in Nat : DOMAIN v = 1 .. h
  BY <1>3, Measured
<1> HIDE DEF v, ps
<1>7. ASSUME NEW x \in DOMAIN v, NEW n \in 1 .. (Len(v[x]) - 1)
      PROVE  \E y \in DOMAIN v : y < x /\ Last(v[y]) = v[x][n]
  <2>1. pos[x] \in DOMAIN ps /\ v[x] = ps[pos[x]]
    BY <1>4 DEF Sifts
  <2>2. PICK j \in DOMAIN ps : j < pos[x] /\ Last(ps[j]) = v[x][n]
    BY <1>1, <2>1 DEF Earlier
  <2> DEFINE J == {i \in 1 .. l : Last(ps[i]) = v[x][n]}
             f == First(J)
  <2>3. J \in SUBSET (1 .. l) /\ j \in J
    BY <1>5, <2>2
  <2>4. f \in J /\ \A y \in J : f <= y
    BY <2>3, FirstOf
  <2> HIDE DEF f
  <2>5. f \in 1 .. l /\ Last(ps[f]) = v[x][n]
    BY <2>4
  <2>6. ASSUME NEW i \in 1 .. (f - 1) PROVE Last(ps[i]) # Last(ps[f])
    <3>1. i \in 1 .. l /\ ~ (f <= i)
      BY <2>5
    <3>2. i \notin J
      BY <2>4, <3>1
    <3> QED BY <2>5, <3>1, <3>2
  <2>7. f \in I /\ f \in DOMAIN ps
    BY <1>5, <2>5, <2>6
  <2>8. PICK y \in DOMAIN v : pos[y] = f
    BY <1>4, <2>7 DEF Sifts
  <2>9. f < pos[x]
    BY <1>5, <2>1, <2>2, <2>3, <2>4, <2>5
  <2>10. y < x
    <3>1. x < y => pos[x] < pos[y]
      BY <1>4 DEF Sifts
    <3> QED BY <1>5, <1>6, <2>1, <2>5, <2>8, <2>9, <3>1
  <2>11. v[y] = ps[f]
    BY <1>4, <2>8 DEF Sifts
  <2> QED BY <2>5, <2>8, <2>10, <2>11
<1> QED BY <1>3, <1>7 DEF PathList, Seqs, Earlier, v

(* What can be forwarded: a method of the class at the end of a path.        *)
Forwardable ==
  {f \in [path : PathSet, method : Nat] :
     f.method \in DOMAIN Methods(Last(f.path)) /\ Forwards(Target(f))}

(* The class at the end of a path.                                           *)
LEMMA LastClass ==
  ASSUME NEW p \in PathSet
  PROVE  /\ Last(p) \in DOMAIN prog.classes
         /\ \A n \in 1 .. (Len(p) - 1) : p[n] \in DOMAIN prog.classes
<1> DEFINE D == DOMAIN prog.classes
<1>1. p \in Seq(D) /\ p # <<>>
  BY DEF PathSet
<1> HIDE DEF D
<1>2. PICK l \in Nat : l = Len(p) /\ DOMAIN p = 1 .. l /\ l # 0
  BY <1>1, Measured
<1>3. \A n \in 1 .. l : p[n] \in D
  BY <1>1, <1>2, Measured
<1>4. Last(p) = p[l]
  BY <1>2 DEF Last
<1>5. l \in 1 .. l /\ 1 .. (l - 1) \subseteq 1 .. l
  BY <1>2
<1> QED BY <1>2, <1>3, <1>4, <1>5 DEF D

(* The methods of one class that are forwarded along a path.                 *)
LEMMA ForwardsOfFacts ==
  ASSUME prog \in Programs, NEW p \in PathSet
  PROVE  /\ ForwardsOf(p) \in Seq(Forwardable)
         /\ \A x \in DOMAIN ForwardsOf(p) : ForwardsOf(p)[x].path = p
         /\ \A j \in DOMAIN Methods(Last(p)) : Forwards(Methods(Last(p))[j]) =>
              \E x \in DOMAIN ForwardsOf(p) : ForwardsOf(p)[x].method = j
<1> DEFINE ms == Methods(Last(p))
           entry(j) == [path |-> p, method |-> j]
           g == [j \in DOMAIN ms |-> entry(j)]
           I == {j \in DOMAIN ms : Forwards(ms[j])}
           S == {entry(j) : j \in DOMAIN ms}
           F == ForwardsOf(p)
<1>1. PICK n \in Nat : DOMAIN ms = 1 .. n
  BY LastClass, Context, Places
<1>2. F = Sift(g, I)
  <2>1. \A j \in DOMAIN ms : Optional(entry(j), Forwards(ms[j]))
                             = IF j \in I THEN <<g[j]>> ELSE <<>>
    BY DEF Optional
  <2>2. DOMAIN g = DOMAIN ms
    OBVIOUS
  <2>3. F = FlattenSeq([j \in DOMAIN ms |-> Optional(entry(j), Forwards(ms[j]))])
    BY DEF ForwardsOf
  <2> HIDE DEF g, I, F, ms
  <2> QED BY <2>1, <2>2, <2>3, Zenon DEF Sift
<1>3. \A j \in DOMAIN ms : g[j] = entry(j)
  OBVIOUS
<1>4. g \in Seqs(S)
  <2>1. g = [j \in 1 .. n |-> entry(j)] /\ \A j \in 1 .. n : entry(j) \in S
    BY <1>1
  <2> HIDE DEF S, entry
  <2>2. [j \in 1 .. n |-> entry(j)] \in Seq(S)
    BY <2>1
  <2> QED BY <2>1, <2>2 DEF Seqs
<1>5. DOMAIN g = DOMAIN ms
  OBVIOUS
<1> HIDE DEF S, g, F
<1>6. F \in Seq(S) /\ \E pos : Sifts(F, g, I, pos)
  BY <1>2, <1>4, Sifting
<1>7. PICK pos : Sifts(F, g, I, pos)
  BY <1>6
<1>8. PICK h \in Nat : DOMAIN F = 1 .. h /\ h = Len(F)
  BY <1>6, Measured
<1>9. ASSUME NEW x \in DOMAIN F
      PROVE  F[x] = entry(pos[x]) /\ pos[x] \in I
  BY <1>3, <1>5, <1>7 DEF Sifts
<1>10. ASSUME NEW x \in DOMAIN F PROVE F[x] \in Forwardable /\ F[x].path = p
  <2>1. pos[x] \in DOMAIN ms /\ pos[x] \in Nat /\ Forwards(ms[pos[x]])
    BY <1>1, <1>9
  <2>2. F[x].path = p /\ F[x].method = pos[x] /\ F[x] \in [path : PathSet, method : Nat]
    BY <1>9, <2>1
  <2> QED BY <2>1, <2>2 DEF Forwardable, Target
<1>11. F \in Seq(Forwardable)
  <2>1. F = [x \in 1 .. h |-> F[x]]
    BY <1>6, <1>8
  <2>2. \A x \in 1 .. h : F[x] \in Forwardable
    BY <1>8, <1>10
  <2> DEFINE R == Forwardable
  <2> HIDE DEF R
  <2>3. [x \in 1 .. h |-> F[x]] \in Seq(R)
    BY <2>2 DEF R
  <2> QED BY <2>1, <2>3 DEF R
<1>12. ASSUME NEW j \in DOMAIN ms, Forwards(ms[j])
       PROVE  \E x \in DOMAIN F : F[x].method = j
  <2>1. PICK x \in DOMAIN F : pos[x] = j
    BY <1>5, <1>7, <1>12 DEF Sifts
  <2> QED BY <1>9, <2>1
<1> QED BY <1>10, <1>11, <1>12 DEF F

(* A method a path leads past that could be forwarded itself comes earlier.  *)
LEMMA CandidatesFacts ==
  ASSUME prog \in Programs, NEW c \in DOMAIN prog.classes
  PROVE  /\ Candidates(c) \in Seq(Forwardable)
         /\ \A x \in DOMAIN Candidates(c) :
              \A n \in 1 .. (Len(Candidates(c)[x].path) - 1) :
                \A m \in Range(Methods(Candidates(c)[x].path[n])) : Forwards(m) =>
                  \E y \in DOMAIN Candidates(c) : y < x /\ Target(Candidates(c)[y]) = m
<1> DEFINE v == Visits(c)
           ss == [i \in DOMAIN v |-> ForwardsOf(v[i])]
           F == Candidates(c)
<1>1. v \in Seq(PathSet) /\ Earlier(v)
  BY VisitsFacts DEF PathList, Seqs
<1>2. PICK l \in Nat : DOMAIN v = 1 .. l
  BY <1>1, Measured
<1>3. \A i \in DOMAIN v : v[i] \in PathSet
  BY <1>1, Measured
<1> HIDE DEF v
<1>4. ss \in Rows(Forwardable)
  <2> DEFINE S == Seq(Forwardable)
  <2>1. \A i \in 1 .. l : ForwardsOf(v[i]) \in S
    BY <1>2, <1>3, ForwardsOfFacts
  <2> HIDE DEF S
  <2>2. [i \in 1 .. l |-> ForwardsOf(v[i])] \in Seq(S)
    BY <2>1
  <2>3. ss = [i \in 1 .. l |-> ForwardsOf(v[i])]
    BY <1>2
  <2> QED BY <2>2, <2>3 DEF Rows, S
<1>5. F = FlattenSeq(ss)
  BY DEF Candidates, v
<1>6. DOMAIN ss = DOMAIN v /\ \A i \in DOMAIN v : ss[i] = ForwardsOf(v[i])
  OBVIOUS
<1> HIDE DEF ss, F
<1>7. F \in Seq(Forwardable) /\ \E off : FlatMap(F, ss, off)
  BY <1>4, <1>5, Flat
<1>8. PICK off : FlatMap(F, ss, off)
  BY <1>7
<1>9. ASSUME NEW x \in DOMAIN F, NEW n \in 1 .. (Len(F[x].path) - 1),
             NEW m \in Range(Methods(F[x].path[n])), Forwards(m)
      PROVE  \E y \in DOMAIN F : y < x /\ Target(F[y]) = m
  <2>1. PICK i \in DOMAIN ss : \E j \in DOMAIN ss[i] : x = off[i] + j
    BY <1>8 DEF FlatMap
  <2>2. PICK j \in DOMAIN ss[i] : x = off[i] + j
    BY <2>1
  <2>3. F[x] = ss[i][j]
    BY <1>8, <2>2 DEF FlatMap
  <2>4. i \in DOMAIN v /\ F[x].path = v[i]
    BY <1>3, <1>6, <2>2, <2>3, ForwardsOfFacts
  <2>5. PICK h \in DOMAIN v : h < i /\ Last(v[h]) = v[i][n]
    BY <1>1, <2>4 DEF Earlier
  <2>6. PICK a \in DOMAIN Methods(Last(v[h])) : m = Methods(Last(v[h]))[a]
    BY <2>4, <2>5 DEF Range
  <2>7. PICK b \in DOMAIN ss[h] : ss[h][b].method = a /\ ss[h][b].path = v[h]
    BY <1>3, <1>6, <1>9, <2>5, <2>6, ForwardsOfFacts
  <2>8. off[h] + b \in DOMAIN F /\ F[off[h] + b] = ss[h][b] /\ off[h] + b < x
    BY <1>6, <1>8, <2>2, <2>5, <2>7 DEF FlatMap
  <2>9. Target(F[off[h] + b]) = m
    BY <2>6, <2>7, <2>8 DEF Target
  <2> QED BY <2>8, <2>9
<1> QED BY <1>7, <1>9 DEF F

(* The forwarders of a class: no name twice, none that is taken, and none    *)
(* past a class that has one of its name to forward.                         *)
Nearest(fs) ==
  \A x \in DOMAIN fs : \A n \in 1 .. (Len(fs[x].path) - 1) :
    \A m \in Range(Methods(fs[x].path[n])) : Forwards(m) => m.name # Target(fs[x]).name
(* All three hold of what Forwarders keeps of the candidates.                *)
LEMMA ForwardersFacts ==
  ASSUME prog \in Programs, NEW c \in DOMAIN prog.classes, NEW own
  PROVE  LET fs == Forwarders(c, own) IN
         /\ \A x, y \in DOMAIN fs : Target(fs[x]).name = Target(fs[y]).name => x = y
         /\ \A x \in DOMAIN fs : Target(fs[x]).name \notin Taken(c, own)
         /\ Nearest(fs)
<1> DEFINE fs == Candidates(c)
           Kept(i) == /\ Target(fs[i]).name \notin Taken(c, own)
                      /\ \A j \in 1 .. (i - 1) : Target(fs[j]).name # Target(fs[i]).name
                      /\ RustOk(Target(fs[i]))
           I == {i \in DOMAIN fs : Kept(i)}
           F == Forwarders(c, own)
<1>1. /\ fs \in Seq(Forwardable)
      /\ \A x \in DOMAIN fs : \A n \in 1 .. (Len(fs[x].path) - 1) :
           \A m \in Range(Methods(fs[x].path[n])) : Forwards(m) =>
             \E y \in DOMAIN fs : y < x /\ Target(fs[y]) = m
  BY CandidatesFacts
<1>2. PICK l \in Nat : DOMAIN fs = 1 .. l
  BY <1>1, Measured
<1>3. F = Sift(fs, I)
  <2>1. F = FlattenSeq([i \in DOMAIN fs |-> Optional(fs[i], Kept(i))])
    BY DEF Forwarders
  <2>2. \A i \in DOMAIN fs : Optional(fs[i], Kept(i)) = IF i \in I THEN <<fs[i]>> ELSE <<>>
    BY DEF Optional
  <2> HIDE DEF Kept, I, fs, F
  <2> QED BY <2>1, <2>2, Zenon DEF Sift
<1>4. \A i \in DOMAIN fs : i \in I <=> Kept(i)
  OBVIOUS
<1>5. \A i \in DOMAIN fs : Kept(i) =>
        /\ Target(fs[i]).name \notin Taken(c, own)
        /\ \A j \in 1 .. (i - 1) : Target(fs[j]).name # Target(fs[i]).name
  OBVIOUS
<1> HIDE DEF fs, F, I, Kept
<1>6. fs \in Seqs(Forwardable)
  BY <1>1 DEF Seqs
<1>7. F \in Seq(Forwardable) /\ \E pos : Sifts(F, fs, I, pos)
  BY <1>3, <1>6, Sifting
<1>8. PICK pos : Sifts(F, fs, I, pos)
  BY <1>7
<1>9. PICK h \in Nat : DOMAIN F = 1 .. h
  BY <1>7, Measured
<1>10. ASSUME NEW x \in DOMAIN F
       PROVE  /\ pos[x] \in 1 .. l /\ F[x] = fs[pos[x]]
              /\ Target(F[x]).name \notin Taken(c, own)
              /\ \A j \in 1 .. (pos[x] - 1) : Target(fs[j]).name # Target(F[x]).name
  <2>1. pos[x] \in DOMAIN fs /\ pos[x] \in I /\ F[x] = fs[pos[x]]
    BY <1>8 DEF Sifts
  <2> QED BY <1>2, <1>4, <1>5, <2>1
<1>11. ASSUME NEW x \in DOMAIN F, NEW y \in DOMAIN F,
              Target(F[x]).name = Target(F[y]).name, x # y
       PROVE  FALSE
  <2>1. \A a, b \in DOMAIN F : a < b => Target(F[a]).name # Target(F[b]).name
    <3> SUFFICES ASSUME NEW a \in DOMAIN F, NEW b \in DOMAIN F, a < b
                 PROVE  Target(F[a]).name # Target(F[b]).name
      OBVIOUS
    <3>1. pos[a] < pos[b]
      BY <1>8 DEF Sifts
    <3>2. pos[a] \in 1 .. (pos[b] - 1)
      BY <1>10, <3>1
    <3> QED BY <1>10, <3>2
  <2>2. x < y \/ y < x
    BY <1>9, <1>11
  <2> QED BY <1>11, <2>1, <2>2
<1>12. Nearest(F)
  <2> SUFFICES ASSUME NEW x \in DOMAIN F, NEW n \in 1 .. (Len(F[x].path) - 1),
                      NEW m \in Range(Methods(F[x].path[n])), Forwards(m),
                      m.name = Target(F[x]).name
               PROVE  FALSE
    BY DEF Nearest
  <2>1. pos[x] \in DOMAIN fs /\ F[x] = fs[pos[x]]
    BY <1>2, <1>10
  <2>2. PICK y \in DOMAIN fs : y < pos[x] /\ Target(fs[y]) = m
    BY <1>1, <2>1
  <2>3. y \in 1 .. (pos[x] - 1)
    BY <1>2, <1>10, <2>2
  <2> QED BY <1>10, <2>2, <2>3
<1> QED BY <1>10, <1>11, <1>12 DEF F

-----------------------------------------------------------------------------
(* The names of a class rendered.                                            *)
NamesOnce(item) ==
  LET bs == item.blocks
      own == {i \in DOMAIN bs : bs[i].kind \in OwnKinds}
      fs == item.forwarders
  IN /\ \A x, y \in own : bs[x].name = bs[y].name => x = y
     /\ \A x, y \in DOMAIN fs : Target(fs[x]).name = Target(fs[y]).name => x = y
     /\ \A x \in own : \A y \in DOMAIN fs : bs[x].name # Target(fs[y]).name
NamesKept == \A item \in Range(items) : NamesOnce(item) /\ Nearest(item.forwarders)

(* The class in hand is rendered with such names: two blocks of one name     *)
(* would have one identifier, and the forwarders avoid the blocks.           *)
LEMMA RenderedNames ==
  ASSUME Walk, InHand, phase = "classes", at \in DOMAIN prog.classes
  PROVE  NamesOnce(Rendered(at)) /\ Nearest(Rendered(at).forwarders)
<1> DEFINE r == Rendered(at)
           own == {i \in DOMAIN blocks : blocks[i].kind \in OwnKinds}
           fs == r.forwarders
<1>1. r.blocks = blocks /\ fs = IF prog.flatten THEN Forwarders(at, blocks) ELSE <<>>
  BY DEF Rendered
<1>2. ASSUME NEW x \in own, NEW y \in own, blocks[x].name = blocks[y].name
      PROVE  x = y
  <2>1. Described(at, blocks[x]) /\ Described(at, blocks[y])
    BY DEF InHand
  <2>2. blocks[x].ident = blocks[y].ident
    BY <1>2, <2>1 DEF Described
  <2> QED BY <2>2 DEF InHand
<1> HIDE DEF r
<1>3. /\ \A x, y \in DOMAIN fs : Target(fs[x]).name = Target(fs[y]).name => x = y
      /\ \A x \in DOMAIN fs : fs # <<>> /\ Target(fs[x]).name \notin Taken(at, blocks)
      /\ Nearest(fs)
  <2>1. CASE prog.flatten
    <3>1. \A x \in DOMAIN fs : fs # <<>>
      BY EmptyIsSeq
    <3> QED BY <1>1, <2>1, <3>1, ForwardersFacts DEF Walk
  <2>2. CASE ~prog.flatten
    <3>1. DOMAIN fs = {}
      BY <1>1, <2>2, EmptyIsSeq
    <3> QED BY <3>1 DEF Nearest
  <2> QED BY <2>1, <2>2
<1>4. \A x \in own : blocks[x].name \in Taken(at, blocks)
  BY DEF Taken, Range
<1>5. NamesOnce(r)
  BY <1>1, <1>2, <1>3, <1>4 DEF NamesOnce
<1> QED BY <1>3, <1>5 DEF r

(* Every step keeps the names of the classes rendered.                       *)
LEMMA NamesStep == Walk /\ InHand /\ NamesKept /\ [Next]_vars => NamesKept'
<1> SUFFICES ASSUME Walk, InHand, NamesKept, [Next]_vars PROVE NamesKept'
  OBVIOUS
<1>1. prog' = prog
  BY ItemsStep
<1>2. \A z : (NamesOnce(z) => NamesOnce(z)') /\ (Nearest(z) => Nearest(z)')
  <2>1. \A z : Target(z)' = Target(z)
    BY <1>1 DEF Target, Methods
  <2>2. \A z : NamesOnce(z) => NamesOnce(z)'
    BY <2>1 DEF NamesOnce
  <2>3. \A z : Nearest(z) => Nearest(z)'
    BY <1>1, <2>1 DEF Nearest, Methods
  <2> QED BY <2>2, <2>3
<1>3. CASE items' = items
  BY <1>2, <1>3 DEF NamesKept
<1>4. ASSUME NEW x, Adds(x), NamesOnce(x), Nearest(x.forwarders)
      PROVE  NamesKept'
  <2>1. Range(items') \subseteq Range(items) \cup {x}
    BY <1>4 DEF Adds, Range
  <2> QED BY <1>2, <1>4, <2>1 DEF NamesKept
<1>5. CASE Adds(Opaque)
  <2>1. NamesOnce(Opaque) /\ Nearest(Opaque.forwarders)
    BY EmptyIsSeq DEF Opaque, NamesOnce, Nearest
  <2> QED BY <1>4, <1>5, <2>1
<1>6. CASE FinishClass /\ Adds(Rendered(at))
  <2>1. phase = "classes" /\ at \in DOMAIN prog.classes
    BY <1>6 DEF FinishClass, AtClass, Adds
  <2>2. NamesOnce(Rendered(at)) /\ Nearest(Rendered(at).forwarders)
    BY <2>1, RenderedNames
  <2> QED BY <1>4, <1>6, <2>2
<1> QED BY <1>3, <1>5, <1>6, ItemsStep

(* The names of every class rendered are kept apart.                         *)
THEOREM NamesAlways == Spec => []NamesKept
<1>1. Init => NamesKept
  BY EmptyIsSeq DEF Init, NamesKept
<1>2. Emits /\ NamesKept /\ [Next]_vars => NamesKept'
  BY NamesStep DEF Emits
<1> QED BY <1>1, <1>2, EmitsAlways, PTL DEF Spec

(* NamesUnique, for every type context: no impl block defines a name twice.  *)
THEOREM OneNameEach == Spec => []NamesUnique
<1>1. NamesKept => NamesUnique
  BY DEF NamesKept, NamesOnce, NamesUnique, OwnKinds, Range
<1> QED BY <1>1, NamesAlways, PTL

(* NearestForwarded, for every type context: a forwarder never reaches past  *)
(* a class that has a method of its name to forward.                         *)
THEOREM NearestWins == Spec => []NearestForwarded
<1>1. ASSUME NamesKept, NEW c \in DOMAIN items, NEW f \in Range(items[c].forwarders)
      PROVE  \A n \in 1 .. (Len(f.path) - 1) : \A m \in Range(Methods(f.path[n])) :
               Forwards(m) => m.name # Target(f).name
  <2>1. Nearest(items[c].forwarders)
    BY <1>1 DEF NamesKept, Range
  <2>2. PICK x \in DOMAIN items[c].forwarders : f = items[c].forwarders[x]
    BY DEF Range
  <2> QED BY <2>1, <2>2 DEF Nearest
<1>2. NamesKept => NearestForwarded
  BY <1>1 DEF NearestForwarded
<1> QED BY <1>2, NamesAlways, PTL

-----------------------------------------------------------------------------
(* What drops the classes rendered.                                          *)
MustDrop(c) == Droppable(c) /\ (DeclaresDtor(c) \/ (SingleChain(c) /\ VirtualDtor(c)))
DropKept == \A c \in DOMAIN items :
  MustDrop(c) => \A item \in {items[c]} : item.drop.variant \in {"D1", "D2"}

(* The two chains of a class, as functions of the context, so that a step    *)
(* that keeps the context keeps them.                                        *)
SingleOf(p, c) ==
  LET single[d \in 1 .. c] ==
        /\ Len(p.classes[d].bases) <= 1
        /\ \A b \in Range(p.classes[d].bases) : ~b.virt /\ single[b.class]
  IN single[c]
DtorOf(p, c) ==
  LET inherits[d \in 1 .. c] ==
        \/ \E m \in Range(p.classes[d].methods) : m.virtual /\ m.special = "Dtor"
        \/ \E b \in Range(p.classes[d].bases) : inherits[b.class]
  IN inherits[c]
(* They are the same before and after a step.                                *)
LEMMA MustDropStays ==
  ASSUME prog' = prog, NEW c
  PROVE  MustDrop(c)' <=> MustDrop(c)
<1>1. SingleChain(c)' = SingleChain(c)
  <2>1. SingleChain(c) = SingleOf(prog, c)
    BY DEF SingleChain, SingleOf, Bases
  <2>2. SingleChain(c)' = SingleOf(prog', c)
    BY DEF SingleChain, SingleOf, Bases
  <2> QED BY <2>1, <2>2
<1>2. VirtualDtor(c)' = VirtualDtor(c)
  <2>1. VirtualDtor(c) = DtorOf(prog, c)
    BY DEF VirtualDtor, DtorOf, Bases, Methods
  <2>2. VirtualDtor(c)' = DtorOf(prog', c)
    BY DEF VirtualDtor, DtorOf, Bases, Methods
  <2> QED BY <2>1, <2>2
<1>3. Droppable(c)' <=> Droppable(c)
  BY DEF Droppable, Bound, Methods
<1>4. DeclaresDtor(c)' <=> DeclaresDtor(c)
  BY DEF DeclaresDtor, Methods
<1> QED BY <1>1, <1>2, <1>3, <1>4 DEF MustDrop

(* A class that must be dropped is rendered with what drops it: the walk has *)
(* passed every destructor it declares, and none that can be called was left *)
(* out.                                                                      *)
LEMMA RenderedDrop ==
  ASSUME Walk, InHand, FinishClass, at \in DOMAIN prog.classes, MustDrop(at)
  PROVE  Rendered(at).drop.variant \in {"D1", "D2"}
<1>1. phase = "classes" /\ k > Len(Methods(at))
  BY DEF FinishClass, AtClass
<1>2. Droppable(at) /\ (DeclaresDtor(at) \/ (SingleChain(at) /\ VirtualDtor(at)))
  BY DEF MustDrop
<1>3. PICK n \in Nat : n = Len(Methods(at)) /\ DOMAIN Methods(at) = 1 .. n
  BY Context, Places DEF Walk
<1>4. ASSUME DeclaresDtor(at) PROVE dtor
  <2>1. PICK i \in DOMAIN Methods(at) : Methods(at)[i].special = "Dtor"
    BY <1>4 DEF DeclaresDtor, Range
  <2>2. Methods(at)[i].public
    BY <1>2, <2>1 DEF Droppable, Range
  <2>3. i < k
    BY <1>1, <1>3 DEF Walk
  <2> QED BY <1>1, <2>1, <2>2, <2>3 DEF InHand
<1>5. Rendered(at).drop = Drop(at)
  BY DEF Rendered
<1>6. CASE dtor
  <2>1. Drop(at).variant = Variant(at, [special |-> "Dtor"])
    BY <1>6 DEF Drop
  <2>2. Variant(at, [special |-> "Dtor"]) \in {"D1", "D2"}
    BY DEF Variant, Ctors
  <2> QED BY <1>5, <2>1, <2>2
<1>7. CASE ~dtor
  <2>1. SingleChain(at) /\ VirtualDtor(at) /\ ~prog.classes[at].abstract
    BY <1>2, <1>4, <1>7 DEF Droppable
  <2>2. Drop(at) = [of |-> "inherited", variant |-> "D1"]
    BY <1>7, <2>1 DEF Drop
  <2> QED BY <1>5, <2>2
<1> QED BY <1>6, <1>7

(* Every step keeps what drops the classes rendered.                         *)
LEMMA DropStep == Walk /\ InHand /\ DropKept /\ [Next]_vars => DropKept'
<1> SUFFICES ASSUME Walk, InHand, DropKept, [Next]_vars PROVE DropKept'
  OBVIOUS
<1>1. prog' = prog
  BY ItemsStep
<1>2. \A c : MustDrop(c)' <=> MustDrop(c)
  BY <1>1, MustDropStays
<1>3. CASE items' = items
  BY <1>2, <1>3 DEF DropKept
<1>4. ASSUME NEW x, Adds(x), MustDrop(at) => x.drop.variant \in {"D1", "D2"}
      PROVE  DropKept'
  <2> PICK a : a = at
    OBVIOUS
  <2>1. MustDrop(a)' => x.drop.variant \in {"D1", "D2"}
    BY <1>2, <1>4
  <2> QED BY <1>2, <1>4, <2>1 DEF DropKept, Adds
<1>5. CASE (SkipClass \/ OpaqueClass) /\ Adds(Opaque)
  <2>1. ~MustDrop(at)
    BY <1>5 DEF SkipClass, OpaqueClass, Class, MustDrop, Droppable, Bound
  <2> QED BY <1>4, <1>5, <2>1
<1>6. CASE FinishClass /\ Adds(Rendered(at))
  <2>1. at \in DOMAIN prog.classes
    BY <1>6 DEF Adds
  <2>2. MustDrop(at) => Rendered(at).drop.variant \in {"D1", "D2"}
    BY <1>6, <2>1, RenderedDrop
  <2> QED BY <1>4, <1>6, <2>2
<1> QED BY <1>3, <1>5, <1>6, ItemsStep

(* The drops are right in every reachable state.                             *)
THEOREM DropsAlways == Spec => []DropKept
<1>1. Init => DropKept
  BY EmptyIsSeq DEF Init, DropKept
<1>2. Emits /\ DropKept /\ [Next]_vars => DropKept'
  BY DropStep DEF Emits
<1> QED BY <1>1, <1>2, EmitsAlways, PTL DEF Spec

(* DropRunsChain, for every type context: where the subobjects of the base   *)
(* variant of a destructor are all there are, either variant runs them all.  *)
THEOREM ChainDestroyed == Spec => []DropRunsChain
<1>1. ASSUME DropKept, NEW c \in DOMAIN items, MustDrop(c),
             Subobjects(c) = NonVirtualSubobjects(c)
      PROVE  DestroysAll(c)
  <2>1. items[c].drop.variant \in {"D1", "D2"}
    BY <1>1 DEF DropKept
  <2>2. Destroyed(c, items[c].drop) = Subobjects(c)
    BY <1>1, <2>1 DEF Destroyed
  <2> QED BY <2>2 DEF DestroysAll
<1>2. DropKept => DropRunsChain
  BY <1>1 DEF DropRunsChain, MustDrop
<1> QED BY <1>2, DropsAlways, PTL

-----------------------------------------------------------------------------
(* The calls.  A full wrapper matches the function it calls when each        *)
(* parameter gets the argument of its position, or the object meant for it.  *)
Raw(m) == {Arg(j, "raw") : j \in DOMAIN m.params}
Matches(m, passes, callee) ==
  /\ \E l \in Nat : /\ Len(passes) = l /\ DOMAIN passes = 1 .. l
                    /\ Len(callee) = l /\ DOMAIN callee = 1 .. l
  /\ \A i \in DOMAIN passes :
       \/ passes[i] \in Raw(m) /\ callee[i] = passes[i]
       \/ passes[i].from # "arg" /\ Serves(m, passes[i], callee[i])
ArgsOnly(m, takes) == \A i \in DOMAIN takes : takes[i].from = "arg" => takes[i] \in Raw(m)

(* It is given each of its arguments by its position.                        *)
LEMMA RawFacts ==
  ASSUME NEW m, NEW x \in Raw(m)
  PROVE  /\ x.from = "arg" /\ x.how = "raw" /\ x.at \in DOMAIN m.params
         /\ x = Arg(x.at, "raw")
         /\ Serves(m, x, x)
<1>1. PICK j \in DOMAIN m.params : x = Arg(j, "raw")
  BY DEF Raw
<1>2. x.from = "arg" /\ x.how = "raw" /\ x.at = j
  BY <1>1 DEF Arg
<1>3. Serves(m, x, x)
  BY <1>2 DEF Serves
<1> QED BY <1>1, <1>2, <1>3

(* A wrapper that calls the function itself.                                 *)
LEMMA FullDelivers ==
  ASSUME NEW m, NEW e, NEW w, w.calls # "full", Matches(m, w.passes, Callee(m)),
         ArgsOnly(m, w.takes), w.takes = <<>> \/ Raw(m) \subseteq Range(w.passes)
                               \/ \A i \in DOMAIN w.takes : w.takes[i].from # "arg"
  PROVE  Delivers(m, e, w)
<1>1. Reaching(m, e, w) = w.passes
  BY DEF Reaching
<1>2. Len(w.passes) = Len(Callee(m))
  BY DEF Matches
<1>3. \A i \in DOMAIN w.passes : Serves(m, w.passes[i], Callee(m)[i])
  BY RawFacts DEF Matches
<1>4. UsesAll(w, w.passes)
  BY EmptyIsSeq DEF UsesAll, ArgsOnly
<1> QED BY <1>1, <1>2, <1>3, <1>4 DEF Delivers

(* A wrapper that calls the full one.                                        *)
Fills(m, passes) ==
  /\ Len(passes) = Arity(m)
  /\ \A j \in DOMAIN m.params : Serves(m, passes[j], Arg(j, "raw"))
(* It delivers, if the full wrapper matches and the arguments fill it.       *)
LEMMA ConvenienceDelivers ==
  ASSUME NEW m, NEW e, NEW w, NEW full, full = FullWrapper(m, e).passes,
         w.calls = "full", w.ret = WrapperReturn(m),
         Matches(m, full, Callee(m)), Raw(m) \subseteq Range(full), Fills(m, w.passes),
         \A i \in DOMAIN w.takes : i \in DOMAIN m.params /\ w.takes[i] = w.passes[i]
  PROVE  Delivers(m, e, w)
<1> DEFINE callee == Callee(m)
           at0(i) == IF full[i].from = "arg" THEN w.passes[full[i].at] ELSE full[i]
           given == [i \in DOMAIN full |-> at0(i)]
<1>1. Reaching(m, e, w) = given
  BY DEF Reaching
<1>2. PICK l \in Nat : /\ Len(full) = l /\ DOMAIN full = 1 .. l
                       /\ Len(callee) = l /\ DOMAIN callee = 1 .. l
  BY DEF Matches
<1>3. Len(given) = l /\ \A i \in DOMAIN full : given[i] = at0(i)
  BY <1>2
<1>4. DOMAIN given = DOMAIN full
  OBVIOUS
<1> HIDE DEF given, callee
<1>5. ASSUME NEW i \in DOMAIN full PROVE Serves(m, given[i], callee[i])
  <2>1. CASE full[i] \in Raw(m) /\ callee[i] = full[i]
    <3>1. full[i].from = "arg" /\ full[i].at \in DOMAIN m.params
          /\ full[i] = Arg(full[i].at, "raw")
      BY <2>1, RawFacts
    <3>2. given[i] = w.passes[full[i].at]
      BY <1>3, <3>1
    <3> QED BY <2>1, <3>1, <3>2 DEF Fills
  <2>2. CASE full[i].from # "arg" /\ Serves(m, full[i], callee[i])
    BY <1>3, <2>2
  <2> QED BY <2>1, <2>2 DEF Matches, callee
<1>6. ASSUME NEW i \in DOMAIN w.takes PROVE w.takes[i] \in Range(given)
  <2>1. i \in DOMAIN m.params /\ w.takes[i] = w.passes[i]
    OBVIOUS
  <2>2. Arg(i, "raw") \in Raw(m)
    BY <2>1 DEF Raw
  <2>3. PICK x \in DOMAIN full : full[x] = Arg(i, "raw")
    BY <2>2 DEF Range
  <2>4. full[x].from = "arg" /\ full[x].at = i
    BY <2>3 DEF Arg
  <2>5. given[x] = w.passes[i]
    BY <1>3, <2>4
  <2> QED BY <1>4, <2>1, <2>5 DEF Range
<1>7. UsesAll(w, given)
  BY <1>6 DEF UsesAll
<1> QED BY <1>1, <1>2, <1>3, <1>4, <1>5, <1>7 DEF Delivers, Fills, callee

(* What stands before the arguments and after them.                          *)
LEMMA Frame ==
  ASSUME NEW m, IsSeq(m.params), NEW h, NEW o, NEW ch, NEW co,
         h \in {<<>>, <<This>>, <<Slot>>}, ch \in {<<>>, <<This>>}, (h = <<>> <=> ch = <<>>),
         o \in {<<>>, <<Out>>}, co = o
  PROVE  /\ Matches(m, (h \o Args(m)) \o o, (ch \o Args(m)) \o co)
         /\ Raw(m) \subseteq Range((h \o Args(m)) \o o)
<1>1. PICK n \in Nat : Arity(m) = n /\ DOMAIN m.params = 1 .. n
  BY Places DEF Arity
<1> DEFINE S == {This, Slot, Out} \cup Raw(m)
           a == Args(m)
<1>2. a \in Seq(S) /\ Len(a) = n /\ \A i \in 1 .. n : a[i] = Arg(i, "raw") /\ a[i] \in Raw(m)
  <2>1. a = [i \in 1 .. n |-> Arg(i, "raw")]
    BY <1>1 DEF Args
  <2>2. \A i \in 1 .. n : Arg(i, "raw") \in Raw(m)
    BY <1>1 DEF Raw
  <2> HIDE DEF a
  <2>3. \A i \in 1 .. n : Arg(i, "raw") \in S
    BY <2>2
  <2> HIDE DEF S
  <2> QED BY <2>1, <2>2, <2>3
<1>3. h \in Seq(S) /\ ch \in Seq(S) /\ o \in Seq(S)
  <2>1. <<This>> \in Seq(S) /\ <<Slot>> \in Seq(S) /\ <<Out>> \in Seq(S) /\ <<>> \in Seq(S)
    <3>1. This \in S /\ Slot \in S /\ Out \in S
      OBVIOUS
    <3> HIDE DEF S
    <3> QED BY <3>1
  <2> QED BY <2>1
<1>0. \A x : Len(<<x>>) = 1 /\ <<x>>[1] = x
  OBVIOUS
<1>4. PICK p \in Nat : /\ Len(h) = p /\ Len(ch) = p /\ p <= 1
                       /\ p = 1 => h[1] \in {This, Slot} /\ ch[1] = This
  <2>1. CASE h = <<>>
    <3>1. Len(h) = 0 /\ Len(ch) = 0
      BY <2>1
    <3> QED BY <3>1
  <2>2. CASE h # <<>>
    <3>1. Len(h) = 1 /\ Len(ch) = 1 /\ h[1] \in {This, Slot} /\ ch[1] = This
      BY <1>0, <2>2
    <3> QED BY <3>1
  <2> QED BY <2>1, <2>2
<1>5. PICK q \in Nat : Len(o) = q /\ q <= 1 /\ (q = 1 => o[1] = Out)
  <2>1. CASE o = <<>>
    <3>1. Len(o) = 0
      BY <2>1
    <3> QED BY <3>1
  <2>2. CASE o # <<>>
    <3>1. Len(o) = 1 /\ o[1] = Out
      BY <1>0, <2>2
    <3> QED BY <3>1
  <2> QED BY <2>1, <2>2
<1> HIDE DEF S, a
<1> DEFINE s == (h \o a) \o o
           t == (ch \o a) \o co
<1>6. ASSUME NEW x \in Seq(S), Len(x) = p
      PROVE  LET z == (x \o a) \o o IN
               /\ Len(z) = p + n + q /\ DOMAIN z = 1 .. (p + n + q)
               /\ \A i \in 1 .. p : z[i] = x[i]
               /\ \A i \in 1 .. n : z[p + i] = a[i]
               /\ \A i \in 1 .. q : z[p + n + i] = o[i]
  <2> DEFINE y == x \o a
  <2>1. /\ y \in Seq(S) /\ Len(y) = p + n
        /\ \A i \in 1 .. p : y[i] = x[i]
        /\ \A i \in 1 .. n : y[p + i] = a[i]
    BY <1>2, <1>6, ConcatParts
  <2> HIDE DEF y
  <2>2. PICK r \in Nat : r = p + n
    OBVIOUS
  <2> DEFINE z == y \o o
  <2>3. /\ z \in Seq(S) /\ Len(z) = r + q
        /\ \A i \in 1 .. r : z[i] = y[i]
        /\ \A i \in 1 .. q : z[r + i] = o[i]
    BY <1>3, <1>5, <2>1, <2>2, ConcatParts
  <2> HIDE DEF z
  <2>4. DOMAIN z = 1 .. (r + q)
    BY <2>3
  <2>5. \A i \in 1 .. p : z[i] = x[i]
    BY <2>1, <2>2, <2>3
  <2>6. \A i \in 1 .. n : z[p + i] = a[i]
    BY <2>1, <2>2, <2>3
  <2>7. Len(z) = p + n + q /\ DOMAIN z = 1 .. (p + n + q)
    BY <2>2, <2>3, <2>4
  <2>8. \A i \in 1 .. q : z[p + n + i] = o[i]
    BY <2>2, <2>3
  <2> QED BY <2>5, <2>6, <2>7, <2>8 DEF y, z
<1>7. /\ Len(s) = p + n + q /\ DOMAIN s = 1 .. (p + n + q)
      /\ \A i \in 1 .. p : s[i] = h[i]
      /\ \A i \in 1 .. n : s[p + i] = a[i]
      /\ \A i \in 1 .. q : s[p + n + i] = o[i]
  BY <1>3, <1>4, <1>6
<1>8. /\ Len(t) = p + n + q /\ DOMAIN t = 1 .. (p + n + q)
      /\ \A i \in 1 .. p : t[i] = ch[i]
      /\ \A i \in 1 .. n : t[p + i] = a[i]
      /\ \A i \in 1 .. q : t[p + n + i] = o[i]
  BY <1>3, <1>4, <1>6
<1> HIDE DEF s, t
<1>9. ASSUME NEW i \in DOMAIN s
      PROVE  \/ s[i] \in Raw(m) /\ t[i] = s[i]
             \/ s[i].from # "arg" /\ Serves(m, s[i], t[i])
  <2>1. CASE i \in 1 .. p
    <3>1. i = 1 /\ p = 1
      BY <1>4, <2>1
    <3>2. s[i] \in {This, Slot} /\ t[i] = This
      BY <1>4, <1>7, <1>8, <2>1, <3>1
    <3> QED BY <3>2 DEF Serves, This, Slot
  <2>2. CASE i \in (p + 1) .. (p + n)
    <3>1. i - p \in 1 .. n /\ p + (i - p) = i
      BY <2>2
    <3>2. s[i] = a[i - p] /\ t[i] = a[i - p]
      BY <1>7, <1>8, <3>1
    <3> QED BY <1>2, <3>1, <3>2
  <2>3. CASE i \in (p + n + 1) .. (p + n + q)
    <3>1. i = p + n + 1 /\ q = 1
      BY <1>5, <2>3
    <3>2. s[i] = Out /\ t[i] = Out
      BY <1>5, <1>7, <1>8, <3>1
    <3> QED BY <3>2 DEF Serves, Out
  <2> QED BY <1>7, <2>1, <2>2, <2>3
<1>10. Matches(m, s, t)
  BY <1>7, <1>8, <1>9 DEF Matches
<1>11. Raw(m) \subseteq Range(s)
  <2> SUFFICES ASSUME NEW j \in 1 .. n PROVE Arg(j, "raw") \in Range(s)
    BY <1>1 DEF Raw
  <2>1. p + j \in DOMAIN s
    BY <1>7
  <2> QED BY <1>2, <1>7, <2>1 DEF Range
<1> QED BY <1>10, <1>11 DEF s, t, a

(* Nothing before the arguments, nothing after, and what follows the object. *)
LEMMA Alone ==
  ASSUME NEW m, IsSeq(m.params)
  PROVE  /\ \A h \in {<<>>, <<This>>, <<Slot>>} : (h \o Args(m)) \o <<>> = h \o Args(m)
         /\ \A o \in {<<>>, <<Out>>} : (<<>> \o Args(m)) \o o = Args(m) \o o
         /\ <<>> \o Args(m) = Args(m)
         /\ Tail(<<This>> \o Args(m)) = Args(m)
         /\ DOMAIN Args(m) = DOMAIN m.params
         /\ \A i \in DOMAIN m.params : Args(m)[i] = Arg(i, "raw")
<1>1. PICK n \in Nat : Arity(m) = n /\ DOMAIN m.params = 1 .. n
  BY Places DEF Arity
<1> DEFINE S == {This, Slot, Out} \cup Raw(m)
           a == Args(m)
<1>2. a \in Seq(S) /\ DOMAIN a = 1 .. n /\ \A i \in 1 .. n : a[i] = Arg(i, "raw")
  <2>1. a = [i \in 1 .. n |-> Arg(i, "raw")]
    BY <1>1 DEF Args
  <2>2. \A i \in 1 .. n : Arg(i, "raw") \in Raw(m)
    BY <1>1 DEF Raw
  <2> HIDE DEF a
  <2>3. \A i \in 1 .. n : Arg(i, "raw") \in S
    BY <2>2
  <2> HIDE DEF S
  <2> QED BY <2>1, <2>3
<1>3. \A h \in {<<>>, <<This>>, <<Slot>>} : h \in Seq(S)
  <2>1. This \in S /\ Slot \in S
    OBVIOUS
  <2> HIDE DEF S
  <2>2. <<This>> \in Seq(S) /\ <<Slot>> \in Seq(S) /\ <<>> \in Seq(S)
    BY <2>1
  <2> QED BY <2>2
<1> HIDE DEF S, a
<1>4. \A x, y \in Seq(S) : x \o y \in Seq(S)
  OBVIOUS
<1>5. \A x \in Seq(S) : x \o <<>> = x /\ <<>> \o x = x
  OBVIOUS
<1>6. ASSUME NEW x, NEW s \in Seq(S) PROVE Tail(<<x>> \o s) = s
  <2> DEFINE V == S \cup {x}
  <2>1. x \in V /\ s \in Seq(V)
    OBVIOUS
  <2> HIDE DEF V
  <2> QED BY <2>1
<1> QED BY <1>1, <1>2, <1>3, <1>4, <1>5, <1>6 DEF a

(* The full wrapper of a method matches what its link name leads to, and so  *)
(* does the declaration.                                                     *)
FullOk(m, e) ==
  LET w == FullWrapper(m, e) IN
    /\ w.calls # "full"
    /\ Matches(m, w.passes, Callee(m))
    /\ ArgsOnly(m, w.takes)
    /\ TakesArgs(m) => Raw(m) \subseteq Range(w.passes)
    /\ ~TakesArgs(m) => \A i \in DOMAIN w.takes : w.takes[i].from # "arg"
    /\ Len(ExternDecl(m)) = Len(Callee(m))
(* One case for each kind of method.                                         *)
LEMMA FullMatches ==
  ASSUME NEW m, NEW e, IsSeq(m.params), m.special \in Specials, m.special # "Dtor",
         e.kind = Kind(m), m.throws => m.special \in Ctors \cup {"none"},
         m.virtual => ~m.static, ~ (Throws(m) /\ m.static /\ m.special = "none")
  PROVE  FullOk(m, e)
<1> DEFINE w == FullWrapper(m, e)
           a == Args(m)
<1>1. ArgsOnly(m, a)
  BY Alone DEF ArgsOnly, Raw
<1>2. CASE m.special \in Ctors
  <2>1. e.kind = "Ctor"
    BY <1>2 DEF Kind, Ctors
  <2>2. w = CtorWrapper(m, e)
    BY <2>1 DEF FullWrapper
  <2>3. w.calls = "extern" /\ w.passes = <<Slot>> \o a /\ w.takes = a
    BY <2>2 DEF CtorWrapper, Wrapper
  <2>4. Callee(m) = <<This>> \o a /\ ExternDecl(m) = <<This>> \o a
    BY <1>2 DEF Callee, ShimParams, OwnParams, ExternDecl, Ctors
  <2> HIDE DEF w
  <2>5. /\ w.passes = (<<Slot>> \o a) \o <<>> /\ Callee(m) = (<<This>> \o a) \o <<>>
    BY <2>3, <2>4, Alone
  <2>6. Matches(m, w.passes, Callee(m)) /\ Raw(m) \subseteq Range(w.passes)
    BY <2>5, Frame
  <2> QED BY <1>1, <1>2, <2>3, <2>4, <2>6 DEF FullOk, TakesArgs, w
<1>3. CASE m.special = "none" /\ ~m.static
  <2>1. e.kind = "Virtual" \/ e.kind = "Instance"
    BY <1>3 DEF Kind, Ctors
  <2>2. e.kind = "Virtual" => ~Throws(m)
    BY <1>3 DEF Kind, Ctors
  <2>3. HasOut(m) <=> Throws(m) /\ ~ReturnsVoid(m)
    BY <1>3 DEF HasOut
  <2>4. Callee(m) = IF Throws(m) THEN <<This>> \o a \o Optional(Out, ~ReturnsVoid(m))
                    ELSE <<This>> \o a
    BY <1>3 DEF Callee, ShimParams, OwnParams, Optional, Ctors
  <2>5. ExternDecl(m) = (<<This>> \o a) \o Optional(Out, HasOut(m))
    BY <1>3 DEF ExternDecl, Optional, Ctors
  <2>6. Callee(m) = (<<This>> \o a) \o Optional(Out, HasOut(m))
    <3>1. CASE Throws(m)
      <4>1. Optional(Out, HasOut(m)) = Optional(Out, ~ReturnsVoid(m))
        BY <2>3, <3>1 DEF Optional
      <4> QED BY <2>4, <3>1, <4>1
    <3>2. CASE ~Throws(m)
      <4>1. Optional(Out, HasOut(m)) = <<>>
        BY <2>3, <3>2 DEF Optional
      <4> QED BY <2>4, <3>2, <4>1, Alone
    <3> QED BY <3>1, <3>2
  <2>7. w.calls # "full" /\ w.passes = (<<This>> \o a) \o Optional(Out, HasOut(m)) /\ w.takes = a
    <3>1. CASE e.kind = "Instance"
      <4>1. w = InstanceWrapper(m, e)
        BY <3>1 DEF FullWrapper
      <4> QED BY <4>1 DEF InstanceWrapper, Wrapper
    <3>2. CASE e.kind = "Virtual"
      <4>1. w = VirtualWrapper(m, e)
        BY <3>2 DEF FullWrapper
      <4>2. Optional(Out, HasOut(m)) = <<>>
        BY <2>2, <2>3, <3>2 DEF Optional
      <4>3. w.calls = "slot" /\ w.passes = <<This>> \o a /\ w.takes = a
        BY <4>1 DEF VirtualWrapper, Wrapper
      <4> QED BY <4>2, <4>3, Alone
    <3> QED BY <2>1, <3>1, <3>2
  <2> HIDE DEF w
  <2>8. PICK o \in {<<>>, <<Out>>} : o = Optional(Out, HasOut(m))
    BY DEF Optional
  <2>9. Matches(m, w.passes, Callee(m)) /\ Raw(m) \subseteq Range(w.passes)
    <3>1. PICK h : h = <<This>>
      OBVIOUS
    <3>2. w.passes = (h \o Args(m)) \o o /\ Callee(m) = (h \o Args(m)) \o o
      BY <2>6, <2>7, <2>8, <3>1
    <3>3. h \in {<<>>, <<This>>, <<Slot>>} /\ h \in {<<>>, <<This>>}
      BY <3>1
    <3>4. /\ Matches(m, (h \o Args(m)) \o o, (h \o Args(m)) \o o)
          /\ Raw(m) \subseteq Range((h \o Args(m)) \o o)
      BY <3>3, Frame
    <3> QED BY <3>2, <3>4
  <2> QED BY <1>1, <1>3, <2>5, <2>6, <2>7, <2>9 DEF FullOk, TakesArgs, w
<1>4. CASE m.special = "none" /\ m.static
  <2>1. e.kind = "Static" /\ ~Throws(m) /\ ~HasOut(m)
    BY <1>4 DEF Kind, Ctors, HasOut
  <2>2. w = StaticWrapper(m, e)
    BY <2>1 DEF FullWrapper
  <2>3. w.calls = "extern" /\ w.passes = a \o <<>> /\ w.takes = a
    BY <2>1, <2>2 DEF StaticWrapper, Wrapper, Optional
  <2>4. Callee(m) = <<>> \o a /\ ExternDecl(m) = (<<>> \o a) \o <<>>
    BY <1>4, <2>1 DEF Callee, OwnParams, ExternDecl, Optional, Ctors
  <2> HIDE DEF w
  <2>5. w.passes = (<<>> \o a) \o <<>> /\ Callee(m) = (<<>> \o a) \o <<>>
    BY <2>3, <2>4, Alone
  <2>6. Matches(m, w.passes, Callee(m)) /\ Raw(m) \subseteq Range(w.passes)
    BY <2>5, Frame
  <2> QED BY <1>1, <1>4, <2>3, <2>4, <2>5, <2>6 DEF FullOk, TakesArgs, w
<1>5. CASE m.special \notin Ctors \cup {"none"}
  <2>1. m.special \in {"CopyCtor", "MoveCtor", "CopyAssign", "MoveAssign"}
    BY <1>5 DEF Specials
  <2>2. e.kind = m.special
    BY <1>5 DEF Kind
  <2>3. ~Throws(m)
    BY <1>5 DEF Throws
  <2>4. Callee(m) = <<This, Src>>
    BY <1>5, <2>3 DEF Callee, OwnParams
  <2>5. ExternDecl(m) = <<This, Src>>
    BY <2>1 DEF ExternDecl, Ctors
  <2>6. /\ w.calls = "extern"
        /\ w.passes \in {<<Slot, Src>>, <<Slot, This>>, <<This, Src>>}
        /\ w.takes \in {<<Src>>, <<>>}
    <3>1. CASE m.special = "MoveCtor"
      <4>1. w = MoveFrom(m, e)
        BY <2>2, <3>1 DEF FullWrapper
      <4> QED BY <4>1 DEF MoveFrom, Wrapper
    <3>2. CASE m.special = "CopyCtor"
      <4>1. w = Clone(m, e)
        BY <2>2, <3>2 DEF FullWrapper
      <4> QED BY <4>1 DEF Clone, Wrapper
    <3>3. CASE m.special \in {"CopyAssign", "MoveAssign"}
      <4>1. w = Assign(m, e)
        BY <2>2, <3>3 DEF FullWrapper
      <4> QED BY <4>1 DEF Assign, Wrapper
    <3> QED BY <2>1, <3>1, <3>2, <3>3
  <2> HIDE DEF w
  <2>7. \A i \in DOMAIN w.takes : w.takes[i].from # "arg"
    <3>1. \A i \in DOMAIN <<Src>> : <<Src>>[i].from # "arg"
      BY DEF Src
    <3> QED BY <2>6, <3>1, EmptyIsSeq
  <2>8. Matches(m, w.passes, Callee(m))
    <3>1. \A x, y : Len(<<x, y>>) = 2 /\ DOMAIN <<x, y>> = 1 .. 2
                    /\ <<x, y>>[1] = x /\ <<x, y>>[2] = y
      OBVIOUS
    <3>2. PICK x \in {Slot, This}, y \in {Src, This} : w.passes = <<x, y>>
      BY <2>6
    <3>3. x.from # "arg" /\ Serves(m, x, This) /\ y.from # "arg" /\ Serves(m, y, Src)
      BY DEF Serves, This, Slot, Src
    <3>4. \A i \in DOMAIN w.passes :
            w.passes[i].from # "arg" /\ Serves(m, w.passes[i], Callee(m)[i])
      <4>1. DOMAIN w.passes = {1, 2} /\ w.passes[1] = x /\ w.passes[2] = y
            /\ Callee(m)[1] = This /\ Callee(m)[2] = Src
        BY <2>4, <3>1, <3>2
      <4> QED BY <3>3, <4>1
    <3>5. \E l \in Nat : /\ Len(w.passes) = l /\ DOMAIN w.passes = 1 .. l
                         /\ Len(Callee(m)) = l /\ DOMAIN Callee(m) = 1 .. l
      BY <2>4, <3>1, <3>2
    <3> QED BY <3>4, <3>5 DEF Matches
  <2> QED BY <1>5, <2>4, <2>5, <2>6, <2>7, <2>8 DEF FullOk, TakesArgs, ArgsOnly, w
<1> QED BY <1>2, <1>3, <1>4, <1>5

(* The conveniences fill every parameter: the first ones with what their     *)
(* caller gives, the rest with the defaults of the header.                   *)
LEMMA DefaultFacts ==
  ASSUME NEW m, IsSeq(m.params), IsSeq(m.defaults)
  PROVE  /\ \E d \in Nat : /\ Len(Defaults(m)) = d /\ DOMAIN Defaults(m) = 1 .. d
                           /\ d <= Arity(m)
                           /\ d # 0 => TakesArgs(m) /\ d = Len(m.defaults)
                           /\ \A j \in 1 .. d : /\ Defaults(m)[j] = DefaultAt(m, j)
                                                /\ Defaults(m)[j].from = "default"
         /\ OfItsOwn(Defaults(m))
<1>1. PICK n \in Nat : Arity(m) = n
  BY Places DEF Arity
<1>2. PICK z \in Nat : Len(m.defaults) = z /\ DOMAIN m.defaults = 1 .. z
  BY Places
<1> DEFINE slots == [j \in DOMAIN m.defaults |-> DefaultAt(m, j)]
           ds == Defaults(m)
<1>3. slots = [j \in 1 .. z |-> DefaultAt(m, j)]
  BY <1>2
<1>4. \A j \in 1 .. z : DefaultAt(m, j).from = "default"
  BY DEF DefaultAt, Default
<1>5. Len(slots) = z /\ DOMAIN slots = 1 .. z /\ \A j \in 1 .. z : slots[j] = DefaultAt(m, j)
  BY <1>3
<1>6. OfItsOwn(slots) /\ OfItsOwn(<<>>)
  <2> DEFINE S == {DefaultAt(m, j) : j \in 1 .. z}
  <2>1. \A j \in 1 .. z : DefaultAt(m, j) \in S
    OBVIOUS
  <2> HIDE DEF S, slots
  <2>2. [j \in 1 .. z |-> DefaultAt(m, j)] \in Seq(S)
    BY <2>1
  <2>3. slots \in Seqs(S) /\ <<>> \in Seqs(S)
    BY <1>3, <2>2 DEF Seqs
  <2> QED BY <2>3, OwnMembers
<1>7. (ds = slots /\ TakesArgs(m) /\ z \in 1 .. n) \/ ds = <<>>
  BY <1>1, <1>2 DEF Defaults
<1> HIDE DEF ds, slots
<1>8. CASE ds = slots /\ TakesArgs(m) /\ z \in 1 .. n
  BY <1>1, <1>2, <1>4, <1>5, <1>6, <1>8 DEF ds
<1>9. CASE ds = <<>>
  <2>1. Len(ds) = 0 /\ DOMAIN ds = 1 .. 0 /\ 0 <= n
    BY <1>9
  <2> QED BY <1>1, <1>6, <1>9, <2>1 DEF ds
<1> QED BY <1>7, <1>8, <1>9

(* The last n of the defaults, and what a caller gives.                      *)
LastDefaults(m, tail, n) ==
  /\ n <= Len(Defaults(m)) /\ OfItsOwn(tail) /\ Len(tail) = n
  /\ \A x \in 1 .. n : tail[x] = Defaults(m)[(Len(Defaults(m)) - n) + x]
Gives(m, takes, passes) ==
  \A i \in DOMAIN takes : i \in DOMAIN m.params /\ takes[i] = passes[i]
(* Together they fill every parameter.                                       *)
LEMMA Filled ==
  ASSUME NEW m, IsSeq(m.params), IsSeq(m.defaults), NEW how,
         NEW n \in Nat, NEW tail, LastDefaults(m, tail, n), NEW kept, kept = Arity(m) - n
  PROVE  /\ Fills(m, Converted(m, kept, how) \o tail)
         /\ Gives(m, Converted(m, kept, how), Converted(m, kept, how) \o tail)
<1>0. /\ n <= Len(Defaults(m)) /\ OfItsOwn(tail) /\ Len(tail) = n
      /\ \A x \in 1 .. n : tail[x] = Defaults(m)[(Len(Defaults(m)) - n) + x]
  BY DEF LastDefaults
<1>1. PICK l \in Nat : Arity(m) = l /\ DOMAIN m.params = 1 .. l
  BY Places DEF Arity
<1>2. PICK d \in Nat : /\ Len(Defaults(m)) = d /\ d <= l
                       /\ d # 0 => d = Len(m.defaults)
                       /\ \A j \in 1 .. d : /\ Defaults(m)[j] = DefaultAt(m, j)
                                            /\ Defaults(m)[j].from = "default"
  BY <1>1, DefaultFacts
<1>3. kept \in Nat /\ kept = Arity(m) - n /\ kept + n = l
  BY <1>0, <1>1, <1>2
<1> DEFINE conv == Converted(m, kept, how)
           one(i) == Arg(i, IF i \in CstrParams(m) THEN how ELSE "raw")
           S == {one(i) : i \in 1 .. kept} \cup Range(tail)
           passes == conv \o tail
<1>4. conv = [i \in 1 .. kept |-> one(i)]
  BY DEF Converted
<1>5. DOMAIN conv = 1 .. kept /\ Len(conv) = kept /\ \A i \in 1 .. kept : conv[i] = one(i)
  BY <1>3, <1>4
<1>6. conv \in Seq(S) /\ tail \in Seq(S)
  <2>1. \A R, Q : R \subseteq Q => Seq(R) \subseteq Seq(Q)
    OBVIOUS
  <2>2. tail \in Seq(Range(tail)) /\ Range(tail) \subseteq S
    BY <1>0 DEF OfItsOwn
  <2>3. \A i \in 1 .. kept : one(i) \in S
    OBVIOUS
  <2> HIDE DEF S, one, conv
  <2> QED BY <1>4, <2>1, <2>2, <2>3
<1> HIDE DEF conv, S, passes
<1>7. /\ Len(passes) = kept + n
      /\ \A x \in 1 .. kept : passes[x] = conv[x]
      /\ \A x \in 1 .. n : passes[kept + x] = tail[x]
  <2>1. kept = Len(conv) /\ n = Len(tail)
    BY <1>0, <1>5
  <2>2. /\ Len(conv \o tail) = kept + n
        /\ \A x \in 1 .. kept : (conv \o tail)[x] = conv[x]
        /\ \A x \in 1 .. n : (conv \o tail)[kept + x] = tail[x]
    BY <1>6, <2>1, ConcatParts
  <2> QED BY <2>2 DEF passes
<1>8. ASSUME NEW j \in 1 .. l PROVE Serves(m, passes[j], Arg(j, "raw"))
  <2>1. Arg(j, "raw").from = "arg" /\ Arg(j, "raw").at = j
    BY DEF Arg
  <2>2. CASE j \in 1 .. kept
    <3>1. passes[j] = one(j)
      BY <1>5, <1>7, <2>2
    <3>2. one(j).from = "arg" /\ one(j).at = j /\ (one(j).how # "raw" => j \in CstrParams(m))
      BY DEF Arg
    <3>3. j \in CstrParams(m) => IsPointer(m.params[j].shape)
      BY DEF CstrParams, IsPointer
    <3> HIDE DEF one
    <3> QED BY <2>1, <3>1, <3>2, <3>3 DEF Serves
  <2>3. CASE j \notin 1 .. kept
    <3>1. j - kept \in 1 .. n /\ kept + (j - kept) = j
      BY <1>3, <2>3
    <3>2. passes[j] = Defaults(m)[(d - n) + (j - kept)]
      BY <1>0, <1>2, <1>7, <3>1
    <3>3. d # 0 /\ (d - n) + (j - kept) = j - (l - d) /\ j - (l - d) \in 1 .. d
      <4>1. n <= d /\ n # 0
        BY <1>0, <1>2, <3>1
      <4>2. l = kept + n /\ j \in Nat /\ j <= l /\ j > kept
        BY <1>3, <3>1
      <4> QED BY <1>2, <4>1, <4>2
    <3> DEFINE i == j - (l - d)
    <3>4. i = j - (Arity(m) - Len(m.defaults)) /\ i \in 1 .. d /\ d = Len(m.defaults)
      BY <1>1, <1>2, <3>3
    <3>5. passes[j] = Defaults(m)[i]
      BY <3>2, <3>3
    <3> HIDE DEF i
    <3>6. passes[j] = DefaultAt(m, i) /\ passes[j].from = "default"
      BY <1>2, <3>4, <3>5
    <3>7. i \in DOMAIN m.defaults
      BY <3>4, Places
    <3> QED BY <2>1, <3>4, <3>6, <3>7 DEF Serves
  <2> QED BY <2>2, <2>3
<1>9. Fills(m, passes)
  BY <1>1, <1>3, <1>7, <1>8 DEF Fills
<1>10. Gives(m, conv, passes)
  BY <1>1, <1>3, <1>5, <1>7 DEF Gives
<1> QED BY <1>9, <1>10 DEF passes, conv

(* A convenience delivers when its arguments fill the parameters.            *)
LEMMA OneConvenience ==
  ASSUME NEW m, NEW e, FullOk(m, e), TakesArgs(m), m.special \in Ctors => ~Throws(m),
         NEW name, NEW takes, NEW passes, Fills(m, passes),
         Gives(m, takes, passes)
  PROVE  Delivers(m, e, Convenience(m, name, takes, passes))
<1> DEFINE w == Convenience(m, name, takes, passes)
<1>1. /\ w.calls = "full" /\ w.passes = passes /\ w.takes = takes
      /\ w.ret = ConvenienceReturn(m)
  BY DEF Convenience, Wrapper
<1>2. ConvenienceReturn(m) = WrapperReturn(m)
  BY DEF ConvenienceReturn, WrapperReturn
<1> HIDE DEF w
<1> DEFINE full == FullWrapper(m, e).passes
<1>3. Matches(m, full, Callee(m)) /\ Raw(m) \subseteq Range(full)
  BY DEF FullOk
<1> HIDE DEF full
<1>4. full = FullWrapper(m, e).passes
  BY DEF full
<1>5. Delivers(m, e, w)
  BY <1>1, <1>2, <1>3, <1>4, ConvenienceDelivers DEF Gives
<1> QED BY <1>5 DEF w

(* Every wrapper of a method delivers.                                       *)
LEMMA AllDeliver ==
  ASSUME NEW m, NEW e, IsSeq(m.params), IsSeq(m.defaults), FullOk(m, e),
         e.kind = Kind(m), m.special \in Specials,
         NEW w \in WrappersOf(m, e), w.calls = "full" /\ m.special \in Ctors => ~Throws(m)
  PROVE  Delivers(m, e, w)
<1>1. PICK d \in Nat : /\ Len(Defaults(m)) = d /\ DOMAIN Defaults(m) = 1 .. d
                       /\ d <= Arity(m) /\ (d # 0 => TakesArgs(m))
  BY DefaultFacts
<1>2. OfItsOwn(Defaults(m))
  BY DefaultFacts
<1>3. CASE w = FullWrapper(m, e)
  BY <1>3, FullDelivers DEF FullOk
<1>4. CASE w = PlacementCtor(m, e) /\ e.kind = "Ctor" /\ ~Throws(m)
  <2>1. m.special \in Ctors
    BY <1>4 DEF Kind, Specials, Ctors
  <2> DEFINE s == <<This>> \o Args(m)
  <2>2. w.calls = "extern" /\ w.passes = s /\ w.takes = s
    BY <1>4 DEF PlacementCtor, Wrapper
  <2>3. Callee(m) = s
    BY <1>4, <2>1 DEF Callee, OwnParams, Ctors
  <2>4. s = (<<This>> \o Args(m)) \o <<>>
    BY Alone
  <2> HIDE DEF s
  <2>5. Matches(m, s, s) /\ Raw(m) \subseteq Range(s)
    BY <2>4, Frame
  <2>6. ArgsOnly(m, s)
    BY <2>5 DEF Matches, ArgsOnly
  <2> QED BY <2>2, <2>3, <2>5, <2>6, FullDelivers
<1>5. ASSUME NEW n \in 1 .. d, w = Dropping(m, e, n), w.calls = "full"
      PROVE  Delivers(m, e, w)
  <2> DEFINE kept == Arity(m) - n
             conv == Converted(m, kept, "raw")
             tail == SubSeq(Defaults(m), Len(Defaults(m)) - n + 1, Len(Defaults(m)))
  <2>1. PICK name : w = Convenience(m, name, conv, conv \o tail)
    BY <1>5 DEF Dropping
  <2>2. LastDefaults(m, tail, n)
    <3> DEFINE S == Range(Defaults(m))
               ds == Defaults(m)
    <3>1. ds \in Seq(S) /\ Len(ds) = d /\ n \in 1 .. d
      BY <1>1, <1>2 DEF OfItsOwn
    <3> HIDE DEF S, ds
    <3> DEFINE z == SubSeq(ds, Len(ds) - n + 1, Len(ds))
    <3>2. z \in Seq(S) /\ Len(z) = n /\ \A x \in 1 .. n : z[x] = ds[(d - n) + x]
      BY <3>1
    <3> HIDE DEF z
    <3>3. OfItsOwn(z)
      BY <3>2, OwnMembers DEF Seqs
    <3> QED BY <3>1, <3>2, <3>3 DEF z, ds, LastDefaults
  <2> HIDE DEF tail
  <2>3. Fills(m, conv \o tail) /\ Gives(m, conv, conv \o tail)
    <3>1. n \in Nat /\ kept = Arity(m) - n
      BY <1>1
    <3> QED BY <2>2, <3>1, Filled
  <2>4. TakesArgs(m) /\ (m.special \in Ctors => ~Throws(m))
    BY <1>1, <1>5
  <2> HIDE DEF conv
  <2> QED BY <2>1, <2>3, <2>4, OneConvenience
<1>6. ASSUME NEW how, NEW name,
             w = Convenience(m, name, Converted(m, Arity(m), how), Converted(m, Arity(m), how)),
             CstrParams(m) # {}
      PROVE  Delivers(m, e, w)
  <2> DEFINE conv == Converted(m, Arity(m), how)
  <2>1. PICK l \in Nat : Arity(m) = l
    BY Places DEF Arity
  <2>2. Arity(m) - 0 = Arity(m)
    BY <2>1
  <2>3. Fills(m, conv \o <<>>) /\ Gives(m, conv, conv \o <<>>)
    <3>1. PICK z \in Nat : z = 0
      OBVIOUS
    <3>2. PICK none : none = <<>>
      OBVIOUS
    <3>3. LastDefaults(m, none, z)
      BY <1>1, <3>1, <3>2, EmptyIsSeq DEF IsSeq, OfItsOwn, LastDefaults
    <3>4. Arity(m) - z = Arity(m)
      BY <2>2, <3>1
    <3>5. /\ Fills(m, Converted(m, Arity(m), how) \o none)
          /\ Gives(m, Converted(m, Arity(m), how), Converted(m, Arity(m), how) \o none)
      BY <3>1, <3>3, <3>4, Filled
    <3> QED BY <3>2, <3>5
  <2>4. conv \o <<>> = conv
    <3> DEFINE one(i) == Arg(i, IF i \in CstrParams(m) THEN how ELSE "raw")
               S == {one(i) : i \in 1 .. l}
    <3>1. conv = [i \in 1 .. l |-> one(i)] /\ \A i \in 1 .. l : one(i) \in S
      BY <2>1 DEF Converted
    <3> HIDE DEF conv, S, one
    <3>2. conv \in Seq(S)
      BY <3>1
    <3> QED BY <3>2
  <2>5. w.calls = "full"
    BY <1>6 DEF Convenience, Wrapper
  <2>6. TakesArgs(m)
    BY <1>6 DEF CstrParams
  <2> HIDE DEF conv
  <2>7. w = Convenience(m, name, conv, conv)
    BY <1>6 DEF conv
  <2> QED BY <2>3, <2>4, <2>5, <2>6, <2>7, OneConvenience
<1>7. ASSUME NEW how, NEW words, w = CombinedWrapper(m, e, words, how), Defaults(m) # <<>>
      PROVE  Delivers(m, e, w)
  <2> DEFINE kept == Arity(m) - Len(Defaults(m))
             conv == Converted(m, kept, how)
             tail == Defaults(m)
  <2>1. PICK name : w = Convenience(m, name, conv, conv \o tail)
    BY <1>7 DEF CombinedWrapper
  <2>2. Fills(m, conv \o tail) /\ Gives(m, conv, conv \o tail)
    <3>1. d \in Nat /\ kept = Arity(m) - d /\ LastDefaults(m, tail, d)
      BY <1>1, <1>2 DEF LastDefaults
    <3> QED BY <3>1, Filled
  <2>3. d # 0
    BY <1>1, <1>2, <1>7 DEF OfItsOwn
  <2>4. w.calls = "full"
    BY <2>1 DEF Convenience, Wrapper
  <2> HIDE DEF conv, tail
  <2>5. TakesArgs(m) /\ (m.special \in Ctors => ~Throws(m))
    BY <1>1, <2>3, <2>4
  <2> QED BY <2>1, <2>2, <2>5, OneConvenience
<1>8. CASE w \in Shorter(m, e)
  <2>1. PICK n \in 1 .. d : w = Dropping(m, e, n)
    BY <1>1, <1>8 DEF Shorter
  <2>2. w.calls = "full"
    BY <2>1 DEF Dropping, Convenience, Wrapper
  <2> QED BY <1>5, <2>1, <2>2
<1>9. CASE w \in Strings(m, e)
  <2>1. CstrParams(m) # {}
    BY <1>9 DEF Strings
  <2>2. CASE w \in {CstrWrapper(m, e), StrWrapper(m, e), OptCstrWrapper(m, e)}
    BY <1>6, <2>1, <2>2 DEF CstrWrapper, StrWrapper, OptCstrWrapper
  <2>3. CASE w \in Combined(m, e)
    <3>1. Defaults(m) # <<>>
      BY <2>3 DEF Combined
    <3>2. \E words, how : w = CombinedWrapper(m, e, words, how)
      BY <2>3 DEF Combined
    <3> QED BY <1>7, <3>1, <3>2
  <2> QED BY <1>9, <2>1, <2>2, <2>3 DEF Strings
<1> QED BY <1>3, <1>4, <1>8, <1>9 DEF WrappersOf

-----------------------------------------------------------------------------
(* The heap constructors of a class rendered are among its blocks.           *)
HeapKept == \A item \in Range(items) : \A e \in Range(item.heap) :
  e \in Range(item.blocks) /\ e.kind = "Ctor"

(* Every step keeps them so.                                                 *)
LEMMA HeapStep == Walk /\ HeapKept /\ [Next]_vars => HeapKept'
<1> SUFFICES ASSUME Walk, HeapKept, [Next]_vars PROVE HeapKept'
  OBVIOUS
<1>1. CASE items' = items
  BY <1>1 DEF HeapKept
<1>2. ASSUME NEW x, Adds(x), \A e \in Range(x.heap) : e \in Range(x.blocks) /\ e.kind = "Ctor"
      PROVE  HeapKept'
  <2>1. Range(items') \subseteq Range(items) \cup {x}
    BY <1>2 DEF Adds, Range
  <2> QED BY <1>2, <2>1 DEF HeapKept
<1>3. CASE Adds(Opaque)
  <2>1. Range(Opaque.heap) = {}
    BY EmptyIsSeq DEF Opaque
  <2> QED BY <1>2, <1>3, <2>1
<1>4. CASE Adds(Rendered(at))
  <2> DEFINE r == Rendered(at)
             I == {i \in DOMAIN blocks : blocks[i].kind = "Ctor"}
  <2>1. r.blocks = blocks /\ (r.heap = <<>> \/ r.heap = Sift(blocks, I))
    <3>1. \A i \in DOMAIN blocks : Optional(blocks[i], blocks[i].kind = "Ctor")
                                   = IF i \in I THEN <<blocks[i]>> ELSE <<>>
      BY DEF Optional
    <3>2. FlattenSeq([i \in DOMAIN blocks |-> Optional(blocks[i], blocks[i].kind = "Ctor")])
          = Sift(blocks, I)
      BY <3>1, Zenon DEF Sift
    <3> QED BY <3>2 DEF Rendered
  <2> HIDE DEF r
  <2>2. blocks \in Seqs(Range(blocks))
    BY DEF Walk, IsSeq, Seqs
  <2>3. PICK pos : Sifts(Sift(blocks, I), blocks, I, pos)
    BY <2>2, Sifting
  <2>4. \A x \in DOMAIN Sift(blocks, I) : \E i \in I : Sift(blocks, I)[x] = blocks[i]
    BY <2>3 DEF Sifts
  <2>5. \A e \in Range(r.heap) : e \in Range(r.blocks) /\ e.kind = "Ctor"
    BY <2>1, <2>4, EmptyIsSeq DEF Range
  <2> QED BY <1>2, <1>4, <2>5 DEF r
<1> QED BY <1>1, <1>3, <1>4, ItemsStep

(* They are in every reachable state.                                        *)
THEOREM HeapAlways == Spec => []HeapKept
<1>1. Init => HeapKept
  BY EmptyIsSeq DEF Init, HeapKept
<1>2. Emits /\ HeapKept /\ [Next]_vars => HeapKept'
  BY HeapStep DEF Emits
<1> QED BY <1>1, <1>2, EmitsAlways, PTL DEF Spec

(* CallsDeliver, for every type context: whatever wrapper is called, each    *)
(* parameter of the C++ function gets the argument meant for it.             *)
THEOREM ArgumentsArrive == Spec => []CallsDeliver
<1>1. ASSUME Emits, HeapKept PROVE CallsDeliver
  <2>0. prog \in Programs /\ BlocksDescribed /\ FnsListed
    BY <1>1 DEF Emits, Walk
  <2>1. ASSUME NEW c \in DOMAIN items, NEW e \in Range(items[c].blocks)
        PROVE  LET m == Methods(c)[e.method] IN
                 /\ IsSeq(m.params) /\ IsSeq(m.defaults) /\ m.special \in Specials
                 /\ e.kind = Kind(m) /\ (m.throws => m.special \in Ctors \cup {"none"})
                 /\ m.virtual => ~m.static
    <3>1. c \in DOMAIN prog.classes /\ Described(c, e)
      BY <2>0 DEF BlocksDescribed
    <3>2. e.method \in DOMAIN Methods(c) /\ e.kind = Kind(Methods(c)[e.method])
      BY <3>1 DEF Described
    <3> QED BY <2>0, <3>1, <3>2, MethodFacts
  <2>2. ASSUME NEW c \in DOMAIN items, NEW e \in Range(items[c].blocks), e.kind # "Dtor",
               NEW m, m = Methods(c)[e.method], ~ (Throws(m) /\ m.static)
        PROVE  /\ Len(ExternDecl(m)) = Len(Callee(m))
               /\ \A w \in WrappersOf(m, e) :
                    (w.calls = "full" /\ m.special \in Ctors => ~Throws(m)) => Delivers(m, e, w)
               /\ e.kind = "Virtual" /\ (\A t \in Range(m.params) : t.commas = 0)
                  => \A i \in DOMAIN m.params : SlotTypes(m)[i] = m.params[i].rust
    <3>1. /\ IsSeq(m.params) /\ IsSeq(m.defaults) /\ m.special \in Specials
          /\ e.kind = Kind(m) /\ (m.throws => m.special \in Ctors \cup {"none"})
          /\ m.virtual => ~m.static
      BY <2>1, <2>2
    <3>2. m.special # "Dtor"
      BY <2>2, <3>1 DEF Kind, Ctors
    <3>3. FullOk(m, e)
      BY <2>2, <3>1, <3>2, FullMatches
    <3>4. \A i \in DOMAIN m.params : m.params[i] \in Range(m.params)
      BY DEF Range
    <3> QED BY <3>1, <3>3, <3>4, AllDeliver DEF FullOk, SlotTypes
  <2>3. ASSUME NEW c \in DOMAIN items, NEW e \in Range(items[c].heap),
               NEW m, m = Methods(c)[e.method]
        PROVE  HeapDecl(m) = Args(m) /\ BoxedCtor(m).passes = HeapDecl(m)
    <3>1. e \in Range(items[c].blocks) /\ e.kind = "Ctor"
      BY <1>1 DEF HeapKept, Range
    <3>2. IsSeq(m.params) /\ m.special \in Specials /\ e.kind = Kind(m)
      BY <2>1, <2>3, <3>1
    <3>3. m.special \in Ctors
      BY <3>1, <3>2 DEF Kind, Specials, Ctors
    <3>4. ExternDecl(m) = <<This>> \o Args(m)
      BY <3>3 DEF ExternDecl, Ctors
    <3>5. BoxedCtor(m).passes = Args(m)
      BY DEF BoxedCtor, Wrapper
    <3>6. Tail(<<This>> \o Args(m)) = Args(m)
      BY <3>2, Alone
    <3> QED BY <3>4, <3>5, <3>6 DEF HeapDecl
  <2>4. ASSUME NEW f \in Range(fns)
        PROVE  /\ FnPasses(Fn(f.fn)) = FnCallee(Fn(f.fn))
               /\ FnDecl(Fn(f.fn)) = FnCallee(Fn(f.fn))
    BY DEF FnPasses, FnDecl, FnCallee, FnHasOut
  <2> QED BY <2>2, <2>3, <2>4 DEF CallsDeliver
<1>2. Emits /\ HeapKept => CallsDeliver
  BY <1>1
<1> QED BY <1>2, EmitsAlways, HeapAlways, PTL

-----------------------------------------------------------------------------
(* The constants.  Powers of two, first that the function exists.            *)
IsPower(f, n) == f = [i \in 0 .. n |-> IF i = 0 THEN 1 ELSE 2 * f[i - 1]]

(* Two such functions agree where both are defined.                          *)
LEMMA PowerUnique ==
  ASSUME NEW n \in Nat, NEW m \in Nat, NEW f, NEW g, IsPower(f, n), IsPower(g, m)
  PROVE  \A i \in Nat : i <= n /\ i <= m => f[i] = g[i]
<1> DEFINE T == {i \in Nat : i <= n /\ i <= m => f[i] = g[i]}
<1>1. ASSUME NEW i \in Nat, \A b \in Nat : b < i => b \in T, i <= n, i <= m
      PROVE  f[i] = g[i]
  <2>1. i \in 0 .. n /\ i \in 0 .. m
    BY <1>1
  <2>2. f[i] = (IF i = 0 THEN 1 ELSE 2 * f[i - 1])
    BY <2>1, Zenon DEF IsPower
  <2>3. g[i] = (IF i = 0 THEN 1 ELSE 2 * g[i - 1])
    BY <2>1, Zenon DEF IsPower
  <2>4. i # 0 => f[i - 1] = g[i - 1]
    BY <1>1
  <2> QED BY <2>2, <2>3, <2>4
<1>2. \A i \in Nat : (\A b \in Nat : b < i => b \in T) => i \in T
  BY <1>1
<1> HIDE DEF T
<1>3. Nat \subseteq T
  BY <1>2, Induct
<1> QED BY <1>3 DEF T

(* There is one for every exponent.                                          *)
LEMMA PowerExists == \A n \in Nat : \E f : IsPower(f, n)
<1> DEFINE T == {n \in Nat : \E f : IsPower(f, n)}
<1>1. ASSUME NEW n \in Nat, \A b \in Nat : b < n => b \in T
      PROVE  \E f : IsPower(f, n)
  <2>1. CASE n = 0
    <3> DEFINE e == [i \in 0 .. 0 |-> 1]
    <3>1. e = [i \in 0 .. 0 |-> IF i = 0 THEN 1 ELSE 2 * e[i - 1]]
      OBVIOUS
    <3> QED BY <2>1, <3>1 DEF IsPower
  <2>2. CASE n # 0
    <3>1. n - 1 \in Nat /\ n - 1 < n
      BY <2>2
    <3>2. PICK f : IsPower(f, n - 1)
      BY <1>1, <3>1
    <3> DEFINE g == [i \in 0 .. n |-> IF i = 0 THEN 1 ELSE 2 * f[i - 1]]
    <3>3. ASSUME NEW i \in 0 .. n, i # 0 PROVE f[i - 1] = g[i - 1]
      <4>1. i - 1 \in 0 .. (n - 1) /\ i - 1 \in 0 .. n
        BY <3>1, <3>3
      <4>2. f[i - 1] = (IF i - 1 = 0 THEN 1 ELSE 2 * f[(i - 1) - 1])
        BY <3>2, <4>1, Zenon DEF IsPower
      <4>3. g[i - 1] = (IF i - 1 = 0 THEN 1 ELSE 2 * f[(i - 1) - 1])
        BY <4>1
      <4> QED BY <4>2, <4>3
    <3>4. g = [i \in 0 .. n |-> IF i = 0 THEN 1 ELSE 2 * g[i - 1]]
      BY <3>3
    <3> QED BY <3>4 DEF IsPower
  <2> QED BY <2>1, <2>2
<1>2. \A n \in Nat : (\A b \in Nat : b < n => b \in T) => n \in T
  BY <1>1
<1> HIDE DEF T
<1>3. Nat \subseteq T
  BY <1>2, Induct
<1> QED BY <1>3 DEF T

(* What Pow2 computes.                                                       *)
LEMMA PowerEquation ==
  /\ Pow2(0) = 1
  /\ \A n \in Nat : Pow2(n + 1) = 2 * Pow2(n)
<1> DEFINE P(n) == CHOOSE f : IsPower(f, n)
<1>1. \A n \in Nat : IsPower(P(n), n)
  BY PowerExists
<1>2. \A n : Pow2(n) = P(n)[n]
  BY Zenon DEF Pow2, IsPower
<1> HIDE DEF P
<1>3. Pow2(0) = 1
  <2>1. IsPower(P(0), 0) /\ 0 \in 0 .. 0
    BY <1>1
  <2>2. P(0)[0] = (IF 0 = 0 THEN 1 ELSE 2 * P(0)[0 - 1])
    BY <2>1, Zenon DEF IsPower
  <2> QED BY <1>2, <2>2
<1>4. ASSUME NEW n \in Nat PROVE Pow2(n + 1) = 2 * Pow2(n)
  <2>1. n + 1 \in 0 .. (n + 1) /\ n + 1 # 0 /\ (n + 1) - 1 = n /\ n + 1 \in Nat
    OBVIOUS
  <2>2. IsPower(P(n + 1), n + 1) /\ IsPower(P(n), n)
    BY <1>1, <2>1
  <2>3. P(n + 1)[n + 1] = (IF n + 1 = 0 THEN 1 ELSE 2 * P(n + 1)[(n + 1) - 1])
    BY <2>1, <2>2, Zenon DEF IsPower
  <2>4. P(n + 1)[n] = P(n)[n]
    BY <2>1, <2>2, PowerUnique
  <2> QED BY <1>2, <2>1, <2>3, <2>4
<1> QED BY <1>3, <1>4

(* Powers of two are positive and grow.                                      *)
LEMMA PowerGrows ==
  ASSUME NEW n \in Nat
  PROVE  /\ Pow2(n) \in Nat \ {0}
         /\ \A m \in Nat : m <= n => Pow2(m) \in Nat \ {0} /\ Pow2(m) <= Pow2(n)
         /\ n # 0 => Pow2(n) = 2 * Pow2(n - 1)
<1> DEFINE T == {x \in Nat : /\ Pow2(x) \in Nat \ {0}
                             /\ \A m \in Nat : m <= x =>
                                  Pow2(m) \in Nat \ {0} /\ Pow2(m) <= Pow2(x)}
<1>1. ASSUME NEW x \in Nat, \A b \in Nat : b < x => b \in T
      PROVE  x \in T
  <2>1. CASE x = 0
    <3>1. \A m \in Nat : m <= 0 => m = 0
      OBVIOUS
    <3> QED BY <2>1, <3>1, PowerEquation
  <2>2. CASE x # 0
    <3>1. x - 1 \in Nat /\ x - 1 < x /\ (x - 1) + 1 = x
      BY <2>2
    <3>2. Pow2(x) = 2 * Pow2(x - 1)
      BY <3>1, PowerEquation
    <3>3. x - 1 \in T
      BY <1>1, <3>1
    <3>4. Pow2(x - 1) \in Nat \ {0} /\ Pow2(x) \in Nat \ {0} /\ Pow2(x - 1) <= Pow2(x)
      BY <3>2, <3>3
    <3>5. ASSUME NEW m \in Nat, m <= x PROVE Pow2(m) \in Nat \ {0} /\ Pow2(m) <= Pow2(x)
      <4>1. CASE m = x
        BY <3>4, <4>1
      <4>2. CASE m # x
        <5>1. m <= x - 1
          BY <3>5, <4>2
        <5>2. Pow2(m) \in Nat \ {0} /\ Pow2(m) <= Pow2(x - 1)
          BY <3>3, <5>1
        <5> QED BY <3>4, <5>2
      <4> QED BY <4>1, <4>2
    <3> QED BY <3>4, <3>5
  <2> QED BY <2>1, <2>2
<1>2. \A x \in Nat : (\A b \in Nat : b < x => b \in T) => x \in T
  BY <1>1
<1> HIDE DEF T
<1>3. n \in T
  BY <1>2, Induct
<1>4. n # 0 => n - 1 \in Nat /\ (n - 1) + 1 = n
  OBVIOUS
<1> QED BY <1>3, <1>4, PowerEquation DEF T

-----------------------------------------------------------------------------
(* Default arguments.  A value that int_fits lets pass is in range.          *)
LEMMA FitsInRange ==
  ASSUME NEW value, NEW t, IsInt(t), CarrierOk(value), IntFits(value, t)
  PROVE  value.as \in {"Int", "UInt"} /\ InRange(t, value.v)
<1>1. PICK b \in Nat \ {0}, w \in Nat \ {0} : b = t.bits /\ w = WordBits
  BY WordBitsAssumption DEF IsInt
<1>2. b - 1 \in Nat /\ w - 1 \in Nat
  BY <1>1
<1> DEFINE B == Pow2(b) C == Pow2(b - 1) W == Pow2(w) V == Pow2(w - 1)
<1>3. C \in Nat \ {0} /\ V \in Nat \ {0} /\ B = 2 * C /\ W = 2 * V
  BY <1>1, <1>2, PowerGrows
<1>4. w <= b => W <= B /\ V <= C
  BY <1>1, <1>2, PowerGrows
<1>5. w < b => W <= C
  BY <1>1, <1>2, PowerGrows
<1>6. value.as \in {"Int", "UInt"}
  BY DEF IntFits
<1>7. value.v \in Int
  BY <1>6 DEF CarrierOk
<1>8. value.as = "Int" => -V <= value.v /\ value.v < V
  BY <1>1 DEF CarrierOk, InRange, IntType
<1>9. value.as = "UInt" => 0 <= value.v /\ value.v < W
  BY <1>1 DEF CarrierOk, InRange, IntType
<1>10. CASE value.as = "Int" /\ t.signed
  <2>1. b >= w \/ (-C <= value.v /\ value.v < C)
    BY <1>1, <1>10 DEF IntFits
  <2>2. -C <= value.v /\ value.v < C
    BY <1>1, <1>3, <1>4, <1>7, <1>8, <1>10, <2>1
  <2> QED BY <1>1, <1>6, <1>10, <2>2 DEF InRange
<1>11. CASE value.as = "Int" /\ ~t.signed
  <2>1. value.v >= 0 /\ (b >= w \/ value.v < B)
    BY <1>1, <1>11 DEF IntFits
  <2>2. 0 <= value.v /\ value.v < B
    BY <1>1, <1>3, <1>4, <1>7, <1>8, <1>11, <2>1
  <2> QED BY <1>1, <1>6, <1>11, <2>2 DEF InRange
<1>12. CASE value.as = "UInt" /\ t.signed
  <2>1. b > w \/ value.v < Pow2(IF b < w THEN b - 1 ELSE w - 1)
    BY <1>1, <1>12 DEF IntFits
  <2>2. CASE b > w
    BY <1>1, <1>3, <1>5, <1>6, <1>7, <1>9, <1>12, <2>2 DEF InRange
  <2>3. CASE b < w
    <3>1. value.v < C
      BY <1>1, <2>1, <2>3
    <3> QED BY <1>1, <1>3, <1>6, <1>7, <1>9, <1>12, <3>1 DEF InRange
  <2>4. CASE b = w
    <3>1. value.v < C
      BY <1>1, <2>1, <2>4
    <3> QED BY <1>1, <1>3, <1>6, <1>7, <1>9, <1>12, <3>1 DEF InRange
  <2> QED BY <1>1, <2>2, <2>3, <2>4
<1>13. CASE value.as = "UInt" /\ ~t.signed
  <2>1. b >= w \/ value.v < B
    BY <1>1, <1>13 DEF IntFits
  <2>2. 0 <= value.v /\ value.v < B
    BY <1>1, <1>3, <1>4, <1>7, <1>9, <1>13, <2>1
  <2> QED BY <1>1, <1>6, <1>13, <2>2 DEF InRange
<1> QED BY <1>6, <1>10, <1>11, <1>12, <1>13 DEF IsInt

(* Zero is in range of every type.                                           *)
LEMMA ZeroInRange ==
  ASSUME NEW t, IsInt(t)
  PROVE  InRange(t, 0)
<1>1. PICK b \in Nat \ {0} : b = t.bits
  BY DEF IsInt
<1>2. Pow2(b) \in Nat \ {0} /\ Pow2(b - 1) \in Nat \ {0}
  BY <1>1, PowerGrows
<1> QED BY <1>1, <1>2 DEF InRange

(* A type that is no enum.                                                  *)
Scalar(t) == t.is # "enum" /\ (t.is = "int" => IsInt(t))

(* An evaluated default has the type of its parameter and the value of the   *)
(* header.                                                                   *)
LEMMA EvaluatedTyped ==
  ASSUME NEW t, NEW value, Scalar(t), CarrierOk(value),
         NEW l, l = EvaluatedScalar(t, value), l # NoLiteral
  PROVE  TypedScalar(l, t) /\ l.lit \in {"bool", "int", "float"} /\ Denotes(l, value)
<1>1. CASE t.is = "bool"
  <2>1. l = BoolLit(value.v = 1)
    BY <1>1 DEF EvaluatedScalar
  <2>2. l.lit = "bool" /\ l.v = (value.v = 1)
    BY <2>1 DEF BoolLit
  <2> QED BY <1>1, <2>2 DEF TypedScalar, Denotes, Bare
<1>2. CASE t.is = "int"
  <2>1. IntFits(value, t) /\ l = IntLit(t, value.v)
    BY <1>2 DEF EvaluatedScalar
  <2>2. l.lit = "int" /\ l.type = t /\ l.v = value.v
    BY <2>1 DEF IntLit
  <2>3. InRange(t, value.v)
    BY <1>2, <2>1, FitsInRange DEF Scalar
  <2> QED BY <2>2, <2>3 DEF TypedScalar, Denotes, Bare
<1>3. CASE t.is = "float"
  <2>1. t.kind # "long double"
    BY <1>3 DEF EvaluatedScalar
  <2>2. l = FloatLit(t, value.v)
    BY <1>3 DEF EvaluatedScalar
  <2>3. l.lit = "float" /\ l.type = t /\ l.v = value.v
    BY <2>2 DEF FloatLit
  <2> QED BY <2>1, <2>3 DEF TypedScalar, Denotes, Bare
<1> QED BY <1>1, <1>2, <1>3 DEF EvaluatedScalar

(* So has the zero that stands for one that was not evaluated.               *)
LEMMA ZeroTyped ==
  ASSUME NEW t, Scalar(t), NEW l, l = ZeroScalar(t), l # NoLiteral
  PROVE  TypedScalar(l, t)
<1>1. CASE t.is = "bool"
  BY <1>1 DEF ZeroScalar, BoolLit, TypedScalar
<1>2. CASE t.is = "int"
  <2>1. l = IntLit(t, 0) /\ InRange(t, 0)
    BY <1>2, ZeroInRange DEF ZeroScalar, Scalar
  <2>2. l.lit = "int" /\ l.type = t /\ l.v = 0
    BY <2>1 DEF IntLit
  <2> QED BY <2>1, <2>2 DEF TypedScalar
<1>3. CASE t.is = "float"
  <2>1. t.kind # "long double"
    BY <1>3 DEF ZeroScalar
  <2>2. l = FloatLit(t, 0)
    BY <1>3 DEF ZeroScalar
  <2>3. l.lit = "float" /\ l.type = t
    BY <2>2 DEF FloatLit
  <2> QED BY <2>1, <2>3 DEF TypedScalar
<1>4. CASE t.is = "member"
  BY <1>4 DEF ZeroScalar, TypedScalar
<1>5. CASE t.is = "ptr"
  <2>1. CASE t.to = "fn"
    BY <1>5, <2>1 DEF ZeroScalar, TypedScalar
  <2>2. CASE t.to # "fn"
    <3>1. l = [lit |-> "null", const |-> t.const]
      BY <1>5, <2>2 DEF ZeroScalar
    <3>2. l.lit = "null" /\ l.const = t.const
      BY <3>1
    <3> QED BY <1>5, <2>2, <3>2 DEF TypedScalar
  <2> QED BY <2>1, <2>2
<1> QED BY <1>1, <1>2, <1>3, <1>4, <1>5 DEF ZeroScalar

(* The literal for an enum is that for its integer, in the constructor of    *)
(* the enum when it is passed by name.                                       *)
LEMMA EnumTyped ==
  ASSUME NEW t, t.is = "enum", ShapeOk(t), NEW inner, TypedScalar(inner, t.under),
         inner # NoLiteral, NEW l, l = AsEnum(t, inner)
  PROVE  /\ NamedBool(t) \/ Typed(l, t)
         /\ inner.lit # "tuple" => Bare(l) = inner
<1>1. CASE ByName(t)
  <2>1. l = [lit |-> "tuple", of |-> inner]
    BY <1>1 DEF AsEnum
  <2>2. l.lit = "tuple" /\ l.of = inner
    BY <2>1
  <2>3. t.under.is # "bool" => Repr(t.under) = t.under
    BY DEF Repr
  <2> QED BY <1>1, <2>2, <2>3 DEF NamedBool, Typed, Bare
<1>2. CASE ~ByName(t)
  <2>1. l = inner
    BY <1>2 DEF AsEnum
  <2> QED BY <1>2, <2>1 DEF Typed, Bare
<1> QED BY <1>1, <1>2

(* So for every parameter.                                                   *)
LEMMA DefaultTyped ==
  ASSUME NEW t, ShapeOk(t), NEW value, CarrierOk(value)
  PROVE  /\ LET l == RenderEvaluated(t, value) IN
              l # NoLiteral => (NamedBool(t) \/ Typed(l, t)) /\ Denotes(l, value)
         /\ LET l == Synthesize(t) IN l # NoLiteral => NamedBool(t) \/ Typed(l, t)
<1> DEFINE e == RenderEvaluated(t, value)
           z == Synthesize(t)
<1>1. CASE t.is # "enum"
  <2>1. Scalar(t)
    BY <1>1 DEF Scalar, ShapeOk
  <2>2. e # NoLiteral => e = EvaluatedScalar(t, value)
    BY <1>1 DEF RenderEvaluated
  <2>3. z = ZeroScalar(t)
    BY <1>1 DEF Synthesize
  <2> HIDE DEF e, z
  <2>4. e # NoLiteral => TypedScalar(e, t) /\ Denotes(e, value)
    BY <2>1, <2>2, EvaluatedTyped
  <2>5. z # NoLiteral => TypedScalar(z, t)
    BY <2>1, <2>3, ZeroTyped
  <2> QED BY <1>1, <2>4, <2>5 DEF Typed, e, z
<1>2. CASE t.is = "enum"
  <2> DEFINE u == t.under
             ei == EvaluatedScalar(u, value)
             zi == ZeroScalar(u)
  <2>1. Scalar(u)
    BY <1>2 DEF Scalar, ShapeOk, IsInt
  <2>2. e # NoLiteral => e = AsEnum(t, ei) /\ ei # NoLiteral
    BY <1>2 DEF RenderEvaluated, AsEnum
  <2>3. z # NoLiteral => z = AsEnum(t, zi) /\ zi # NoLiteral
    BY <1>2 DEF Synthesize, AsEnum
  <2> HIDE DEF ei, zi, e, z
  <2>4. ASSUME e # NoLiteral PROVE (NamedBool(t) \/ Typed(e, t)) /\ Denotes(e, value)
    <3>1. TypedScalar(ei, u) /\ ei.lit \in {"bool", "int", "float"} /\ Denotes(ei, value)
      BY <2>1, <2>2, <2>4, EvaluatedTyped DEF ei
    <3>2. (NamedBool(t) \/ Typed(e, t)) /\ Bare(e) = ei
      BY <1>2, <2>2, <2>4, <3>1, EnumTyped
    <3>3. Bare(ei) = ei
      BY <3>1 DEF Bare
    <3> QED BY <3>1, <3>2, <3>3 DEF Denotes
  <2>5. ASSUME z # NoLiteral PROVE NamedBool(t) \/ Typed(z, t)
    <3>1. TypedScalar(zi, u)
      BY <2>1, <2>3, <2>5, ZeroTyped DEF zi
    <3> QED BY <1>2, <2>3, <2>5, <3>1, EnumTyped
  <2> QED BY <2>4, <2>5 DEF e, z
<1> QED BY <1>1, <1>2

-----------------------------------------------------------------------------
(* Enumerators.  What libclang's signed word says of an enumerator, read     *)
(* back with the sign of its type: the value itself, but for the top bit of  *)
(* a narrow unsigned type, and never two values alike.                       *)
LEMMA DiscriminantFacts ==
  ASSUME NEW t, IsInt(t), t.bits <= WordBits,
         NEW v \in Int, InRange(t, v), NEW u \in Int, InRange(t, u)
  PROVE  LET D(x) == Discriminant(Stored(t, x), t.signed) IN
         /\ t.signed \/ t.bits >= WordBits \/ v < Pow2(t.bits - 1) => D(v) = v
         /\ D(v) = D(u) => v = u
<1> DEFINE D(x) == Discriminant(Stored(t, x), t.signed)
<1>1. PICK b \in Nat \ {0}, w \in Nat \ {0} : b = t.bits /\ w = WordBits /\ b <= w
  BY WordBitsAssumption DEF IsInt
<1>2. b - 1 \in Nat
  BY <1>1
<1> DEFINE B == Pow2(b) C == Pow2(b - 1) W == Pow2(w)
<1>3. C \in Nat \ {0} /\ B = 2 * C /\ W \in Nat /\ B <= W
  BY <1>1, <1>2, PowerGrows
<1>4. CASE t.signed
  <2>1. \A x \in Int : D(x) = x
    BY <1>4 DEF Discriminant, Stored
  <2> QED BY <2>1
<1>5. CASE ~t.signed
  <2>1. ASSUME NEW x \in Int, InRange(t, x)
        PROVE  /\ 0 <= x /\ x < B
               /\ x < C => D(x) = x
               /\ x >= C => D(x) = (x - B) + W
    <3>1. 0 <= x /\ x < B
      BY <1>1, <1>5, <2>1 DEF InRange
    <3>2. CASE x < C
      <4>1. Stored(t, x) = x
        BY <1>1, <1>3, <3>2 DEF Stored
      <4> QED BY <1>3, <3>1, <3>2, <4>1 DEF Discriminant
    <3>3. CASE x >= C
      <4>1. Stored(t, x) = x - B
        BY <1>1, <1>5, <3>3 DEF Stored
      <4>2. ~ (x - B >= 0)
        BY <1>3, <3>1
      <4> QED BY <1>1, <1>3, <1>5, <3>1, <3>3, <4>1, <4>2 DEF Discriminant
    <3> QED BY <1>3, <3>1, <3>2, <3>3
  <2>2. D(v) = D(u) => v = u
    <3> HIDE DEF D, B, C, W
    <3> QED BY <1>3, <2>1
  <2>3. t.bits >= WordBits => B = W
    <3>1. t.bits >= WordBits => b = w
      BY <1>1
    <3> QED BY <3>1
  <2>4. t.bits >= WordBits \/ v < Pow2(t.bits - 1) => D(v) = v
    <3>1. Pow2(t.bits - 1) = C
      BY <1>1
    <3> HIDE DEF D, B, C, W
    <3> QED BY <1>3, <2>1, <2>3, <3>1
  <2> QED BY <1>5, <2>2, <2>4
<1> QED BY <1>4, <1>5 DEF IsInt

(* The constants of an enum.                                                 *)
LEMMA EnumsKept == prog \in Programs => EnumsRoundTrip
<1> SUFFICES ASSUME prog \in Programs, NEW i \in DOMAIN prog.enums
    PROVE  LET def == prog.enums[i]
               t == Repr(def.under)
               ds == Discriminants(def)
           IN /\ \A j \in DOMAIN ds :
                   t.signed \/ t.bits >= WordBits \/ def.values[j] < Pow2(t.bits - 1)
                   => InRange(t, ds[j]) /\ ds[j] = def.values[j]
              /\ EnumShape(def) = "enum" => \A j, l \in DOMAIN ds : ds[j] = ds[l] => j = l
  BY DEF EnumsRoundTrip
<1> DEFINE def == prog.enums[i]
           t == Repr(def.under)
           ds == Discriminants(def)
           D(x) == Discriminant(Stored(t, x), t.signed)
<1>1. EnumOk(def)
  BY ConstantsAssumption DEF ConstantsOk
<1>2. DOMAIN ds = DOMAIN def.values /\ \A j \in DOMAIN ds : ds[j] = D(def.values[j])
  BY DEF Discriminants
<1>3. /\ IsInt(t) /\ t.bits <= WordBits
      /\ \A j \in DOMAIN ds : def.values[j] \in Int /\ InRange(t, def.values[j])
  BY <1>1, <1>2 DEF EnumOk
<1>4. EnumShape(def) = "enum" => ~HasDups(def.values)
  BY DEF EnumShape
<1>5. EnumShape(def) = "enum" =>
        \A j, l \in DOMAIN ds : def.values[j] = def.values[l] => j = l
  BY <1>2, <1>4 DEF HasDups
<1> HIDE DEF def, t, ds
<1>6. ASSUME NEW j \in DOMAIN ds, NEW l \in DOMAIN ds
      PROVE  /\ t.signed \/ t.bits >= WordBits \/ def.values[j] < Pow2(t.bits - 1)
                  => D(def.values[j]) = def.values[j]
             /\ D(def.values[j]) = D(def.values[l]) => def.values[j] = def.values[l]
  BY <1>3, DiscriminantFacts
<1>7. ASSUME NEW j \in DOMAIN ds,
             t.signed \/ t.bits >= WordBits \/ def.values[j] < Pow2(t.bits - 1)
      PROVE  InRange(t, ds[j]) /\ ds[j] = def.values[j]
  BY <1>2, <1>3, <1>6, <1>7
<1>8. ASSUME EnumShape(def) = "enum", NEW j \in DOMAIN ds, NEW l \in DOMAIN ds, ds[j] = ds[l]
      PROVE  j = l
  BY <1>2, <1>5, <1>6, <1>8
<1> QED BY <1>7, <1>8 DEF def, t, ds

(* The default arguments of a method.                                        *)
LEMMA DefaultsKept ==
  ASSUME NEW m, IsSeq(m.params), IsSeq(m.defaults),
         \A i \in DOMAIN m.params : ShapeOk(m.params[i].shape),
         \A i \in DOMAIN m.defaults : CarrierOk(m.defaults[i])
  PROVE  LET ds == Defaults(m)
             d == Len(ds)
         IN /\ \A j \in 1 .. d : LET t == m.params[Arity(m) - d + j].shape IN
                 NamedBool(t) \/ Typed(ds[j].lit, t)
            /\ \A n \in 1 .. d : WindowEvaluated(m, n) =>
                 \A j \in (d - n + 1) .. d : Denotes(ds[j].lit, m.defaults[j])
<1> DEFINE ds == Defaults(m)
<1>1. PICK d \in Nat : /\ Len(ds) = d /\ DOMAIN ds = 1 .. d /\ d <= Arity(m)
                       /\ d # 0 => d = Len(m.defaults)
                       /\ \A j \in 1 .. d : ds[j] = DefaultAt(m, j)
  BY DefaultFacts
<1>2. PICK n \in Nat : Arity(m) = n /\ DOMAIN m.params = 1 .. n
  BY Places DEF Arity
<1>3. \A j \in 1 .. d : ds[j].lit # NoLiteral
  <2>1. ds = <<>> \/ (/\ ds = [j \in DOMAIN m.defaults |-> DefaultAt(m, j)]
                     /\ \A j \in DOMAIN ds : ds[j].lit # NoLiteral)
    BY DEF Defaults
  <2>2. ds = <<>> => d = 0
    BY <1>1
  <2> QED BY <1>1, <2>1, <2>2
<1> HIDE DEF ds
<1>4. ASSUME NEW j \in 1 .. d
      PROVE  LET t == m.params[n - d + j].shape IN
             /\ NamedBool(t) \/ Typed(ds[j].lit, t)
             /\ ds[j].evaluated => Denotes(ds[j].lit, m.defaults[j])
  <2> DEFINE t == m.params[n - d + j].shape
             value == m.defaults[j]
             e == RenderEvaluated(t, value)
  <2>1. n - d + j \in 1 .. n
    BY <1>1, <1>2
  <2>2. ShapeOk(t)
    BY <1>2, <2>1
  <2>3. PICK z \in Nat : Len(m.defaults) = z /\ DOMAIN m.defaults = 1 .. z
    BY Places
  <2>4. CarrierOk(value) /\ Len(m.defaults) = d
    BY <1>1, <2>3
  <2>5. ds[j] = IF e # NoLiteral THEN Default(e, TRUE) ELSE Default(Synthesize(t), FALSE)
    BY <1>1, <1>2, <2>4, Zenon DEF DefaultAt
  <2>6. /\ e # NoLiteral => (NamedBool(t) \/ Typed(e, t)) /\ Denotes(e, value)
        /\ Synthesize(t) # NoLiteral => NamedBool(t) \/ Typed(Synthesize(t), t)
    BY <2>2, <2>4, DefaultTyped
  <2> HIDE DEF e, t, value
  <2>7. \A l : /\ Default(l, TRUE).lit = l
              /\ Default(l, FALSE).lit = l /\ ~ Default(l, FALSE).evaluated
    BY DEF Default
  <2>8. CASE e # NoLiteral
    <3>1. ds[j].lit = e
      BY <2>5, <2>7, <2>8
    <3> QED BY <2>6, <2>8, <3>1 DEF t, value
  <2>9. CASE e = NoLiteral
    <3>1. ds[j] = Default(Synthesize(t), FALSE)
      BY <2>5, <2>9
    <3>2. ds[j].lit = Synthesize(t) /\ ~ ds[j].evaluated
      BY <2>7, <3>1
    <3>3. NamedBool(t) \/ Typed(ds[j].lit, t)
      BY <1>3, <2>6, <3>2
    <3> QED BY <3>2, <3>3 DEF t, value
  <2> QED BY <2>8, <2>9
<1>5. ASSUME NEW w \in 1 .. d, WindowEvaluated(m, w), NEW j \in (d - w + 1) .. d
      PROVE  Denotes(ds[j].lit, m.defaults[j])
  <2>1. j \in 1 .. d
    BY <1>1
  <2>2. ds[j].evaluated
    BY <1>1, <1>5 DEF WindowEvaluated, ds
  <2> QED BY <1>4, <2>1, <2>2
<1> QED BY <1>1, <1>2, <1>4, <1>5 DEF ds

(* LiteralsKeepValues, for every type context and every width of the words:  *)
(* a constant written into the bindings has the value and the range C++ gave *)
(* it.                                                                       *)
THEOREM ConstantsKept == Spec => []LiteralsKeepValues
<1>1. ASSUME Emits PROVE LiteralsKeepValues
  <2>1. prog \in Programs /\ BlocksDescribed
    BY <1>1 DEF Emits, Walk
  <2>2. ASSUME NEW c \in DOMAIN items, NEW e \in Range(items[c].blocks)
        PROVE  LET m == Methods(c)[e.method] IN
                 /\ IsSeq(m.params) /\ IsSeq(m.defaults)
                 /\ \A i \in DOMAIN m.params : ShapeOk(m.params[i].shape)
                 /\ \A i \in DOMAIN m.defaults : CarrierOk(m.defaults[i])
    <3>1. c \in DOMAIN prog.classes /\ e.method \in DOMAIN Methods(c)
      BY <2>1 DEF BlocksDescribed, Described
    <3>2. Methods(c)[e.method] \in Range(prog.classes[c].methods)
      BY <3>1 DEF Methods, Range
    <3>3. ConstantsOk(prog)
      BY <2>1, ConstantsAssumption
    <3> QED BY <2>1, <3>1, <3>2, <3>3, MethodFacts DEF ConstantsOk
  <2>3. DefaultsTyped
    BY <2>2, DefaultsKept DEF DefaultsTyped
  <2> QED BY <2>1, <2>3, EnumsKept DEF LiteralsKeepValues
<1> QED BY <1>1, EmitsAlways, PTL
=============================================================================
