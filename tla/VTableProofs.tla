----------------------------- MODULE VTableProofs -----------------------------
(***************************************************************************)
(* What build_virtual_slots (crates/rustc_abi_cxx/src/vtable.rs) leaves in *)
(* every table, for any program.                                           *)
(*                                                                         *)
(* A declaration is numbered by its class on the chain and its place in    *)
(* that class: the order in which the walk meets them. Places lists the    *)
(* first declarations the walk has scanned, Filled says which overrider a  *)
(* slot has by then, Walked puts the two together for the slots so far,    *)
(* and Built is Walked at the end of the chain. The chain is a recursive   *)
(* function: that its equation has one solution is shown by induction over *)
(* the class, in the form of sets with a least element.                    *)
(*                                                                         *)
(* The sub-tables come from the finished tables of earlier classes: that   *)
(* what collect_virtual_bases collects is earlier classes takes the same   *)
(* kind of induction, over its walk and over the list it keeps.            *)
(*                                                                         *)
(* The MSVC tables (vtable_msvc.rs) are a function of the program: LoopOk  *)
(* and ChainOk are the invariants of its inner and outer loop.             *)
(*                                                                         *)
(* The VTT and the attribute of an imported class are functions of the     *)
(* finished tables; their sections count what each sequence they join      *)
(* contributes.                                                            *)
(***************************************************************************)
EXTENDS MsvcVTable, ImportedVTable, Vtt, SequenceLemmas

-----------------------------------------------------------------------------
(* What WellFormed says of one class. *)

(* A class of a well-formed program: its bases are classes before it.       *)
LEMMA ClassParts ==
  ASSUME WellFormed(ctx), NEW c \in DOMAIN ctx
  PROVE  /\ c \in Nat \ {0}
         /\ ctx[c].bases \in Seq(Base) /\ ctx[c].methods \in Seq(Method)
         /\ \A i \in DOMAIN ctx[c].bases : ctx[c].bases[i].class \in 1 .. (c - 1)
<1>1. ctx \in Seq(Class)
  BY DEF WellFormed
<1>2. ctx[c] \in Class /\ c \in Nat \ {0}
  BY <1>1
<1>3. ctx[c].bases \in Seq(Base) /\ ctx[c].methods \in Seq(Method)
  BY <1>2 DEF Class
<1> QED BY <1>2, <1>3 DEF WellFormed

-----------------------------------------------------------------------------
(* The chain of a class. *)

Upper(d) == ctx[d].bases[FirstNonVirtual(d)].class

(* The first non-virtual base is an earlier class, so collect_chain ends.   *)
LEMMA UpperBelow ==
  ASSUME WellFormed(ctx), NEW d \in DOMAIN ctx
  PROVE  FirstNonVirtual(d) # 0 => Upper(d) \in 1 .. (d - 1)
<1>1. ctx[d].bases \in Seq(Base)
  BY ClassParts
<1> DEFINE I == {i \in 1 .. Len(ctx[d].bases) : ~ctx[d].bases[i].virt}
<1>2. FirstNonVirtual(d) = First(I)
  <2>1. FirstNonVirtual(d) = IF I # {} THEN CHOOSE x \in I : \A y \in I : x <= y ELSE 0
    BY DEF FirstNonVirtual, SelectInSeq, Min
  <2> HIDE DEF I
  <2> QED BY <2>1 DEF First
<1>3. FirstNonVirtual(d) # 0 => FirstNonVirtual(d) \in I
  <2>1. I \in SUBSET (1 .. Len(ctx[d].bases)) /\ Len(ctx[d].bases) \in Nat
    BY <1>1
  <2> HIDE DEF I
  <2> QED BY <1>2, <2>1, FirstOf
<1>4. FirstNonVirtual(d) # 0 => FirstNonVirtual(d) \in DOMAIN ctx[d].bases
  BY <1>1, <1>3
<1> QED BY <1>4, ClassParts DEF Upper

(* A chain goes up from class d to nx[d], an earlier class, or ends (0).     *)
Rises(nx, n) == \A d \in 1 .. n : nx[d] # 0 => nx[d] \in 1 .. (d - 1)
UpTo(f, d, nx) == IF nx[d] = 0 THEN <<d>> ELSE Append(f[nx[d]], d)
IsUp(f, n, nx) == f = [d \in 1 .. n |-> UpTo(f, d, nx)]

(* The recursion has a solution, and one only on each class.                 *)
LEMMA UpExists ==
  ASSUME NEW n \in Nat, NEW nx, Rises(nx, n)
  PROVE  \A j \in 0 .. n : \E f : IsUp(f, j, nx)
<1> DEFINE T == {j \in Nat : j <= n => \E f : IsUp(f, j, nx)}
<1>2. ASSUME NEW j \in Nat, \A k \in Nat : k < j => k \in T, j <= n
      PROVE  \E f : IsUp(f, j, nx)
  <2>1. CASE j = 0
    BY <2>1 DEF IsUp
  <2>2. CASE j # 0
    <3>1. PICK f : IsUp(f, j - 1, nx)
      BY <1>2, <2>2
    <3> DEFINE g == [d \in 1 .. j |-> IF d = j THEN UpTo(f, j, nx) ELSE f[d]]
    <3>2. ASSUME NEW d \in 1 .. j PROVE g[d] = UpTo(g, d, nx)
      <4>2. nx[d] # 0 => nx[d] \in 1 .. (d - 1)
        BY <1>2 DEF Rises
      <4>3. nx[d] # 0 => g[nx[d]] = f[nx[d]]
        BY <4>2, <1>2
      <4>4. d # j => f[d] = UpTo(f, d, nx)
        <5> SUFFICES ASSUME d # j PROVE f[d] = UpTo(f, d, nx)
          OBVIOUS
        <5>1. d \in 1 .. (j - 1)
          BY <1>2
        <5> QED BY <3>1, <5>1 DEF IsUp
      <4> HIDE DEF g
      <4>5. UpTo(g, d, nx) = UpTo(f, d, nx)
        BY <4>3, Zenon DEF UpTo
      <4>6. g[d] = IF d = j THEN UpTo(f, j, nx) ELSE f[d]
        BY DEF g
      <4> QED BY <4>4, <4>5, <4>6
    <3>3. g = [d \in 1 .. j |-> UpTo(g, d, nx)]
      BY <3>2
    <3> QED BY <3>3 DEF IsUp
  <2> QED BY <2>1, <2>2
<1>3. \A j \in Nat : (\A k \in Nat : k < j => k \in T) => j \in T
  BY <1>2
<1> HIDE DEF T
<1>4. Nat \subseteq T
  BY <1>3, Induct
<1> QED BY <1>4 DEF T

(* Two solutions agree on the classes both are defined on.                  *)
LEMMA UpUnique ==
  ASSUME NEW n \in Nat, NEW nx, Rises(nx, n), NEW k \in 0 .. n,
         NEW f, IsUp(f, n, nx), NEW g, IsUp(g, k, nx)
  PROVE  \A d \in 1 .. k : f[d] = g[d]
<1> DEFINE T == {j \in Nat : j \in 1 .. k => f[j] = g[j]}
<1>2. ASSUME NEW j \in Nat, \A i \in Nat : i < j => i \in T, j \in 1 .. k
      PROVE  f[j] = g[j]
  <2>1. j \in 1 .. n
    BY <1>2
  <2>2. nx[j] # 0 => f[nx[j]] = g[nx[j]]
    BY <1>2, <2>1 DEF Rises
  <2>3. f[j] = UpTo(f, j, nx) /\ g[j] = UpTo(g, j, nx)
    BY <1>2, <2>1 DEF IsUp
  <2> QED BY <2>2, <2>3, Zenon DEF UpTo
<1>3. Nat \subseteq T
  BY <1>2, Induct
<1> QED BY <1>3

(* The chain of a class in such a solution.                                  *)
LEMMA UpStep ==
  ASSUME NEW n \in Nat, NEW nx, Rises(nx, n), NEW up, \A d \in 1 .. n : IsUp(up[d], d, nx),
         NEW c \in 1 .. n
  PROVE  /\ nx[c] = 0 => up[c][c] = <<c>>
         /\ nx[c] # 0 => up[c][c] = Append(up[nx[c]][nx[c]], c)
<1>1. nx[c] # 0 => nx[c] \in 1 .. (c - 1)
  BY DEF Rises
<1>2. Rises(nx, c)
  BY DEF Rises
<1>3. nx[c] # 0 => up[c][nx[c]] = up[nx[c]][nx[c]]
  BY <1>1, <1>2, UpUnique
<1>4. PICK f : f = up[c] /\ IsUp(f, c, nx)
  OBVIOUS
<1>5. f[c] = UpTo(f, c, nx)
  BY <1>4 DEF IsUp
<1> QED BY <1>3, <1>4, <1>5, Zenon DEF UpTo

(* It holds the class, last, and earlier classes.                            *)
LEMMA UpType ==
  ASSUME NEW n \in Nat, NEW nx, Rises(nx, n), NEW ch,
         \A c \in 1 .. n : ch[c] = UpTo(ch, c, nx)
  PROVE  \A c \in 1 .. n : ch[c] \in Seq(1 .. c)
<1> DEFINE T == {j \in Nat : j \in 1 .. n => ch[j] \in Seq(1 .. j)}
<1>2. ASSUME NEW j \in Nat, \A i \in Nat : i < j => i \in T, j \in 1 .. n
      PROVE  ch[j] \in Seq(1 .. j)
  <2>0. ch[j] = UpTo(ch, j, nx)
    BY <1>2
  <2>1. CASE nx[j] = 0
    <3>1. ch[j] = <<j>>
      BY <2>0, <2>1, Zenon DEF UpTo
    <3>2. j \in 1 .. j
      BY <1>2
    <3> QED BY <3>1, <3>2
  <2>2. CASE nx[j] # 0
    <3>1. nx[j] \in 1 .. (j - 1)
      BY <1>2, <2>2 DEF Rises
    <3>2. ch[nx[j]] \in Seq(1 .. nx[j])
      BY <1>2, <3>1
    <3>3. ch[nx[j]] \in Seq(1 .. j)
      BY <3>1, <3>2
    <3>4. ch[j] = Append(ch[nx[j]], j)
      BY <2>0, <2>2, Zenon DEF UpTo
    <3>5. j \in 1 .. j
      BY <1>2
    <3> QED BY <3>3, <3>4, <3>5
  <2> QED BY <2>1, <2>2
<1>3. \A j \in Nat : (\A k \in Nat : k < j => k \in T) => j \in T
  BY <1>2
<1> HIDE DEF T
<1>4. Nat \subseteq T
  BY <1>3, Induct
<1> QED BY <1>4 DEF T

(* The class above in the chain of collect_chain.                            *)
NextUp == [d \in 1 .. Len(ctx) |-> IF FirstNonVirtual(d) = 0 THEN 0 ELSE Upper(d)]

(* It is an earlier class.                                                   *)
LEMMA NextUpRises ==
  ASSUME WellFormed(ctx)
  PROVE  /\ Len(ctx) \in Nat /\ DOMAIN ctx = 1 .. Len(ctx)
         /\ Rises(NextUp, Len(ctx))
         /\ \A d \in DOMAIN ctx : NextUp[d] = IF FirstNonVirtual(d) = 0 THEN 0 ELSE Upper(d)
         /\ \A d \in DOMAIN ctx : FirstNonVirtual(d) # 0 => Upper(d) # 0
<1>1. ctx \in Seq(Class)
  BY DEF WellFormed
<1>2. \A d \in DOMAIN ctx : FirstNonVirtual(d) # 0 => Upper(d) \in 1 .. (d - 1)
  BY UpperBelow
<1>4. Len(ctx) \in Nat /\ DOMAIN ctx = 1 .. Len(ctx)
  BY <1>1
<1>3. \A d \in DOMAIN ctx : NextUp[d] = IF FirstNonVirtual(d) = 0 THEN 0 ELSE Upper(d)
  BY <1>4 DEF NextUp
<1>5. \A d \in DOMAIN ctx : FirstNonVirtual(d) # 0 => Upper(d) # 0
  BY <1>2, <1>4
<1> QED BY <1>2, <1>3, <1>4, <1>5 DEF Rises

(* collect_chain: the chain of the first non-virtual base, then the class.   *)
LEMMA ChainStep ==
  ASSUME WellFormed(ctx), NEW c \in DOMAIN ctx
  PROVE  Chain(c) = IF FirstNonVirtual(c) = 0 THEN <<c>> ELSE Append(Chain(Upper(c)), c)
<1> DEFINE n == Len(ctx)
           body(f, e) == IF FirstNonVirtual(e) = 0 THEN <<e>> ELSE Append(f[Upper(e)], e)
           Sol(f, d) == f = [e \in 1 .. d |-> body(f, e)]
           sol(d) == CHOOSE f : Sol(f, d)
           up == [d \in 1 .. n |-> sol(d)]
<1>1. /\ n \in Nat /\ DOMAIN ctx = 1 .. n /\ Rises(NextUp, n)
      /\ \A d \in DOMAIN ctx : NextUp[d] = IF FirstNonVirtual(d) = 0 THEN 0 ELSE Upper(d)
      /\ \A d \in DOMAIN ctx : FirstNonVirtual(d) # 0 => Upper(d) # 0
  BY NextUpRises
<1>2. ASSUME NEW d PROVE Chain(d) = sol(d)[d]
  BY DEF Chain, Upper
<1> HIDE DEF n
<1>3. ASSUME NEW d \in 1 .. n, NEW f PROVE Sol(f, d) <=> IsUp(f, d, NextUp)
  <2>1. ASSUME NEW e \in 1 .. d PROVE body(f, e) = UpTo(f, e, NextUp)
    <3>1. e \in DOMAIN ctx
      BY <1>1
    <3> QED BY <1>1, <3>1, Zenon DEF UpTo
  <2> HIDE DEF body
  <2> QED BY <2>1, Zenon DEF IsUp
<1> HIDE DEF body, Sol
<1>4. ASSUME NEW d \in 1 .. n PROVE IsUp(up[d], d, NextUp) /\ Chain(d) = up[d][d]
  <2>1. \E f : Sol(f, d)
    BY <1>1, <1>3, UpExists
  <2>2. up[d] = sol(d)
    OBVIOUS
  <2> QED BY <1>2, <1>3, <2>1, <2>2
<1> HIDE DEF up
<1>5. /\ NextUp[c] = 0 => up[c][c] = <<c>>
      /\ NextUp[c] # 0 => up[c][c] = Append(up[NextUp[c]][NextUp[c]], c)
  <2>1. c \in 1 .. n /\ \A d \in 1 .. n : IsUp(up[d], d, NextUp)
    BY <1>1, <1>4
  <2> QED BY <1>1, <2>1, UpStep
<1>6. NextUp[c] # 0 => NextUp[c] \in 1 .. n
  BY <1>1 DEF Rises
<1> QED BY <1>1, <1>4, <1>5, <1>6, Zenon

(* A chain holds the class and earlier classes.                             *)
LEMMA ChainType ==
  ASSUME WellFormed(ctx), NEW c \in DOMAIN ctx
  PROVE  Chain(c) \in Seq(1 .. c)
<1>1. /\ Len(ctx) \in Nat /\ DOMAIN ctx = 1 .. Len(ctx) /\ Rises(NextUp, Len(ctx))
      /\ \A d \in DOMAIN ctx : NextUp[d] = IF FirstNonVirtual(d) = 0 THEN 0 ELSE Upper(d)
      /\ \A d \in DOMAIN ctx : FirstNonVirtual(d) # 0 => Upper(d) # 0
  BY NextUpRises
<1> DEFINE n == Len(ctx)
           ch == [d \in 1 .. n |-> Chain(d)]
<1> HIDE DEF n
<1>2. ASSUME NEW d \in 1 .. n
      PROVE  ch[d] = UpTo(ch, d, NextUp)
  <2>1. Chain(d) = IF FirstNonVirtual(d) = 0 THEN <<d>> ELSE Append(Chain(Upper(d)), d)
    BY <1>1, ChainStep DEF n
  <2>2. NextUp[d] # 0 => NextUp[d] \in 1 .. n
    BY <1>1 DEF Rises, n
  <2>3. d \in DOMAIN ctx
    BY <1>1 DEF n
  <2>4. NextUp[d] # 0 => ch[NextUp[d]] = Chain(NextUp[d])
    BY <2>2
  <2>5. ch[d] = Chain(d)
    OBVIOUS
  <2> HIDE DEF ch
  <2> QED BY <1>1, <2>1, <2>3, <2>4, <2>5, Zenon DEF UpTo
<1>3. ch[c] \in Seq(1 .. c)
  <2> HIDE DEF ch
  <2> QED BY <1>1, <1>2, UpType DEF n
<1> QED BY <1>1, <1>3 DEF n
-----------------------------------------------------------------------------
(* Where the slots of a class come from.  A declaration is a virtual method  *)
(* of the chain, at position k of the chain and j of its class; the walk     *)
(* that stands at (a, n) has scanned those before.                           *)

Meth(c, k, j) == ctx[Chain(c)[k]].methods[j]

Decl(c, k, j) ==
  /\ k \in DOMAIN Chain(c) /\ j \in DOMAIN ctx[Chain(c)[k]].methods
  /\ IsVirtual(Chain(c)[k], j)

Scanned(k, j, a, n) == k < a \/ (k = a /\ j < n)

(* They share a slot: two destructors, or two methods of one signature.      *)
Alike(x, y) == (x.dtor <=> y.dtor) /\ (~x.dtor => x.sig = y.sig)

FirstDecl(c, k, j) ==
  /\ Decl(c, k, j)
  /\ \A l, i \in Nat : Decl(c, l, i) /\ Scanned(l, i, k, j) => ~Alike(Meth(c, l, i), Meth(c, k, j))

(* The place a slot has by its declaration; r tells a destructor's two apart.*)
Place == [k : Nat, j : Nat, r : {0, 1}]

Earlier(p, q) ==
  \/ p.k < q.k
  \/ p.k = q.k /\ p.j < q.j
  \/ p.k = q.k /\ p.j = q.j /\ p.r < q.r

MethOf(c, p) == Meth(c, p.k, p.j)

(* w lists, in order, the places of the first declarations scanned so far.   *)
Places(c, a, n, w) ==
  /\ w \in Seq(Place)
  /\ \A i \in DOMAIN w : /\ FirstDecl(c, w[i].k, w[i].j) /\ Scanned(w[i].k, w[i].j, a, n)
                         /\ w[i].r = 1 => MethOf(c, w[i]).dtor
  /\ \A i, l \in DOMAIN w : i < l => Earlier(w[i], w[l])
  /\ \A k, j \in Nat : Decl(c, k, j) /\ Scanned(k, j, a, n)
                         => \E i \in DOMAIN w : Alike(Meth(c, k, j), MethOf(c, w[i]))
  /\ \A i \in DOMAIN w : MethOf(c, w[i]).dtor =>
       \A r \in {0, 1} : \E l \in DOMAIN w : w[l] = [k |-> w[i].k, j |-> w[i].j, r |-> r]

SlotSet == [kind : {"Method", "D1", "D0"}, origin : DOMAIN ctx, idx : Nat,
            overrider : DOMAIN ctx, overIdx : Nat]

PlainAs(c, k, j, sig) == Decl(c, k, j) /\ ~Meth(c, k, j).dtor /\ Meth(c, k, j).sig = sig

(* The slot at place p: introduced there, and with the last declaration      *)
(* scanned so far as its overrider.                                          *)
Filled(c, a, n, p, s) ==
  IF MethOf(c, p).dtor
  THEN s = Slot(IF p.r = 0 THEN "D1" ELSE "D0", Chain(c)[p.k], 0, c, 0)
  ELSE /\ s.kind = "Method" /\ s.origin = Chain(c)[p.k] /\ s.idx = p.j
       /\ \E l, i \in Nat :
            /\ PlainAs(c, l, i, MethOf(c, p).sig) /\ Scanned(l, i, a, n)
            /\ s.overrider = Chain(c)[l] /\ s.overIdx = i
            /\ \A k, j \in Nat : PlainAs(c, k, j, MethOf(c, p).sig) /\ Scanned(k, j, a, n) => k <= l

Walked(c, a, n, s) ==
  /\ s \in Seq(SlotSet)
  /\ \E w : /\ Places(c, a, n, w) /\ Len(w) = Len(s)
            /\ \A i \in DOMAIN s : Filled(c, a, n, w[i], s[i])

Built(c, s) == Walked(c, Len(Chain(c)) + 1, 1, s)

IInv ==
  /\ WellFormed(ctx)
  /\ \E S : tables \in Seq(S)
  /\ Len(tables) <= Len(ctx)
  /\ at \in Nat \ {0} /\ m \in Nat \ {0}
  /\ phase \in {"idle", "slots", "subs"}
  /\ phase # "idle" => self <= Len(ctx) /\ Walked(self, at, m, slots)
  /\ phase = "subs" => at > Len(Chain(self))
  /\ \A c \in ClassIds : IF tables[c].poly THEN Built(c, tables[c].slots)
                          ELSE tables[c].slots = << >>
-----------------------------------------------------------------------------
(* Types of the pieces. *)

(* What the other lemmas need of a chain: its indices and its classes.      *)
LEMMA ChainElem ==
  ASSUME WellFormed(ctx), NEW c \in DOMAIN ctx
  PROVE  /\ c \in Nat \ {0} /\ Chain(c) \in Seq(1 .. c) /\ Len(Chain(c)) \in Nat
         /\ DOMAIN Chain(c) = 1 .. Len(Chain(c))
         /\ \A k \in DOMAIN Chain(c) :
              /\ k \in Nat \ {0} /\ Chain(c)[k] \in DOMAIN ctx
              /\ ctx[Chain(c)[k]].methods \in Seq(Method)
<1>1. ctx \in Seq(Class) /\ c \in 1 .. Len(ctx)
  BY DEF WellFormed
<1>2. Chain(c) \in Seq(1 .. c)
  BY ChainType
<1>3. \A k \in DOMAIN Chain(c) : k \in Nat \ {0} /\ Chain(c)[k] \in 1 .. c
  BY <1>2
<1>4. \A k \in DOMAIN Chain(c) : Chain(c)[k] \in DOMAIN ctx
  BY <1>1, <1>3
<1> QED BY <1>1, <1>2, <1>3, <1>4, ClassParts

(* A declaration is a method of a class of the program.                     *)
LEMMA DeclType ==
  ASSUME WellFormed(ctx), NEW c \in DOMAIN ctx, NEW k, NEW j, Decl(c, k, j)
  PROVE  /\ k \in Nat \ {0} /\ j \in Nat \ {0} /\ Chain(c)[k] \in DOMAIN ctx
         /\ Meth(c, k, j) \in Method
<1>1. k \in Nat \ {0} /\ Chain(c)[k] \in DOMAIN ctx /\ ctx[Chain(c)[k]].methods \in Seq(Method)
  BY ChainElem DEF Decl
<1>2. j \in DOMAIN ctx[Chain(c)[k]].methods
  BY DEF Decl
<1> QED BY <1>1, <1>2 DEF Meth

(* Methods that share a slot: the relation is an equivalence.               *)
LEMMA AlikeLaws ==
  ASSUME NEW x \in Method, NEW y \in Method, NEW z \in Method
  PROVE  /\ Alike(x, x) /\ (Alike(x, y) => Alike(y, x))
         /\ Alike(x, y) /\ Alike(x, z) => Alike(y, z)
BY DEF Alike, Method

(* A step of the walk scans one declaration more.                           *)
LEMMA ScanOne ==
  ASSUME NEW a \in Nat, NEW n \in Nat, NEW k \in Nat, NEW j \in Nat
  PROVE  Scanned(k, j, a, n + 1) <=> Scanned(k, j, a, n) \/ (k = a /\ j = n)
BY DEF Scanned

(* The parts of a place that Places holds of each.                           *)
LEMMA PlaceType ==
  ASSUME WellFormed(ctx), NEW c \in DOMAIN ctx, NEW a \in Nat, NEW n \in Nat,
         NEW w, Places(c, a, n, w), NEW i \in DOMAIN w
  PROVE  /\ w[i] \in Place /\ w[i].k \in Nat /\ w[i].j \in Nat /\ w[i].r \in {0, 1}
         /\ Decl(c, w[i].k, w[i].j) /\ FirstDecl(c, w[i].k, w[i].j)
         /\ MethOf(c, w[i]) \in Method
<1>1. w[i] \in Place /\ FirstDecl(c, w[i].k, w[i].j)
  BY DEF Places
<1>2. Decl(c, w[i].k, w[i].j)
  BY <1>1 DEF FirstDecl
<1> QED BY <1>1, <1>2, DeclType DEF Place, MethOf

(* What kind and signature of a slot say of its place.                       *)
LEMMA SlotKind ==
  ASSUME NEW c, NEW a, NEW n, NEW p \in Place, NEW s, Filled(c, a, n, p, s),
         MethOf(c, p) \in Method
  PROVE  /\ s.kind = "Method" <=> ~MethOf(c, p).dtor
         /\ s.kind = "D1" <=> MethOf(c, p).dtor /\ p.r = 0
         /\ s.kind = "D0" <=> MethOf(c, p).dtor /\ p.r = 1
         /\ ~MethOf(c, p).dtor => SlotSig(s) = MethOf(c, p).sig
<1>1. CASE MethOf(c, p).dtor
  <2>1. s = Slot(IF p.r = 0 THEN "D1" ELSE "D0", Chain(c)[p.k], 0, c, 0)
    BY <1>1 DEF Filled
  <2>2. s.kind = IF p.r = 0 THEN "D1" ELSE "D0"
    BY <2>1 DEF Slot
  <2>3. p.r \in {0, 1}
    BY DEF Place
  <2> QED BY <1>1, <2>2, <2>3
<1>2. CASE ~MethOf(c, p).dtor
  <2>1. s.kind = "Method" /\ s.origin = Chain(c)[p.k] /\ s.idx = p.j
    BY <1>2 DEF Filled
  <2>2. SlotSig(s) = MethOf(c, p).sig
    BY <2>1 DEF SlotSig, MethOf, Meth
  <2> QED BY <1>2, <2>1, <2>2
<1> QED BY <1>1, <1>2

(* A walk depends on its position by what it has scanned.                    *)
LEMMA SameScan ==
  ASSUME WellFormed(ctx), NEW c \in DOMAIN ctx, NEW a \in Nat, NEW n \in Nat,
         NEW b \in Nat, NEW o \in Nat, NEW s, Walked(c, a, n, s),
         \A k, j \in Nat : Decl(c, k, j) => (Scanned(k, j, a, n) <=> Scanned(k, j, b, o))
  PROVE  Walked(c, b, o, s)
<1>1. PICK w : /\ Places(c, a, n, w) /\ Len(w) = Len(s)
               /\ \A i \in DOMAIN s : Filled(c, a, n, w[i], s[i])
  BY DEF Walked
<1>2. Places(c, b, o, w)
  <2>1. ASSUME NEW i \in DOMAIN w PROVE Scanned(w[i].k, w[i].j, b, o)
    <3>1. Decl(c, w[i].k, w[i].j) /\ w[i].k \in Nat /\ w[i].j \in Nat
      BY <1>1, PlaceType
    <3>2. Scanned(w[i].k, w[i].j, a, n)
      BY <1>1 DEF Places
    <3> QED BY <3>1, <3>2
  <2> QED BY <1>1, <2>1 DEF Places
<1>3. ASSUME NEW i \in DOMAIN s PROVE Filled(c, b, o, w[i], s[i])
  BY <1>1 DEF Filled, PlainAs
<1> QED BY <1>1, <1>2, <1>3 DEF Walked
-----------------------------------------------------------------------------
(* One more declaration scanned. *)

(* A declaration of another signature leaves a slot filled as it was.       *)
LEMMA MorePlain ==
  ASSUME NEW c, NEW a \in Nat, NEW n \in Nat, NEW p, NEW s, Filled(c, a, n, p, s),
         MethOf(c, p).dtor \/ ~PlainAs(c, a, n, MethOf(c, p).sig)
  PROVE  Filled(c, a, n + 1, p, s)
<1>1. CASE MethOf(c, p).dtor
  BY <1>1 DEF Filled
<1>2. CASE ~MethOf(c, p).dtor
  <2>1. \A k, j \in Nat : PlainAs(c, k, j, MethOf(c, p).sig)
                          => (Scanned(k, j, a, n + 1) <=> Scanned(k, j, a, n))
    BY <1>2, ScanOne
  <2> QED BY <1>2, <2>1 DEF Filled
<1> QED BY <1>1, <1>2

(* It shares the place of an earlier one.                                    *)
LEMMA SamePlaces ==
  ASSUME WellFormed(ctx), NEW c \in DOMAIN ctx, NEW a \in Nat, NEW n \in Nat,
         NEW w, Places(c, a, n, w), Decl(c, a, n),
         \E i \in DOMAIN w : Alike(Meth(c, a, n), MethOf(c, w[i]))
  PROVE  Places(c, a, n + 1, w)
<1>1. ASSUME NEW i \in DOMAIN w PROVE Scanned(w[i].k, w[i].j, a, n + 1)
  <2>1. w[i].k \in Nat /\ w[i].j \in Nat
    BY PlaceType
  <2>2. Scanned(w[i].k, w[i].j, a, n)
    BY DEF Places
  <2> QED BY <2>1, <2>2, ScanOne
<1>2. ASSUME NEW k \in Nat, NEW j \in Nat, Decl(c, k, j), Scanned(k, j, a, n + 1)
      PROVE  \E i \in DOMAIN w : Alike(Meth(c, k, j), MethOf(c, w[i]))
  BY <1>2, ScanOne DEF Places
<1> QED BY <1>1, <1>2 DEF Places

(* None before it is like it: it is a first declaration.                     *)
LEMMA FreshIsFirst ==
  ASSUME WellFormed(ctx), NEW c \in DOMAIN ctx, NEW a \in Nat, NEW n \in Nat,
         NEW w, Places(c, a, n, w), Decl(c, a, n),
         \A i \in DOMAIN w : ~Alike(Meth(c, a, n), MethOf(c, w[i]))
  PROVE  FirstDecl(c, a, n)
<1> SUFFICES ASSUME NEW l \in Nat, NEW j \in Nat, Decl(c, l, j), Scanned(l, j, a, n),
                    Alike(Meth(c, l, j), Meth(c, a, n))
             PROVE  FALSE
  BY DEF FirstDecl
<1>1. PICK i \in DOMAIN w : Alike(Meth(c, l, j), MethOf(c, w[i]))
  BY DEF Places
<1>2. Meth(c, l, j) \in Method /\ Meth(c, a, n) \in Method /\ MethOf(c, w[i]) \in Method
  BY DeclType, PlaceType
<1>3. Alike(Meth(c, a, n), MethOf(c, w[i]))
  BY <1>1, <1>2, AlikeLaws
<1> QED BY <1>3

(* Every place so far is before the one under the walk.                      *)
LEMMA PlacesBefore ==
  ASSUME WellFormed(ctx), NEW c \in DOMAIN ctx, NEW a \in Nat, NEW n \in Nat,
         NEW w, Places(c, a, n, w), NEW i \in DOMAIN w, NEW r \in {0, 1}
  PROVE  Earlier(w[i], [k |-> a, j |-> n, r |-> r])
BY PlaceType DEF Places, Scanned, Earlier

(* A virtual method whose signature is new gets the next place.             *)
LEMMA MethodPlace ==
  ASSUME WellFormed(ctx), NEW c \in DOMAIN ctx, NEW a \in Nat, NEW n \in Nat,
         NEW w, Places(c, a, n, w), Decl(c, a, n), ~Meth(c, a, n).dtor,
         \A i \in DOMAIN w : ~Alike(Meth(c, a, n), MethOf(c, w[i]))
  PROVE  Places(c, a, n + 1, Append(w, [k |-> a, j |-> n, r |-> 0]))
<1> DEFINE p == [k |-> a, j |-> n, r |-> 0]
           v == Append(w, p)
<1>1. /\ w \in Seq(Place) /\ p \in Place /\ p.k = a /\ p.j = n /\ p.r = 0
      /\ Meth(c, a, n) \in Method /\ MethOf(c, p) = Meth(c, a, n)
  BY DeclType DEF Places, Place, MethOf
<1>2. \A i \in DOMAIN w : Earlier(w[i], p)
  BY PlacesBefore
<1> HIDE DEF p
<1>3. /\ v \in Seq(Place) /\ DOMAIN v = DOMAIN w \union {Len(w) + 1} /\ v[Len(w) + 1] = p
      /\ \A i \in DOMAIN w : v[i] = w[i] /\ i \in Nat /\ i < Len(w) + 1
  BY <1>1
<1> HIDE DEF v
<1>4. ASSUME NEW i \in DOMAIN v
      PROVE  /\ FirstDecl(c, v[i].k, v[i].j) /\ Scanned(v[i].k, v[i].j, a, n + 1)
             /\ v[i].r = 1 => MethOf(c, v[i]).dtor
  <2>1. CASE i \in DOMAIN w
    <3>1. w[i].k \in Nat /\ w[i].j \in Nat
      BY <2>1, PlaceType
    <3>2. Scanned(w[i].k, w[i].j, a, n)
      BY <2>1 DEF Places
    <3>3. Scanned(w[i].k, w[i].j, a, n + 1)
      BY <3>1, <3>2, ScanOne
    <3> QED BY <1>3, <2>1, <3>3 DEF Places
  <2>2. CASE i = Len(w) + 1
    <3>1. FirstDecl(c, a, n)
      BY FreshIsFirst
    <3> QED BY <1>1, <1>3, <2>2, <3>1, ScanOne
  <2> QED BY <1>3, <2>1, <2>2
<1>5. ASSUME NEW i \in DOMAIN v, NEW l \in DOMAIN v, i < l PROVE Earlier(v[i], v[l])
  <2>1. i \in DOMAIN w
    BY <1>1, <1>3, <1>5
  <2> QED BY <1>2, <1>3, <1>5, <2>1 DEF Places
<1>6. ASSUME NEW k \in Nat, NEW j \in Nat, Decl(c, k, j), Scanned(k, j, a, n + 1)
      PROVE  \E i \in DOMAIN v : Alike(Meth(c, k, j), MethOf(c, v[i]))
  <2>1. CASE Scanned(k, j, a, n)
    BY <1>3, <1>6, <2>1 DEF Places
  <2>2. CASE k = a /\ j = n
    <3>1. Alike(Meth(c, k, j), MethOf(c, v[Len(w) + 1]))
      BY <1>1, <1>3, <2>2, AlikeLaws
    <3> QED BY <1>3, <3>1
  <2> QED BY <1>6, <2>1, <2>2, ScanOne
<1>7. ASSUME NEW i \in DOMAIN v, MethOf(c, v[i]).dtor, NEW r \in {0, 1}
      PROVE  \E l \in DOMAIN v : v[l] = [k |-> v[i].k, j |-> v[i].j, r |-> r]
  <2>1. i \in DOMAIN w /\ v[i] = w[i]
    BY <1>1, <1>3, <1>7
  <2>2. PICK l \in DOMAIN w : w[l] = [k |-> w[i].k, j |-> w[i].j, r |-> r]
    BY <1>7, <2>1 DEF Places
  <2> QED BY <1>3, <2>1, <2>2
<1>8. Places(c, a, n + 1, v)
  BY <1>3, <1>4, <1>5, <1>6, <1>7 DEF Places
<1> QED BY <1>8 DEF v, p

(* The first virtual destructor gets the next two.                          *)
LEMMA DtorPlaces ==
  ASSUME WellFormed(ctx), NEW c \in DOMAIN ctx, NEW a \in Nat, NEW n \in Nat,
         NEW w, Places(c, a, n, w), Decl(c, a, n), Meth(c, a, n).dtor,
         \A i \in DOMAIN w : ~Alike(Meth(c, a, n), MethOf(c, w[i]))
  PROVE  Places(c, a, n + 1, Append(Append(w, [k |-> a, j |-> n, r |-> 0]),
                                    [k |-> a, j |-> n, r |-> 1]))
<1> DEFINE p == [k |-> a, j |-> n, r |-> 0]
           q == [k |-> a, j |-> n, r |-> 1]
           v == Append(Append(w, p), q)
<1>1. /\ w \in Seq(Place) /\ p \in Place /\ p.k = a /\ p.j = n /\ p.r = 0
      /\ q \in Place /\ q.k = a /\ q.j = n /\ q.r = 1
      /\ Meth(c, a, n) \in Method /\ MethOf(c, p) = Meth(c, a, n) /\ MethOf(c, q) = Meth(c, a, n)
  BY DeclType DEF Places, Place, MethOf
<1>2. \A i \in DOMAIN w : Earlier(w[i], p) /\ Earlier(w[i], q)
  BY PlacesBefore
<1>3. \A r \in {0, 1} : [k |-> a, j |-> n, r |-> r] \in {p, q}
  OBVIOUS
<1> HIDE DEF p, q
<1>4. /\ v \in Seq(Place) /\ DOMAIN v = DOMAIN w \union {Len(w) + 1, Len(w) + 2}
      /\ v[Len(w) + 1] = p /\ v[Len(w) + 2] = q
      /\ \A i \in DOMAIN w : v[i] = w[i] /\ i \in Nat /\ i <= Len(w)
      /\ Len(w) \in Nat
  BY <1>1
<1> HIDE DEF v
<1>5. ASSUME NEW i \in DOMAIN v
      PROVE  /\ FirstDecl(c, v[i].k, v[i].j) /\ Scanned(v[i].k, v[i].j, a, n + 1)
             /\ v[i].r = 1 => MethOf(c, v[i]).dtor
  <2>1. CASE i \in DOMAIN w
    <3>1. w[i].k \in Nat /\ w[i].j \in Nat
      BY <2>1, PlaceType
    <3>2. Scanned(w[i].k, w[i].j, a, n)
      BY <2>1 DEF Places
    <3>3. Scanned(w[i].k, w[i].j, a, n + 1)
      BY <3>1, <3>2, ScanOne
    <3> QED BY <1>4, <2>1, <3>3 DEF Places
  <2>2. CASE v[i] \in {p, q}
    <3>1. FirstDecl(c, a, n)
      BY FreshIsFirst
    <3> QED BY <1>1, <2>2, <3>1, ScanOne
  <2> QED BY <1>4, <2>1, <2>2
<1>6. ASSUME NEW i \in DOMAIN v, NEW l \in DOMAIN v, i < l PROVE Earlier(v[i], v[l])
  <2>1. CASE i \in DOMAIN w /\ l \in DOMAIN w
    BY <1>4, <1>6, <2>1 DEF Places
  <2>2. CASE i \in DOMAIN w /\ l \notin DOMAIN w
    BY <1>2, <1>4, <2>2
  <2>3. CASE i \notin DOMAIN w
    <3>1. i = Len(w) + 1 /\ l = Len(w) + 2
      BY <1>4, <1>6, <2>3
    <3> QED BY <1>1, <1>4, <3>1 DEF Earlier
  <2> QED BY <2>1, <2>2, <2>3
<1>7. ASSUME NEW k \in Nat, NEW j \in Nat, Decl(c, k, j), Scanned(k, j, a, n + 1)
      PROVE  \E i \in DOMAIN v : Alike(Meth(c, k, j), MethOf(c, v[i]))
  <2>1. CASE Scanned(k, j, a, n)
    BY <1>4, <1>7, <2>1 DEF Places
  <2>2. CASE k = a /\ j = n
    <3>1. Alike(Meth(c, k, j), MethOf(c, v[Len(w) + 1]))
      BY <1>1, <1>4, <2>2, AlikeLaws
    <3> QED BY <1>4, <3>1
  <2> QED BY <1>7, <2>1, <2>2, ScanOne
<1>8. ASSUME NEW i \in DOMAIN v, MethOf(c, v[i]).dtor, NEW r \in {0, 1}
      PROVE  \E l \in DOMAIN v : v[l] = [k |-> v[i].k, j |-> v[i].j, r |-> r]
  <2>1. CASE i \in DOMAIN w
    <3>1. PICK l \in DOMAIN w : w[l] = [k |-> w[i].k, j |-> w[i].j, r |-> r]
      BY <1>4, <1>8, <2>1 DEF Places
    <3> QED BY <1>4, <2>1, <3>1
  <2>2. CASE v[i] \in {p, q}
    BY <1>1, <1>3, <1>4, <2>2
  <2> QED BY <1>4, <2>1, <2>2
<1>9. Places(c, a, n + 1, v)
  BY <1>4, <1>5, <1>6, <1>7, <1>8 DEF Places
<1> QED BY <1>9 DEF v, p, q

(* A method has one place.                                                   *)
LEMMA OneMethod ==
  ASSUME WellFormed(ctx), NEW c \in DOMAIN ctx, NEW a \in Nat, NEW n \in Nat,
         NEW w, Places(c, a, n, w), NEW i \in DOMAIN w, NEW l \in DOMAIN w,
         Alike(MethOf(c, w[i]), MethOf(c, w[l])), ~MethOf(c, w[i]).dtor
  PROVE  i = l
<1>1. i \in Nat /\ l \in Nat
  BY DEF Places
<1>2. ~MethOf(c, w[l]).dtor /\ Alike(MethOf(c, w[l]), MethOf(c, w[i]))
  BY PlaceType, AlikeLaws DEF Alike
<1>3. ASSUME NEW x \in DOMAIN w, NEW y \in DOMAIN w, x < y,
             Alike(MethOf(c, w[x]), MethOf(c, w[y])), ~MethOf(c, w[y]).dtor
      PROVE  FALSE
  <2>1. /\ w[x].k \in Nat /\ w[x].j \in Nat /\ Decl(c, w[x].k, w[x].j) /\ w[x].r \in {0, 1}
        /\ FirstDecl(c, w[y].k, w[y].j) /\ w[y].r \in {0, 1}
    BY PlaceType
  <2>2. Earlier(w[x], w[y])
    BY <1>3 DEF Places
  <2>3. w[y].r = 0
    BY <1>3, <2>1 DEF Places
  <2>4. Scanned(w[x].k, w[x].j, w[y].k, w[y].j)
    BY <2>1, <2>2, <2>3 DEF Earlier, Scanned
  <2> QED BY <1>3, <2>1, <2>4 DEF FirstDecl, MethOf
<1> QED BY <1>1, <1>2, <1>3

-----------------------------------------------------------------------------
(* One step of build_virtual_slots. *)

(* A destructor below the one that has the pair is passed over.             *)
LEMMA WalkSkip ==
  ASSUME WellFormed(ctx), NEW c \in DOMAIN ctx, NEW a \in Nat, NEW n \in Nat,
         NEW s, Walked(c, a, n, s), Decl(c, a, n), Meth(c, a, n).dtor,
         \E i \in DOMAIN s : s[i].kind = "D1"
  PROVE  Walked(c, a, n + 1, s)
<1>1. PICK w : /\ Places(c, a, n, w) /\ Len(w) = Len(s)
               /\ \A i \in DOMAIN s : Filled(c, a, n, w[i], s[i])
  BY DEF Walked
<1>2. s \in Seq(SlotSet) /\ w \in Seq(Place) /\ DOMAIN w = DOMAIN s
  BY <1>1 DEF Walked, Places
<1>3. Places(c, a, n + 1, w)
  <2>1. PICK i \in DOMAIN w : s[i].kind = "D1"
    BY <1>2
  <2>2. MethOf(c, w[i]).dtor
    BY <1>1, <1>2, <2>1, PlaceType, SlotKind
  <2>3. Alike(Meth(c, a, n), MethOf(c, w[i]))
    BY <2>2 DEF Alike
  <2> QED BY <1>1, <2>3, SamePlaces
<1>4. ASSUME NEW i \in DOMAIN s PROVE Filled(c, a, n + 1, w[i], s[i])
  BY <1>1, MorePlain DEF PlainAs
<1> QED BY <1>1, <1>2, <1>3, <1>4 DEF Walked

(* The pair is appended at the first virtual destructor.                    *)
LEMMA WalkDtor ==
  ASSUME WellFormed(ctx), NEW c \in DOMAIN ctx, NEW a \in Nat, NEW n \in Nat,
         NEW s, Walked(c, a, n, s), Decl(c, a, n), Meth(c, a, n).dtor,
         \A i \in DOMAIN s : s[i].kind # "D1"
  PROVE  Walked(c, a, n + 1, s \o <<Slot("D1", Chain(c)[a], 0, c, 0),
                                    Slot("D0", Chain(c)[a], 0, c, 0)>>)
<1> DEFINE x == Slot("D1", Chain(c)[a], 0, c, 0)
           y == Slot("D0", Chain(c)[a], 0, c, 0)
           t == s \o <<x, y>>
           p == [k |-> a, j |-> n, r |-> 0]
           q == [k |-> a, j |-> n, r |-> 1]
<1>1. PICK w : /\ Places(c, a, n, w) /\ Len(w) = Len(s)
               /\ \A i \in DOMAIN s : Filled(c, a, n, w[i], s[i])
  BY DEF Walked
<1>2. s \in Seq(SlotSet) /\ w \in Seq(Place) /\ DOMAIN w = DOMAIN s
  BY <1>1 DEF Walked, Places
<1> DEFINE v == Append(Append(w, p), q)
<1>3. ASSUME NEW i \in DOMAIN w PROVE ~Alike(Meth(c, a, n), MethOf(c, w[i]))
  <2> SUFFICES ASSUME MethOf(c, w[i]).dtor PROVE FALSE
    BY DEF Alike
  <2>1. PICK l \in DOMAIN w : w[l] = [k |-> w[i].k, j |-> w[i].j, r |-> 0]
    BY <1>1 DEF Places
  <2>2. w[l].r = 0 /\ MethOf(c, w[l]).dtor
    BY <2>1 DEF MethOf
  <2>3. s[l].kind = "D1"
    BY <1>1, <1>2, <2>2, PlaceType, SlotKind
  <2> QED BY <1>2, <2>3
<1>4. Places(c, a, n + 1, v)
  BY <1>1, <1>3, DtorPlaces
<1>5. /\ p \in Place /\ p.k = a /\ p.r = 0 /\ MethOf(c, p).dtor
      /\ q \in Place /\ q.k = a /\ q.r = 1 /\ MethOf(c, q).dtor
  BY DEF Place, MethOf
<1>6. x \in SlotSet /\ y \in SlotSet
  BY DeclType DEF SlotSet, Slot
<1>7. Filled(c, a, n + 1, p, x) /\ Filled(c, a, n + 1, q, y)
  BY <1>5 DEF Filled
<1> HIDE DEF p, q, x, y
<1>8. /\ t \in Seq(SlotSet) /\ DOMAIN t = DOMAIN s \union {Len(s) + 1, Len(s) + 2}
      /\ t[Len(s) + 1] = x /\ t[Len(s) + 2] = y /\ \A i \in DOMAIN s : t[i] = s[i]
      /\ Len(t) = Len(s) + 2
  BY <1>2, <1>6
<1>9. /\ v[Len(s) + 1] = p /\ v[Len(s) + 2] = q /\ \A i \in DOMAIN s : v[i] = w[i]
      /\ Len(v) = Len(s) + 2
  BY <1>1, <1>2, <1>5
<1> HIDE DEF t, v
<1>10. ASSUME NEW i \in DOMAIN t PROVE Filled(c, a, n + 1, v[i], t[i])
  <2>1. CASE i \in DOMAIN s
    <3>1. Filled(c, a, n + 1, w[i], s[i])
      BY <1>1, <2>1, MorePlain DEF PlainAs
    <3> QED BY <1>8, <1>9, <2>1, <3>1
  <2> QED BY <1>7, <1>8, <1>9, <2>1
<1>11. Walked(c, a, n + 1, t)
  BY <1>4, <1>8, <1>9, <1>10 DEF Walked
<1> QED BY <1>11 DEF t, x, y

(* A slot is appended for a signature that has none.                        *)
LEMMA WalkNew ==
  ASSUME WellFormed(ctx), NEW c \in DOMAIN ctx, NEW a \in Nat, NEW n \in Nat,
         NEW s, Walked(c, a, n, s), Decl(c, a, n), ~Meth(c, a, n).dtor,
         \A i \in DOMAIN s : ~(s[i].kind = "Method" /\ SlotSig(s[i]) = Meth(c, a, n).sig)
  PROVE  Walked(c, a, n + 1, Append(s, Slot("Method", Chain(c)[a], n, Chain(c)[a], n)))
<1> DEFINE x == Slot("Method", Chain(c)[a], n, Chain(c)[a], n)
           t == Append(s, x)
           p == [k |-> a, j |-> n, r |-> 0]
<1>1. PICK w : /\ Places(c, a, n, w) /\ Len(w) = Len(s)
               /\ \A i \in DOMAIN s : Filled(c, a, n, w[i], s[i])
  BY DEF Walked
<1>2. s \in Seq(SlotSet) /\ w \in Seq(Place) /\ DOMAIN w = DOMAIN s
  BY <1>1 DEF Walked, Places
<1> DEFINE v == Append(w, p)
<1>3. ASSUME NEW i \in DOMAIN w
      PROVE  /\ ~Alike(Meth(c, a, n), MethOf(c, w[i]))
             /\ MethOf(c, w[i]).dtor \/ ~PlainAs(c, a, n, MethOf(c, w[i]).sig)
  <2>1. ~MethOf(c, w[i]).dtor => MethOf(c, w[i]).sig # Meth(c, a, n).sig
    BY <1>1, <1>2, PlaceType, SlotKind
  <2> QED BY <2>1 DEF Alike, PlainAs
<1>4. Places(c, a, n + 1, v)
  BY <1>1, <1>3, MethodPlace
<1>5. p \in Place /\ p.k = a /\ p.j = n /\ MethOf(c, p) = Meth(c, a, n)
  BY DEF Place, MethOf
<1>6. /\ x \in SlotSet /\ x.kind = "Method" /\ x.origin = Chain(c)[a] /\ x.idx = n
      /\ x.overrider = Chain(c)[a] /\ x.overIdx = n
  BY DeclType DEF SlotSet, Slot
<1>7. Filled(c, a, n + 1, p, x)
  <2>1. PlainAs(c, a, n, MethOf(c, p).sig) /\ Scanned(a, n, a, n + 1)
    BY <1>5, ScanOne DEF PlainAs
  <2>2. \A k, j \in Nat : Scanned(k, j, a, n + 1) => k <= a
    BY DEF Scanned
  <2> HIDE DEF p, x
  <2> QED BY <1>5, <1>6, <2>1, <2>2 DEF Filled
<1> HIDE DEF p, x
<1>8. /\ t \in Seq(SlotSet) /\ DOMAIN t = DOMAIN s \union {Len(s) + 1}
      /\ t[Len(s) + 1] = x /\ \A i \in DOMAIN s : t[i] = s[i]
      /\ Len(t) = Len(s) + 1
  BY <1>2, <1>6
<1>9. v[Len(s) + 1] = p /\ (\A i \in DOMAIN s : v[i] = w[i]) /\ Len(v) = Len(s) + 1
  BY <1>1, <1>2, <1>5
<1> HIDE DEF t, v
<1>10. ASSUME NEW i \in DOMAIN t PROVE Filled(c, a, n + 1, v[i], t[i])
  <2>1. CASE i \in DOMAIN s
    <3>1. Filled(c, a, n + 1, w[i], s[i])
      BY <1>1, <1>2, <1>3, <2>1, MorePlain
    <3> QED BY <1>8, <1>9, <2>1, <3>1
  <2> QED BY <1>7, <1>8, <1>9, <2>1
<1>11. Walked(c, a, n + 1, t)
  BY <1>4, <1>8, <1>9, <1>10 DEF Walked
<1> QED BY <1>11 DEF t, x

(* The slot of the signature gets the declaration as its overrider.         *)
LEMMA WalkOverride ==
  ASSUME WellFormed(ctx), NEW c \in DOMAIN ctx, NEW a \in Nat, NEW n \in Nat,
         NEW s, Walked(c, a, n, s), Decl(c, a, n), ~Meth(c, a, n).dtor,
         NEW i \in DOMAIN s, s[i].kind = "Method", SlotSig(s[i]) = Meth(c, a, n).sig,
         NEW t, t = [s EXCEPT ![i] = [s[i] EXCEPT !.overrider = Chain(c)[a], !.overIdx = n]]
  PROVE  Walked(c, a, n + 1, t)
<1>1. PICK w : /\ Places(c, a, n, w) /\ Len(w) = Len(s)
               /\ \A l \in DOMAIN s : Filled(c, a, n, w[l], s[l])
  BY DEF Walked
<1>2. s \in Seq(SlotSet) /\ w \in Seq(Place) /\ DOMAIN w = DOMAIN s /\ s[i] \in SlotSet
  BY <1>1 DEF Walked, Places
<1>3. ~MethOf(c, w[i]).dtor /\ MethOf(c, w[i]).sig = Meth(c, a, n).sig
  BY <1>1, <1>2, PlaceType, SlotKind
<1>4. Places(c, a, n + 1, w)
  <2>1. Alike(Meth(c, a, n), MethOf(c, w[i]))
    BY <1>3 DEF Alike
  <2> QED BY <1>1, <1>2, <2>1, SamePlaces
<1> DEFINE old == s[i]
<1>5. PICK x : x = [old EXCEPT !.overrider = Chain(c)[a], !.overIdx = n]
  OBVIOUS
<1>6. /\ x \in SlotSet /\ x.kind = "Method" /\ x.origin = s[i].origin /\ x.idx = s[i].idx
      /\ x.overrider = Chain(c)[a] /\ x.overIdx = n
  <2>1. Chain(c)[a] \in DOMAIN ctx
    BY DeclType
  <2>2. old \in SlotSet /\ old.kind = "Method" /\ old.origin = s[i].origin /\ old.idx = s[i].idx
    BY <1>2
  <2> HIDE DEF old
  <2>3. /\ x \in SlotSet /\ x.kind = old.kind /\ x.origin = old.origin /\ x.idx = old.idx
        /\ x.overrider = Chain(c)[a] /\ x.overIdx = n
    BY <1>5, <2>1, <2>2 DEF SlotSet
  <2> QED BY <2>2, <2>3
<1>7. /\ t \in Seq(SlotSet) /\ DOMAIN t = DOMAIN s /\ Len(t) = Len(s)
      /\ t[i] = x /\ \A l \in DOMAIN s : l # i => t[l] = s[l]
  BY <1>2, <1>5, <1>6
<1>8. ASSUME NEW l \in DOMAIN s, l # i PROVE Filled(c, a, n + 1, w[l], s[l])
  <2>1. ~MethOf(c, w[l]).dtor => MethOf(c, w[l]).sig # MethOf(c, w[i]).sig
    BY <1>1, <1>2, <1>3, <1>8, OneMethod DEF Alike
  <2> QED BY <1>1, <1>2, <1>3, <2>1, MorePlain DEF PlainAs
<1>9. Filled(c, a, n + 1, w[i], x)
  <2>1. PlainAs(c, a, n, MethOf(c, w[i]).sig) /\ Scanned(a, n, a, n + 1)
    BY <1>3, ScanOne DEF PlainAs
  <2>2. \A k, j \in Nat : Scanned(k, j, a, n + 1) => k <= a
    BY DEF Scanned
  <2>3. s[i].origin = Chain(c)[w[i].k] /\ s[i].idx = w[i].j
    BY <1>1, <1>3 DEF Filled
  <2> QED BY <1>3, <1>6, <2>1, <2>2, <2>3 DEF Filled
<1> QED BY <1>1, <1>4, <1>7, <1>8, <1>9 DEF Walked
-----------------------------------------------------------------------------
(* The definitions above are about the classes, which no step changes.       *)

ChainOf(prog, c) ==
  LET first(d) == SelectInSeq(prog[d].bases, LAMBDA b : ~b.virt)
      up[d \in 1 .. c] == IF first(d) = 0 THEN <<d>> ELSE Append(up[prog[d].bases[first(d)].class], d)
  IN up[c]

(* Chains and walks mean the same in the next state.                        *)
LEMMA Rigid ==
  ASSUME ctx' = ctx
  PROVE  /\ WellFormed(ctx)' <=> WellFormed(ctx)
         /\ \A c : Chain(c)' = Chain(c)
         /\ \A c, a, n, s : Walked(c, a, n, s)' <=> Walked(c, a, n, s)
         /\ \A c, s : Built(c, s)' <=> Built(c, s)
<1>1. ASSUME NEW c PROVE Chain(c)' = Chain(c)
  <2>1. Chain(c) = ChainOf(ctx, c)
    BY DEF Chain, FirstNonVirtual, ChainOf, SelectInSeq, Min
  <2>2. Chain(c)' = ChainOf(ctx', c)
    BY DEF Chain, FirstNonVirtual, ChainOf, SelectInSeq, Min
  <2> QED BY <2>1, <2>2
<1>5. ASSUME NEW c, NEW a, NEW n, NEW w PROVE Places(c, a, n, w)' <=> Places(c, a, n, w)
  <2>1. Chain(c)' = Chain(c)
    BY <1>1
  <2> QED BY <2>1 DEF Places, FirstDecl, Decl, MethOf, Meth, IsVirtual, Alike, Scanned, Earlier, Place
<1>7. ASSUME NEW c, NEW a, NEW n, NEW p, NEW s PROVE Filled(c, a, n, p, s)' <=> Filled(c, a, n, p, s)
  <2>1. Chain(c)' = Chain(c)
    BY <1>1
  <2> QED BY <2>1 DEF Filled, PlainAs, Decl, MethOf, Meth, IsVirtual, Slot, Scanned
<1>8. SlotSet' = SlotSet
  BY DEF SlotSet
<1>9. ASSUME NEW c, NEW a, NEW n, NEW s PROVE Walked(c, a, n, s)' <=> Walked(c, a, n, s)
  BY <1>5, <1>7, <1>8 DEF Walked
<1>10. ASSUME NEW c, NEW s PROVE Built(c, s)' <=> Built(c, s)
  BY <1>1, <1>9 DEF Built
<1>11. WellFormed(ctx)' <=> WellFormed(ctx)
  OBVIOUS
<1> QED BY <1>1, <1>9, <1>10, <1>11

(* Before the first declaration the empty table is right.                   *)
LEMMA WalkStart ==
  ASSUME WellFormed(ctx), NEW c \in DOMAIN ctx
  PROVE  Walked(c, 1, 1, << >>)
<1>1. Places(c, 1, 1, << >>)
  <2>1. ASSUME NEW k, NEW j, Decl(c, k, j) PROVE ~Scanned(k, j, 1, 1)
    BY <2>1, DeclType DEF Scanned
  <2> QED BY <2>1 DEF Places
<1> QED BY <1>1 DEF Walked

(* No table is built and none is under way.                                 *)
LEMMA InitHolds == Init => IInv
<1> SUFFICES ASSUME Init PROVE IInv
  OBVIOUS
<1>1. WellFormed(ctx) /\ ctx \in Seq(Class)
  BY ProgramAssumption DEF Init, WellFormed
<1>2. tables = << >> /\ phase = "idle" /\ at = 1 /\ m = 1
  BY DEF Init
<1>3. tables \in Seq(Nat) /\ Len(tables) = 0 /\ ClassIds = {}
  BY <1>2 DEF ClassIds
<1> QED BY <1>1, <1>2, <1>3 DEF IInv

(* While a class is under way, so far its walk is right.                    *)
LEMMA Current ==
  ASSUME IInv, phase # "idle"
  PROVE  /\ self \in DOMAIN ctx /\ self \in Nat /\ at \in Nat /\ m \in Nat /\ WellFormed(ctx)
         /\ Walked(self, at, m, slots) /\ Chain(self) \in Seq(1 .. self)
         /\ DOMAIN Chain(self) = 1 .. Len(Chain(self))
<1>1. ctx \in Seq(Class) /\ Len(tables) \in Nat
  BY DEF IInv, WellFormed
<1>2. self \in DOMAIN ctx /\ self \in Nat
  BY <1>1 DEF IInv, self
<1> QED BY <1>2, ChainElem DEF IInv

(* A step of the walk that keeps Walked keeps the invariant.                *)
LEMMA SlotStep ==
  ASSUME IInv, phase = "slots", ctx' = ctx, tables' = tables, phase' = phase,
         at' \in Nat \ {0}, m' \in Nat \ {0}, Walked(self, at', m', slots')
  PROVE  IInv'
<1>1. self' = self
  BY DEF self
<1>2. Walked(self, at, m, slots)'
  BY <1>1, Rigid
<1>3. ASSUME NEW c \in ClassIds'
      PROVE  (IF tables[c].poly THEN Built(c, tables[c].slots) ELSE tables[c].slots = << >>)'
  BY <1>3, Rigid DEF IInv, ClassIds
<1> QED BY <1>1, <1>2, <1>3, Rigid DEF IInv

(* Where the walk stands is a declaration exactly if it is virtual.         *)
LEMMA AtDecl ==
  ASSUME IInv, AtMethod
  PROVE  /\ phase = "slots" /\ phase # "idle" /\ here = Chain(self)[at] /\ method = Meth(self, at, m)
         /\ at \in DOMAIN Chain(self) /\ m \in DOMAIN ctx[here].methods
         /\ m + 1 \in Nat \ {0}
         /\ Decl(self, at, m) <=> IsVirtual(here, m)
<1>1. phase = "slots" /\ at <= Len(Chain(self)) /\ m <= Len(ctx[here].methods)
  BY DEF AtMethod, Walking
<1>2. at \in DOMAIN Chain(self)
  BY <1>1, Current DEF IInv
<1>3. ctx[here].methods \in Seq(Method)
  BY <1>1, <1>2, Current, ChainElem DEF here
<1>4. m \in DOMAIN ctx[here].methods
  BY <1>1, <1>3 DEF IInv
<1> QED BY <1>1, <1>2, <1>4 DEF here, method, Meth, Decl, IInv

(* The end of one class of the chain is the start of the next.              *)
LEMMA NextClassKeeps ==
  ASSUME IInv, NextClass
  PROVE  IInv'
<1>1. /\ phase = "slots" /\ at <= Len(Chain(self)) /\ m > Len(ctx[here].methods)
      /\ ctx' = ctx /\ tables' = tables /\ phase' = phase /\ slots' = slots
      /\ at' = at + 1 /\ m' = 1
  BY DEF NextClass, Walking
<1>2. at \in DOMAIN Chain(self) /\ at \in Nat
  BY <1>1, Current DEF IInv
<1>3. ctx[Chain(self)[at]].methods \in Seq(Method)
  BY <1>1, <1>2, Current, ChainElem
<1>4. ASSUME NEW k \in Nat, NEW j \in Nat, Decl(self, k, j)
      PROVE  Scanned(k, j, at, m) <=> Scanned(k, j, at + 1, 1)
  <2>1. k \in Nat \ {0} /\ j \in Nat \ {0}
    BY <1>1, <1>4, Current, DeclType
  <2>2. k = at => j < m
    BY <1>1, <1>2, <1>3, <1>4, Current DEF Decl, here
  <2> QED BY <1>2, <2>1, <2>2 DEF Scanned
<1>5. Walked(self, at + 1, 1, slots)
  <2>1. /\ self \in DOMAIN ctx /\ at \in Nat /\ m \in Nat /\ at + 1 \in Nat /\ WellFormed(ctx)
        /\ Walked(self, at, m, slots)
    BY <1>1, Current
  <2>2. \A k, j \in Nat : Decl(self, k, j) => (Scanned(k, j, at, m) <=> Scanned(k, j, at + 1, 1))
    BY <1>4
  <2> QED BY <2>1, <2>2, SameScan
<1> QED BY <1>1, <1>2, <1>5, SlotStep

(* A method outside the table, or a second destructor.                      *)
LEMMA SkipKeeps ==
  ASSUME IInv, SkipMethod
  PROVE  IInv'
<1>1. /\ AtMethod /\ ctx' = ctx /\ tables' = tables /\ phase' = phase /\ slots' = slots
      /\ at' = at /\ m' = m + 1 /\ (~IsVirtual(here, m) \/ (method.dtor /\ DtorEmitted))
  BY DEF SkipMethod
<1>2. /\ phase = "slots" /\ method = Meth(self, at, m) /\ m + 1 \in Nat \ {0}
      /\ Decl(self, at, m) <=> IsVirtual(here, m)
  BY <1>1, AtDecl
<1>3. /\ self \in DOMAIN ctx /\ at \in Nat /\ m \in Nat /\ WellFormed(ctx)
      /\ Walked(self, at, m, slots)
  BY <1>2, Current
<1>4. Walked(self, at, m + 1, slots)
  <2>1. CASE ~IsVirtual(here, m)
    <3>1. ASSUME NEW k \in Nat, NEW j \in Nat, Decl(self, k, j)
          PROVE  Scanned(k, j, at, m) <=> Scanned(k, j, at, m + 1)
      BY <1>2, <1>3, <2>1, <3>1, ScanOne
    <3>2. \A k, j \in Nat : Decl(self, k, j) => (Scanned(k, j, at, m) <=> Scanned(k, j, at, m + 1))
      BY <3>1
    <3> QED BY <1>2, <1>3, <3>2, SameScan
  <2>2. CASE IsVirtual(here, m) /\ method.dtor /\ DtorEmitted
    BY <1>2, <1>3, <2>2, WalkSkip DEF DtorEmitted
  <2> QED BY <1>1, <2>1, <2>2
<1> QED BY <1>1, <1>2, <1>4, SlotStep DEF IInv

(* The destructor pair.                                                     *)
LEMMA PlaceDtorKeeps ==
  ASSUME IInv, PlaceDtor
  PROVE  IInv'
<1>1. /\ AtMethod /\ ctx' = ctx /\ tables' = tables /\ phase' = phase /\ slots' = slots \o DtorPair
      /\ at' = at /\ m' = m + 1 /\ IsVirtual(here, m) /\ method.dtor /\ ~DtorEmitted
  BY DEF PlaceDtor, WithDtor
<1>2. /\ phase = "slots" /\ method = Meth(self, at, m) /\ m + 1 \in Nat \ {0}
      /\ Decl(self, at, m) /\ here = Chain(self)[at]
  BY <1>1, AtDecl
<1>3. /\ self \in DOMAIN ctx /\ at \in Nat /\ m \in Nat /\ WellFormed(ctx)
      /\ Walked(self, at, m, slots)
  BY <1>2, Current
<1>4. Walked(self, at, m + 1, slots')
  BY <1>1, <1>2, <1>3, WalkDtor DEF DtorEmitted, DtorPair
<1> QED BY <1>1, <1>2, <1>4, SlotStep DEF IInv

(* find_override_target found the slot of the signature.                    *)
LEMMA OverrideKeeps ==
  ASSUME IInv, Override
  PROVE  IInv'
<1>1. /\ AtMethod /\ ctx' = ctx /\ tables' = tables /\ phase' = phase
      /\ at' = at /\ m' = m + 1 /\ IsVirtual(here, m) /\ ~method.dtor
  BY DEF Override
<1>2. PICK i \in DOMAIN slots : Overrides(i) /\ slots' = Overridden(i)
  BY DEF Override
<1>3. /\ phase = "slots" /\ method = Meth(self, at, m) /\ m + 1 \in Nat \ {0}
      /\ Decl(self, at, m) /\ here = Chain(self)[at]
  BY <1>1, AtDecl
<1>4. /\ self \in DOMAIN ctx /\ at \in Nat /\ m \in Nat /\ WellFormed(ctx)
      /\ Walked(self, at, m, slots)
  BY <1>3, Current
<1>5. slots[i].kind = "Method" /\ SlotSig(slots[i]) = Meth(self, at, m).sig
  BY <1>2, <1>3 DEF Overrides
<1>6. slots' = [slots EXCEPT ![i] = [slots[i] EXCEPT !.overrider = Chain(self)[at], !.overIdx = m]]
  <2>1. slots \in Seq(SlotSet) /\ slots[i] \in SlotSet
    BY <1>4 DEF Walked
  <2> QED BY <1>2, <1>3, <2>1 DEF Overridden, SlotSet
<1>7. Walked(self, at, m + 1, slots')
  BY <1>1, <1>3, <1>4, <1>5, <1>6, WalkOverride
<1> QED BY <1>1, <1>3, <1>7, SlotStep DEF IInv

(* find_override_target found none.                                         *)
LEMMA NewSlotKeeps ==
  ASSUME IInv, NewSlot
  PROVE  IInv'
<1>1. /\ AtMethod /\ ctx' = ctx /\ tables' = tables /\ phase' = phase
      /\ slots' = Append(slots, Slot("Method", here, m, here, m))
      /\ at' = at /\ m' = m + 1 /\ IsVirtual(here, m) /\ ~method.dtor
      /\ \A i \in DOMAIN slots : ~Overrides(i)
  BY DEF NewSlot
<1>2. /\ phase = "slots" /\ method = Meth(self, at, m) /\ m + 1 \in Nat \ {0}
      /\ Decl(self, at, m) /\ here = Chain(self)[at]
  BY <1>1, AtDecl
<1>3. /\ self \in DOMAIN ctx /\ at \in Nat /\ m \in Nat /\ WellFormed(ctx)
      /\ Walked(self, at, m, slots)
  BY <1>2, Current
<1>4. \A i \in DOMAIN slots : ~(slots[i].kind = "Method" /\ SlotSig(slots[i]) = Meth(self, at, m).sig)
  BY <1>1, <1>2 DEF Overrides
<1>5. Walked(self, at, m + 1, slots')
  BY <1>1, <1>2, <1>3, <1>4, WalkNew
<1> QED BY <1>1, <1>2, <1>5, SlotStep DEF IInv

(* The steps outside the walk keep the slots; the last of them files them.  *)
LEMMA OutsideKeeps ==
  ASSUME IInv, NoVTable \/ BeginVTable \/ SlotsDone \/ BuildSecondary \/ SkipSubobject \/ FinishVTable
  PROVE  IInv'
<1>1. /\ ctx' = ctx /\ WellFormed(ctx) /\ ctx \in Seq(Class) /\ Len(tables) \in Nat
      /\ self \in Nat /\ ClassIds = 1 .. Len(tables)
  <2>1. ctx' = ctx
    BY DEF NoVTable, BeginVTable, SlotsDone, BuildSecondary, SkipSubobject, FinishVTable
  <2>2. PICK S : tables \in Seq(S)
    BY DEF IInv
  <2>3. WellFormed(ctx) /\ ctx \in Seq(Class)
    BY DEF IInv, WellFormed
  <2> QED BY <2>1, <2>2, <2>3 DEF self, ClassIds
<1>2. ASSUME NEW x, tables' = Append(tables, x),
             IF x.poly THEN Built(self, x.slots) ELSE x.slots = << >>
      PROVE  /\ \E S : tables' \in Seq(S)
             /\ Len(tables') = self
             /\ \A c \in ClassIds' :
                  (IF tables[c].poly THEN Built(c, tables[c].slots) ELSE tables[c].slots = << >>)'
  <2>1. PICK S : tables \in Seq(S)
    BY DEF IInv
  <2>2. /\ tables' \in Seq(S \union {x}) /\ Len(tables') = self /\ ClassIds' = ClassIds \union {self}
        /\ tables'[self] = x /\ \A c \in ClassIds : tables'[c] = tables[c]
    BY <1>1, <1>2, <2>1 DEF self, ClassIds
  <2>3. ASSUME NEW c \in ClassIds'
        PROVE  (IF tables[c].poly THEN Built(c, tables[c].slots) ELSE tables[c].slots = << >>)'
    BY <1>1, <1>2, <2>2, <2>3, Rigid DEF IInv
  <2> QED BY <2>2, <2>3
<1>3. ASSUME tables' = tables
      PROVE  /\ \E S : tables' \in Seq(S)
             /\ Len(tables') <= Len(ctx)'
             /\ \A c \in ClassIds' :
                  (IF tables[c].poly THEN Built(c, tables[c].slots) ELSE tables[c].slots = << >>)'
  <2>1. ASSUME NEW c \in ClassIds'
        PROVE  (IF tables[c].poly THEN Built(c, tables[c].slots) ELSE tables[c].slots = << >>)'
    BY <1>1, <1>3, <2>1, Rigid DEF IInv, ClassIds
  <2> QED BY <1>1, <1>3, <2>1 DEF IInv
<1>4. CASE NoVTable
  <2>1. /\ phase = "idle" /\ self <= Len(ctx) /\ phase' = phase /\ at' = at /\ m' = m
        /\ tables' = Append(tables, Table(FALSE, NoIndex))
    BY <1>4 DEF NoVTable
  <2>2. ~Table(FALSE, NoIndex).poly /\ Table(FALSE, NoIndex).slots = << >>
    BY DEF Table
  <2> QED BY <1>1, <1>2, <2>1, <2>2, Rigid DEF IInv
<1>5. CASE BeginVTable
  <2>1. /\ phase = "idle" /\ self <= Len(ctx) /\ phase' = "slots" /\ at' = 1 /\ m' = 1
        /\ slots' = << >> /\ tables' = tables
    BY <1>5 DEF BeginVTable
  <2>2. self \in DOMAIN ctx /\ self' = self
    BY <1>1, <2>1 DEF self
  <2>3. Walked(self, at, m, slots)'
    BY <1>1, <2>1, <2>2, WalkStart, Rigid
  <2> QED BY <1>1, <1>3, <2>1, <2>2, <2>3, Rigid DEF IInv
<1>6. CASE SlotsDone \/ BuildSecondary \/ SkipSubobject
  <2>1. /\ phase # "idle" /\ phase' = "subs" /\ at' = at /\ m' = m /\ slots' = slots
        /\ tables' = tables /\ self' = self
        /\ at > Len(Chain(self))
    BY <1>6 DEF SlotsDone, BuildSecondary, SkipSubobject, AtSubobject, self, IInv
  <2>2. Walked(self, at, m, slots)' /\ (at > Len(Chain(self)))'
    BY <1>1, <2>1, Rigid DEF IInv
  <2> QED BY <1>1, <1>3, <2>1, <2>2, Rigid DEF IInv
<1>7. CASE FinishVTable
  <2> DEFINE table == Table(TRUE, [k \in DOMAIN ctx[self].methods |-> Rank(k)])
  <2>1. /\ phase = "subs" /\ phase' = "idle" /\ at' = at /\ m' = m
        /\ tables' = Append(tables, table)
    BY <1>7 DEF FinishVTable
  <2>2. table.poly /\ table.slots = slots
    BY DEF Table
  <2>3. /\ self \in DOMAIN ctx /\ at \in Nat /\ m \in Nat /\ Walked(self, at, m, slots)
        /\ Chain(self) \in Seq(1 .. self) /\ at > Len(Chain(self)) /\ self <= Len(ctx)
    BY <2>1, Current DEF IInv
  <2>4. Built(self, slots)
    <3>1. ASSUME NEW k \in Nat, NEW j \in Nat, Decl(self, k, j)
          PROVE  Scanned(k, j, at, m) <=> Scanned(k, j, Len(Chain(self)) + 1, 1)
      BY <2>3, <3>1 DEF Decl, Scanned
    <3>2. \A k, j \in Nat : Decl(self, k, j) =>
             (Scanned(k, j, at, m) <=> Scanned(k, j, Len(Chain(self)) + 1, 1))
      BY <3>1
    <3>3. Len(Chain(self)) + 1 \in Nat
      BY <2>3
    <3> QED BY <1>1, <2>3, <3>2, <3>3, SameScan DEF Built
  <2> HIDE DEF table
  <2> QED BY <1>1, <1>2, <2>1, <2>2, <2>3, <2>4, Rigid DEF IInv
<1> QED BY <1>4, <1>5, <1>6, <1>7

(* Every table, finished or under way, is the one its chain calls for       *)
(* (vtable.rs, build_virtual_slots): in the order of the chain, a slot for  *)
(* each first declaration of a virtual function, a pair for the first       *)
(* virtual destructor, each with the last overrider.                        *)
THEOREM TablesInvariant == Spec => []IInv
<1>1. IInv /\ [Next]_vars => IInv'
  <2> SUFFICES ASSUME IInv, [Next]_vars PROVE IInv'
    OBVIOUS
  <2>1. CASE UNCHANGED vars
    <3>1. ctx' = ctx /\ self' = self
      BY <2>1 DEF vars, self
    <3>2. Walked(self, at, m, slots)' <=> Walked(self, at, m, slots)
      BY <2>1, <3>1, Rigid DEF vars
    <3>3. Chain(self)' = Chain(self)
      BY <3>1, Rigid
    <3>4. ASSUME NEW c \in ClassIds'
          PROVE  (IF tables[c].poly THEN Built(c, tables[c].slots) ELSE tables[c].slots = << >>)'
      BY <2>1, <3>1, <3>4, Rigid DEF vars, IInv, ClassIds
    <3> QED BY <2>1, <3>1, <3>2, <3>3, <3>4 DEF vars, IInv
  <2>2. CASE Next
    BY <2>2, NextClassKeeps, SkipKeeps, PlaceDtorKeeps, OverrideKeeps, NewSlotKeeps, OutsideKeeps
       DEF Next
  <2> QED BY <2>1, <2>2
<1> QED BY <1>1, InitHolds, PTL DEF Spec
-----------------------------------------------------------------------------
(* What a finished table is. *)

(* A finished table lists the places of all the declarations of its chain.  *)
LEMMA BuiltParts ==
  ASSUME WellFormed(ctx), NEW c \in DOMAIN ctx, NEW s, Built(c, s)
  PROVE  /\ c \in Nat /\ s \in Seq(SlotSet)
         /\ \E w : \E a \in Nat, n \in Nat :
              /\ Places(c, a, n, w) /\ Len(w) = Len(s) /\ DOMAIN w = DOMAIN s
              /\ \A i \in DOMAIN s : Filled(c, a, n, w[i], s[i])
              /\ \A k, j \in Nat : Decl(c, k, j) => Scanned(k, j, a, n)
<1> DEFINE a == Len(Chain(c)) + 1
<1>1. Chain(c) \in Seq(1 .. c) /\ DOMAIN Chain(c) = 1 .. Len(Chain(c)) /\ Len(Chain(c)) \in Nat
      /\ c \in Nat
  BY ChainElem
<1>2. PICK w : /\ Places(c, a, 1, w) /\ Len(w) = Len(s) /\ s \in Seq(SlotSet)
               /\ \A i \in DOMAIN s : Filled(c, a, 1, w[i], s[i])
  BY DEF Built, Walked
<1>3. w \in Seq(Place)
  BY <1>2 DEF Places
<1>4. DOMAIN w = DOMAIN s
  BY <1>2, <1>3
<1>5. \A k, j \in Nat : Decl(c, k, j) => Scanned(k, j, a, 1)
  BY <1>1 DEF Decl, Scanned
<1>6. a \in Nat
  BY <1>1
<1> HIDE DEF a
<1> QED BY <1>1, <1>2, <1>4, <1>5, <1>6

(* The table of a polymorphic class is finished, that of another is empty.  *)
LEMMA TableParts ==
  ASSUME IInv, NEW c \in ClassIds
  PROVE  /\ WellFormed(ctx) /\ c \in DOMAIN ctx
         /\ IF tables[c].poly THEN Built(c, tables[c].slots) ELSE tables[c].slots = << >>
<1>1. ctx \in Seq(Class)
  BY DEF IInv, WellFormed
<1>2. c \in 1 .. Len(tables)
  BY DEF IInv, ClassIds
<1> QED BY <1>1, <1>2 DEF IInv

(* FinalOverrider: every slot of a finished table points at the last class  *)
(* of the chain that declares its signature, and at the method that does    *)
(* (vtable.rs, build_virtual_slots and find_override_target).               *)
THEOREM OverriderCorrect == Spec => []FinalOverrider
<1>1. IInv => FinalOverrider
  <2> SUFFICES ASSUME IInv, NEW c \in ClassIds, tables[c].poly, NEW i \in DOMAIN tables[c].slots,
                      tables[c].slots[i].kind = "Method"
               PROVE  LET s == tables[c].slots[i]
                          decls == {k \in DOMAIN Chain(c) : VirtualIn(Chain(c)[k], SlotSig(s)) # {}}
                      IN \E k \in decls :
                           /\ \A l \in decls : l <= k
                           /\ s.overrider = Chain(c)[k]
                           /\ s.overIdx \in VirtualIn(Chain(c)[k], SlotSig(s))
    BY DEF FinalOverrider
  <2> DEFINE s == tables[c].slots[i]
             decls == {k \in DOMAIN Chain(c) : VirtualIn(Chain(c)[k], SlotSig(s)) # {}}
  <2>1. WellFormed(ctx) /\ c \in DOMAIN ctx /\ Built(c, tables[c].slots)
    BY TableParts
  <2>2. PICK w : \E a \in Nat, n \in Nat :
              /\ Places(c, a, n, w) /\ DOMAIN w = DOMAIN tables[c].slots
              /\ Filled(c, a, n, w[i], s)
              /\ \A k, j \in Nat : Decl(c, k, j) => Scanned(k, j, a, n)
    BY <2>1, BuiltParts
  <2>3. PICK a \in Nat, n \in Nat :
              /\ Places(c, a, n, w) /\ DOMAIN w = DOMAIN tables[c].slots
              /\ Filled(c, a, n, w[i], s)
              /\ \A k, j \in Nat : Decl(c, k, j) => Scanned(k, j, a, n)
    BY <2>2
  <2> DEFINE p == w[i]
  <2>4. p \in Place /\ MethOf(c, p) \in Method
    BY <2>1, <2>3, PlaceType
  <2> HIDE DEF p, s
  <2>5. Filled(c, a, n, p, s) /\ s.kind = "Method"
    BY <2>3 DEF p, s
  <2>6. ~MethOf(c, p).dtor /\ SlotSig(s) = MethOf(c, p).sig
    BY <2>4, <2>5, SlotKind
  <2>7. PICK l \in Nat, o \in Nat :
            /\ PlainAs(c, l, o, SlotSig(s))
            /\ s.overrider = Chain(c)[l] /\ s.overIdx = o
            /\ \A k, j \in Nat : PlainAs(c, k, j, SlotSig(s)) /\ Scanned(k, j, a, n) => k <= l
    BY <2>5, <2>6 DEF Filled
  <2>8. ASSUME NEW k \in DOMAIN Chain(c), NEW j
        PROVE  j \in VirtualIn(Chain(c)[k], SlotSig(s)) <=> PlainAs(c, k, j, SlotSig(s))
    BY <2>8 DEF VirtualIn, PlainAs, Decl, Meth
  <2>9. l \in decls /\ s.overIdx \in VirtualIn(Chain(c)[l], SlotSig(s))
    BY <2>7, <2>8 DEF PlainAs, Decl
  <2>10. ASSUME NEW k \in decls PROVE k <= l
    <3>1. PICK j : j \in VirtualIn(Chain(c)[k], SlotSig(s))
      BY <2>10
    <3>2. PlainAs(c, k, j, SlotSig(s)) /\ Decl(c, k, j)
      BY <2>8, <2>10, <3>1 DEF PlainAs
    <3>3. k \in Nat /\ j \in Nat
      BY <2>1, <3>2, DeclType
    <3> QED BY <2>3, <2>7, <3>2, <3>3
  <2> HIDE DEF decls
  <2>11. \E k \in decls : /\ \A x \in decls : x <= k
                          /\ s.overrider = Chain(c)[k]
                          /\ s.overIdx \in VirtualIn(Chain(c)[k], SlotSig(s))
    BY <2>7, <2>9, <2>10
  <2> QED BY <2>11 DEF s, decls
<1> QED BY <1>1, TablesInvariant, PTL

(* A finished table, slot by slot: as many as there are functions.          *)
LEMMA SlotsOfTable ==
  ASSUME WellFormed(ctx), NEW c \in DOMAIN ctx, NEW s, Built(c, s)
  PROVE  LET d1 == {i \in DOMAIN s : s[i].kind = "D1"}
             d0 == {i \in DOMAIN s : s[i].kind = "D0"}
         IN /\ \A k, j \in Nat : Decl(c, k, j) /\ ~Meth(c, k, j).dtor =>
                 \E i \in DOMAIN s :
                   {l \in DOMAIN s : s[l].kind = "Method" /\ SlotSig(s[l]) = Meth(c, k, j).sig} = {i}
            /\ (\E k, j \in Nat : Decl(c, k, j) /\ Meth(c, k, j).dtor) => \E i : d1 = {i}
            /\ d1 # {} => \E k, j \in Nat : Decl(c, k, j) /\ Meth(c, k, j).dtor
            /\ d0 = {i + 1 : i \in d1}
            /\ \A i \in d1 \union d0 : s[i].overrider = c
<1> DEFINE d1 == {i \in DOMAIN s : s[i].kind = "D1"}
           d0 == {i \in DOMAIN s : s[i].kind = "D0"}
<1>1. PICK w : \E a \in Nat, n \in Nat :
        /\ Places(c, a, n, w) /\ Len(w) = Len(s) /\ DOMAIN w = DOMAIN s
        /\ \A i \in DOMAIN s : Filled(c, a, n, w[i], s[i])
        /\ \A k, j \in Nat : Decl(c, k, j) => Scanned(k, j, a, n)
  BY BuiltParts
<1>2. PICK a \in Nat, n \in Nat :
        /\ Places(c, a, n, w) /\ Len(w) = Len(s) /\ DOMAIN w = DOMAIN s
        /\ \A i \in DOMAIN s : Filled(c, a, n, w[i], s[i])
        /\ \A k, j \in Nat : Decl(c, k, j) => Scanned(k, j, a, n)
  BY <1>1
<1>3. s \in Seq(SlotSet) /\ w \in Seq(Place)
  BY <1>2, BuiltParts DEF Places
<1>4. \A i \in DOMAIN s :
        /\ i \in DOMAIN w /\ w[i] \in Place /\ w[i].k \in Nat /\ w[i].j \in Nat /\ w[i].r \in {0, 1}
        /\ Decl(c, w[i].k, w[i].j) /\ FirstDecl(c, w[i].k, w[i].j)
        /\ MethOf(c, w[i]) \in Method /\ MethOf(c, w[i]) = Meth(c, w[i].k, w[i].j)
        /\ s[i].kind = "Method" <=> ~MethOf(c, w[i]).dtor
        /\ s[i].kind = "D1" <=> MethOf(c, w[i]).dtor /\ w[i].r = 0
        /\ s[i].kind = "D0" <=> MethOf(c, w[i]).dtor /\ w[i].r = 1
        /\ ~MethOf(c, w[i]).dtor => SlotSig(s[i]) = MethOf(c, w[i]).sig
  BY <1>2, PlaceType, SlotKind DEF MethOf
<1>5. ASSUME NEW k \in Nat, NEW j \in Nat, Decl(c, k, j)
      PROVE  \E i \in DOMAIN s : Alike(Meth(c, k, j), MethOf(c, w[i]))
  BY <1>2, <1>5 DEF Places
<1>6. ASSUME NEW k \in Nat, NEW j \in Nat, Decl(c, k, j), ~Meth(c, k, j).dtor
      PROVE  \E i \in DOMAIN s :
               {l \in DOMAIN s : s[l].kind = "Method" /\ SlotSig(s[l]) = Meth(c, k, j).sig} = {i}
  <2>1. PICK i \in DOMAIN s : Alike(Meth(c, k, j), MethOf(c, w[i]))
    BY <1>5, <1>6
  <2>2. s[i].kind = "Method" /\ SlotSig(s[i]) = Meth(c, k, j).sig /\ ~MethOf(c, w[i]).dtor
    BY <1>4, <1>6, <2>1, DeclType DEF Alike, Method
  <2>3. ASSUME NEW l \in DOMAIN s, s[l].kind = "Method", SlotSig(s[l]) = Meth(c, k, j).sig
        PROVE  l = i
    <3>1. Alike(MethOf(c, w[i]), MethOf(c, w[l]))
      BY <1>4, <2>2, <2>3 DEF Alike
    <3> QED BY <1>2, <2>2, <3>1, OneMethod
  <2> QED BY <2>2, <2>3
<1>7. ASSUME NEW i \in DOMAIN s, MethOf(c, w[i]).dtor, NEW l \in DOMAIN s, MethOf(c, w[l]).dtor
      PROVE  w[i].k = w[l].k /\ w[i].j = w[l].j
  <2>1. Alike(MethOf(c, w[i]), MethOf(c, w[l])) /\ Alike(MethOf(c, w[l]), MethOf(c, w[i]))
    BY <1>7 DEF Alike
  <2>2. /\ ~Scanned(w[i].k, w[i].j, w[l].k, w[l].j)
        /\ ~Scanned(w[l].k, w[l].j, w[i].k, w[i].j)
    BY <1>4, <2>1 DEF FirstDecl
  <2> QED BY <1>4, <2>2 DEF Scanned
<1>8. ASSUME NEW i \in DOMAIN s, NEW l \in DOMAIN s, i < l PROVE Earlier(w[i], w[l])
  BY <1>2, <1>8 DEF Places
<1>9. ASSUME NEW i \in d1, NEW l \in d1 PROVE i = l
  <2>1. w[i].k = w[l].k /\ w[i].j = w[l].j /\ w[i].r = 0 /\ w[l].r = 0
    BY <1>4, <1>7
  <2>2. ~Earlier(w[i], w[l]) /\ ~Earlier(w[l], w[i])
    BY <1>4, <2>1 DEF Earlier
  <2> QED BY <1>3, <1>8, <2>2
<1>10. ASSUME NEW i \in d1, NEW l \in d0 PROVE l = i + 1
  <2>1. /\ w[i].k = w[l].k /\ w[i].j = w[l].j /\ w[i].r = 0 /\ w[l].r = 1
        /\ i \in DOMAIN s /\ l \in DOMAIN s /\ i \in Nat /\ l \in Nat
    BY <1>3, <1>4, <1>7
  <2>2. ~Earlier(w[l], w[i])
    BY <1>4, <2>1 DEF Earlier
  <2>3. i < l
    BY <1>8, <2>1, <2>2
  <2>4. ASSUME i + 1 < l PROVE FALSE
    <3>1. i + 1 \in DOMAIN s
      BY <1>3, <2>1, <2>4
    <3>2. Earlier(w[i], w[i + 1]) /\ Earlier(w[i + 1], w[l])
      BY <1>8, <2>1, <2>4, <3>1
    <3> QED BY <1>4, <2>1, <3>1, <3>2 DEF Earlier
  <2> QED BY <2>1, <2>3, <2>4
<1>11. ASSUME NEW i \in DOMAIN s, MethOf(c, w[i]).dtor
       PROVE  d1 # {} /\ d0 # {}
  <2>1. \A r \in {0, 1} : \E l \in DOMAIN w : w[l] = [k |-> w[i].k, j |-> w[i].j, r |-> r]
    BY <1>2, <1>4, <1>11 DEF Places
  <2>2. PICK l \in DOMAIN w : w[l] = [k |-> w[i].k, j |-> w[i].j, r |-> 0]
    BY <2>1
  <2>3. PICK o \in DOMAIN w : w[o] = [k |-> w[i].k, j |-> w[i].j, r |-> 1]
    BY <2>1
  <2>4. MethOf(c, w[l]) = MethOf(c, w[i]) /\ w[l].r = 0 /\ MethOf(c, w[o]) = MethOf(c, w[i]) /\ w[o].r = 1
    BY <2>2, <2>3 DEF MethOf
  <2>5. s[l].kind = "D1" /\ s[o].kind = "D0" /\ l \in DOMAIN s /\ o \in DOMAIN s
    BY <1>2, <1>4, <1>11, <2>4
  <2> QED BY <2>5
<1>12. ASSUME NEW k \in Nat, NEW j \in Nat, Decl(c, k, j), Meth(c, k, j).dtor
       PROVE  \E i : d1 = {i}
  <2>1. PICK i \in DOMAIN s : MethOf(c, w[i]).dtor
    BY <1>5, <1>12 DEF Alike
  <2> QED BY <1>9, <1>11, <2>1
<1>13. d1 # {} => \E k, j \in Nat : Decl(c, k, j) /\ Meth(c, k, j).dtor
  BY <1>4
<1>14. d0 = {i + 1 : i \in d1}
  <2>1. ASSUME NEW l \in d0 PROVE l \in {i + 1 : i \in d1}
    <3>1. PICK i : i \in d1
      BY <1>4, <1>11, <2>1
    <3> QED BY <1>10, <2>1, <3>1
  <2>2. ASSUME NEW i \in d1 PROVE i + 1 \in d0
    <3>1. PICK l : l \in d0
      BY <1>4, <1>11, <2>2
    <3> QED BY <1>10, <2>2, <3>1
  <2> HIDE DEF d0, d1
  <2> QED BY <2>1, <2>2
<1>15. ASSUME NEW i \in d1 \union d0 PROVE s[i].overrider = c
  <2>1. i \in DOMAIN s /\ MethOf(c, w[i]).dtor
    BY <1>4
  <2>2. s[i] = Slot(IF w[i].r = 0 THEN "D1" ELSE "D0", Chain(c)[w[i].k], 0, c, 0)
    BY <1>2, <2>1 DEF Filled
  <2> QED BY <2>2 DEF Slot
<1> QED BY <1>6, <1>12, <1>13, <1>14, <1>15

(* OneSlotEach speaks of sets of methods, the walk of declarations.         *)
LEMMA DeclaredOnChain ==
  ASSUME WellFormed(ctx), NEW c \in DOMAIN ctx, NEW x
  PROVE  x \in UNION {{ctx[d].methods[k] : k \in {j \in DOMAIN ctx[d].methods : IsVirtual(d, j)}}
                        : d \in Range(Chain(c))}
         <=> \E k, j \in Nat : Decl(c, k, j) /\ x = Meth(c, k, j)
<1> DEFINE declared == UNION {{ctx[d].methods[k] : k \in {j \in DOMAIN ctx[d].methods : IsVirtual(d, j)}}
                        : d \in Range(Chain(c))}
<1>1. ASSUME x \in declared PROVE \E k, j \in Nat : Decl(c, k, j) /\ x = Meth(c, k, j)
  <2>1. PICK d \in Range(Chain(c)) : \E j \in DOMAIN ctx[d].methods :
                                      IsVirtual(d, j) /\ x = ctx[d].methods[j]
    BY <1>1
  <2>2. PICK k \in DOMAIN Chain(c) : d = Chain(c)[k]
    BY DEF Range
  <2>3. PICK j \in DOMAIN ctx[d].methods : IsVirtual(d, j) /\ x = ctx[d].methods[j]
    BY <2>1
  <2>4. Decl(c, k, j) /\ x = Meth(c, k, j)
    BY <2>2, <2>3 DEF Decl, Meth
  <2> QED BY <2>4, DeclType
<1>2. ASSUME NEW k, NEW j, Decl(c, k, j), x = Meth(c, k, j) PROVE x \in declared
  <2>1. Chain(c)[k] \in Range(Chain(c))
    BY <1>2 DEF Decl, Range
  <2>2. /\ j \in DOMAIN ctx[Chain(c)[k]].methods /\ IsVirtual(Chain(c)[k], j)
        /\ x = ctx[Chain(c)[k]].methods[j]
    BY <1>2 DEF Decl, Meth
  <2> QED BY <2>1, <2>2
<1> QED BY <1>1, <1>2

(* OneSlotEach: in every finished table a virtual function of the chain has *)
(* exactly one slot, however often it is redeclared, and a chain with a     *)
(* virtual destructor has one pair, D1 then D0, for the destructor of the   *)
(* class (vtable.rs, build_virtual_slots and find_override_target).         *)
THEOREM OneSlotCorrect == Spec => []OneSlotEach
<1>1. IInv => OneSlotEach
  <2> SUFFICES ASSUME IInv, NEW c \in ClassIds, tables[c].poly
               PROVE  LET s == tables[c].slots
                          d1 == {i \in DOMAIN s : s[i].kind = "D1"}
                          d0 == {i \in DOMAIN s : s[i].kind = "D0"}
                          declared == UNION {{ctx[d].methods[k] :
                                                k \in {j \in DOMAIN ctx[d].methods : IsVirtual(d, j)}}
                                               : d \in Range(Chain(c))}
                          dtors == {x \in declared : x.dtor}
                      IN /\ \A x \in declared \ dtors :
                              Cardinality({i \in DOMAIN s :
                                             s[i].kind = "Method" /\ SlotSig(s[i]) = x.sig}) = 1
                         /\ Cardinality(d1) = (IF dtors = {} THEN 0 ELSE 1)
                         /\ d0 = {i + 1 : i \in d1}
                         /\ \A i \in d1 \union d0 : s[i].overrider = c
    BY DEF OneSlotEach
  <2> DEFINE s == tables[c].slots
             d1 == {i \in DOMAIN s : s[i].kind = "D1"}
             d0 == {i \in DOMAIN s : s[i].kind = "D0"}
             declared == UNION {{ctx[d].methods[k] : k \in {j \in DOMAIN ctx[d].methods : IsVirtual(d, j)}}
                                  : d \in Range(Chain(c))}
             dtors == {x \in declared : x.dtor}
             of(sig) == {i \in DOMAIN s : s[i].kind = "Method" /\ SlotSig(s[i]) = sig}
  <2>1. WellFormed(ctx) /\ c \in DOMAIN ctx /\ Built(c, s)
    BY TableParts
  <2>2. /\ \A k, j \in Nat : Decl(c, k, j) /\ ~Meth(c, k, j).dtor =>
             \E i \in DOMAIN s :
               {l \in DOMAIN s : s[l].kind = "Method" /\ SlotSig(s[l]) = Meth(c, k, j).sig} = {i}
        /\ (\E k, j \in Nat : Decl(c, k, j) /\ Meth(c, k, j).dtor) => \E i : d1 = {i}
        /\ d1 # {} => \E k, j \in Nat : Decl(c, k, j) /\ Meth(c, k, j).dtor
        /\ d0 = {i + 1 : i \in d1}
        /\ \A i \in d1 \union d0 : s[i].overrider = c
    BY <2>1, SlotsOfTable
  <2>3. \A x : x \in declared <=> \E k, j \in Nat : Decl(c, k, j) /\ x = Meth(c, k, j)
    BY <2>1, DeclaredOnChain
  <2> HIDE DEF declared
  <2>4. ASSUME NEW x \in declared \ dtors PROVE Cardinality(of(x.sig)) = 1
    <3>1. PICK k \in Nat, j \in Nat : Decl(c, k, j) /\ x = Meth(c, k, j)
      BY <2>3
    <3>2. ~Meth(c, k, j).dtor
      BY <3>1
    <3>3. PICK i \in DOMAIN s :
            {l \in DOMAIN s : s[l].kind = "Method" /\ SlotSig(s[l]) = Meth(c, k, j).sig} = {i}
      BY <2>2, <3>1, <3>2
    <3>4. of(x.sig) = {i}
      BY <3>1, <3>3
    <3> HIDE DEF of
    <3> QED BY <3>4, FS_Singleton
  <2>5. Cardinality(d1) = IF dtors = {} THEN 0 ELSE 1
    <3>1. dtors # {} <=> \E k, j \in Nat : Decl(c, k, j) /\ Meth(c, k, j).dtor
      BY <2>3
    <3> HIDE DEF d1, dtors
    <3>2. CASE dtors = {}
      BY <2>2, <3>1, <3>2, FS_EmptySet
    <3>3. CASE dtors # {}
      BY <2>2, <3>1, <3>3, FS_Singleton
    <3> QED BY <3>2, <3>3
  <2> QED BY <2>2, <2>4, <2>5 DEF declared
<1> QED BY <1>1, TablesInvariant, PTL

-----------------------------------------------------------------------------

(* The order of places is strict.                                           *)
LEMMA EarlierOrder ==
  ASSUME NEW p \in Place, NEW q \in Place
  PROVE  ~(Earlier(p, q) /\ Earlier(q, p)) /\ ~Earlier(p, p)
BY DEF Earlier, Place

(* Two lists in strict order, one of the places of the other that come before*)
(* all the rest: it is a prefix.                                             *)
LEMMA OrderedPrefix ==
  ASSUME NEW v \in Seq(Place), NEW w \in Seq(Place), NEW N \in Nat,
         \A i, l \in DOMAIN v : i < l => Earlier(v[i], v[l]),
         \A i, l \in DOMAIN w : i < l => Earlier(w[i], w[l]),
         \A i \in DOMAIN v : v[i].k <= N /\ \E l \in DOMAIN w : w[l] = v[i],
         \A l \in DOMAIN w : w[l].k <= N => \E i \in DOMAIN v : w[l] = v[i]
  PROVE  \A i \in DOMAIN v : i \in DOMAIN w /\ w[i] = v[i]
<1> DEFINE T == {i \in Nat : i \in DOMAIN v => i \in DOMAIN w /\ w[i] = v[i]}
<1>1. ASSUME NEW i \in Nat, \A k \in Nat : k < i => k \in T, i \in DOMAIN v
      PROVE  i \in DOMAIN w /\ w[i] = v[i]
  <2>1. PICK l \in DOMAIN w : w[l] = v[i]
    BY <1>1
  <2>2. l \in Nat /\ v[i] \in Place /\ \A o \in DOMAIN w : o \in Nat /\ w[o] \in Place
    BY <1>1
  <2>3. ~(l < i)
    <3> SUFFICES ASSUME l < i PROVE FALSE
      OBVIOUS
    <3>1. l \in DOMAIN v
      BY <1>1, <2>2
    <3>2. v[l] = v[i]
      BY <1>1, <2>1, <2>2, <3>1
    <3>3. Earlier(v[l], v[i])
      BY <1>1, <3>1
    <3> QED BY <2>2, <3>2, <3>3, EarlierOrder
  <2>4. i \in DOMAIN w
    BY <1>1, <2>2, <2>3
  <2>5. ASSUME i < l PROVE FALSE
    <3>1. Earlier(w[i], v[i])
      BY <2>1, <2>4, <2>5
    <3>2. w[i].k <= N
      <4>1. v[i].k \in Nat /\ w[i].k \in Nat /\ v[i].k <= N
        BY <1>1, <2>2, <2>4 DEF Place
      <4>2. w[i].k <= v[i].k
        BY <3>1, <4>1 DEF Earlier
      <4> QED BY <4>1, <4>2
    <3>3. PICK o \in DOMAIN v : w[i] = v[o]
      BY <2>4, <3>2
    <3>4. o \in Nat /\ v[o] \in Place
      BY <3>3
    <3>5. CASE o < i
      <4>1. o \in DOMAIN w /\ w[o] = v[o]
        BY <1>1, <3>3, <3>4, <3>5
      <4>2. Earlier(w[o], w[i])
        BY <2>4, <3>5, <4>1
      <4> QED BY <2>2, <2>4, <3>3, <4>1, <4>2, EarlierOrder
    <3>6. CASE o = i
      BY <2>2, <3>1, <3>3, <3>6, EarlierOrder
    <3>7. CASE i < o
      <4>1. Earlier(v[i], v[o])
        BY <1>1, <3>3, <3>7
      <4> QED BY <2>2, <3>1, <3>3, <3>4, <4>1, EarlierOrder
    <3> QED BY <3>4, <3>5, <3>6, <3>7
  <2>6. l = i
    BY <2>2, <2>3, <2>5
  <2> QED BY <2>1, <2>4, <2>6
<1>2. \A i \in Nat : (\A k \in Nat : k < i => k \in T) => i \in T
  BY <1>1
<1> HIDE DEF T
<1>3. Nat \subseteq T
  BY <1>2, Induct
<1> QED BY <1>3 DEF T

(* The declarations on the chain of the first non-virtual base are the      *)
(* first ones of the chain of the class.                                    *)
LEMMA ChainPrefix ==
  ASSUME WellFormed(ctx), NEW c \in DOMAIN ctx, FirstNonVirtual(c) # 0,
         NEW b, b = Upper(c), NEW N, N = Len(Chain(b))
  PROVE  /\ b \in DOMAIN ctx /\ b < c /\ N \in Nat
         /\ \A k, j \in Nat : Decl(b, k, j) <=> k <= N /\ Decl(c, k, j)
         /\ \A k, j \in Nat : k <= N /\ k \in DOMAIN Chain(c) => Meth(b, k, j) = Meth(c, k, j)
         /\ \A k, j \in Nat : FirstDecl(b, k, j) <=> k <= N /\ FirstDecl(c, k, j)
         /\ \A k \in DOMAIN Chain(b) : k \in DOMAIN Chain(c) /\ k <= N /\ Chain(b)[k] = Chain(c)[k]
<1>1. ctx \in Seq(Class) /\ b \in 1 .. (c - 1) /\ c \in 1 .. Len(ctx)
  BY UpperBelow DEF WellFormed
<1>2. b \in DOMAIN ctx
  BY <1>1
<1>3. Chain(c) = Append(Chain(b), c) /\ Chain(b) \in Seq(1 .. b) /\ N \in Nat
      /\ DOMAIN Chain(b) = 1 .. N
  BY <1>2, ChainStep, ChainElem
<1>4. DOMAIN Chain(c) = 1 .. (N + 1) /\ \A k \in 1 .. N : Chain(c)[k] = Chain(b)[k]
  BY <1>1, <1>3
<1>5. ASSUME NEW k \in Nat, NEW j \in Nat
      PROVE  Decl(b, k, j) <=> k <= N /\ Decl(c, k, j)
  <2>1. CASE k \in 1 .. N
    BY <1>3, <1>4, <2>1 DEF Decl
  <2>2. CASE k \notin 1 .. N
    BY <1>3, <1>4, <2>2 DEF Decl
  <2> QED BY <2>1, <2>2
<1>6. ASSUME NEW k \in Nat, NEW j \in Nat, k <= N, k \in DOMAIN Chain(c)
      PROVE  Meth(b, k, j) = Meth(c, k, j)
  BY <1>4, <1>6 DEF Meth
<1>7. ASSUME NEW k \in Nat, NEW j \in Nat
      PROVE  FirstDecl(b, k, j) <=> k <= N /\ FirstDecl(c, k, j)
  <2>1. ASSUME NEW l \in Nat, NEW i \in Nat, Decl(c, l, i), l <= N PROVE Meth(b, l, i) = Meth(c, l, i)
    BY <1>6, <2>1 DEF Decl
  <2>2. ASSUME FirstDecl(b, k, j) PROVE k <= N /\ FirstDecl(c, k, j)
    <3>1. k <= N /\ Decl(c, k, j)
      BY <1>5, <2>2 DEF FirstDecl
    <3>2. ASSUME NEW l \in Nat, NEW i \in Nat, Decl(c, l, i), Scanned(l, i, k, j)
          PROVE  ~Alike(Meth(c, l, i), Meth(c, k, j))
      <4>1. l <= N
        BY <1>3, <3>1, <3>2 DEF Scanned
      <4>2. Decl(b, l, i) /\ Meth(b, l, i) = Meth(c, l, i) /\ Meth(b, k, j) = Meth(c, k, j)
        BY <1>5, <2>1, <3>1, <3>2, <4>1
      <4> QED BY <2>2, <3>2, <4>2 DEF FirstDecl
    <3> QED BY <3>1, <3>2 DEF FirstDecl
  <2>3. ASSUME k <= N, FirstDecl(c, k, j) PROVE FirstDecl(b, k, j)
    <3>1. Decl(c, k, j) /\ Decl(b, k, j)
      BY <1>5, <2>3 DEF FirstDecl
    <3>2. ASSUME NEW l \in Nat, NEW i \in Nat, Decl(b, l, i), Scanned(l, i, k, j)
          PROVE  ~Alike(Meth(b, l, i), Meth(b, k, j))
      <4>1. Decl(c, l, i) /\ Meth(b, l, i) = Meth(c, l, i) /\ Meth(b, k, j) = Meth(c, k, j)
        BY <1>5, <2>1, <2>3, <3>1, <3>2
      <4> QED BY <2>3, <3>2, <4>1 DEF FirstDecl
    <3> QED BY <3>1, <3>2 DEF FirstDecl
  <2> QED BY <2>2, <2>3
<1> QED BY <1>1, <1>2, <1>3, <1>4, <1>5, <1>6, <1>7

(* A finished list of places holds each place of a first declaration.        *)
LEMMA PlacesComplete ==
  ASSUME WellFormed(ctx), NEW c \in DOMAIN ctx, NEW a \in Nat, NEW n \in Nat, NEW w,
         Places(c, a, n, w), \A k, j \in Nat : Decl(c, k, j) => Scanned(k, j, a, n),
         NEW p \in Place, FirstDecl(c, p.k, p.j), p.r = 1 => MethOf(c, p).dtor
  PROVE  \E i \in DOMAIN w : w[i] = p
<1>1. p.k \in Nat /\ p.j \in Nat /\ p.r \in {0, 1} /\ Decl(c, p.k, p.j)
  BY DEF Place, FirstDecl
<1>2. MethOf(c, p) = Meth(c, p.k, p.j) /\ MethOf(c, p) \in Method
  BY <1>1, DeclType DEF MethOf
<1>3. PICK i \in DOMAIN w : Alike(MethOf(c, p), MethOf(c, w[i]))
  BY <1>1, <1>2 DEF Places
<1>4. /\ w[i] \in Place /\ w[i].k \in Nat /\ w[i].j \in Nat /\ w[i].r \in {0, 1}
      /\ FirstDecl(c, w[i].k, w[i].j) /\ Decl(c, w[i].k, w[i].j)
      /\ MethOf(c, w[i]) = Meth(c, w[i].k, w[i].j) /\ MethOf(c, w[i]) \in Method
  BY PlaceType DEF MethOf
<1>5. Alike(MethOf(c, w[i]), MethOf(c, p))
  BY <1>2, <1>3, <1>4, AlikeLaws
<1>6. ~Scanned(p.k, p.j, w[i].k, w[i].j)
  BY <1>1, <1>2, <1>3, <1>4 DEF FirstDecl
<1>7. ~Scanned(w[i].k, w[i].j, p.k, p.j)
  BY <1>1, <1>2, <1>4, <1>5 DEF FirstDecl
<1>8. w[i].k = p.k /\ w[i].j = p.j
  BY <1>1, <1>4, <1>6, <1>7 DEF Scanned
<1>9. p = [k |-> p.k, j |-> p.j, r |-> p.r]
  BY DEF Place
<1>10. CASE MethOf(c, w[i]).dtor
  <2>1. PICK l \in DOMAIN w : w[l] = [k |-> w[i].k, j |-> w[i].j, r |-> p.r]
    BY <1>1, <1>10 DEF Places
  <2> QED BY <1>8, <1>9, <2>1
<1>11. CASE ~MethOf(c, w[i]).dtor
  <2>1. p.r = 0 /\ w[i].r = 0
    BY <1>1, <1>3, <1>4, <1>11 DEF Alike, Places
  <2>2. w[i] = [k |-> p.k, j |-> p.j, r |-> p.r]
    BY <1>4, <1>8, <2>1 DEF Place
  <2> QED BY <1>9, <2>2
<1> QED BY <1>10, <1>11

(* What introduced a slot is fixed by its place.                            *)
LEMMA OriginOfPlace ==
  ASSUME NEW c, NEW a, NEW n, NEW p \in Place, NEW s, Filled(c, a, n, p, s)
  PROVE  Origin(s) = IF MethOf(c, p).dtor
                     THEN <<IF p.r = 0 THEN "D1" ELSE "D0", Chain(c)[p.k], 0>>
                     ELSE <<"Method", Chain(c)[p.k], p.j>>
<1>1. CASE MethOf(c, p).dtor
  <2>1. s = Slot(IF p.r = 0 THEN "D1" ELSE "D0", Chain(c)[p.k], 0, c, 0)
    BY <1>1 DEF Filled
  <2>2. s.kind = (IF p.r = 0 THEN "D1" ELSE "D0") /\ s.origin = Chain(c)[p.k] /\ s.idx = 0
    BY <2>1 DEF Slot
  <2> QED BY <1>1, <2>2 DEF Origin
<1>2. CASE ~MethOf(c, p).dtor
  BY <1>2 DEF Filled, Origin
<1> QED BY <1>1, <1>2

(* The places of the base are the first of those of the class.              *)
LEMMA TableExtends ==
  ASSUME WellFormed(ctx), NEW c \in DOMAIN ctx, FirstNonVirtual(c) # 0, NEW b, b = Upper(c),
         NEW s, Built(b, s), NEW t, Built(c, t)
  PROVE  Len(s) <= Len(t) /\ \A i \in DOMAIN s : Origin(s[i]) = Origin(t[i])
<1>1. PICK N : N = Len(Chain(b))
  OBVIOUS
<1>2. /\ b \in DOMAIN ctx /\ b < c /\ N \in Nat
      /\ \A k, j \in Nat : Decl(b, k, j) <=> k <= N /\ Decl(c, k, j)
      /\ \A k, j \in Nat : k <= N /\ k \in DOMAIN Chain(c) => Meth(b, k, j) = Meth(c, k, j)
      /\ \A k, j \in Nat : FirstDecl(b, k, j) <=> k <= N /\ FirstDecl(c, k, j)
      /\ \A k \in DOMAIN Chain(b) : k \in DOMAIN Chain(c) /\ k <= N /\ Chain(b)[k] = Chain(c)[k]
  BY <1>1, ChainPrefix
<1>3. PICK v : \E a \in Nat, n \in Nat :
        /\ Places(b, a, n, v) /\ Len(v) = Len(s) /\ DOMAIN v = DOMAIN s
        /\ \A i \in DOMAIN s : Filled(b, a, n, v[i], s[i])
        /\ \A k, j \in Nat : Decl(b, k, j) => Scanned(k, j, a, n)
  BY <1>2, BuiltParts
<1>4. PICK a1 \in Nat, n1 \in Nat :
        /\ Places(b, a1, n1, v) /\ Len(v) = Len(s) /\ DOMAIN v = DOMAIN s
        /\ \A i \in DOMAIN s : Filled(b, a1, n1, v[i], s[i])
        /\ \A k, j \in Nat : Decl(b, k, j) => Scanned(k, j, a1, n1)
  BY <1>3
<1>5. PICK w : \E a \in Nat, n \in Nat :
        /\ Places(c, a, n, w) /\ Len(w) = Len(t) /\ DOMAIN w = DOMAIN t
        /\ \A i \in DOMAIN t : Filled(c, a, n, w[i], t[i])
        /\ \A k, j \in Nat : Decl(c, k, j) => Scanned(k, j, a, n)
  BY BuiltParts
<1>6. PICK a2 \in Nat, n2 \in Nat :
        /\ Places(c, a2, n2, w) /\ Len(w) = Len(t) /\ DOMAIN w = DOMAIN t
        /\ \A i \in DOMAIN t : Filled(c, a2, n2, w[i], t[i])
        /\ \A k, j \in Nat : Decl(c, k, j) => Scanned(k, j, a2, n2)
  BY <1>5
<1>7. v \in Seq(Place) /\ w \in Seq(Place) /\ s \in Seq(SlotSet) /\ t \in Seq(SlotSet)
  BY <1>2, <1>4, <1>6, BuiltParts DEF Places
<1>8. ASSUME NEW i \in DOMAIN v
      PROVE  /\ v[i] \in Place /\ v[i].k \in Nat /\ v[i].j \in Nat /\ v[i].k <= N
             /\ FirstDecl(b, v[i].k, v[i].j) /\ FirstDecl(c, v[i].k, v[i].j)
             /\ MethOf(b, v[i]) = MethOf(c, v[i]) /\ v[i].k \in DOMAIN Chain(b)
             /\ v[i].r = 1 => MethOf(c, v[i]).dtor
  <2>1. /\ v[i] \in Place /\ v[i].k \in Nat /\ v[i].j \in Nat /\ Decl(b, v[i].k, v[i].j)
        /\ FirstDecl(b, v[i].k, v[i].j)
    BY <1>2, <1>4, PlaceType
  <2>2. v[i].k \in DOMAIN Chain(b) /\ v[i].k <= N /\ v[i].k \in DOMAIN Chain(c)
    BY <1>2, <2>1 DEF Decl
  <2>3. MethOf(b, v[i]) = MethOf(c, v[i])
    BY <1>2, <2>1, <2>2 DEF MethOf
  <2>4. v[i].r = 1 => MethOf(b, v[i]).dtor
    BY <1>4 DEF Places
  <2> QED BY <1>2, <2>1, <2>2, <2>3, <2>4
<1>9. ASSUME NEW i \in DOMAIN v PROVE \E l \in DOMAIN w : w[l] = v[i]
  <2>1. PICK p : p = v[i]
    OBVIOUS
  <2>2. p \in Place /\ FirstDecl(c, p.k, p.j) /\ (p.r = 1 => MethOf(c, p).dtor)
    BY <1>8, <2>1
  <2>3. Places(c, a2, n2, w) /\ \A k, j \in Nat : Decl(c, k, j) => Scanned(k, j, a2, n2)
    BY <1>6
  <2>4. \E l \in DOMAIN w : w[l] = p
    BY <2>2, <2>3, PlacesComplete
  <2> QED BY <2>1, <2>4
<1>10. ASSUME NEW l \in DOMAIN w, w[l].k <= N PROVE \E i \in DOMAIN v : v[i] = w[l]
  <2>1. /\ w[l] \in Place /\ w[l].k \in Nat /\ w[l].j \in Nat /\ Decl(c, w[l].k, w[l].j)
        /\ FirstDecl(c, w[l].k, w[l].j)
    BY <1>6, PlaceType
  <2>2. FirstDecl(b, w[l].k, w[l].j) /\ w[l].k \in DOMAIN Chain(c)
    BY <1>2, <1>10, <2>1 DEF Decl
  <2>3. MethOf(b, w[l]) = MethOf(c, w[l])
    BY <1>2, <1>10, <2>1, <2>2 DEF MethOf
  <2>4. w[l].r = 1 => MethOf(b, w[l]).dtor
    BY <1>6, <2>3 DEF Places
  <2>5. PICK p : p = w[l]
    OBVIOUS
  <2>6. p \in Place /\ FirstDecl(b, p.k, p.j) /\ (p.r = 1 => MethOf(b, p).dtor)
    BY <2>1, <2>2, <2>4, <2>5
  <2>7. Places(b, a1, n1, v) /\ \A k, j \in Nat : Decl(b, k, j) => Scanned(k, j, a1, n1)
    BY <1>4
  <2>8. \E i \in DOMAIN v : v[i] = p
    BY <1>2, <2>6, <2>7, PlacesComplete
  <2> QED BY <2>5, <2>8
<1>11. \A i \in DOMAIN v : i \in DOMAIN w /\ w[i] = v[i]
  <2>1. \A i, l \in DOMAIN v : i < l => Earlier(v[i], v[l])
    BY <1>4 DEF Places
  <2>2. \A i, l \in DOMAIN w : i < l => Earlier(w[i], w[l])
    BY <1>6 DEF Places
  <2>3. \A i \in DOMAIN v : v[i].k <= N /\ \E l \in DOMAIN w : w[l] = v[i]
    BY <1>8, <1>9
  <2>4. \A l \in DOMAIN w : w[l].k <= N => \E i \in DOMAIN v : w[l] = v[i]
    BY <1>10
  <2> QED BY <1>2, <1>7, <2>1, <2>2, <2>3, <2>4, OrderedPrefix
<1>12. Len(s) <= Len(t)
  <2>1. Len(v) # 0 => Len(v) \in DOMAIN v
    BY <1>7
  <2> QED BY <1>4, <1>6, <1>7, <1>11, <2>1
<1>13. ASSUME NEW i \in DOMAIN s PROVE Origin(s[i]) = Origin(t[i])
  <2>1. i \in DOMAIN v /\ i \in DOMAIN t /\ w[i] = v[i]
    BY <1>4, <1>6, <1>11
  <2>2. /\ Filled(b, a1, n1, v[i], s[i]) /\ Filled(c, a2, n2, v[i], t[i]) /\ v[i] \in Place
        /\ MethOf(b, v[i]) = MethOf(c, v[i]) /\ Chain(b)[v[i].k] = Chain(c)[v[i].k]
    BY <1>2, <1>4, <1>6, <1>8, <2>1
  <2> QED BY <2>2, OriginOfPlace
<1> QED BY <1>12, <1>13

(* SlotsExtendBase: the slots of the first non-virtual base are the first   *)
(* slots of a class, introduced by the same declarations and in the same    *)
(* order, so that code compiled against the base finds its functions        *)
(* through the class's table (vtable.rs, collect_chain and                  *)
(* build_virtual_slots).                                                    *)
THEOREM ExtendCorrect == Spec => []SlotsExtendBase
<1>1. IInv => SlotsExtendBase
  <2> SUFFICES ASSUME IInv, NEW c \in ClassIds, tables[c].poly, FirstNonVirtual(c) # 0
               PROVE  LET b == ctx[c].bases[FirstNonVirtual(c)].class
                      IN /\ Len(tables[b].slots) <= Len(tables[c].slots)
                         /\ \A i \in DOMAIN tables[b].slots :
                              Origin(tables[b].slots[i]) = Origin(tables[c].slots[i])
    BY DEF SlotsExtendBase
  <2>1. WellFormed(ctx) /\ c \in DOMAIN ctx /\ Built(c, tables[c].slots)
    BY TableParts
  <2>2. PICK b : b = Upper(c)
    OBVIOUS
  <2>3. b \in ClassIds
    <3>1. b \in 1 .. (c - 1)
      BY <2>1, <2>2, UpperBelow
    <3>2. PICK S : tables \in Seq(S)
      BY DEF IInv
    <3> QED BY <3>1, <3>2 DEF ClassIds
  <2>4. CASE tables[b].poly
    <3>1. Built(b, tables[b].slots)
      BY <2>3, <2>4, TableParts
    <3>2. /\ Len(tables[b].slots) <= Len(tables[c].slots)
          /\ \A i \in DOMAIN tables[b].slots :
               Origin(tables[b].slots[i]) = Origin(tables[c].slots[i])
      BY <2>1, <2>2, <3>1, TableExtends
    <3> QED BY <2>2, <3>2 DEF Upper
  <2>5. CASE ~tables[b].poly
    <3>1. tables[b].slots = << >> /\ tables[c].slots \in Seq(SlotSet)
      BY <2>1, <2>3, <2>5, TableParts, BuiltParts
    <3> QED BY <2>2, <3>1 DEF Upper
  <2> QED BY <2>4, <2>5
<1> QED BY <1>1, TablesInvariant, PTL
-----------------------------------------------------------------------------
(* The sub-tables. *)

(* collect_virtual_bases keeps the first of each: `out', pushed once.       *)
Push(out, b) == IF Contains(out, b) THEN out ELSE Append(out, b)
Top(I) == CHOOSE x \in I : \A y \in I : x >= y

IsFold(f, seq, n) ==
  f = [I \in SUBSET (1 .. n) |-> IF I = {} THEN << >> ELSE Push(f[I \ {Top(I)}], seq[Top(I)])]

(* The greatest of some of the first n numbers.                             *)
LEMMA TopOf ==
  ASSUME NEW n \in Nat, NEW I \in SUBSET (1 .. n), I # {}
  PROVE  /\ Top(I) \in I /\ Top(I) \in 1 .. n /\ \A y \in I : y <= Top(I)
         /\ I \ {Top(I)} \subseteq 1 .. (Top(I) - 1)
<1> DEFINE J == {n - x : x \in I}
<1>1. J \subseteq Nat /\ J # {}
  <2>1. \A x \in I : x \in Nat /\ x <= n
    OBVIOUS
  <2>2. \A x \in I : n - x \in Nat
    BY <2>1
  <2>3. J # {}
    OBVIOUS
  <2> QED BY <2>2, <2>3
<1>2. PICK z \in J : \A y \in J : z <= y
  BY <1>1, Least
<1>3. PICK x \in I : z = n - x
  BY <1>2
<1>4. ASSUME NEW y \in I PROVE x >= y
  BY <1>2, <1>3
<1>5. \E t \in I : \A y \in I : t >= y
  BY <1>4
<1>6. Top(I) \in I /\ \A y \in I : Top(I) >= y
  BY <1>5 DEF Top
<1>7. Top(I) \in 1 .. n
  BY <1>6
<1>8. ASSUME NEW y \in I \ {Top(I)} PROVE y \in 1 .. (Top(I) - 1)
  <2>1. y \in 1 .. n /\ y # Top(I) /\ Top(I) >= y
    BY <1>6
  <2> QED BY <1>7, <2>1
<1>9. \A y \in I : y <= Top(I)
  <2>1. \A y \in I : y \in Nat
    OBVIOUS
  <2> QED BY <1>6, <1>7, <2>1
<1> QED BY <1>6, <1>7, <1>8, <1>9

(* A sequence that lists the members of R once each.                        *)
Once(q, R) ==
  /\ q \in Seq(R) /\ Range(q) = R
  /\ \A i, j \in DOMAIN q : q[i] = q[j] => i = j

(* One more is pushed, unless it is there.                                  *)
LEMMA PushOnce ==
  ASSUME NEW q, NEW R, Once(q, R), NEW b
  PROVE  Once(Push(q, b), R \union {b})
<1>1. q \in Seq(R) /\ Range(q) = R /\ \A i, j \in DOMAIN q : q[i] = q[j] => i = j
  BY DEF Once
<1>2. DOMAIN q = 1 .. Len(q)
  BY <1>1
<1>3. Contains(q, b) <=> b \in R
  BY <1>1, <1>2 DEF Contains, Range
<1>4. CASE b \in R
  <2>1. R \union {b} = R /\ Push(q, b) = q
    BY <1>3, <1>4 DEF Push
  <2> QED BY <1>1, <2>1 DEF Once
<1>5. CASE b \notin R
  <2>1. OfItsOwn(q)
    BY <1>1 DEF OfItsOwn
  <2> DEFINE t == Append(q, b)
  <2>2. Push(q, b) = t
    BY <1>3, <1>5 DEF Push
  <2>3. PICK n \in Nat : /\ DOMAIN q = 1 .. n /\ DOMAIN t = 1 .. (n + 1)
                         /\ \A i \in 1 .. n : t[i] = q[i]
                         /\ t[n + 1] = b
    BY <2>1, Appended
  <2>4. t \in Seq(R \union {b}) /\ Range(t) = R \union {b}
    BY <1>1, <2>1, Appended DEF OfItsOwn
  <2> HIDE DEF t
  <2>5. \A i \in 1 .. n : q[i] # b
    BY <1>1, <1>5, <2>3 DEF Range
  <2>6. ASSUME NEW i \in DOMAIN t, NEW j \in DOMAIN t, t[i] = t[j] PROVE i = j
    <3>1. (i \in 1 .. n \/ i = n + 1) /\ (j \in 1 .. n \/ j = n + 1)
      BY <2>3
    <3> QED BY <1>1, <2>3, <2>5, <2>6, <3>1
  <2> QED BY <2>2, <2>4, <2>6 DEF Once
<1> QED BY <1>4, <1>5

(* It lists what it was given, once each.                                   *)
LEMMA FoldOnce ==
  ASSUME NEW S, NEW seq \in Seq(S)
  PROVE  Once(FoldLeft(LAMBDA seen, b : IF Contains(seen, b) THEN seen ELSE Append(seen, b),
                       << >>, seq),
              Range(seq))
<1>1. Len(seq) \in Nat /\ DOMAIN seq = 1 .. Len(seq) /\ \A i \in 1 .. Len(seq) : seq[i] \in S
  OBVIOUS
<1> DEFINE T == {n \in Nat : n <= Len(seq) => \E f : IsFold(f, seq, n)}
<1>2. ASSUME NEW n \in Nat, \A k \in Nat : k < n => k \in T, n <= Len(seq)
      PROVE  \E f : IsFold(f, seq, n)
  <2>1. CASE n = 0
    <3> DEFINE f == [I \in SUBSET (1 .. n) |-> << >>]
    <3>1. 1 .. n = {}
      BY <2>1
    <3>2. f = [I \in SUBSET (1 .. n) |-> IF I = {} THEN << >> ELSE Push(f[I \ {Top(I)}], seq[Top(I)])]
      BY <3>1
    <3> QED BY <3>2 DEF IsFold
  <2>2. CASE n # 0
    <3>1. PICK f : IsFold(f, seq, n - 1)
      BY <1>1, <1>2, <2>2
    <3> DEFINE body(h, I) == IF I = {} THEN << >> ELSE Push(h[I \ {Top(I)}], seq[Top(I)])
               g == [I \in SUBSET (1 .. n) |-> IF n \in I THEN body(f, I) ELSE f[I]]
    <3>2. ASSUME NEW I \in SUBSET (1 .. n) PROVE g[I] = body(g, I)
      <4>1. CASE I = {}
        <5>1. {} \in SUBSET (1 .. (n - 1)) /\ n \notin I
          BY <4>1
        <5>2. f[{}] = << >>
          BY <3>1, <5>1 DEF IsFold
        <5> QED BY <4>1, <5>1, <5>2
      <4>2. CASE I # {}
        <5>1. Top(I) \in 1 .. n /\ I \ {Top(I)} \subseteq 1 .. (Top(I) - 1)
          BY <4>2, TopOf
        <5>2. I \ {Top(I)} \in SUBSET (1 .. n) /\ I \ {Top(I)} \in SUBSET (1 .. (n - 1))
              /\ n \notin I \ {Top(I)}
          <6>1. 1 .. (Top(I) - 1) \subseteq 1 .. (n - 1) /\ n \notin 1 .. (Top(I) - 1)
            BY <5>1
          <6> QED BY <5>1, <6>1
        <5>3. g[I \ {Top(I)}] = f[I \ {Top(I)}]
          BY <5>2
        <5>4. CASE n \in I
          <6> HIDE DEF body
          <6>1. g[I] = body(f, I)
            BY <5>4
          <6> HIDE DEF g
          <6> QED BY <4>2, <5>3, <6>1 DEF body
        <5>5. CASE n \notin I
          <6>1. I \in SUBSET (1 .. (n - 1))
            BY <5>5
          <6>2. f[I] = body(f, I)
            BY <3>1, <6>1 DEF IsFold
          <6> HIDE DEF body
          <6>3. g[I] = f[I]
            BY <5>5
          <6> HIDE DEF g
          <6> QED BY <4>2, <5>3, <6>2, <6>3 DEF body
        <5> QED BY <5>4, <5>5
      <4> QED BY <4>1, <4>2
    <3> HIDE DEF body
    <3>3. g = [I \in SUBSET (1 .. n) |-> body(g, I)]
      BY <3>2
    <3>4. IsFold(g, seq, n)
      BY <3>3 DEF IsFold, body
    <3> QED BY <3>4
  <2> QED BY <2>1, <2>2
<1>3. \A j \in Nat : (\A k \in Nat : k < j => k \in T) => j \in T
  BY <1>2
<1> HIDE DEF T
<1>4. Nat \subseteq T
  BY <1>3, Induct
<1>5. \E f : IsFold(f, seq, Len(seq))
  BY <1>1, <1>4 DEF T
<1> DEFINE g == CHOOSE f : IsFold(f, seq, Len(seq))
<1>6. FoldLeft(LAMBDA seen, b : IF Contains(seen, b) THEN seen ELSE Append(seen, b), << >>, seq)
      = g[DOMAIN seq]
  BY <1>1 DEF FoldLeft, MapThenFoldSet, IsFold, Push, Max, Top
<1>7. IsFold(g, seq, Len(seq))
  BY <1>5
<1> HIDE DEF g
<1> DEFINE Some(I) == {seq[i] : i \in I}
           U == {n \in Nat : \A I \in SUBSET (1 .. Len(seq)) : I \subseteq 1 .. n => Once(g[I], Some(I))}
<1>8. ASSUME NEW n \in Nat, \A k \in Nat : k < n => k \in U,
             NEW I \in SUBSET (1 .. Len(seq)), I \subseteq 1 .. n
      PROVE  Once(g[I], Some(I))
  <2>1. g[I] = IF I = {} THEN << >> ELSE Push(g[I \ {Top(I)}], seq[Top(I)])
    BY <1>7 DEF IsFold
  <2>2. CASE I = {}
    <3>1. g[I] = << >> /\ Some(I) = {}
      BY <2>1, <2>2
    <3>2. << >> \in Seq({}) /\ DOMAIN << >> = {}
      OBVIOUS
    <3>3. Range(<< >>) = {}
      BY <3>2 DEF Range
    <3> QED BY <3>1, <3>2, <3>3 DEF Once
  <2>3. CASE I # {}
    <3>1. Top(I) \in I /\ I \ {Top(I)} \subseteq 1 .. (Top(I) - 1)
      BY <1>1, <2>3, TopOf
    <3>2. Top(I) - 1 \in Nat /\ Top(I) - 1 < n
      <4>1. Top(I) \in 1 .. n
        BY <1>8, <3>1
      <4> QED BY <1>8, <4>1
    <3>3. Once(g[I \ {Top(I)}], Some(I \ {Top(I)}))
      <4>1. Top(I) - 1 \in U
        BY <1>8, <3>2
      <4>2. I \ {Top(I)} \in SUBSET (1 .. Len(seq))
        BY <1>8
      <4> HIDE DEF Some
      <4> QED BY <3>1, <4>1, <4>2 DEF U
    <3>4. Some(I \ {Top(I)}) \union {seq[Top(I)]} = Some(I)
      BY <3>1
    <3> HIDE DEF Some
    <3>5. Once(Push(g[I \ {Top(I)}], seq[Top(I)]), Some(I))
      BY <3>3, <3>4, PushOnce
    <3> QED BY <2>1, <2>3, <3>5
  <2> QED BY <2>2, <2>3
<1>9. \A j \in Nat : (\A k \in Nat : k < j => k \in U) => j \in U
  <2> HIDE DEF Some
  <2> QED BY <1>8
<1>10. Some(DOMAIN seq) = Range(seq)
  BY DEF Range
<1> HIDE DEF U, Some
<1>11. Nat \subseteq U
  BY <1>9, Induct
<1>12. Once(g[DOMAIN seq], Some(DOMAIN seq))
  BY <1>1, <1>11 DEF U
<1> QED BY <1>6, <1>10, <1>12

IsWalk(f, n) ==
  f = [d \in 1 .. n |->
        FlattenSeq([i \in DOMAIN ctx[d].bases |->
          f[ctx[d].bases[i].class]
          \o (IF ctx[d].bases[i].virt THEN <<ctx[d].bases[i].class>> ELSE << >>)])]

(* The walk ends, and what it collects are earlier classes.                 *)
LEMMA WalkExists ==
  ASSUME WellFormed(ctx), NEW n \in 0 .. Len(ctx)
  PROVE  \E f : IsWalk(f, n)
<1> DEFINE T == {j \in Nat : j <= Len(ctx) => \E f : IsWalk(f, j)}
<1>1. ctx \in Seq(Class)
  BY DEF WellFormed
<1>2. ASSUME NEW j \in Nat, \A k \in Nat : k < j => k \in T, j <= Len(ctx)
      PROVE  \E f : IsWalk(f, j)
  <2>1. CASE j = 0
    BY <2>1 DEF IsWalk
  <2>2. CASE j # 0
    <3>1. PICK f : IsWalk(f, j - 1)
      BY <1>1, <1>2, <2>2
    <3> DEFINE each(d, h) == [i \in DOMAIN ctx[d].bases |->
                 h[ctx[d].bases[i].class]
                 \o (IF ctx[d].bases[i].virt THEN <<ctx[d].bases[i].class>> ELSE << >>)]
               g == [d \in 1 .. j |-> IF d = j THEN FlattenSeq(each(j, f)) ELSE f[d]]
    <3>2. ASSUME NEW d \in 1 .. j PROVE g[d] = FlattenSeq(each(d, g))
      <4>1. d \in DOMAIN ctx
        BY <1>1, <1>2
      <4>2. \A i \in DOMAIN ctx[d].bases : ctx[d].bases[i].class \in 1 .. (d - 1)
        BY <4>1, ClassParts
      <4>3. ASSUME NEW i \in DOMAIN ctx[d].bases
            PROVE  g[ctx[d].bases[i].class] = f[ctx[d].bases[i].class]
        <5>1. PICK b : b = ctx[d].bases[i].class
          OBVIOUS
        <5>2. b \in 1 .. j /\ b # j
          BY <1>2, <4>2, <5>1
        <5>3. g[b] = f[b]
          BY <5>2
        <5> QED BY <5>1, <5>3
      <4> HIDE DEF g
      <4>4. each(d, g) = each(d, f)
        BY <4>3
      <4>5. d # j => f[d] = FlattenSeq(each(d, f))
        <5> SUFFICES ASSUME d # j PROVE f[d] = FlattenSeq(each(d, f))
          OBVIOUS
        <5>1. d \in 1 .. (j - 1)
          BY <1>2
        <5> QED BY <3>1, <5>1 DEF IsWalk
      <4> HIDE DEF each
      <4>6. g[d] = IF d = j THEN FlattenSeq(each(j, f)) ELSE f[d]
        BY DEF g
      <4> QED BY <4>4, <4>5, <4>6
    <3> HIDE DEF each
    <3>3. g = [d \in 1 .. j |-> FlattenSeq(each(d, g))]
      BY <3>2
    <3>4. IsWalk(g, j)
      BY <3>3 DEF IsWalk, each
    <3> QED BY <3>4
  <2> QED BY <2>1, <2>2
<1>3. \A j \in Nat : (\A k \in Nat : k < j => k \in T) => j \in T
  BY <1>2
<1> HIDE DEF T
<1>4. Nat \subseteq T
  BY <1>3, Induct
<1> QED BY <1>1, <1>4 DEF T

(* Sequences over some of the elements.                                     *)
LEMMA Wider ==
  ASSUME NEW S, NEW R, S \subseteq R
  PROVE  Seq(S) \subseteq Seq(R)
<1> SUFFICES ASSUME NEW q \in Seq(S) PROVE q \in Seq(R)
  OBVIOUS
<1>1. Len(q) \in Nat /\ q = [i \in 1 .. Len(q) |-> q[i]] /\ \A i \in 1 .. Len(q) : q[i] \in S
  OBVIOUS
<1> QED BY <1>1

(* At most one element.                                                     *)
LEMMA OneOrNone ==
  ASSUME NEW S, NEW x \in S, NEW P \in BOOLEAN
  PROVE  (IF P THEN <<x>> ELSE << >>) \in Seq(S) /\ (IF P THEN << >> ELSE <<x>>) \in Seq(S)
<1>1. <<x>> \in Seq(S) /\ << >> \in Seq(S)
  OBVIOUS
<1> QED BY <1>1

(* Two walks agree on the classes both are defined on.                      *)
LEMMA WalkUnique ==
  ASSUME WellFormed(ctx), NEW n \in 0 .. Len(ctx), NEW k \in 0 .. n,
         NEW f, IsWalk(f, n), NEW g, IsWalk(g, k)
  PROVE  \A d \in 1 .. k : f[d] = g[d]
<1> DEFINE level(h, d, i) == h[ctx[d].bases[i].class]
              \o (IF ctx[d].bases[i].virt THEN <<ctx[d].bases[i].class>> ELSE << >>)
           each(h, d) == FlattenSeq([i \in DOMAIN ctx[d].bases |-> level(h, d, i)])
           T == {j \in Nat : j \in 1 .. k => f[j] = g[j]}
<1>1. ctx \in Seq(Class)
  BY DEF WellFormed
<1>2. ASSUME NEW j \in Nat, \A i \in Nat : i < j => i \in T, j \in 1 .. k
      PROVE  f[j] = g[j]
  <2>1. j \in 1 .. n /\ j \in DOMAIN ctx
    BY <1>1, <1>2
  <2>2. f[j] = each(f, j) /\ g[j] = each(g, j)
    BY <1>2, <2>1 DEF IsWalk
  <2>3. ASSUME NEW i \in DOMAIN ctx[j].bases PROVE level(f, j, i) = level(g, j, i)
    <3>1. ctx[j].bases[i].class \in 1 .. (j - 1)
      BY <2>1, ClassParts
    <3>2. f[ctx[j].bases[i].class] = g[ctx[j].bases[i].class]
      BY <1>2, <3>1
    <3> QED BY <3>2
  <2> HIDE DEF level
  <2>4. each(f, j) = each(g, j)
    BY <2>3
  <2> QED BY <2>2, <2>4
<1>3. \A j \in Nat : (\A i \in Nat : i < j => i \in T) => j \in T
  BY <1>2
<1> HIDE DEF T
<1>4. Nat \subseteq T
  BY <1>3, Induct
<1> QED BY <1>4 DEF T

WalkOf(c) == (CHOOSE f : IsWalk(f, c))[c]
Level(d, i) ==
  WalkOf(ctx[d].bases[i].class)
  \o (IF ctx[d].bases[i].virt THEN <<ctx[d].bases[i].class>> ELSE << >>)

(* What the walk of a class collects comes from those of its bases.         *)
LEMMA WalkStep ==
  ASSUME WellFormed(ctx), NEW c \in DOMAIN ctx
  PROVE  WalkOf(c) = FlattenSeq([i \in DOMAIN ctx[c].bases |-> Level(c, i)])
<1>1. ctx \in Seq(Class) /\ c \in 1 .. Len(ctx)
  BY DEF WellFormed
<1> DEFINE f(d) == CHOOSE h : IsWalk(h, d)
<1>2. ASSUME NEW d \in 1 .. c PROVE IsWalk(f(d), d)
  <2>1. d \in 0 .. Len(ctx)
    BY <1>1
  <2> QED BY <2>1, WalkExists
<1>3. \A d : WalkOf(d) = f(d)[d]
  BY DEF WalkOf
<1> HIDE DEF f
<1> DEFINE level(i) == f(c)[ctx[c].bases[i].class]
              \o (IF ctx[c].bases[i].virt THEN <<ctx[c].bases[i].class>> ELSE << >>)
<1>4. f(c)[c] = FlattenSeq([i \in DOMAIN ctx[c].bases |-> level(i)])
  <2>1. c \in 1 .. c
    BY <1>1
  <2>2. IsWalk(f(c), c)
    BY <1>2, <2>1
  <2> QED BY <2>1, <2>2 DEF IsWalk
<1>5. ASSUME NEW i \in DOMAIN ctx[c].bases PROVE level(i) = Level(c, i)
  <2>1. PICK b : b = ctx[c].bases[i].class
    OBVIOUS
  <2>2. b \in 1 .. (c - 1)
    BY <2>1, ClassParts
  <2>3. IsWalk(f(c), c) /\ IsWalk(f(b), b) /\ b \in 0 .. c /\ c \in 0 .. Len(ctx) /\ b \in 1 .. b
    BY <1>1, <1>2, <2>2
  <2>4. f(c)[b] = f(b)[b]
    BY <2>3, WalkUnique
  <2> QED BY <1>3, <2>1, <2>4 DEF Level
<1> HIDE DEF level
<1> QED BY <1>3, <1>4, <1>5

(* They are earlier classes.                                                *)
LEMMA WalkBelow ==
  ASSUME WellFormed(ctx), NEW c \in DOMAIN ctx
  PROVE  /\ WalkOf(c) \in Seq(1 .. (c - 1))
         /\ [i \in DOMAIN ctx[c].bases |-> Level(c, i)] \in Rows(1 .. (c - 1))
<1>1. ctx \in Seq(Class) /\ c \in 1 .. Len(ctx)
  BY DEF WellFormed
<1> DEFINE U == {d \in Nat : d \in DOMAIN ctx => WalkOf(d) \in Seq(1 .. (d - 1))}
<1>2. ASSUME NEW d \in DOMAIN ctx, d \in Nat, \A k \in Nat : k < d => k \in U
      PROVE  [i \in DOMAIN ctx[d].bases |-> Level(d, i)] \in Rows(1 .. (d - 1))
  <2> DEFINE bs == ctx[d].bases
             ss == [i \in DOMAIN bs |-> Level(d, i)]
  <2>1. bs \in Seq(Base) /\ \A i \in DOMAIN bs : bs[i].class \in 1 .. (d - 1)
    BY ClassParts
  <2>2. \A i : Level(d, i) = WalkOf(bs[i].class) \o (IF bs[i].virt THEN <<bs[i].class>> ELSE << >>)
    BY DEF Level
  <2> HIDE DEF bs
  <2>3. ASSUME NEW i \in DOMAIN bs PROVE Level(d, i) \in Seq(1 .. (d - 1))
    <3>1. PICK b : b = bs[i].class
      OBVIOUS
    <3>2. b \in 1 .. (d - 1) /\ bs[i].virt \in BOOLEAN
      <4>1. bs[i] \in Base
        BY <2>1
      <4>2. bs[i].virt \in BOOLEAN
        BY <4>1 DEF Base
      <4> QED BY <2>1, <3>1, <4>2
    <3>3. b \in Nat /\ b < d /\ b \in DOMAIN ctx
      BY <1>1, <1>2, <3>2
    <3>4. WalkOf(b) \in Seq(1 .. (b - 1))
      BY <1>2, <3>3
    <3>5. 1 .. (b - 1) \subseteq 1 .. (d - 1)
      BY <1>2, <3>3
    <3>6. WalkOf(b) \in Seq(1 .. (d - 1))
      BY <3>4, <3>5, Wider
    <3>7. (IF bs[i].virt THEN <<b>> ELSE << >>) \in Seq(1 .. (d - 1))
      BY <3>2, OneOrNone
    <3>8. WalkOf(b) \o (IF bs[i].virt THEN <<b>> ELSE << >>) \in Seq(1 .. (d - 1))
      BY <3>6, <3>7
    <3>9. Level(d, i) = WalkOf(b) \o (IF bs[i].virt THEN <<b>> ELSE << >>)
      BY <2>2, <3>1
    <3> QED BY <3>8, <3>9
  <2>4. DOMAIN bs = 1 .. Len(bs) /\ Len(bs) \in Nat
    BY <2>1
  <2>5. ss \in Rows(1 .. (d - 1))
    BY <2>3, <2>4 DEF Rows
  <2> QED BY <2>5 DEF bs
<1>3. ASSUME NEW d \in DOMAIN ctx, d \in Nat, \A k \in Nat : k < d => k \in U
      PROVE  WalkOf(d) \in Seq(1 .. (d - 1))
  <2>1. [i \in DOMAIN ctx[d].bases |-> Level(d, i)] \in Rows(1 .. (d - 1))
    BY <1>2, <1>3
  <2> QED BY <2>1, FlatType, WalkStep
<1>4. \A j \in Nat : (\A k \in Nat : k < j => k \in U) => j \in U
  BY <1>3
<1> HIDE DEF U
<1>5. Nat \subseteq U /\ c \in Nat
  BY <1>1, <1>4, Induct
<1>6. \A k \in Nat : k < c => k \in U
  BY <1>5
<1> QED BY <1>2, <1>3, <1>5, <1>6

(* The virtual bases of a class are listed once each.                       *)
LEMMA VirtualOnce ==
  ASSUME WellFormed(ctx), NEW c \in DOMAIN ctx
  PROVE  Once(VirtualBases(c), Range(WalkOf(c)))
<1>1. VirtualBases(c)
      = FoldLeft(LAMBDA seen, b : IF Contains(seen, b) THEN seen ELSE Append(seen, b),
                 << >>, WalkOf(c))
  BY DEF VirtualBases, IsWalk, WalkOf
<1> QED BY <1>1, WalkBelow, FoldOnce

(* The virtual bases of a class, direct or not, are earlier classes.        *)
LEMMA VirtualBelow ==
  ASSUME WellFormed(ctx), NEW c \in DOMAIN ctx
  PROVE  VirtualBases(c) \in Seq(1 .. (c - 1))
<1>1. VirtualBases(c) \in Seq(Range(WalkOf(c)))
  BY VirtualOnce DEF Once
<1>2. Range(WalkOf(c)) \subseteq 1 .. (c - 1)
  BY WalkBelow, Measured DEF Range
<1> QED BY <1>1, <1>2, Wider

(* Those of a base are among them.                                          *)
LEMMA VirtualInherited ==
  ASSUME WellFormed(ctx), NEW c \in DOMAIN ctx, NEW i \in DOMAIN ctx[c].bases
  PROVE  Range(VirtualBases(ctx[c].bases[i].class)) \subseteq Range(VirtualBases(c))
<1> DEFINE ss == [j \in DOMAIN ctx[c].bases |-> Level(c, j)]
<1>1. PICK b : b = ctx[c].bases[i].class
  OBVIOUS
<1>2. b \in DOMAIN ctx
  <2>1. ctx \in Seq(Class)
    BY DEF WellFormed
  <2> QED BY <1>1, <2>1, ClassParts
<1>3. Range(VirtualBases(b)) = Range(WalkOf(b)) /\ Range(VirtualBases(c)) = Range(WalkOf(c))
  BY <1>2, VirtualOnce DEF Once
<1>4. WalkOf(c) = FlattenSeq(ss) /\ ss \in Rows(1 .. (c - 1))
  BY WalkStep, WalkBelow
<1>5. i \in DOMAIN ss /\ ss[i] = WalkOf(b) \o (IF ctx[c].bases[i].virt THEN <<b>> ELSE << >>)
  BY <1>1 DEF Level
<1> HIDE DEF ss
<1>6. PICK off : FlatMap(WalkOf(c), ss, off)
  BY <1>4, Flat
<1>7. ASSUME NEW x \in DOMAIN WalkOf(b) PROVE x \in DOMAIN ss[i] /\ ss[i][x] = WalkOf(b)[x]
  <2>1. WalkOf(b) \in Seq(1 .. (b - 1))
    BY <1>2, WalkBelow
  <2>2. PICK S : WalkOf(b) \in Seq(S) /\ <<b>> \in Seq(S) /\ << >> \in Seq(S)
    <3>1. 1 .. (b - 1) \subseteq (1 .. (b - 1)) \union {b} /\ b \in (1 .. (b - 1)) \union {b}
      OBVIOUS
    <3>2. WalkOf(b) \in Seq((1 .. (b - 1)) \union {b})
      BY <2>1, <3>1, Wider
    <3> QED BY <3>2
  <2>3. PICK e \in Seq(S) : ss[i] = WalkOf(b) \o e
    BY <1>5, <2>2
  <2> QED BY <2>2, <2>3
<1>8. ASSUME NEW y \in Range(WalkOf(b)) PROVE y \in Range(WalkOf(c))
  <2>1. PICK x \in DOMAIN WalkOf(b) : y = WalkOf(b)[x]
    BY DEF Range
  <2>2. off[i] + x \in DOMAIN WalkOf(c) /\ WalkOf(c)[off[i] + x] = ss[i][x]
    BY <1>5, <1>6, <1>7 DEF FlatMap
  <2> QED BY <1>7, <2>1, <2>2 DEF Range
<1> QED BY <1>1, <1>3, <1>8

(* The subobjects that get a table are those of earlier classes.            *)
LEMMA SubobjectsBelow ==
  ASSUME WellFormed(ctx), self \in DOMAIN ctx
  PROVE  Subobjects \in Seq(1 .. (self - 1))
<1> DEFINE bs == ctx[self].bases
           own(i) == IF bs[i].virt \/ IsPrimaryBase(self, i) THEN << >> ELSE <<bs[i].class>>
           ss == [i \in DOMAIN bs |-> own(i)]
<1>1. bs \in Seq(Base) /\ \A i \in DOMAIN bs : bs[i].class \in 1 .. (self - 1)
  BY ClassParts
<1>2. VirtualBases(self) \in Seq(1 .. (self - 1))
  BY VirtualBelow
<1>3. Subobjects = FlattenSeq(ss) \o VirtualBases(self)
  BY DEF Subobjects
<1> HIDE DEF bs
<1>4. \A i \in DOMAIN bs : own(i) \in Seq(1 .. (self - 1))
  <2> SUFFICES ASSUME NEW i \in DOMAIN bs PROVE own(i) \in Seq(1 .. (self - 1))
    OBVIOUS
  <2>1. bs[i].class \in 1 .. (self - 1)
    BY <1>1
  <2>2. <<bs[i].class>> \in Seq(1 .. (self - 1)) /\ << >> \in Seq(1 .. (self - 1))
    BY <2>1
  <2> QED BY <2>2
<1> HIDE DEF own
<1>5. ss \in Seq(Seq(1 .. (self - 1)))
  <2>1. DOMAIN bs = 1 .. Len(bs) /\ Len(bs) \in Nat
    BY <1>1
  <2> QED BY <1>4, <2>1
<1> HIDE DEF ss
<1>6. FlattenSeq(ss) \in Seq(1 .. (self - 1))
  BY <1>5, FlatType DEF Rows
<1> QED BY <1>2, <1>3, <1>6

(* An entry of a sub-table: the slot of the base, and what the class itself *)
(* overrides.                                                               *)
EntryOk(c, s, e) ==
  /\ Origin(e.slot) = Origin(s)
  /\ IF e.slot.kind # "Method" THEN e.slot.overrider = c /\ e.thunk
     ELSE VirtualIn(c, SlotSig(e.slot)) # {} =>
            /\ e.slot.overrider = c
            /\ e.slot.overIdx \in VirtualIn(c, SlotSig(e.slot))
            /\ e.thunk <=> ~IsPure(e.slot)

SubOk(c, t) ==
  /\ t.for \in 1 .. (c - 1)
  /\ DOMAIN t.entries = DOMAIN tables[t.for].slots
  /\ \A i \in DOMAIN t.entries : EntryOk(c, tables[t.for].slots[i], t.entries[i])

SubsInv ==
  /\ sub \in Nat \ {0}
  /\ phase # "idle" => /\ \E S : subs \in Seq(S)
                       /\ \A i \in DOMAIN subs : SubOk(self, subs[i])
  /\ \A c \in ClassIds : \A i \in DOMAIN tables[c].subs : SubOk(c, tables[c].subs[i])

(* most_derived_override finds what the class declares.                     *)
LEMMA EntryBuilt ==
  ASSUME WellFormed(ctx), self \in DOMAIN ctx, NEW s \in SlotSet
  PROVE  EntryOk(self, s, SecondaryEntry(MostDerived(s)))
<1> DEFINE u == MostDerived(s)
           e == SecondaryEntry(u)
<1>1. e.slot = u /\ e.thunk = ~IsPure(u)
  BY DEF SecondaryEntry
<1>2. /\ s.kind \in {"Method", "D1", "D0"}
      /\ \A x, y : LET r == [s EXCEPT !.overrider = x, !.overIdx = y]
                   IN /\ r.kind = s.kind /\ r.origin = s.origin /\ r.idx = s.idx
                      /\ r.overrider = x /\ r.overIdx = y
  BY DEF SlotSet
<1>3. CASE s.kind # "Method"
  <2>1. u = [s EXCEPT !.overrider = self, !.overIdx = 0]
    BY <1>3 DEF MostDerived
  <2>2. u.kind = s.kind /\ u.origin = s.origin /\ u.idx = s.idx /\ u.overrider = self
    BY <1>2, <2>1
  <2>3. ~IsPure(u)
    BY <1>3, <2>2 DEF IsPure
  <2> HIDE DEF u, e
  <2>4. EntryOk(self, s, e)
    BY <1>1, <1>3, <2>2, <2>3 DEF EntryOk, Origin
  <2> QED BY <2>4 DEF u, e
<1>4. CASE s.kind = "Method"
  <2> DEFINE own == {k \in DOMAIN ctx[self].methods :
                       IsVirtual(self, k) /\ ctx[self].methods[k].sig = SlotSig(s)}
  <2>1. CASE own = {}
    <3>1. u = s
      BY <1>4, <2>1 DEF MostDerived
    <3>2. VirtualIn(self, SlotSig(s)) \subseteq own
      BY DEF VirtualIn
    <3> HIDE DEF u, e, own
    <3>3. EntryOk(self, s, e)
      BY <1>1, <1>4, <2>1, <3>1, <3>2 DEF EntryOk
    <3> QED BY <3>3 DEF u, e
  <2>2. CASE own # {}
    <3>1. PICK k : k = CHOOSE j \in own : TRUE
      OBVIOUS
    <3>2. k \in own
      BY <2>2, <3>1
    <3>3. u = [s EXCEPT !.overrider = self, !.overIdx = k]
      BY <1>4, <2>2, <3>1 DEF MostDerived
    <3>4. /\ u.kind = s.kind /\ u.origin = s.origin /\ u.idx = s.idx
          /\ u.overrider = self /\ u.overIdx = k
      BY <1>2, <3>3
    <3>5. SlotSig(u) = SlotSig(s) /\ Origin(u) = Origin(s)
      BY <3>4 DEF SlotSig, Origin
    <3>6. ASSUME VirtualIn(self, SlotSig(s)) # {} PROVE k \in VirtualIn(self, SlotSig(s))
      <4>1. PICK j : j \in VirtualIn(self, SlotSig(s))
        BY <3>6
      <4>2. j \in DOMAIN ctx[self].methods /\ ctx[self].methods[j].sig = SlotSig(s)
        BY <4>1 DEF VirtualIn
      <4>3. j = k
        BY <3>2, <4>2 DEF WellFormed
      <4> QED BY <4>1, <4>3
    <3> HIDE DEF u, e, own
    <3>7. EntryOk(self, s, e)
      BY <1>1, <1>4, <3>4, <3>5, <3>6 DEF EntryOk
    <3> QED BY <3>7 DEF u, e
  <2> QED BY <2>1, <2>2
<1> QED BY <1>3, <1>4

(* A sub-table stays right while the tables before it stay.                 *)
LEMMA SubOkStays ==
  ASSUME ctx' = ctx, NEW c \in Nat, NEW t, SubOk(c, t), \A b \in 1 .. (c - 1) : tables'[b] = tables[b]
  PROVE  SubOk(c, t)'
<1>1. PICK b : b = t.for
  OBVIOUS
<1>2. b \in 1 .. (c - 1)
  BY <1>1 DEF SubOk
<1>3. PICK ss : ss = tables[b].slots
  OBVIOUS
<1>4. tables'[b].slots = ss
  BY <1>2, <1>3
<1>5. DOMAIN t.entries = DOMAIN ss /\ \A i \in DOMAIN t.entries : EntryOk(c, ss[i], t.entries[i])
  BY <1>1, <1>3 DEF SubOk
<1>6. ASSUME NEW s, NEW e, EntryOk(c, s, e) PROVE EntryOk(c, s, e)'
  BY <1>6 DEF EntryOk, Origin, VirtualIn, IsVirtual, SlotSig, IsPure
<1>7. \A i \in DOMAIN t.entries : EntryOk(c, ss[i], t.entries[i])'
  <2> SUFFICES ASSUME NEW i \in DOMAIN t.entries PROVE EntryOk(c, ss[i], t.entries[i])'
    OBVIOUS
  <2>1. EntryOk(c, ss[i], t.entries[i])
    BY <1>5
  <2> QED BY <1>6, <2>1
<1> QED BY <1>1, <1>2, <1>4, <1>5, <1>7 DEF SubOk

(* The sub-table of the subobject in hand.                                  *)
LEMMA SubBuilt ==
  ASSUME IInv, SubsInv, BuildSecondary
  PROVE  /\ \E S : subs' \in Seq(S)
         /\ \A i \in DOMAIN subs' : SubOk(self, subs'[i])
<1>1. WellFormed(ctx) /\ phase = "subs" /\ self \in DOMAIN ctx
  <2>1. phase = "subs"
    BY DEF BuildSecondary, AtSubobject
  <2> QED BY <2>1, Current DEF IInv
<1>2. PICK b : b = Subobjects[sub]
  OBVIOUS
<1>3. b \in 1 .. (self - 1)
  <2>1. sub \in DOMAIN Subobjects
    <3>1. Subobjects \in Seq(1 .. (self - 1))
      BY <1>1, SubobjectsBelow
    <3>2. sub \in Nat \ {0} /\ sub <= Len(Subobjects)
      BY DEF SubsInv, BuildSecondary, AtSubobject
    <3> QED BY <3>1, <3>2
  <2> QED BY <1>1, <1>2, <2>1, SubobjectsBelow
<1>4. PICK ss : ss = tables[b].slots
  OBVIOUS
<1> DEFINE t == [for |-> b, entries |-> [i \in DOMAIN ss |-> SecondaryEntry(MostDerived(ss[i]))]]
<1>5. tables[b].poly /\ subs' = Append(subs, t)
  BY <1>2, <1>4 DEF BuildSecondary
<1>6. ss \in Seq(SlotSet)
  <2>1. b \in ClassIds
    <3>1. PICK S : tables \in Seq(S)
      BY DEF IInv
    <3>2. Len(tables) \in Nat /\ DOMAIN tables = 1 .. Len(tables)
      BY <3>1
    <3> QED BY <1>3, <3>2 DEF self, ClassIds
  <2> QED BY <1>4, <1>5, <2>1, TableParts, BuiltParts
<1>7. SubOk(self, t)
  <2>1. \A i \in DOMAIN ss : EntryOk(self, ss[i], SecondaryEntry(MostDerived(ss[i])))
    BY <1>1, <1>6, EntryBuilt
  <2>2. /\ t.for = b /\ DOMAIN t.entries = DOMAIN ss
        /\ \A i \in DOMAIN ss : t.entries[i] = SecondaryEntry(MostDerived(ss[i]))
    OBVIOUS
  <2> HIDE DEF t
  <2> QED BY <1>3, <1>4, <2>1, <2>2 DEF SubOk
<1> HIDE DEF t
<1>8. PICK S : subs \in Seq(S)
  BY <1>1 DEF SubsInv
<1>9. /\ subs' \in Seq(S \union {t}) /\ DOMAIN subs' = DOMAIN subs \union {Len(subs) + 1}
      /\ subs'[Len(subs) + 1] = t /\ \A i \in DOMAIN subs : subs'[i] = subs[i]
  BY <1>5, <1>8
<1>10. \A i \in DOMAIN subs : SubOk(self, subs[i])
  BY <1>1 DEF SubsInv
<1> QED BY <1>7, <1>9, <1>10

(* A step keeps the sub-tables right: of the finished classes and of the    *)
(* class under way.                                                         *)
LEMMA SubsKept ==
  ASSUME IInv, SubsInv, [Next]_vars
  PROVE  SubsInv'
<1>1. ctx' = ctx
  BY DEF vars, Next, NoVTable, BeginVTable, NextClass, SkipMethod, PlaceDtor, Override, NewSlot,
         SlotsDone, BuildSecondary, SkipSubobject, FinishVTable
<1>2. PICK S : tables \in Seq(S)
  BY DEF IInv
<1>3. /\ Len(tables) \in Nat /\ ClassIds = 1 .. Len(tables) /\ self = Len(tables) + 1
      /\ self \in Nat
  BY <1>2 DEF ClassIds, self
<1>4. ASSUME tables' = tables
      PROVE  /\ self' = self
             /\ \A c \in ClassIds' : \A i \in DOMAIN tables'[c].subs : SubOk(c, tables[c].subs[i])'
             /\ \A t : SubOk(self, t) => SubOk(self, t)'
  <2>1. ASSUME NEW c \in Nat, NEW t, SubOk(c, t) PROVE SubOk(c, t)'
    BY <1>1, <1>4, <2>1, SubOkStays
  <2>2. self' = self /\ ClassIds' = ClassIds
    BY <1>4 DEF self, ClassIds
  <2>3. ASSUME NEW c \in ClassIds, NEW i \in DOMAIN tables'[c].subs
        PROVE  SubOk(c, tables[c].subs[i])'
    <3>1. PICK t : t = tables[c].subs[i]
      OBVIOUS
    <3>2. SubOk(c, t) /\ c \in Nat
      BY <1>3, <1>4, <2>3, <3>1 DEF SubsInv
    <3> QED BY <1>4, <2>1, <3>1, <3>2
  <2>4. ASSUME NEW t, SubOk(self, t) PROVE SubOk(self, t)'
    <3>1. PICK c : c = self
      OBVIOUS
    <3>2. SubOk(c, t)'
      BY <1>3, <2>1, <2>4, <3>1
    <3> QED BY <2>2, <3>1, <3>2
  <2> QED BY <2>2, <2>3, <2>4
<1>5. ASSUME NEW x, tables' = Append(tables, x),
             \A i \in DOMAIN x.subs : SubOk(self, x.subs[i])
      PROVE  \A c \in ClassIds' : \A i \in DOMAIN tables'[c].subs : SubOk(c, tables[c].subs[i])'
  <2>1. /\ ClassIds' = 1 .. (Len(tables) + 1) /\ tables'[Len(tables) + 1] = x
        /\ \A c \in 1 .. Len(tables) : tables'[c] = tables[c]
    BY <1>2, <1>5 DEF ClassIds
  <2>2. ASSUME NEW c \in 1 .. (Len(tables) + 1), NEW t, SubOk(c, t) PROVE SubOk(c, t)'
    <3>1. c \in Nat /\ \A b \in 1 .. (c - 1) : tables'[b] = tables[b]
      BY <1>3, <2>1
    <3> QED BY <1>1, <2>2, <3>1, SubOkStays
  <2>3. ASSUME NEW c \in 1 .. (Len(tables) + 1), NEW i \in DOMAIN tables'[c].subs
        PROVE  SubOk(c, tables[c].subs[i])'
    <3>1. PICK t : t = tables'[c].subs[i]
      OBVIOUS
    <3>2. SubOk(c, t)
      <4>1. CASE c \in 1 .. Len(tables)
        BY <1>3, <2>1, <2>3, <3>1, <4>1 DEF SubsInv
      <4>2. CASE c = Len(tables) + 1
        BY <1>3, <1>5, <2>1, <2>3, <3>1, <4>2
      <4> QED BY <1>3, <4>1, <4>2
    <3> QED BY <2>2, <3>1, <3>2
  <2> QED BY <2>1, <2>3
<1>6. CASE NoVTable
  <2>1. /\ tables' = Append(tables, Table(FALSE, NoIndex)) /\ sub' = sub
        /\ phase' = "idle"
    BY <1>6 DEF NoVTable
  <2>2. DOMAIN Table(FALSE, NoIndex).subs = {}
    BY DEF Table
  <2>3. \A c \in ClassIds' : \A i \in DOMAIN tables'[c].subs : SubOk(c, tables[c].subs[i])'
    BY <1>5, <2>1, <2>2
  <2> QED BY <2>1, <2>3 DEF SubsInv
<1>7. CASE FinishVTable
  <2> DEFINE x == Table(TRUE, [k \in DOMAIN ctx[self].methods |-> Rank(k)])
  <2>1. phase # "idle" /\ tables' = Append(tables, x) /\ sub' = sub /\ phase' = "idle"
    BY <1>7 DEF FinishVTable
  <2>2. x.subs = subs
    BY DEF Table
  <2> HIDE DEF x
  <2>3. \A i \in DOMAIN x.subs : SubOk(self, x.subs[i])
    BY <2>1, <2>2 DEF SubsInv
  <2>4. \A c \in ClassIds' : \A i \in DOMAIN tables'[c].subs : SubOk(c, tables[c].subs[i])'
    BY <1>5, <2>1, <2>3
  <2> QED BY <2>1, <2>4 DEF SubsInv
<1>8. CASE BeginVTable
  <2>1. tables' = tables /\ sub' = 1 /\ subs' = << >>
    BY <1>8 DEF BeginVTable
  <2>2. subs' \in Seq(Nat) /\ DOMAIN subs' = {} /\ sub' \in Nat \ {0}
    BY <2>1
  <2> QED BY <1>4, <2>1, <2>2 DEF SubsInv
<1>9. CASE BuildSecondary
  <2>1. tables' = tables /\ sub' = sub + 1
    BY <1>9 DEF BuildSecondary
  <2>2. /\ \E R : subs' \in Seq(R)
        /\ \A i \in DOMAIN subs' : SubOk(self, subs'[i])
    BY <1>9, SubBuilt
  <2>3. ASSUME NEW i \in DOMAIN subs' PROVE SubOk(self, subs[i])'
    <3>1. PICK t : t = subs'[i]
      OBVIOUS
    <3>2. SubOk(self, t)'
      BY <1>4, <2>1, <2>2, <3>1
    <3> QED BY <3>1, <3>2
  <2>4. sub' \in Nat \ {0}
    BY <2>1 DEF SubsInv
  <2> QED BY <1>4, <2>1, <2>2, <2>3, <2>4 DEF SubsInv
<1>10. ASSUME tables' = tables, subs' = subs, sub' \in {sub, sub + 1},
              phase' # "idle" => phase # "idle"
       PROVE  SubsInv'
  <2>1. ASSUME phase' # "idle"
        PROVE  /\ \E R : subs' \in Seq(R)
               /\ \A i \in DOMAIN subs' : SubOk(self, subs[i])'
    <3>1. (\E R : subs \in Seq(R)) /\ \A i \in DOMAIN subs : SubOk(self, subs[i])
      BY <1>10, <2>1 DEF SubsInv
    <3>2. ASSUME NEW i \in DOMAIN subs' PROVE SubOk(self, subs[i])'
      <4>1. PICK t : t = subs[i]
        OBVIOUS
      <4>2. SubOk(self, t)'
        BY <1>4, <1>10, <3>1, <3>2, <4>1
      <4> QED BY <1>10, <4>1, <4>2
    <3> QED BY <1>10, <3>1, <3>2
  <2>2. sub' \in Nat \ {0}
    BY <1>10 DEF SubsInv
  <2> QED BY <1>4, <1>10, <2>1, <2>2 DEF SubsInv
<1>11. CASE NextClass \/ SkipMethod \/ PlaceDtor \/ Override \/ NewSlot
  <2>1. tables' = tables /\ subs' = subs /\ sub' = sub /\ phase' = phase
    BY <1>11 DEF NextClass, SkipMethod, PlaceDtor, Override, NewSlot
  <2> QED BY <1>10, <2>1
<1>12. CASE SlotsDone \/ SkipSubobject
  <2>1. /\ tables' = tables /\ subs' = subs /\ sub' \in {sub, sub + 1} /\ phase # "idle"
    BY <1>12 DEF SlotsDone, SkipSubobject, AtSubobject
  <2> QED BY <1>10, <2>1
<1>13. CASE UNCHANGED vars
  BY <1>10, <1>13 DEF vars
<1> QED BY <1>6, <1>7, <1>8, <1>9, <1>11, <1>12, <1>13 DEF Next

(* SecondaryOverridden: an entry of a sub-table stands for the slot of its  *)
(* base at that place; a destructor's is the class's own, behind a thunk,   *)
(* and so is that of a function the class declares, unless it is pure       *)
(* (vtable.rs, build_secondary_entries and most_derived_override).          *)
THEOREM SecondaryCorrect == Spec => []SecondaryOverridden
<1>1. Init => SubsInv
  <2> SUFFICES ASSUME Init PROVE SubsInv
    OBVIOUS
  <2>1. tables = << >> /\ phase = "idle" /\ sub = 1
    BY DEF Init
  <2>2. ClassIds = {}
    BY <2>1 DEF ClassIds
  <2> QED BY <2>1, <2>2 DEF SubsInv
<1>2. IInv /\ SubsInv /\ [Next]_vars => SubsInv'
  BY SubsKept
<1>3. SubsInv => SecondaryOverridden
  <2> SUFFICES ASSUME SubsInv, NEW c \in ClassIds, NEW t \in Range(tables[c].subs),
                      NEW i \in DOMAIN t.entries
               PROVE  EntryOk(c, tables[t.for].slots[i], t.entries[i])
    BY DEF SecondaryOverridden, EntryOk
  <2>1. PICK k \in DOMAIN tables[c].subs : t = tables[c].subs[k]
    BY DEF Range
  <2>2. SubOk(c, t)
    BY <2>1 DEF SubsInv
  <2> QED BY <2>2 DEF SubOk
<1> QED BY <1>1, <1>2, <1>3, TablesInvariant, PTL DEF Spec

-----------------------------------------------------------------------------
(* The MSVC tables are functions of the program: the loops over the chain    *)
(* and over the methods are followed turn by turn.                           *)

MsvcUpper(d) == ctx[d].bases[MsvcPrimary(d)].class

(* The first polymorphic non-virtual base is an earlier class.               *)
LEMMA MsvcUpperBelow ==
  ASSUME WellFormed(ctx), NEW d \in DOMAIN ctx
  PROVE  MsvcPrimary(d) # 0 => MsvcUpper(d) \in 1 .. (d - 1)
<1>1. ctx[d].bases \in Seq(Base)
  BY ClassParts
<1> DEFINE I == {i \in 1 .. Len(ctx[d].bases) :
                   ~ctx[d].bases[i].virt /\ Polymorphic(ctx[d].bases[i].class)}
<1>2. MsvcPrimary(d) = First(I)
  <2>1. MsvcPrimary(d) = IF I # {} THEN CHOOSE x \in I : \A y \in I : x <= y ELSE 0
    BY DEF MsvcPrimary, SelectInSeq, Min
  <2> HIDE DEF I
  <2> QED BY <2>1 DEF First
<1>3. MsvcPrimary(d) # 0 => MsvcPrimary(d) \in I
  <2>1. I \in SUBSET (1 .. Len(ctx[d].bases)) /\ Len(ctx[d].bases) \in Nat
    BY <1>1
  <2> HIDE DEF I
  <2> QED BY <1>2, <2>1, FirstOf
<1>4. MsvcPrimary(d) # 0 => MsvcPrimary(d) \in DOMAIN ctx[d].bases
  BY <1>1, <1>3
<1> QED BY <1>4, ClassParts DEF MsvcUpper

MsvcNext == [d \in 1 .. Len(ctx) |-> IF MsvcPrimary(d) = 0 THEN 0 ELSE MsvcUpper(d)]

(* So the chain rises.                                                       *)
LEMMA MsvcNextRises ==
  ASSUME WellFormed(ctx)
  PROVE  /\ Len(ctx) \in Nat /\ DOMAIN ctx = 1 .. Len(ctx)
         /\ Rises(MsvcNext, Len(ctx))
         /\ \A d \in DOMAIN ctx : MsvcNext[d] = IF MsvcPrimary(d) = 0 THEN 0 ELSE MsvcUpper(d)
         /\ \A d \in DOMAIN ctx : MsvcPrimary(d) # 0 => MsvcUpper(d) # 0
<1>1. ctx \in Seq(Class)
  BY DEF WellFormed
<1>2. \A d \in DOMAIN ctx : MsvcPrimary(d) # 0 => MsvcUpper(d) \in 1 .. (d - 1)
  BY MsvcUpperBelow
<1>3. Len(ctx) \in Nat /\ DOMAIN ctx = 1 .. Len(ctx)
  BY <1>1
<1>4. \A d \in DOMAIN ctx : MsvcNext[d] = IF MsvcPrimary(d) = 0 THEN 0 ELSE MsvcUpper(d)
  BY <1>3 DEF MsvcNext
<1>5. \A d \in DOMAIN ctx : MsvcPrimary(d) # 0 => MsvcUpper(d) # 0
  BY <1>2, <1>3
<1> QED BY <1>2, <1>3, <1>4, <1>5 DEF Rises

(* inheritance_chain: that of the base, then the class.                      *)
LEMMA MsvcChainStep ==
  ASSUME WellFormed(ctx), NEW c \in DOMAIN ctx
  PROVE  MsvcChain(c) = IF MsvcPrimary(c) = 0 THEN <<c>>
                        ELSE Append(MsvcChain(MsvcUpper(c)), c)
<1> DEFINE n == Len(ctx)
           body(f, e) == IF MsvcPrimary(e) = 0 THEN <<e>> ELSE Append(f[MsvcUpper(e)], e)
           Sol(f, d) == f = [e \in 1 .. d |-> body(f, e)]
           sol(d) == CHOOSE f : Sol(f, d)
           up == [d \in 1 .. n |-> sol(d)]
<1>1. /\ n \in Nat /\ DOMAIN ctx = 1 .. n /\ Rises(MsvcNext, n)
      /\ \A d \in DOMAIN ctx : MsvcNext[d] = IF MsvcPrimary(d) = 0 THEN 0 ELSE MsvcUpper(d)
      /\ \A d \in DOMAIN ctx : MsvcPrimary(d) # 0 => MsvcUpper(d) # 0
  BY MsvcNextRises
<1>2. ASSUME NEW d PROVE MsvcChain(d) = sol(d)[d]
  BY DEF MsvcChain, MsvcUpper
<1> HIDE DEF n
<1>3. ASSUME NEW d \in 1 .. n, NEW f PROVE Sol(f, d) <=> IsUp(f, d, MsvcNext)
  <2>1. ASSUME NEW e \in 1 .. d PROVE body(f, e) = UpTo(f, e, MsvcNext)
    <3>1. e \in DOMAIN ctx
      BY <1>1
    <3> QED BY <1>1, <3>1, Zenon DEF UpTo
  <2> HIDE DEF body
  <2> QED BY <2>1, Zenon DEF IsUp
<1> HIDE DEF body, Sol
<1>4. ASSUME NEW d \in 1 .. n PROVE IsUp(up[d], d, MsvcNext) /\ MsvcChain(d) = up[d][d]
  <2>1. \E f : Sol(f, d)
    BY <1>1, <1>3, UpExists
  <2>2. up[d] = sol(d)
    OBVIOUS
  <2> QED BY <1>2, <1>3, <2>1, <2>2
<1> HIDE DEF up
<1>5. /\ MsvcNext[c] = 0 => up[c][c] = <<c>>
      /\ MsvcNext[c] # 0 => up[c][c] = Append(up[MsvcNext[c]][MsvcNext[c]], c)
  <2>1. c \in 1 .. n /\ \A d \in 1 .. n : IsUp(up[d], d, MsvcNext)
    BY <1>1, <1>4
  <2> QED BY <1>1, <2>1, UpStep
<1>6. MsvcNext[c] # 0 => MsvcNext[c] \in 1 .. n
  BY <1>1 DEF Rises
<1> QED BY <1>1, <1>4, <1>5, <1>6, Zenon

(* It holds earlier classes and, last, the class.                            *)
LEMMA MsvcChainType ==
  ASSUME WellFormed(ctx), NEW c \in DOMAIN ctx
  PROVE  MsvcChain(c) \in Seq(1 .. c)
<1>1. /\ Len(ctx) \in Nat /\ DOMAIN ctx = 1 .. Len(ctx) /\ Rises(MsvcNext, Len(ctx))
      /\ \A d \in DOMAIN ctx : MsvcNext[d] = IF MsvcPrimary(d) = 0 THEN 0 ELSE MsvcUpper(d)
      /\ \A d \in DOMAIN ctx : MsvcPrimary(d) # 0 => MsvcUpper(d) # 0
  BY MsvcNextRises
<1> DEFINE n == Len(ctx)
           ch == [d \in 1 .. n |-> MsvcChain(d)]
<1> HIDE DEF n
<1>2. ASSUME NEW d \in 1 .. n
      PROVE  ch[d] = UpTo(ch, d, MsvcNext)
  <2>1. MsvcChain(d) = IF MsvcPrimary(d) = 0 THEN <<d>> ELSE Append(MsvcChain(MsvcUpper(d)), d)
    BY <1>1, MsvcChainStep DEF n
  <2>2. MsvcNext[d] # 0 => MsvcNext[d] \in 1 .. n
    BY <1>1 DEF Rises, n
  <2>3. d \in DOMAIN ctx
    BY <1>1 DEF n
  <2>4. MsvcNext[d] # 0 => ch[MsvcNext[d]] = MsvcChain(MsvcNext[d])
    BY <2>2
  <2>5. ch[d] = MsvcChain(d)
    OBVIOUS
  <2> HIDE DEF ch
  <2> QED BY <1>1, <2>1, <2>3, <2>4, <2>5, Zenon DEF UpTo
<1>3. ch[c] \in Seq(1 .. c)
  <2> HIDE DEF ch
  <2> QED BY <1>1, <1>2, UpType DEF n
<1> QED BY <1>1, <1>3 DEF n

-----------------------------------------------------------------------------
(* One method. *)

MsvcSlot == [in: Nat, idx: Nat]
InClass(s) == s.in \in DOMAIN ctx /\ s.idx \in DOMAIN ctx[s.in].methods
OneOf(s, x) == MsvcOverrides(Declared(s), x)

(* A set of indices of a sequence has a last one.                            *)
LEMMA LastOf ==
  ASSUME NEW n \in Nat, NEW I \in SUBSET (1 .. n), I # {}
  PROVE  Max(I) \in I /\ \A y \in I : y <= Max(I)
<1> DEFINE J == {n - y : y \in I}
<1>1. J \subseteq Nat /\ J # {}
  <2>1. \A y \in I : n - y \in Nat
    OBVIOUS
  <2> QED BY <2>1
<1>2. PICK z \in J : \A y \in J : z <= y
  <2> HIDE DEF J
  <2> QED BY <1>1, Least
<1>3. PICK x \in I : z = n - x
  BY <1>2
<1>4. \A y \in I : n - x <= n - y
  BY <1>2, <1>3
<1>5. \A y \in I : x >= y
  BY <1>4
<1>6. \E w \in I : \A y \in I : w >= y
  BY <1>5
<1> DEFINE w == CHOOSE w \in I : \A y \in I : w >= y
<1>7. w \in I /\ \A y \in I : w >= y
  BY <1>6
<1>8. Max(I) = w
  BY DEF Max
<1> HIDE DEF w
<1> QED BY <1>7, <1>8

(* What InsertAt makes of a sequence.                                        *)
Inserts(t, s, p, e, n, S) ==
  /\ t \in Seq(S) /\ DOMAIN t = 1 .. (n + 1) /\ Len(t) = n + 1
  /\ \A i \in 1 .. (p - 1) : t[i] = s[i]
  /\ t[p] = e
  /\ \A i \in p .. n : t[i + 1] = s[i]
(* The element lies at p and those from p on move by one.                    *)
LEMMA Inserted ==
  ASSUME NEW S, NEW s, s \in Seq(S), NEW e, e \in S, NEW n, n \in Nat, n = Len(s),
         NEW p, p \in 1 .. (n + 1)
  PROVE  Inserts(InsertAt(s, p, e), s, p, e, n, S)
<1> DEFINE a == SubSeq(s, 1, p - 1)
           b == SubSeq(s, p, n)
<1>1. a \in Seq(S) /\ Len(a) = p - 1 /\ \A i \in 1 .. (p - 1) : a[i] = s[i]
  OBVIOUS
<1>2. b \in Seq(S) /\ Len(b) = n - p + 1 /\ \A i \in 1 .. (n - p + 1) : b[i] = s[p + i - 1]
  OBVIOUS
<1>3. InsertAt(s, p, e) = (a \o <<e>>) \o b
  BY DEF InsertAt
<1> HIDE DEF a, b
<1> DEFINE t == a \o <<e>>
<1>4. t \in Seq(S) /\ Len(t) = p /\ (\A i \in 1 .. (p - 1) : t[i] = s[i]) /\ t[p] = e
  BY <1>1
<1> HIDE DEF t
<1> DEFINE u == t \o b
<1>5. /\ u \in Seq(S) /\ Len(u) = n + 1
      /\ \A i \in 1 .. p : u[i] = t[i]
      /\ \A i \in 1 .. (n - p + 1) : u[p + i] = b[i]
  BY <1>2, <1>4
<1>6. u = InsertAt(s, p, e)
  BY <1>3 DEF t
<1> HIDE DEF u
<1>7. \A i \in p .. n : u[i + 1] = s[i]
  <2>1. ASSUME NEW i \in p .. n PROVE u[i + 1] = s[i]
    <3>0. i \in Nat /\ p \in Nat /\ p <= i /\ i <= n
      OBVIOUS
    <3> DEFINE x == i - p + 1
    <3>1. x \in 1 .. (n - p + 1) /\ p + x = i + 1 /\ p + x - 1 = i
      BY <3>0
    <3> HIDE DEF x
    <3> QED BY <1>2, <1>5, <3>1
  <2> QED BY <2>1
<1>8. DOMAIN u = 1 .. (n + 1)
  BY <1>5
<1> QED BY <1>4, <1>5, <1>6, <1>7, <1>8 DEF Inserts

(* Each place but the new one has what some place had before.                *)
Moved(f, s, t, n, p) ==
  /\ \A x \in 1 .. (n + 1) : x # p => f[x] \in 1 .. n /\ t[x] = s[f[x]]
  /\ \A x, y \in 1 .. (n + 1) : x # p /\ y # p /\ x # y => f[x] # f[y]
  /\ \A i \in 1 .. n : \E x \in 1 .. (n + 1) : x # p /\ f[x] = i
(* Such a map of places exists.                                              *)
LEMMA InsertMoves ==
  ASSUME NEW S, NEW s, NEW e, NEW n \in Nat, NEW p \in 1 .. (n + 1), NEW t,
         Inserts(t, s, p, e, n, S)
  PROVE  \E f : Moved(f, s, t, n, p)
<1> DEFINE f == [x \in 1 .. (n + 1) |-> IF x < p THEN x ELSE x - 1]
<1>1. /\ \A i \in 1 .. (p - 1) : t[i] = s[i]
      /\ \A i \in p .. n : t[i + 1] = s[i]
  BY DEF Inserts
<1>2. ASSUME NEW x \in 1 .. (n + 1), x # p
      PROVE  f[x] \in 1 .. n /\ t[x] = s[f[x]]
  <2>1. CASE x < p
    <3>1. f[x] = x /\ x \in 1 .. (p - 1) /\ x \in 1 .. n
      BY <2>1
    <3> QED BY <1>1, <3>1
  <2>2. CASE x > p
    <3> DEFINE i == x - 1
    <3>1. f[x] = i /\ i \in p .. n /\ i \in 1 .. n /\ i + 1 = x
      BY <2>2
    <3> HIDE DEF i, f
    <3> QED BY <1>1, <3>1
  <2> QED BY <1>2, <2>1, <2>2
<1>3. ASSUME NEW x \in 1 .. (n + 1), NEW y \in 1 .. (n + 1), x # p, y # p, x # y
      PROVE  f[x] # f[y]
  <2>1. f[x] = (IF x < p THEN x ELSE x - 1) /\ f[y] = (IF y < p THEN y ELSE y - 1)
    OBVIOUS
  <2>2. x \in Nat /\ y \in Nat /\ p \in Nat
    OBVIOUS
  <2> HIDE DEF f
  <2> QED BY <1>3, <2>1, <2>2
<1>4. ASSUME NEW i \in 1 .. n PROVE \E x \in 1 .. (n + 1) : x # p /\ f[x] = i
  <2>1. CASE i < p
    <3>1. i \in 1 .. (n + 1) /\ i # p /\ f[i] = i
      BY <2>1
    <3> QED BY <3>1
  <2>2. CASE i >= p
    <3>1. i + 1 \in 1 .. (n + 1) /\ i + 1 # p /\ f[i + 1] = i
      BY <2>2
    <3> QED BY <3>1
  <2> QED BY <2>1, <2>2
<1> HIDE DEF f
<1> QED BY <1>2, <1>3, <1>4 DEF Moved

(* methods_override is an equivalence.                                       *)
LEMMA OverrideLaws ==
  ASSUME NEW a \in Method, NEW b \in Method, NEW d \in Method
  PROVE  /\ MsvcOverrides(a, a)
         /\ MsvcOverrides(a, b) => MsvcOverrides(b, a)
         /\ MsvcOverrides(a, b) /\ MsvcOverrides(b, d) => MsvcOverrides(a, d)
  BY DEF MsvcOverrides, Method

(* A slot stands for a method.                                               *)
LEMMA DeclaredType ==
  ASSUME WellFormed(ctx)
  PROVE  /\ \A s : InClass(s) => Declared(s) \in Method
         /\ \A d \in DOMAIN ctx : \A l \in DOMAIN ctx[d].methods : ctx[d].methods[l] \in Method
<1>1. \A d \in DOMAIN ctx : ctx[d].methods \in Seq(Method)
  BY ClassParts
<1> QED BY <1>1 DEF InClass, Declared

(* A new slot goes after those of the classes above.                         *)
LEMMA PlaceAfter ==
  ASSUME NEW s, NEW n \in Nat, n = Len(s), NEW w \in 0 .. n, NEW c, NEW k,
         \A i \in 1 .. w : s[i].in # c
  PROVE  SlotPlace(s, c, k) \in (w + 1) .. (n + 1)
<1> DEFINE I == {i \in 1 .. n : ~SameRun(s[i], c, k)}
           last == IF I # {} THEN Max(I) ELSE 0
<1>1. SlotPlace(s, c, k) = 1 + last
  BY DEF SlotPlace, SelectLastInSeq
<1>2. I \in SUBSET (1 .. n)
  OBVIOUS
<1>3. I # {} => Max(I) \in 1 .. n /\ \A y \in I : y <= Max(I)
  <2> HIDE DEF I
  <2> QED BY <1>2, LastOf
<1>4. w # 0 => w \in I
  BY DEF SameRun
<1> HIDE DEF I
<1>5. last \in w .. n
  BY <1>3, <1>4
<1> HIDE DEF last
<1> QED BY <1>1, <1>5

(* The slots when the loop has met k methods of class d, having begun with   *)
(* those of the classes above.                                               *)
Separate(s) == \A i, j \in DOMAIN s : i # j => ~OneOf(s[i], Declared(s[j]))
LoopOk(old, s, d, k) ==
  /\ s \in Seq(MsvcSlot)
  /\ Len(old) <= Len(s) /\ \A i \in 1 .. Len(old) : s[i] = old[i]
  /\ \A i \in DOMAIN s : InClass(s[i]) /\ (i > Len(old) => s[i].in = d)
  /\ Separate(s)
  /\ \A l \in 1 .. k : IsVirtual(d, l) => \E i \in DOMAIN s : OneOf(s[i], ctx[d].methods[l])

(* A slot is added where no slot is the method's.                            *)
LEMMA NewMsvcSlot ==
  ASSUME WellFormed(ctx), NEW d \in DOMAIN ctx, NEW k \in DOMAIN ctx[d].methods,
         NEW old, Len(old) \in Nat, \A i \in 1 .. Len(old) : old[i].in # d,
         NEW s, LoopOk(old, s, d, k - 1),
         \A i \in DOMAIN s : ~OneOf(s[i], ctx[d].methods[k])
  PROVE  LoopOk(old, InsertAt(s, SlotPlace(s, d, k), [in |-> d, idx |-> k]), d, k)
<1> DEFINE e == [in |-> d, idx |-> k]
           p == SlotPlace(s, d, k)
           t == InsertAt(s, p, e)
           w == Len(old)
<1>1. d \in Nat /\ k \in Nat \ {0}
  BY ClassParts
<1>2. e \in MsvcSlot /\ InClass(e) /\ Declared(e) = ctx[d].methods[k] /\ e.in = d
  BY <1>1 DEF MsvcSlot, InClass, Declared
<1>3. /\ s \in Seq(MsvcSlot) /\ w <= Len(s) /\ \A i \in 1 .. w : s[i] = old[i]
      /\ \A i \in DOMAIN s : InClass(s[i]) /\ (i > w => s[i].in = d)
      /\ Separate(s)
      /\ \A l \in 1 .. (k - 1) : IsVirtual(d, l) =>
           \E i \in DOMAIN s : OneOf(s[i], ctx[d].methods[l])
  BY DEF LoopOk
<1>4. PICK n \in Nat : n = Len(s) /\ DOMAIN s = 1 .. n
  BY <1>3
<1> HIDE DEF e
<1>5. p \in (w + 1) .. (n + 1)
  <2>1. w \in 0 .. n /\ \A i \in 1 .. w : s[i].in # d
    BY <1>3, <1>4
  <2> HIDE DEF w
  <2> QED BY <1>4, <2>1, PlaceAfter
<1> HIDE DEF p, w
<1>6. w \in Nat /\ w <= n /\ p \in 1 .. (n + 1)
  BY <1>3, <1>4, <1>5 DEF w
<1>0. Inserts(t, s, p, e, n, MsvcSlot)
  BY <1>2, <1>3, <1>4, <1>6, Inserted
<1> HIDE DEF t
<1>7. /\ t \in Seq(MsvcSlot) /\ DOMAIN t = 1 .. (n + 1) /\ Len(t) = n + 1
      /\ \A i \in 1 .. (p - 1) : t[i] = s[i]
      /\ t[p] = e
      /\ \A i \in p .. n : t[i + 1] = s[i]
  BY <1>0 DEF Inserts
<1>8. PICK f : Moved(f, s, t, n, p)
  BY <1>0, <1>6, InsertMoves
<1>9. ASSUME NEW i \in 1 .. w PROVE t[i] = old[i]
  <2>1. i \in 1 .. (p - 1)
    BY <1>5, <1>6
  <2> QED BY <1>3, <1>7, <2>1
<1>10. ASSUME NEW x \in 1 .. (n + 1) PROVE InClass(t[x]) /\ (x > w => t[x].in = d)
  <2>1. CASE x = p
    BY <1>2, <1>7, <2>1
  <2>2. CASE x < p
    <3>1. x \in 1 .. (p - 1) /\ x \in 1 .. n
      BY <1>6, <2>2
    <3> QED BY <1>3, <1>4, <1>7, <3>1
  <2>3. CASE x > p
    <3> DEFINE i == x - 1
    <3>1. i \in p .. n /\ i \in 1 .. n /\ i + 1 = x /\ i > w
      BY <1>5, <1>6, <2>3
    <3> HIDE DEF i
    <3> QED BY <1>3, <1>4, <1>7, <3>1
  <2> QED BY <1>6, <2>1, <2>2, <2>3
<1>11. \A i \in 1 .. n : ~OneOf(s[i], Declared(e)) /\ ~OneOf(e, Declared(s[i]))
  <2>1. ASSUME NEW i \in 1 .. n PROVE ~OneOf(s[i], Declared(e)) /\ ~OneOf(e, Declared(s[i]))
    <3>1. Declared(s[i]) \in Method /\ Declared(e) \in Method
      BY <1>2, <1>3, <1>4, DeclaredType
    <3>2. ~MsvcOverrides(Declared(s[i]), Declared(e))
      BY <1>2, <1>4 DEF OneOf
    <3> QED BY <3>1, <3>2, OverrideLaws DEF OneOf
  <2> QED BY <2>1
<1>12. ASSUME NEW x \in 1 .. (n + 1), NEW y \in 1 .. (n + 1), x # y
       PROVE  ~OneOf(t[x], Declared(t[y]))
  <2>1. CASE x = p
    <3>1. f[y] \in 1 .. n /\ t[y] = s[f[y]]
      BY <1>8, <1>12, <2>1 DEF Moved
    <3> QED BY <1>7, <1>11, <2>1, <3>1
  <2>2. CASE y = p
    <3>1. f[x] \in 1 .. n /\ t[x] = s[f[x]]
      BY <1>8, <1>12, <2>2 DEF Moved
    <3> QED BY <1>7, <1>11, <2>2, <3>1
  <2>3. CASE x # p /\ y # p
    <3>1. /\ f[x] \in 1 .. n /\ t[x] = s[f[x]]
          /\ f[y] \in 1 .. n /\ t[y] = s[f[y]] /\ f[x] # f[y]
      BY <1>8, <1>12, <2>3 DEF Moved
    <3> QED BY <1>3, <1>4, <3>1 DEF Separate
  <2> QED BY <2>1, <2>2, <2>3
<1>13. ASSUME NEW l \in 1 .. k, IsVirtual(d, l)
       PROVE  \E x \in 1 .. (n + 1) : OneOf(t[x], ctx[d].methods[l])
  <2>1. CASE l = k
    <3>1. Declared(e) \in Method
      BY <1>2, DeclaredType
    <3>2. OneOf(e, ctx[d].methods[k])
      BY <1>2, <3>1, OverrideLaws DEF OneOf
    <3> QED BY <1>6, <1>7, <2>1, <3>2
  <2>2. CASE l # k
    <3>1. l \in 1 .. (k - 1)
      BY <1>1, <2>2
    <3>2. PICK i \in 1 .. n : OneOf(s[i], ctx[d].methods[l])
      BY <1>3, <1>4, <1>13, <3>1
    <3>3. PICK x \in 1 .. (n + 1) : x # p /\ f[x] = i
      BY <1>8 DEF Moved
    <3>4. t[x] = s[i]
      BY <1>8, <3>3 DEF Moved
    <3> QED BY <3>2, <3>4
  <2> QED BY <2>1, <2>2
<1>14. LoopOk(old, t, d, k)
  <2>1. Separate(t)
    BY <1>7, <1>12 DEF Separate
  <2>2. w <= Len(t)
    BY <1>6, <1>7
  <2>3. \A i \in DOMAIN t : InClass(t[i]) /\ (i > w => t[i].in = d)
    BY <1>7, <1>10
  <2>4. \A l \in 1 .. k : IsVirtual(d, l) => \E i \in DOMAIN t : OneOf(t[i], ctx[d].methods[l])
    BY <1>7, <1>13
  <2> QED BY <1>7, <1>9, <2>1, <2>2, <2>3, <2>4 DEF LoopOk, w
<1> QED BY <1>14 DEF t, p, e

(* One turn of the inner loop.                                               *)
LEMMA AddKeeps ==
  ASSUME WellFormed(ctx), NEW d \in DOMAIN ctx, NEW k \in DOMAIN ctx[d].methods,
         NEW old, Len(old) \in Nat, \A i \in 1 .. Len(old) : old[i].in # d,
         NEW s, LoopOk(old, s, d, k - 1)
  PROVE  LoopOk(old, AddMethod(s, d, k), d, k)
<1>1. s \in Seq(MsvcSlot) /\ k \in Nat \ {0}
  BY ClassParts DEF LoopOk
<1>2. (\E q \in Range(s) : MsvcOverrides(Declared(q), ctx[d].methods[k]))
        <=> \E i \in DOMAIN s : OneOf(s[i], ctx[d].methods[k])
  BY Zenon DEF Range, OneOf
<1>3. CASE IsVirtual(d, k) /\ ~\E i \in DOMAIN s : OneOf(s[i], ctx[d].methods[k])
  <2>1. AddMethod(s, d, k) = InsertAt(s, SlotPlace(s, d, k), [in |-> d, idx |-> k])
    BY <1>2, <1>3, Zenon DEF AddMethod
  <2> QED BY <1>3, <2>1, NewMsvcSlot
<1>4. CASE ~IsVirtual(d, k) \/ \E i \in DOMAIN s : OneOf(s[i], ctx[d].methods[k])
  <2>1. AddMethod(s, d, k) = s
    BY <1>2, <1>4, Zenon DEF AddMethod
  <2>2. ASSUME NEW l \in 1 .. k, IsVirtual(d, l)
        PROVE  \E i \in DOMAIN s : OneOf(s[i], ctx[d].methods[l])
    <3>1. CASE l = k
      BY <1>4, <2>2, <3>1
    <3>2. CASE l # k
      <4>1. l \in 1 .. (k - 1)
        BY <1>1, <3>2
      <4> QED BY <2>2, <4>1 DEF LoopOk
    <3> QED BY <3>1, <3>2
  <2>3. LoopOk(old, s, d, k)
    BY <2>2 DEF LoopOk
  <2> QED BY <2>1, <2>3
<1> QED BY <1>3, <1>4

-----------------------------------------------------------------------------
(* The two loops. *)

IsMethodsRun(f, old, d) ==
  f = [k \in 0 .. Len(ctx[d].methods) |-> IF k = 0 THEN old ELSE AddMethod(f[k - 1], d, k)]

(* After the methods of a class each virtual one has a slot, and the slots   *)
(* of the classes above are where they were.                                 *)
LEMMA MethodsLoop ==
  ASSUME WellFormed(ctx), NEW d, d \in DOMAIN ctx, NEW old, old \in Seq(MsvcSlot), Separate(old),
         \A i \in DOMAIN old : InClass(old[i]) /\ old[i].in # d
  PROVE  LoopOk(old, WithMethods(old, d), d, Len(ctx[d].methods))
<1> DEFINE n == Len(ctx[d].methods)
           Turn(x, k) == AddMethod(x, d, k)
           T == [k \in 0 .. n |-> {x \in Seq(MsvcSlot) : LoopOk(old, x, d, k)}]
           g == [k \in 1 .. n |-> [x \in T[k - 1] |-> Turn(x, k)]]
<1>1. n \in Nat /\ DOMAIN ctx[d].methods = 1 .. n
  BY ClassParts
<1>2. Len(old) \in Nat /\ DOMAIN old = 1 .. Len(old)
  OBVIOUS
<1>3. old \in T[0]
  <2>1. 0 \in 0 .. n
    BY <1>1
  <2>2. LoopOk(old, old, d, 0)
    BY <1>2 DEF LoopOk
  <2> QED BY <2>1, <2>2
<1>4. ASSUME NEW k \in 1 .. n, NEW x \in T[k - 1] PROVE Turn(x, k) \in T[k]
  <2>1. k \in 0 .. n /\ k - 1 \in 0 .. n /\ k \in DOMAIN ctx[d].methods
    BY <1>1
  <2>2. LoopOk(old, x, d, k - 1)
    BY <1>4, <2>1
  <2>3. LoopOk(old, Turn(x, k), d, k)
    BY <1>2, <2>1, <2>2, AddKeeps
  <2>4. Turn(x, k) \in Seq(MsvcSlot)
    BY <2>3 DEF LoopOk
  <2> HIDE DEF Turn
  <2> QED BY <2>1, <2>3, <2>4
<1>5. PICK f : IsRun(f, n, old, g)
  <2> HIDE DEF g
  <2> QED BY <1>1, Runs
<1>6. ASSUME NEW x, NEW k \in 0 .. n, x \in T[k] PROVE LoopOk(old, x, d, k)
  BY <1>6
<1> HIDE DEF n, Turn, T
<1>7. f[0] = old /\ \A k \in 1 .. n : f[k] = g[k][f[k - 1]]
  <2>1. 0 \in 0 .. n /\ \A k \in 1 .. n : k \in 0 .. n /\ k # 0
    BY <1>1
  <2> HIDE DEF g
  <2> QED BY <1>5, <2>1, Zenon DEF IsRun
<1>8. \A k \in 1 .. n : f[k - 1] \in T[k - 1] => f[k] = Turn(f[k - 1], k)
  BY <1>7
<1>9. \A k \in 0 .. n : f[k] \in T[k]
  <2>1. f[0] \in T[0] /\ \A k \in 1 .. n : f[k - 1] \in T[k - 1] => f[k] \in T[k]
    BY <1>3, <1>4, <1>7, <1>8
  <2> QED BY <1>1, <2>1, RunStays
<1>10. \E h : IsMethodsRun(h, old, d)
  <2>1. f = [k \in 0 .. n |-> IF k = 0 THEN old ELSE Turn(f[k - 1], k)]
    <3>1. ASSUME NEW k \in 0 .. n, k # 0 PROVE g[k][f[k - 1]] = Turn(f[k - 1], k)
      <4>1. k \in 1 .. n /\ k - 1 \in 0 .. n
        BY <1>1, <3>1
      <4> QED BY <1>9, <4>1
    <3> HIDE DEF g
    <3> QED BY <1>5, <3>1, Zenon DEF IsRun
  <2> QED BY <2>1, Zenon DEF IsMethodsRun, Turn, n
<1> DEFINE F == CHOOSE h : IsMethodsRun(h, old, d)
<1>11. IsMethodsRun(F, old, d)
  BY <1>10, Zenon
<1>12. WithMethods(old, d) = F[n]
  BY Zenon DEF WithMethods, IsMethodsRun, n
<1> HIDE DEF F
<1>13. F[0] = old /\ \A k \in 1 .. n : F[k] = Turn(F[k - 1], k)
  <2>1. 0 \in 0 .. n /\ \A k \in 1 .. n : k \in 0 .. n /\ k # 0
    BY <1>1
  <2> QED BY <1>11, <2>1, Zenon DEF IsMethodsRun, Turn, n
<1>14. F[0] \in T[0] /\ \A k \in 1 .. n : F[k - 1] \in T[k - 1] => F[k] \in T[k]
  BY <1>3, <1>4, <1>13
<1> HIDE DEF g
<1>15. \A k \in 0 .. n : F[k] \in T[k]
  BY <1>1, <1>14, RunStays
<1>16. n \in 0 .. n
  BY <1>1
<1> QED BY <1>6, <1>12, <1>15, <1>16 DEF n

(* A class is on its chain once.                                             *)
LEMMA MsvcChainOnce ==
  ASSUME WellFormed(ctx), NEW c \in DOMAIN ctx
  PROVE  \A i, j \in DOMAIN MsvcChain(c) : i < j => MsvcChain(c)[i] < MsvcChain(c)[j]
<1> DEFINE Rising(s) == \A i, j \in DOMAIN s : i < j => s[i] < s[j]
           T == {j \in Nat : j \in DOMAIN ctx => Rising(MsvcChain(j))}
<1>1. /\ Len(ctx) \in Nat /\ DOMAIN ctx = 1 .. Len(ctx)
  BY MsvcNextRises
<1>2. ASSUME NEW j \in Nat, \A i \in Nat : i < j => i \in T, j \in DOMAIN ctx
      PROVE  Rising(MsvcChain(j))
  <2>1. CASE MsvcPrimary(j) = 0
    <3>1. MsvcChain(j) = <<j>>
      BY <1>2, <2>1, MsvcChainStep
    <3> QED BY <3>1
  <2>2. CASE MsvcPrimary(j) # 0
    <3> DEFINE u == MsvcUpper(j)
               s == MsvcChain(u)
    <3>1. u \in 1 .. (j - 1) /\ u \in DOMAIN ctx
      BY <1>1, <1>2, <2>2, MsvcUpperBelow
    <3>2. s \in Seq(1 .. u) /\ Rising(s)
      BY <1>2, <3>1, MsvcChainType
    <3>3. MsvcChain(j) = Append(s, j)
      BY <1>2, <2>2, MsvcChainStep
    <3> HIDE DEF u, s
    <3>4. Rising(Append(s, j))
      <4>1. PICK n \in Nat : n = Len(s) /\ DOMAIN s = 1 .. n
        BY <3>2
      <4> DEFINE t == Append(s, j)
      <4>2. DOMAIN t = 1 .. (n + 1) /\ t[n + 1] = j /\ \A i \in 1 .. n : t[i] = s[i] /\ s[i] \in 1 .. u
        <5>1. s \in Seq(Nat) /\ j \in Nat /\ \A i \in DOMAIN s : s[i] \in 1 .. u
          BY <1>2, <3>1, <3>2
        <5> QED BY <4>1, <5>1
      <4> HIDE DEF t
      <4>3. ASSUME NEW a \in 1 .. (n + 1), NEW b \in 1 .. (n + 1), a < b PROVE t[a] < t[b]
        <5>1. a \in 1 .. n
          BY <4>3
        <5>2. CASE b = n + 1
          <6>1. t[a] \in 1 .. u /\ t[b] = j
            BY <4>2, <5>1, <5>2
          <6> QED BY <1>2, <3>1, <6>1
        <5>3. CASE b # n + 1
          <6>1. b \in 1 .. n
            BY <5>3
          <6> QED BY <3>2, <4>1, <4>2, <4>3, <5>1, <6>1
        <5> QED BY <5>2, <5>3
      <4> QED BY <4>2, <4>3 DEF t
    <3> QED BY <3>3, <3>4
  <2> QED BY <2>1, <2>2
<1>3. \A j \in Nat : (\A k \in Nat : k < j => k \in T) => j \in T
  BY <1>2
<1> HIDE DEF T, Rising
<1>4. Nat \subseteq T
  BY <1>3, Induct
<1>5. Rising(MsvcChain(c))
  BY <1>1, <1>4 DEF T
<1> QED BY <1>5 DEF Rising

(* The slots of the first n classes of a chain.                              *)
ChainOk(s, chain, n) ==
  /\ s \in Seq(MsvcSlot) /\ Separate(s)
  /\ \A i \in DOMAIN s : InClass(s[i]) /\ \E j \in 1 .. n : s[i].in = chain[j]
  /\ \A j \in 1 .. n : \A l \in DOMAIN ctx[chain[j]].methods :
       IsVirtual(chain[j], l) => \E i \in DOMAIN s : OneOf(s[i], ctx[chain[j]].methods[l])

(* One turn of the outer loop.                                               *)
LEMMA ClassKeeps ==
  ASSUME WellFormed(ctx), NEW c \in DOMAIN ctx, NEW n \in Nat, n \in DOMAIN MsvcChain(c),
         NEW s, ChainOk(s, MsvcChain(c), n - 1)
  PROVE  /\ ChainOk(WithMethods(s, MsvcChain(c)[n]), MsvcChain(c), n)
         /\ Len(s) <= Len(WithMethods(s, MsvcChain(c)[n]))
         /\ \A i \in DOMAIN s : WithMethods(s, MsvcChain(c)[n])[i] = s[i]
<1> DEFINE chain == MsvcChain(c)
           d == chain[n]
           t == WithMethods(s, d)
           L == Len(ctx[d].methods)
<1>0. DOMAIN ctx = 1 .. Len(ctx) /\ Len(ctx) \in Nat
  BY MsvcNextRises
<1>1. chain \in Seq(1 .. c) /\ \A i, j \in DOMAIN chain : i < j => chain[i] < chain[j]
  BY MsvcChainType, MsvcChainOnce
<1> HIDE DEF chain
<1>2. d \in 1 .. c /\ d \in DOMAIN ctx /\ n >= 1 /\ DOMAIN chain = 1 .. Len(chain) /\ Len(chain) \in Nat
  <2>0. n \in DOMAIN chain
    BY DEF chain
  <2>1. DOMAIN chain = 1 .. Len(chain) /\ Len(chain) \in Nat /\ d \in 1 .. c
    BY <1>1, <2>0
  <2>2. n >= 1
    BY <2>0, <2>1
  <2> QED BY <1>0, <2>1, <2>2
<1>3. \A j \in 1 .. (n - 1) : chain[j] # d
  <2>1. ASSUME NEW j \in 1 .. (n - 1) PROVE chain[j] # d
    <3>1. j \in DOMAIN chain /\ n \in DOMAIN chain /\ j < n
      BY <1>2 DEF chain
    <3>2. chain[j] < d /\ chain[j] \in 1 .. c
      BY <1>1, <3>1
    <3> QED BY <1>2, <3>2
  <2> QED BY <2>1
<1>4. /\ s \in Seq(MsvcSlot) /\ Separate(s)
      /\ \A i \in DOMAIN s : InClass(s[i]) /\ \E j \in 1 .. (n - 1) : s[i].in = chain[j]
      /\ \A j \in 1 .. (n - 1) : \A l \in DOMAIN ctx[chain[j]].methods :
           IsVirtual(chain[j], l) => \E i \in DOMAIN s : OneOf(s[i], ctx[chain[j]].methods[l])
  BY DEF ChainOk, chain
<1> HIDE DEF d
<1>5. LoopOk(s, t, d, L)
  <2>1. \A i \in DOMAIN s : InClass(s[i]) /\ s[i].in # d
    BY <1>3, <1>4
  <2> QED BY <1>2, <1>4, <2>1, MethodsLoop
<1> HIDE DEF t
<1>6. /\ t \in Seq(MsvcSlot)
      /\ Len(s) <= Len(t) /\ \A i \in 1 .. Len(s) : t[i] = s[i]
      /\ \A i \in DOMAIN t : InClass(t[i]) /\ (i > Len(s) => t[i].in = d)
      /\ Separate(t)
      /\ \A l \in 1 .. L : IsVirtual(d, l) => \E i \in DOMAIN t : OneOf(t[i], ctx[d].methods[l])
  BY <1>5 DEF LoopOk
<1>7. /\ DOMAIN ctx[d].methods = 1 .. L
      /\ DOMAIN s = 1 .. Len(s) /\ Len(s) \in Nat /\ DOMAIN t = 1 .. Len(t) /\ Len(t) \in Nat
  BY <1>2, <1>4, <1>6, ClassParts
<1>8. ASSUME NEW i \in DOMAIN t PROVE \E j \in 1 .. n : t[i].in = chain[j]
  <2>1. CASE i <= Len(s)
    <3>1. i \in DOMAIN s /\ t[i] = s[i]
      BY <1>6, <1>7, <2>1
    <3>2. PICK j \in 1 .. (n - 1) : s[i].in = chain[j]
      BY <1>4, <3>1
    <3>3. j \in 1 .. n
      OBVIOUS
    <3> QED BY <3>1, <3>2, <3>3
  <2>2. CASE i > Len(s)
    <3>1. n \in 1 .. n
      BY <1>2
    <3> QED BY <1>6, <2>2, <3>1 DEF d
  <2> QED BY <1>7, <2>1, <2>2
<1>9. ASSUME NEW j \in 1 .. n, NEW l \in DOMAIN ctx[chain[j]].methods, IsVirtual(chain[j], l)
      PROVE  \E i \in DOMAIN t : OneOf(t[i], ctx[chain[j]].methods[l])
  <2>1. CASE j = n
    <3>1. chain[j] = d
      BY <2>1 DEF d
    <3> QED BY <1>6, <1>7, <1>9, <3>1
  <2>2. CASE j # n
    <3>1. j \in 1 .. (n - 1)
      BY <2>2
    <3>2. PICK i \in DOMAIN s : OneOf(s[i], ctx[chain[j]].methods[l])
      BY <1>4, <1>9, <3>1
    <3>3. i \in DOMAIN t /\ t[i] = s[i]
      BY <1>6, <1>7
    <3> QED BY <3>2, <3>3
  <2> QED BY <2>1, <2>2
<1>10. ChainOk(t, chain, n)
  BY <1>6, <1>8, <1>9 DEF ChainOk
<1> QED BY <1>6, <1>7, <1>10 DEF chain, d, t

IsChainRun(f, c) ==
  f = [n \in 0 .. Len(MsvcChain(c)) |->
         IF n = 0 THEN << >> ELSE WithMethods(f[n - 1], MsvcChain(c)[n])]
ChainRun(c) == CHOOSE f : IsChainRun(f, c)

(* compute_slots, turn by turn.                                              *)
LEMMA ChainLoop ==
  ASSUME WellFormed(ctx), NEW c \in DOMAIN ctx
  PROVE  \E n \in Nat :
           /\ n = Len(MsvcChain(c)) /\ DOMAIN MsvcChain(c) = 1 .. n
           /\ MsvcSlots(c) = ChainRun(c)[n]
           /\ ChainRun(c)[0] = << >>
           /\ \A i \in 1 .. n : ChainRun(c)[i] = WithMethods(ChainRun(c)[i - 1], MsvcChain(c)[i])
           /\ \A i \in 0 .. n : ChainOk(ChainRun(c)[i], MsvcChain(c), i)
<1> DEFINE n == Len(MsvcChain(c))
           Turn(x, i) == WithMethods(x, MsvcChain(c)[i])
           T == [i \in 0 .. n |-> {x \in Seq(MsvcSlot) : ChainOk(x, MsvcChain(c), i)}]
           g == [i \in 1 .. n |-> [x \in T[i - 1] |-> Turn(x, i)]]
<1>1. n \in Nat /\ DOMAIN MsvcChain(c) = 1 .. n
  BY MsvcChainType
<1>2. << >> \in T[0]
  <2>1. 0 \in 0 .. n
    BY <1>1
  <2>2. ChainOk(<< >>, MsvcChain(c), 0)
    BY DEF ChainOk, Separate
  <2> QED BY <2>1, <2>2
<1>3. ASSUME NEW i \in 1 .. n, NEW x \in T[i - 1] PROVE Turn(x, i) \in T[i]
  <2>1. i \in 0 .. n /\ i - 1 \in 0 .. n /\ i \in Nat /\ i \in DOMAIN MsvcChain(c)
    BY <1>1
  <2>2. ChainOk(x, MsvcChain(c), i - 1)
    BY <1>3, <2>1
  <2>3. ChainOk(Turn(x, i), MsvcChain(c), i)
    BY <2>1, <2>2, ClassKeeps
  <2>4. Turn(x, i) \in Seq(MsvcSlot)
    BY <2>3 DEF ChainOk
  <2> HIDE DEF Turn
  <2> QED BY <2>1, <2>3, <2>4
<1>4. PICK f : IsRun(f, n, << >>, g)
  <2> HIDE DEF g
  <2> QED BY <1>1, Runs
<1>5. ASSUME NEW x, NEW i \in 0 .. n, x \in T[i] PROVE ChainOk(x, MsvcChain(c), i)
  BY <1>5
<1> HIDE DEF n, Turn, T
<1>6. f[0] = << >> /\ \A i \in 1 .. n : f[i] = g[i][f[i - 1]]
  <2>1. 0 \in 0 .. n /\ \A i \in 1 .. n : i \in 0 .. n /\ i # 0
    BY <1>1
  <2> HIDE DEF g
  <2> QED BY <1>4, <2>1, Zenon DEF IsRun
<1>7. \A i \in 1 .. n : f[i - 1] \in T[i - 1] => f[i] = Turn(f[i - 1], i)
  BY <1>6
<1>8. \A i \in 0 .. n : f[i] \in T[i]
  <2>1. f[0] \in T[0] /\ \A i \in 1 .. n : f[i - 1] \in T[i - 1] => f[i] \in T[i]
    BY <1>2, <1>3, <1>6, <1>7
  <2> QED BY <1>1, <2>1, RunStays
<1>9. \E h : IsChainRun(h, c)
  <2>1. f = [i \in 0 .. n |-> IF i = 0 THEN << >> ELSE Turn(f[i - 1], i)]
    <3>1. ASSUME NEW i \in 0 .. n, i # 0 PROVE g[i][f[i - 1]] = Turn(f[i - 1], i)
      <4>1. i \in 1 .. n /\ i - 1 \in 0 .. n
        BY <1>1, <3>1
      <4> QED BY <1>8, <4>1
    <3> HIDE DEF g
    <3> QED BY <1>4, <3>1, Zenon DEF IsRun
  <2> QED BY <2>1, Zenon DEF IsChainRun, Turn, n
<1> DEFINE F == ChainRun(c)
<1>10. IsChainRun(F, c)
  BY <1>9, Zenon DEF ChainRun
<1>11. MsvcSlots(c) = F[n]
  BY Zenon DEF MsvcSlots, ChainRun, IsChainRun, n
<1> HIDE DEF F
<1>12. F[0] = << >> /\ \A i \in 1 .. n : F[i] = Turn(F[i - 1], i)
  <2>1. 0 \in 0 .. n /\ \A i \in 1 .. n : i \in 0 .. n /\ i # 0
    BY <1>1
  <2> QED BY <1>10, <2>1, Zenon DEF IsChainRun, Turn, n
<1>13. F[0] \in T[0] /\ \A i \in 1 .. n : F[i - 1] \in T[i - 1] => F[i] \in T[i]
  BY <1>2, <1>3, <1>12
<1> HIDE DEF g
<1>14. \A i \in 0 .. n : F[i] \in T[i]
  BY <1>1, <1>13, RunStays
<1>15. \A i \in 0 .. n : ChainOk(F[i], MsvcChain(c), i)
  BY <1>5, <1>14
<1>16. n = Len(MsvcChain(c))
  BY DEF n
<1> QED BY <1>1, <1>11, <1>12, <1>15, <1>16 DEF Turn, F

(* The slots of the primary base come first, in their places.                *)
LEMMA BaseSlotsFirst ==
  ASSUME WellFormed(ctx), NEW c \in DOMAIN ctx, MsvcPrimary(c) # 0
  PROVE  /\ MsvcSlots(MsvcUpper(c)) \in Seq(MsvcSlot)
         /\ Len(MsvcSlots(MsvcUpper(c))) <= Len(MsvcSlots(c))
         /\ \A i \in DOMAIN MsvcSlots(MsvcUpper(c)) : MsvcSlots(c)[i] = MsvcSlots(MsvcUpper(c))[i]
<1> DEFINE u == MsvcUpper(c)
           F == ChainRun(c)
           G == ChainRun(u)
<1>1. /\ c \in Nat /\ Len(ctx) \in Nat /\ DOMAIN ctx = 1 .. Len(ctx) /\ u \in 1 .. (c - 1)
  BY ClassParts, MsvcNextRises, MsvcUpperBelow
<1>2. u \in DOMAIN ctx
  BY <1>1
<1> HIDE DEF u
<1>3. PICK n \in Nat :
        /\ n = Len(MsvcChain(c)) /\ DOMAIN MsvcChain(c) = 1 .. n
        /\ MsvcSlots(c) = F[n]
        /\ F[0] = << >>
        /\ \A i \in 1 .. n : F[i] = WithMethods(F[i - 1], MsvcChain(c)[i])
        /\ \A i \in 0 .. n : ChainOk(F[i], MsvcChain(c), i)
  BY ChainLoop
<1>4. PICK h \in Nat :
        /\ h = Len(MsvcChain(u)) /\ DOMAIN MsvcChain(u) = 1 .. h
        /\ MsvcSlots(u) = G[h]
        /\ G[0] = << >>
        /\ \A i \in 1 .. h : G[i] = WithMethods(G[i - 1], MsvcChain(u)[i])
        /\ \A i \in 0 .. h : ChainOk(G[i], MsvcChain(u), i)
  BY <1>2, ChainLoop
<1> HIDE DEF F, G
<1>5. n = h + 1 /\ \A i \in 1 .. h : MsvcChain(c)[i] = MsvcChain(u)[i]
  <2>1. MsvcChain(c) = Append(MsvcChain(u), c)
    BY MsvcChainStep DEF u
  <2>2. MsvcChain(u) \in Seq(Nat)
    <3>1. MsvcChain(u) \in Seq(1 .. u)
      BY <1>2, MsvcChainType
    <3>2. 1 .. u \subseteq Nat
      BY <1>1
    <3>3. \A R, Q : R \subseteq Q => Seq(R) \subseteq Seq(Q)
      OBVIOUS
    <3> QED BY <3>1, <3>2, <3>3
  <2> QED BY <1>1, <1>3, <1>4, <2>1, <2>2
<1>6. \A i \in 0 .. h : F[i] = G[i]
  <2> DEFINE T == [i \in 0 .. h |-> {G[i]}]
  <2>1. F[0] \in T[0]
    BY <1>3, <1>4
  <2>2. ASSUME NEW i \in 1 .. h, F[i - 1] \in T[i - 1] PROVE F[i] \in T[i]
    <3>1. i - 1 \in 0 .. h /\ i \in 0 .. h /\ i \in 1 .. n
      BY <1>5
    <3>2. F[i - 1] = G[i - 1]
      BY <2>2, <3>1
    <3>3. F[i] = G[i]
      BY <1>3, <1>4, <1>5, <3>1, <3>2
    <3> QED BY <3>1, <3>3
  <2>3. \A i \in 0 .. h : F[i] \in T[i]
    <3> HIDE DEF T
    <3> QED BY <2>1, <2>2, RunStays
  <2> QED BY <2>3
<1>7. n \in Nat /\ n \in DOMAIN MsvcChain(c) /\ n \in 1 .. n /\ n - 1 = h /\ h \in 0 .. h
  BY <1>3, <1>4, <1>5
<1>8. ChainOk(F[n - 1], MsvcChain(c), n - 1)
  <2>1. n - 1 \in 0 .. n
    BY <1>7
  <2> QED BY <1>3, <2>1
<1>9. F[n - 1] = MsvcSlots(u)
  BY <1>4, <1>6, <1>7
<1>10. MsvcSlots(c) = WithMethods(MsvcSlots(u), MsvcChain(c)[n])
  BY <1>3, <1>7, <1>9
<1>11. MsvcSlots(u) \in Seq(MsvcSlot)
  BY <1>8, <1>9 DEF ChainOk
<1>12. /\ Len(MsvcSlots(u)) <= Len(MsvcSlots(c))
       /\ \A i \in DOMAIN MsvcSlots(u) : MsvcSlots(c)[i] = MsvcSlots(u)[i]
  BY <1>7, <1>8, <1>9, <1>10, ClassKeeps
<1> QED BY <1>11, <1>12 DEF u

(* A slot reaches the last class of the chain that declares it.              *)
LEMMA TargetLast ==
  ASSUME WellFormed(ctx), NEW c \in DOMAIN ctx, NEW s, InClass(s),
         NEW k \in DOMAIN MsvcChain(c), s.in = MsvcChain(c)[k], ~Declared(s).dtor
  PROVE  LET Declares(d) == \E x \in Range(ctx[d].methods) : MsvcOverrides(Declared(s), x)
         IN \E j \in DOMAIN MsvcChain(c) :
              /\ MsvcTarget(c, s) = MsvcChain(c)[j] /\ Declares(MsvcChain(c)[j])
              /\ \A l \in j + 1 .. Len(MsvcChain(c)) : ~Declares(MsvcChain(c)[l])
<1> DEFINE Declares(d) == \E x \in Range(ctx[d].methods) : MsvcOverrides(Declared(s), x)
           chain == MsvcChain(c)
           I == {i \in 1 .. Len(chain) : Declares(chain[i])}
           last == IF I # {} THEN Max(I) ELSE 0
<1>1. Len(chain) \in Nat /\ DOMAIN chain = 1 .. Len(chain)
  BY MsvcChainType
<1>2. MsvcTarget(c, s) = chain[last]
  BY DEF MsvcTarget, SelectLastInSeq
<1>3. Declares(s.in)
  <2>1. Declared(s) \in Range(ctx[s.in].methods)
    BY DEF Declared, InClass, Range
  <2>2. MsvcOverrides(Declared(s), Declared(s))
    BY DeclaredType, OverrideLaws
  <2> QED BY <2>1, <2>2
<1> HIDE DEF Declares
<1>4. k \in I
  BY <1>1, <1>3
<1>5. I \in SUBSET (1 .. Len(chain)) /\ I # {}
  BY <1>4
<1>6. last \in I /\ \A y \in I : y <= last
  <2> HIDE DEF I
  <2> QED BY <1>1, <1>5, LastOf
<1>7. last \in DOMAIN chain /\ Declares(chain[last])
  BY <1>1, <1>6
<1> HIDE DEF last
<1>8. ASSUME NEW l \in last + 1 .. Len(chain) PROVE ~Declares(chain[l])
  <2>1. last \in Nat /\ l \in 1 .. Len(chain) /\ ~(l <= last)
    BY <1>1, <1>7
  <2> QED BY <1>6, <2>1
<1> HIDE DEF I
<1> QED BY <1>2, <1>7, <1>8 DEF Declares

(* The three parts of MsvcTableExtendsBase, for one class.                   *)
LEMMA MsvcTableRight ==
  ASSUME WellFormed(ctx), NEW c \in DOMAIN ctx
  PROVE  LET t == MsvcTable(c)
             chain == MsvcChain(c)
             Declares(d, s) == \E x \in Range(ctx[d].methods) : MsvcOverrides(Declared(s), x)
         IN /\ MsvcPrimary(c) # 0 => IsPrefix(MsvcSlots(ctx[c].bases[MsvcPrimary(c)].class), MsvcSlots(c))
            /\ \A d \in Range(chain) : \A k \in DOMAIN ctx[d].methods : IsVirtual(d, k) =>
                 Cardinality({i \in DOMAIN t : MsvcOverrides(Declared(t[i].slot), ctx[d].methods[k])}) = 1
            /\ \A i \in DOMAIN t :
                 IF Declared(t[i].slot).dtor THEN t[i].target = c
                 ELSE \E j \in DOMAIN chain :
                        /\ t[i].target = chain[j] /\ Declares(chain[j], t[i].slot)
                        /\ \A l \in j + 1 .. Len(chain) : ~Declares(chain[l], t[i].slot)
<1> DEFINE t == MsvcTable(c)
           chain == MsvcChain(c)
           s == MsvcSlots(c)
<1>1. PICK n \in Nat : n = Len(chain) /\ DOMAIN chain = 1 .. n /\ ChainOk(s, chain, n)
  <2>1. PICK n \in Nat : /\ n = Len(MsvcChain(c)) /\ DOMAIN MsvcChain(c) = 1 .. n
                         /\ MsvcSlots(c) = ChainRun(c)[n]
                         /\ \A i \in 0 .. n : ChainOk(ChainRun(c)[i], MsvcChain(c), i)
    BY ChainLoop
  <2>2. n \in 0 .. n
    OBVIOUS
  <2> QED BY <2>1, <2>2
<1>2. DOMAIN t = DOMAIN s /\ \A i \in DOMAIN s : t[i].slot = s[i] /\ t[i].target = MsvcTarget(c, s[i])
  BY DEF MsvcTable
<1>3. /\ s \in Seq(MsvcSlot) /\ Separate(s)
      /\ \A i \in DOMAIN s : InClass(s[i]) /\ \E j \in 1 .. n : s[i].in = chain[j]
      /\ \A j \in 1 .. n : \A l \in DOMAIN ctx[chain[j]].methods :
           IsVirtual(chain[j], l) => \E i \in DOMAIN s : OneOf(s[i], ctx[chain[j]].methods[l])
  BY <1>1 DEF ChainOk
<1>4. ASSUME MsvcPrimary(c) # 0
      PROVE  IsPrefix(MsvcSlots(ctx[c].bases[MsvcPrimary(c)].class), s)
  <2> DEFINE b == MsvcSlots(MsvcUpper(c))
  <2>1. b \in Seq(MsvcSlot) /\ Len(b) <= Len(s) /\ \A i \in DOMAIN b : s[i] = b[i]
    BY <1>4, BaseSlotsFirst
  <2> HIDE DEF b, s
  <2>2. SubSeq(b, 1, Len(b)) = SubSeq(s, 1, Len(b))
    BY <1>3, <2>1
  <2>3. IsPrefix(b, s)
    BY <2>1, <2>2 DEF IsPrefix
  <2> QED BY <2>3 DEF b, MsvcUpper
<1> HIDE DEF t, s, chain
<1>5. ASSUME NEW d \in Range(chain), NEW k \in DOMAIN ctx[d].methods, IsVirtual(d, k)
      PROVE  Cardinality({i \in DOMAIN t : MsvcOverrides(Declared(t[i].slot), ctx[d].methods[k])}) = 1
  <2>1. PICK j \in 1 .. n : d = chain[j]
    BY <1>1 DEF Range
  <2>2. PICK i \in DOMAIN s : OneOf(s[i], ctx[d].methods[k])
    BY <1>3, <1>5, <2>1
  <2>3. d \in DOMAIN ctx
    <3>1. DOMAIN ctx = 1 .. Len(ctx) /\ Len(ctx) \in Nat
      BY MsvcNextRises
    <3>2. chain \in Seq(1 .. c)
      BY MsvcChainType DEF chain
    <3>3. d \in 1 .. c
      BY <1>1, <2>1, <3>2
    <3> QED BY <3>1, <3>3
  <2>4. ctx[d].methods[k] \in Method
    BY <2>3, DeclaredType
  <2>5. ASSUME NEW e \in DOMAIN s, OneOf(s[e], ctx[d].methods[k]) PROVE e = i
    <3>1. Declared(s[i]) \in Method /\ Declared(s[e]) \in Method
      BY <1>3, DeclaredType
    <3>2. OneOf(s[e], Declared(s[i]))
      BY <2>2, <2>4, <2>5, <3>1, OverrideLaws DEF OneOf
    <3> QED BY <1>3, <3>2 DEF Separate
  <2>6. {e \in DOMAIN t : MsvcOverrides(Declared(t[e].slot), ctx[d].methods[k])} = {i}
    BY <1>2, <2>2, <2>5 DEF OneOf
  <2> QED BY <2>6, FS_Singleton
<1>6. ASSUME NEW i \in DOMAIN t
      PROVE  LET Declares(d) == \E x \in Range(ctx[d].methods) : MsvcOverrides(Declared(t[i].slot), x)
             IN IF Declared(t[i].slot).dtor THEN t[i].target = c
                ELSE \E j \in DOMAIN chain :
                       /\ t[i].target = chain[j] /\ Declares(chain[j])
                       /\ \A l \in j + 1 .. Len(chain) : ~Declares(chain[l])
  <2>1. t[i].slot = s[i] /\ t[i].target = MsvcTarget(c, s[i]) /\ InClass(s[i])
    BY <1>2, <1>3
  <2>2. CASE Declared(s[i]).dtor
    BY <2>1, <2>2, Zenon DEF MsvcTarget
  <2>3. CASE ~Declared(s[i]).dtor
    <3>1. PICK j \in DOMAIN chain : s[i].in = chain[j]
      BY <1>1, <1>2, <1>3
    <3> QED BY <2>1, <2>3, <3>1, TargetLast, Zenon DEF chain
  <2> QED BY <2>2, <2>3
<1> QED BY <1>4, <1>5, <1>6, Zenon DEF t, s, chain

(* For every program, in every MSVC table: the slots of the primary base are *)
(* a prefix, whatever overloads are reversed; each virtual function of the   *)
(* chain has one slot; and it reaches the most derived class declaring it.   *)
THEOREM MsvcTableCorrect == Spec => []MsvcTableExtendsBase
<1>1. IInv => MsvcTableExtendsBase
  <2> SUFFICES ASSUME IInv, Len(tables) = Len(ctx) PROVE MsvcTableExtendsBase
    BY DEF MsvcTableExtendsBase
  <2>1. WellFormed(ctx) /\ ClassIds = DOMAIN ctx
    BY ProgramAssumption DEF IInv, ClassIds
  <2> QED BY <2>1, MsvcTableRight, Zenon DEF MsvcTableExtendsBase
<1> QED BY <1>1, TablesInvariant, PTL

-----------------------------------------------------------------------------
(* The VTT names each table once.                                            *)

(* No two sub-tables are for the same base.                                  *)
Apart(ts) == \A i, j \in DOMAIN ts : ts[i].for = ts[j].for => i = j

Differ(q) == \A i, j \in DOMAIN q : q[i] = q[j] => i = j

(* Two sequences with nothing in common.                                     *)
LEMMA DifferConcat ==
  ASSUME NEW S, NEW a \in Seq(S), NEW b \in Seq(S), Differ(a), Differ(b),
         \A i \in DOMAIN a : \A j \in DOMAIN b : a[i] # b[j]
  PROVE  Differ(a \o b)
<1>1. PICK la \in Nat : la = Len(a) /\ DOMAIN a = 1 .. la
  BY Measured
<1>2. PICK lb \in Nat : lb = Len(b) /\ DOMAIN b = 1 .. lb
  BY Measured
<1>3. DOMAIN (a \o b) = 1 .. (la + lb)
  BY <1>1, <1>2
<1>4. /\ \A x \in 1 .. la : (a \o b)[x] = a[x]
      /\ \A x \in 1 .. lb : (a \o b)[la + x] = b[x]
  BY <1>1, <1>2, ConcatParts
<1> DEFINE t == a \o b
<1>5. /\ DOMAIN t = 1 .. (la + lb) /\ \A x \in 1 .. la : t[x] = a[x]
      /\ \A x \in 1 .. lb : t[la + x] = b[x]
  BY <1>3, <1>4
<1> HIDE DEF t
<1>6. ASSUME NEW x \in DOMAIN t PROVE x \in 1 .. la \/ \E h \in 1 .. lb : x = la + h
  <2>1. x > la => x - la \in 1 .. lb /\ x = la + (x - la)
    BY <1>5
  <2> QED BY <1>5, <2>1
<1>7. ASSUME NEW x \in DOMAIN t, NEW y \in DOMAIN t, t[x] = t[y] PROVE x = y
  <2>1. CASE x \in 1 .. la /\ y \in 1 .. la
    BY <1>1, <1>5, <1>7, <2>1 DEF Differ
  <2>2. CASE x \in 1 .. la /\ \E h \in 1 .. lb : y = la + h
    BY <1>1, <1>2, <1>5, <1>7, <2>2
  <2>3. CASE y \in 1 .. la /\ \E h \in 1 .. lb : x = la + h
    BY <1>1, <1>2, <1>5, <1>7, <2>3
  <2>4. CASE (\E h \in 1 .. lb : x = la + h) /\ \E h \in 1 .. lb : y = la + h
    BY <1>2, <1>5, <1>7, <2>4 DEF Differ
  <2> QED BY <1>6, <2>1, <2>2, <2>3, <2>4
<1> QED BY <1>7 DEF Differ, t

(* The direct bases at some places, each of them once.                       *)
BasesIn(c, I) == Sift([i \in DOMAIN ctx[c].bases |-> ctx[c].bases[i].class], I)

(* They are classes before c, all different, and those of the places in I.   *)
LEMMA BasesAt ==
  ASSUME WellFormed(ctx), NEW c \in DOMAIN ctx, NEW I
  PROVE  LET q == BasesIn(c, I)
         IN /\ q \in Seq(1 .. (c - 1)) /\ Differ(q)
            /\ \A x \in DOMAIN q : \E i \in DOMAIN ctx[c].bases : i \in I /\ q[x] = ctx[c].bases[i].class
            /\ \A i \in DOMAIN ctx[c].bases : i \in I => \E x \in DOMAIN q : q[x] = ctx[c].bases[i].class
<1> DEFINE bs == ctx[c].bases
           g == [i \in DOMAIN bs |-> bs[i].class]
           q == Sift(g, I)
<1>1. bs \in Seq(Base) /\ \A i \in DOMAIN bs : bs[i].class \in 1 .. (c - 1)
  BY ClassParts
<1>2. \A i, j \in DOMAIN bs : bs[i].class = bs[j].class => i = j
  BY DEF WellFormed
<1> HIDE DEF bs
<1>3. DOMAIN g = DOMAIN bs /\ \A i \in DOMAIN bs : g[i] = bs[i].class
  OBVIOUS
<1>4. g \in Seqs(1 .. (c - 1))
  <2>1. DOMAIN bs = 1 .. Len(bs) /\ Len(bs) \in Nat
    BY <1>1
  <2> QED BY <1>1, <2>1 DEF Seqs
<1> HIDE DEF g
<1>5. q \in Seq(1 .. (c - 1)) /\ \E pos : Sifts(q, g, I, pos)
  BY <1>4, Sifting
<1> HIDE DEF q
<1>6. PICK pos : Sifts(q, g, I, pos)
  BY <1>5
<1>7. PICK n \in Nat : DOMAIN q = 1 .. n
  BY <1>5, Measured
<1>8. ASSUME NEW x \in DOMAIN q, NEW y \in DOMAIN q, q[x] = q[y] PROVE x = y
  <2>1. pos[x] \in DOMAIN bs /\ pos[y] \in DOMAIN bs /\ q[x] = bs[pos[x]].class /\ q[y] = bs[pos[y]].class
    BY <1>3, <1>6 DEF Sifts
  <2>2. pos[x] = pos[y]
    BY <1>2, <1>8, <2>1
  <2>3. DOMAIN bs \subseteq Nat
    BY <1>1
  <2>4. ~(pos[x] < pos[y]) /\ ~(pos[y] < pos[x])
    BY <2>1, <2>2, <2>3
  <2>5. ~(x < y) /\ ~(y < x)
    BY <1>6, <2>4 DEF Sifts
  <2> QED BY <1>7, <2>5
<1>9. \A x \in DOMAIN q : pos[x] \in DOMAIN bs /\ pos[x] \in I /\ q[x] = bs[pos[x]].class
  BY <1>3, <1>6 DEF Sifts
<1>10. \A i \in DOMAIN bs : i \in I => \E x \in DOMAIN q : pos[x] = i
  BY <1>3, <1>6 DEF Sifts
<1>11. /\ q \in Seq(1 .. (c - 1)) /\ Differ(q)
       /\ \A x \in DOMAIN q : \E i \in DOMAIN bs : i \in I /\ q[x] = bs[i].class
       /\ \A i \in DOMAIN bs : i \in I => \E x \in DOMAIN q : q[x] = bs[i].class
  <2>1. Differ(q)
    BY <1>8 DEF Differ
  <2>2. \A i \in DOMAIN bs : i \in I => \E x \in DOMAIN q : q[x] = bs[i].class
    BY <1>9, <1>10
  <2> QED BY <1>5, <1>9, <2>1, <2>2
<1> QED BY <1>11 DEF q, g, bs, BasesIn

(* A class that is no base in both ways lists its subobjects once.           *)
LEMMA SubobjectsOnce ==
  ASSUME WellFormed(ctx), self \in DOMAIN ctx, ~BothWays(self)
  PROVE  Differ(Subobjects)
<1> DEFINE bs == ctx[self].bases
           own(i) == bs[i].virt \/ IsPrimaryBase(self, i)
           I == {i \in DOMAIN bs : ~own(i)}
           g == [i \in DOMAIN bs |-> bs[i].class]
           q == BasesIn(self, I)
           ss == [i \in DOMAIN bs |-> IF own(i) THEN << >> ELSE <<bs[i].class>>]
           ts == [i \in DOMAIN g |-> IF i \in I THEN <<g[i]>> ELSE << >>]
           vbs == VirtualBases(self)
<1>1. Subobjects = FlattenSeq(ss) \o vbs
  BY DEF Subobjects
<1>2. /\ q \in Seq(1 .. (self - 1)) /\ Differ(q)
      /\ \A x \in DOMAIN q : \E i \in DOMAIN bs : i \in I /\ q[x] = bs[i].class
  <2> HIDE DEF I
  <2> QED BY BasesAt
<1>3. vbs \in Seq(1 .. (self - 1)) /\ Differ(vbs)
  BY VirtualBelow, VirtualOnce DEF Once, Differ
<1>4. q = FlattenSeq(ts)
  BY DEF Sift, BasesIn
<1>5. ASSUME NEW x \in DOMAIN q, NEW y \in DOMAIN vbs PROVE q[x] # vbs[y]
  <2>1. PICK i \in DOMAIN bs : i \in I /\ q[x] = bs[i].class
    BY <1>2
  <2>2. ~bs[i].virt
    BY <2>1
  <2>3. ~Contains(vbs, bs[i].class)
    BY <2>2 DEF BothWays
  <2>4. y \in 1 .. Len(vbs)
    BY <1>3
  <2> HIDE DEF bs, vbs, q
  <2>5. vbs[y] # bs[i].class
    BY <2>3, <2>4 DEF Contains
  <2> QED BY <2>1, <2>5
<1> HIDE DEF bs, own, vbs, q
<1>6. ss = ts
  <2>1. DOMAIN g = DOMAIN bs /\ \A i \in DOMAIN bs : g[i] = bs[i].class
    OBVIOUS
  <2>2. \A i \in DOMAIN bs : (i \in I <=> ~own(i))
    OBVIOUS
  <2> HIDE DEF g, I
  <2>3. ASSUME NEW i \in DOMAIN bs
        PROVE  (IF own(i) THEN << >> ELSE <<bs[i].class>>) = (IF i \in I THEN <<g[i]>> ELSE << >>)
    BY <2>1, <2>2, Zenon
  <2> QED BY <2>1, <2>3
<1> HIDE DEF ss, ts
<1> QED BY <1>1, <1>2, <1>3, <1>4, <1>5, <1>6, DifferConcat

(* The sub-tables in hand: of subobjects already met.                        *)
Met(s, n) == \A i \in DOMAIN s : \E p \in DOMAIN Subobjects : p < n /\ s[i].for = Subobjects[p]

ForsInv ==
  /\ phase = "slots" => subs = << >> /\ sub = 1
  /\ phase = "subs" => Met(subs, sub) /\ (~BothWays(self) => Apart(subs))
  /\ \A c \in ClassIds : /\ \E S : tables[c].subs \in Seq(S)
                         /\ ~BothWays(c) => Apart(tables[c].subs)

VirtualsOf(prog, c) ==
  LET walk[d \in 1 .. c] ==
        FlattenSeq([i \in DOMAIN prog[d].bases |->
          walk[prog[d].bases[i].class]
          \o (IF prog[d].bases[i].virt THEN <<prog[d].bases[i].class>> ELSE << >>)])
  IN FoldLeft(LAMBDA seen, b : IF Contains(seen, b) THEN seen ELSE Append(seen, b),
              << >>, walk[c])
PolyOf(prog, c) ==
  LET poly[d \in 1 .. c] ==
        \/ \E k \in DOMAIN prog[d].methods : prog[d].methods[k].virtuality # "NonVirtual"
        \/ \E i \in DOMAIN prog[d].bases :
             prog[d].bases[i].virt \/ poly[prog[d].bases[i].class]
  IN poly[c]

(* No step changes the subobjects of a class.                                *)
LEMMA SubobjectsRigid ==
  ASSUME ctx' = ctx
  PROVE  /\ \A c : BothWays(c)' <=> BothWays(c)
         /\ self' = self => Subobjects' = Subobjects
<1>1. ASSUME NEW c PROVE VirtualBases(c) = VirtualsOf(ctx, c) /\ VirtualBases(c)' = VirtualsOf(ctx', c)
  <2>1. VirtualBases(c) = VirtualsOf(ctx, c)
    BY DEF VirtualBases, VirtualsOf
  <2>2. VirtualBases(c)' = VirtualsOf(ctx', c)
    BY DEF VirtualBases, VirtualsOf, FoldLeft, MapThenFoldSet, Max
  <2> QED BY <2>1, <2>2
<1>2. ASSUME NEW c PROVE Polymorphic(c) = PolyOf(ctx, c) /\ Polymorphic(c)' = PolyOf(ctx', c)
  <2>1. Polymorphic(c) = PolyOf(ctx, c)
    BY DEF Polymorphic, PolyOf, IsVirtual
  <2>2. Polymorphic(c)' = PolyOf(ctx', c)
    BY DEF Polymorphic, PolyOf, IsVirtual
  <2> QED BY <2>1, <2>2
<1>3. \A c : VirtualBases(c)' = VirtualBases(c) /\ Polymorphic(c)' = Polymorphic(c)
  BY <1>1, <1>2
<1>4. \A c : BothWays(c)' <=> BothWays(c)
  BY <1>3 DEF BothWays
<1>5. ASSUME self' = self PROVE Subobjects' = Subobjects
  <2>1. PICK c : c = self /\ c = self'
    BY <1>5
  <2>2. \A i : IsPrimaryBase(c, i)' = IsPrimaryBase(c, i)
    BY <1>3 DEF IsPrimaryBase
  <2>3. Subobjects = FlattenSeq([i \in DOMAIN ctx[c].bases |->
                       IF ctx[c].bases[i].virt \/ IsPrimaryBase(c, i) THEN << >>
                       ELSE <<ctx[c].bases[i].class>>]) \o VirtualBases(c)
    BY <2>1 DEF Subobjects
  <2> QED BY <1>3, <2>1, <2>2, <2>3 DEF Subobjects
<1> QED BY <1>4, <1>5

(* The table of the subobject in hand is for none of those met before.       *)
LEMMA OneMoreMet ==
  ASSUME IInv, SubsInv, ForsInv, BuildSecondary
  PROVE  Met(subs', sub + 1) /\ (~BothWays(self) => Apart(subs'))
<1>1. WellFormed(ctx) /\ phase = "subs" /\ self \in DOMAIN ctx
  <2>1. phase = "subs"
    BY DEF BuildSecondary, AtSubobject
  <2> QED BY <2>1, Current DEF IInv
<1>2. sub \in Nat \ {0} /\ sub \in DOMAIN Subobjects /\ DOMAIN Subobjects \subseteq Nat
  <2>1. Subobjects \in Seq(1 .. (self - 1))
    BY <1>1, SubobjectsBelow
  <2>2. sub \in Nat \ {0} /\ sub <= Len(Subobjects)
    BY DEF SubsInv, BuildSecondary, AtSubobject
  <2> QED BY <2>1, <2>2
<1>3. PICK t : subs' = Append(subs, t) /\ t.for = Subobjects[sub]
  BY DEF BuildSecondary
<1>4. PICK n : /\ n \in Nat /\ DOMAIN subs = 1 .. n /\ DOMAIN subs' = 1 .. (n + 1)
               /\ subs'[n + 1] = t /\ \A i \in 1 .. n : subs'[i] = subs[i]
  <2>1. PICK S : subs \in Seq(S)
    BY <1>1 DEF SubsInv
  <2>2. PICK n \in Nat : n = Len(subs) /\ DOMAIN subs = 1 .. n
    BY <2>1, Measured
  <2>3. /\ Append(subs, t) \in Seq(S \union {t}) /\ Len(Append(subs, t)) = n + 1
        /\ Append(subs, t)[n + 1] = t /\ \A i \in 1 .. n : Append(subs, t)[i] = subs[i]
    BY <2>1, <2>2
  <2>4. DOMAIN subs' = 1 .. (n + 1)
    BY <1>3, <2>3
  <2> QED BY <1>3, <2>2, <2>3, <2>4
<1>5. \A i \in 1 .. n : \E p \in DOMAIN Subobjects : p < sub /\ subs[i].for = Subobjects[p]
  BY <1>1, <1>4 DEF ForsInv, Met
<1>6. ASSUME NEW i \in 1 .. (n + 1)
      PROVE  \E p \in DOMAIN Subobjects : p < sub + 1 /\ subs'[i].for = Subobjects[p]
  <2>1. CASE i \in 1 .. n
    <3>1. PICK p \in DOMAIN Subobjects : p < sub /\ subs[i].for = Subobjects[p]
      BY <1>5, <2>1
    <3> QED BY <1>2, <1>4, <2>1, <3>1
  <2>2. CASE i = n + 1
    BY <1>2, <1>3, <1>4, <2>2
  <2> QED BY <1>4, <2>1, <2>2
<1>7. Met(subs', sub + 1)
  BY <1>4, <1>6 DEF Met
<1>8. ASSUME ~BothWays(self) PROVE Apart(subs')
  <2>1. \A p \in DOMAIN Subobjects : Subobjects[p] = Subobjects[sub] => p = sub
    BY <1>1, <1>2, <1>8, SubobjectsOnce DEF Differ
  <2>2. \A i \in 1 .. n : subs[i].for # t.for
    BY <1>2, <1>3, <1>5, <2>1
  <2>3. \A i, j \in 1 .. n : subs[i].for = subs[j].for => i = j
    BY <1>1, <1>4, <1>8 DEF ForsInv, Apart
  <2>4. ASSUME NEW i \in 1 .. (n + 1), NEW j \in 1 .. (n + 1), subs'[i].for = subs'[j].for
        PROVE  i = j
    <3>1. (i \in 1 .. n \/ i = n + 1) /\ (j \in 1 .. n \/ j = n + 1)
      BY <1>4
    <3> QED BY <1>4, <2>2, <2>3, <2>4, <3>1
  <2> QED BY <1>4, <2>4 DEF Apart
<1> QED BY <1>7, <1>8

(* The bases of the sub-tables stay apart.                                   *)
LEMMA ForsKept ==
  ASSUME IInv, SubsInv, ForsInv, [Next]_vars
  PROVE  ForsInv'
<1>1. ctx' = ctx
  BY DEF vars, Next, NoVTable, BeginVTable, NextClass, SkipMethod, PlaceDtor, Override, NewSlot,
         SlotsDone, BuildSecondary, SkipSubobject, FinishVTable
<1>2. PICK S : tables \in Seq(S)
  BY DEF IInv
<1>3. \A c : BothWays(c)' <=> BothWays(c)
  BY <1>1, SubobjectsRigid
<1> DEFINE Row(ts, c) == (\E R : ts.subs \in Seq(R)) /\ (~BothWays(c) => Apart(ts.subs))
<1>4. \A c \in ClassIds : Row(tables[c], c)
  BY DEF ForsInv
<1>5. ASSUME tables' = tables
      PROVE  /\ \A c \in ClassIds' : (\E R : tables'[c].subs \in Seq(R))
                                     /\ (~BothWays(c)' => Apart(tables'[c].subs))
             /\ Subobjects' = Subobjects /\ (BothWays(self)' <=> BothWays(self))
  <2>1. self' = self /\ ClassIds' = ClassIds
    BY <1>5 DEF self, ClassIds
  <2>2. Subobjects' = Subobjects
    BY <1>1, <2>1, SubobjectsRigid
  <2>3. BothWays(self)' <=> BothWays(self)
    <3>1. PICK c : c = self
      OBVIOUS
    <3> QED BY <1>3, <2>1, <3>1
  <2> QED BY <1>3, <1>4, <1>5, <2>1, <2>2, <2>3
<1>6. ASSUME NEW x, tables' = Append(tables, x), Row(x, self), phase' = "idle"
      PROVE  ForsInv'
  <2>1. /\ ClassIds' = 1 .. (Len(tables) + 1) /\ tables'[Len(tables) + 1] = x
        /\ \A c \in 1 .. Len(tables) : tables'[c] = tables[c]
        /\ ClassIds = 1 .. Len(tables) /\ self = Len(tables) + 1 /\ Len(tables) \in Nat
    BY <1>2, <1>6 DEF ClassIds, self
  <2>2. \A c \in ClassIds' : Row(tables'[c], c)
    <3> HIDE DEF Row
    <3> QED BY <1>4, <1>6, <2>1
  <2>3. \A c \in ClassIds' : /\ \E R : tables'[c].subs \in Seq(R)
                             /\ ~BothWays(c)' => Apart(tables'[c].subs)
    BY <1>3, <2>2
  <2> QED BY <1>6, <2>3 DEF ForsInv, Apart
<1>7. CASE NoVTable
  <2>1. /\ tables' = Append(tables, Table(FALSE, NoIndex)) /\ phase' = "idle"
    BY <1>7 DEF NoVTable
  <2>2. Table(FALSE, NoIndex).subs = << >>
    BY DEF Table
  <2>3. << >> \in Seq({}) /\ Apart(<< >>)
    BY DEF Apart
  <2>4. Row(Table(FALSE, NoIndex), self)
    BY <2>2, <2>3
  <2> HIDE DEF Row
  <2> QED BY <1>6, <2>1, <2>4
<1>8. CASE FinishVTable
  <2> DEFINE x == Table(TRUE, [k \in DOMAIN ctx[self].methods |-> Rank(k)])
  <2>1. phase = "subs" /\ tables' = Append(tables, x) /\ phase' = "idle"
    BY <1>8 DEF FinishVTable
  <2>2. x.subs = subs
    BY DEF Table
  <2> HIDE DEF x
  <2>3. Row(x, self)
    BY <2>1, <2>2 DEF SubsInv, ForsInv
  <2> HIDE DEF Row
  <2> QED BY <1>6, <2>1, <2>3
<1>9. CASE BeginVTable
  <2>1. tables' = tables /\ phase' = "slots" /\ subs' = << >> /\ sub' = 1
    BY <1>9 DEF BeginVTable
  <2> QED BY <1>5, <2>1 DEF ForsInv, Apart
<1>10. CASE NextClass \/ SkipMethod \/ PlaceDtor \/ Override \/ NewSlot
  <2>1. tables' = tables /\ subs' = subs /\ sub' = sub /\ phase' = "slots" /\ phase = "slots"
    BY <1>10 DEF NextClass, SkipMethod, PlaceDtor, Override, NewSlot, AtMethod, Walking
  <2> QED BY <1>5, <2>1 DEF ForsInv, Apart
<1>11. ASSUME tables' = tables, phase' = "subs", Met(subs', sub'), ~BothWays(self) => Apart(subs')
       PROVE  ForsInv'
  <2>1. Met(subs, sub)'
    <3>1. Subobjects' = Subobjects
      BY <1>5, <1>11
    <3> QED BY <1>11, <3>1 DEF Met
  <2>2. Apart(subs)' <=> Apart(subs')
    BY DEF Apart
  <2>3. ~BothWays(self)' => Apart(subs)'
    BY <1>5, <1>11, <2>2
  <2>4. \A c \in ClassIds' : /\ \E R : tables'[c].subs \in Seq(R)
                             /\ ~BothWays(c)' => Apart(tables'[c].subs)
    BY <1>5, <1>11
  <2> QED BY <1>11, <2>1, <2>3, <2>4 DEF ForsInv, Apart
<1>12. CASE SlotsDone
  <2>1. tables' = tables /\ phase = "slots" /\ phase' = "subs" /\ subs' = subs /\ sub' = sub
    BY <1>12 DEF SlotsDone
  <2>2. DOMAIN subs = {}
    BY <2>1 DEF ForsInv
  <2>3. Met(subs', sub') /\ Apart(subs')
    BY <2>1, <2>2 DEF Met, Apart
  <2> QED BY <1>11, <2>1, <2>3
<1>13. CASE BuildSecondary
  <2>1. tables' = tables /\ phase' = "subs" /\ sub' = sub + 1
    BY <1>13 DEF BuildSecondary, AtSubobject
  <2>2. Met(subs', sub + 1) /\ (~BothWays(self) => Apart(subs'))
    BY <1>13, OneMoreMet
  <2> QED BY <1>11, <2>1, <2>2
<1>14. CASE SkipSubobject
  <2>1. tables' = tables /\ phase = "subs" /\ phase' = "subs" /\ sub' = sub + 1 /\ subs' = subs
    BY <1>14 DEF SkipSubobject, AtSubobject
  <2>2. Met(subs, sub) /\ (~BothWays(self) => Apart(subs)) /\ sub \in Nat
    BY <2>1 DEF ForsInv, SubsInv
  <2>3. \A p \in DOMAIN Subobjects : p < sub => p < sub + 1
    <3>1. self \in DOMAIN ctx /\ WellFormed(ctx)
      BY <2>1, Current
    <3>2. DOMAIN Subobjects \subseteq Nat
      BY <3>1, SubobjectsBelow
    <3> QED BY <2>2, <3>2
  <2>4. Met(subs', sub')
    BY <2>1, <2>2, <2>3 DEF Met
  <2> QED BY <1>11, <2>1, <2>2, <2>4
<1>15. CASE UNCHANGED vars
  <2>1. tables' = tables /\ phase' = phase /\ subs' = subs /\ sub' = sub
    BY <1>15 DEF vars
  <2>2. CASE phase = "subs"
    BY <1>11, <2>1, <2>2 DEF ForsInv
  <2>3. CASE phase # "subs"
    <3>1. /\ (phase = "slots" => subs = << >> /\ sub = 1)'
          /\ (phase = "subs" => Met(subs, sub) /\ (~BothWays(self) => Apart(subs)))'
      BY <2>1, <2>3 DEF ForsInv
    <3> QED BY <1>5, <2>1, <3>1 DEF ForsInv, Apart
  <2> QED BY <2>2, <2>3
<1> QED BY <1>7, <1>8, <1>9, <1>10, <1>12, <1>13, <1>14, <1>15 DEF Next

EntrySet == [of: Nat, subTable: Nat]

(* Entries are equal when both parts are.                                    *)
LEMMA EntryParts ==
  /\ \A a, b \in Nat : Entry(a, b) \in EntrySet
  /\ \A a, b : Entry(a, b).of = a /\ Entry(a, b).subTable = b
BY DEF Entry, EntrySet

(* Where the sub-table for a base is.                                        *)
LEMMA PositionIs ==
  ASSUME NEW c, NEW S, tables[c].subs \in Seq(S), NEW b
  PROVE  /\ PositionOf(c, b) \in Nat
         /\ PositionOf(c, b) = 0 => \A i \in DOMAIN tables[c].subs : tables[c].subs[i].for # b
         /\ PositionOf(c, b) # 0 => /\ PositionOf(c, b) \in DOMAIN tables[c].subs
                                    /\ tables[c].subs[PositionOf(c, b)].for = b
<1> DEFINE ts == tables[c].subs
           I == {i \in 1 .. Len(ts) : ts[i].for = b}
<1>1. Len(ts) \in Nat /\ DOMAIN ts = 1 .. Len(ts)
  OBVIOUS
<1>2. PositionOf(c, b) = First(I)
  BY DEF PositionOf, SelectInSeq, Min, First
<1>3. I \in SUBSET (1 .. Len(ts))
  OBVIOUS
<1>4. (I = {} => First(I) = 0) /\ (I # {} => First(I) \in I)
  <2> HIDE DEF I
  <2> QED BY <1>1, <1>3, FirstOf
<1>5. I = {} => \A i \in DOMAIN ts : ts[i].for # b
  BY <1>1
<1>6. First(I) \in I => First(I) \in DOMAIN ts /\ ts[First(I)].for = b /\ First(I) \in Nat \ {0}
  BY <1>1
<1> HIDE DEF I
<1> QED BY <1>2, <1>4, <1>5, <1>6

(* Each sub-table in I is named once, and nothing else is.                   *)
NamesOn(q, D, I) ==
  /\ \A x \in D : \E i \in I : q[x] = Entry(0, i)
  /\ \A i \in I : \E x \in D : \A y \in D : q[y] = Entry(0, i) <=> y = x
Names(q, I) ==
  /\ q \in Seq(EntrySet)
  /\ NamesOn(q, DOMAIN q, I)

(* A selection of entries that names each sub-table in J once.               *)
LEMMA SiftNames ==
  ASSUME NEW g \in Seqs(EntrySet), NEW I, NEW J,
         \A k \in DOMAIN g : k \in I => \E j \in J : g[k] = Entry(0, j),
         \A j \in J : \E i \in DOMAIN g :
           i \in I /\ \A k \in DOMAIN g : k \in I => (g[k] = Entry(0, j) <=> k = i)
  PROVE  Names(Sift(g, I), J)
<1> DEFINE q == Sift(g, I)
<1>1. q \in Seq(EntrySet) /\ \E pos : Sifts(q, g, I, pos)
  BY Sifting
<1>2. PICK pos : Sifts(q, g, I, pos)
  BY <1>1
<1>3. PICK n \in Nat : DOMAIN q = 1 .. n
  BY <1>1, Measured
<1>4. PICK l \in Nat : DOMAIN g = 1 .. l
  BY Measured DEF Seqs
<1> HIDE DEF q
<1>5. \A x \in DOMAIN q : pos[x] \in DOMAIN g /\ pos[x] \in I /\ q[x] = g[pos[x]]
  BY <1>2 DEF Sifts
<1>6. ASSUME NEW x \in DOMAIN q, NEW y \in DOMAIN q, pos[x] = pos[y] PROVE x = y
  <2>1. pos[x] \in Nat /\ pos[y] \in Nat
    BY <1>4, <1>5
  <2>2. ~(x < y) /\ ~(y < x)
    BY <1>2, <1>6, <2>1 DEF Sifts
  <2> QED BY <1>3, <2>2
<1>7. ASSUME NEW j \in J
      PROVE  \E x \in DOMAIN q : \A y \in DOMAIN q : q[y] = Entry(0, j) <=> y = x
  <2>1. PICK i \in DOMAIN g : i \in I /\ \A k \in DOMAIN g : k \in I => (g[k] = Entry(0, j) <=> k = i)
    OBVIOUS
  <2>2. PICK x \in DOMAIN q : pos[x] = i
    BY <1>2, <2>1 DEF Sifts
  <2>3. \A y \in DOMAIN q : q[y] = Entry(0, j) <=> pos[y] = i
    BY <1>5, <2>1
  <2> QED BY <1>6, <2>2, <2>3
<1>8. \A x \in DOMAIN q : \E j \in J : q[x] = Entry(0, j)
  BY <1>5
<1>9. Names(q, J)
  BY <1>1, <1>7, <1>8 DEF Names, NamesOn
<1> QED BY <1>9 DEF q

ForVirtual(c) == {i \in DOMAIN tables[c].subs : tables[c].subs[i].for \in Range(VirtualBases(c))}

(* The sub-tables of the virtual bases, and the others.                      *)
LEMMA OwnNames ==
  ASSUME WellFormed(ctx), NEW c \in DOMAIN ctx, NEW S, tables[c].subs \in Seq(S),
         Apart(tables[c].subs)
  PROVE  /\ Names(OwnVirtual(c), ForVirtual(c))
         /\ Names(OwnSecondary(c), DOMAIN tables[c].subs \ ForVirtual(c))
<1> DEFINE ts == tables[c].subs
           vbs == VirtualBases(c)
           J == ForVirtual(c)
<1>1. PICK n \in Nat : DOMAIN ts = 1 .. n
  BY Measured
<1>2. vbs \in Seq(1 .. (c - 1)) /\ Differ(vbs)
  BY VirtualBelow, VirtualOnce DEF Once, Differ
<1>3. PICK l \in Nat : l = Len(vbs) /\ DOMAIN vbs = 1 .. l
  BY <1>2, Measured
<1>4. J = {i \in DOMAIN ts : ts[i].for \in Range(vbs)} /\ J \subseteq DOMAIN ts
  BY DEF ForVirtual
<1>5. \A b : Contains(vbs, b) <=> b \in Range(vbs)
  BY <1>3 DEF Contains, Range
<1> DEFINE place(b) == PositionOf(c, b)
<1>6. \A b : /\ place(b) \in Nat
             /\ place(b) = 0 => \A i \in DOMAIN ts : ts[i].for # b
             /\ place(b) # 0 => place(b) \in DOMAIN ts /\ ts[place(b)].for = b
  BY PositionIs
<1>7. \A i, j \in DOMAIN ts : ts[i].for = ts[j].for => i = j
  BY DEF Apart
<1> DEFINE virt == [k \in DOMAIN vbs |-> IF place(vbs[k]) = 0 THEN << >> ELSE <<Entry(0, place(vbs[k]))>>]
           other == [i \in DOMAIN ts |-> IF Contains(vbs, ts[i].for) THEN << >> ELSE <<Entry(0, i)>>]
<1>8. OwnVirtual(c) = FlattenSeq(virt) /\ OwnSecondary(c) = FlattenSeq(other)
  BY DEF OwnVirtual, OwnSecondary
<1> HIDE DEF ts, vbs, J, place
<1>9. Names(FlattenSeq(virt), J)
  <2> DEFINE g == [k \in DOMAIN vbs |-> Entry(0, place(vbs[k]))]
             I == {k \in DOMAIN vbs : place(vbs[k]) # 0}
             sifted == [k \in DOMAIN g |-> IF k \in I THEN <<g[k]>> ELSE << >>]
  <2>1. g \in Seqs(EntrySet)
    <3>1. \A k \in 1 .. l : Entry(0, place(vbs[k])) \in EntrySet
      BY <1>6, EntryParts
    <3> QED BY <1>3, <3>1 DEF Seqs
  <2>2. DOMAIN g = DOMAIN vbs /\ \A k \in DOMAIN vbs : g[k] = Entry(0, place(vbs[k]))
    OBVIOUS
  <2>3. \A k \in DOMAIN vbs : k \in I <=> place(vbs[k]) # 0
    OBVIOUS
  <2> HIDE DEF g, I
  <2>4. virt = sifted
    <3>1. \A k \in DOMAIN vbs : (IF place(vbs[k]) = 0 THEN << >> ELSE <<Entry(0, place(vbs[k]))>>)
                                = (IF k \in I THEN <<g[k]>> ELSE << >>)
      BY <2>2, <2>3, Zenon
    <3> QED BY <2>2, <3>1
  <2>5. ASSUME NEW k \in DOMAIN g, k \in I PROVE \E j \in J : g[k] = Entry(0, j)
    <3>1. place(vbs[k]) \in DOMAIN ts /\ ts[place(vbs[k])].for = vbs[k]
      BY <1>6, <2>2, <2>3, <2>5
    <3>2. vbs[k] \in Range(vbs)
      BY <2>2 DEF Range
    <3> QED BY <1>4, <2>2, <3>1, <3>2
  <2>6. ASSUME NEW j \in J
        PROVE  \E i \in DOMAIN g :
                 i \in I /\ \A k \in DOMAIN g : k \in I => (g[k] = Entry(0, j) <=> k = i)
    <3>1. PICK i \in DOMAIN vbs : ts[j].for = vbs[i]
      BY <1>4 DEF Range
    <3>2. j \in DOMAIN ts
      BY <1>4
    <3>3. place(vbs[i]) # 0
      BY <1>6, <3>1, <3>2
    <3>4. place(vbs[i]) = j
      BY <1>6, <1>7, <3>1, <3>2, <3>3
    <3>5. ASSUME NEW k \in DOMAIN vbs, k \in I PROVE g[k] = Entry(0, j) <=> k = i
      <4>1. ASSUME g[k] = Entry(0, j) PROVE k = i
        <5>1. place(vbs[k]) = j
          BY <2>2, <4>1, EntryParts
        <5>2. ts[j].for = vbs[k]
          BY <1>6, <2>3, <3>5, <5>1
        <5> QED BY <1>2, <3>1, <5>2 DEF Differ
      <4>2. g[i] = Entry(0, j)
        BY <2>2, <3>4
      <4> QED BY <4>1, <4>2
    <3> QED BY <2>2, <2>3, <3>3, <3>5
  <2>7. Names(Sift(g, I), J)
    BY <2>1, <2>5, <2>6, SiftNames
  <2>8. Sift(g, I) = FlattenSeq(sifted)
    BY DEF Sift
  <2> HIDE DEF virt, sifted
  <2> QED BY <2>4, <2>7, <2>8
<1>10. Names(FlattenSeq(other), DOMAIN ts \ J)
  <2> DEFINE g == [i \in DOMAIN ts |-> Entry(0, i)]
             I == DOMAIN ts \ J
             sifted == [i \in DOMAIN g |-> IF i \in I THEN <<g[i]>> ELSE << >>]
  <2>1. g \in Seqs(EntrySet)
    <3>1. \A i \in 1 .. n : Entry(0, i) \in EntrySet
      BY EntryParts
    <3> QED BY <1>1, <3>1 DEF Seqs
  <2>2. DOMAIN g = DOMAIN ts /\ \A i \in DOMAIN ts : g[i] = Entry(0, i)
    OBVIOUS
  <2>3. \A i \in DOMAIN ts : i \in I <=> ~Contains(vbs, ts[i].for)
    BY <1>4, <1>5
  <2>4. \A i \in I : i \in DOMAIN ts
    OBVIOUS
  <2> HIDE DEF g, I
  <2>5. other = sifted
    <3>1. \A i \in DOMAIN ts : (IF Contains(vbs, ts[i].for) THEN << >> ELSE <<Entry(0, i)>>)
                               = (IF i \in I THEN <<g[i]>> ELSE << >>)
      BY <2>2, <2>3, Zenon
    <3> QED BY <2>2, <3>1
  <2>6. \A i, j : Entry(0, i) = Entry(0, j) => i = j
    BY EntryParts
  <2>7. Names(Sift(g, I), I)
    <3>1. \A k \in DOMAIN g : k \in I => \E j \in I : g[k] = Entry(0, j)
      BY <2>2
    <3>2. ASSUME NEW j \in I
          PROVE  \E i \in DOMAIN g :
                   i \in I /\ \A k \in DOMAIN g : k \in I => (g[k] = Entry(0, j) <=> k = i)
      BY <2>2, <2>4, <2>6
    <3> QED BY <2>1, <3>1, <3>2, SiftNames
  <2>8. Sift(g, I) = FlattenSeq(sifted)
    BY DEF Sift
  <2> HIDE DEF other, sifted
  <2> QED BY <2>5, <2>7, <2>8 DEF I
<1> QED BY <1>8, <1>9, <1>10 DEF J, ts

(* The construction vtables: for each base that has one, a run of entries.   *)
LEMMA SecondaryRuns ==
  ASSUME WellFormed(ctx), NEW c \in DOMAIN ctx
  PROVE  /\ SecondaryVtts(c) \in Seq(EntrySet)
         /\ \A x \in DOMAIN SecondaryVtts(c) : SecondaryVtts(c)[x].of # 0
         /\ \A b \in Range(ConstructionBases(c)) :
              /\ b \in DOMAIN ctx /\ \E i \in DOMAIN ctx[c].bases : b = ctx[c].bases[i].class
              /\ \E o \in Nat : {x \in DOMAIN SecondaryVtts(c) : SecondaryVtts(c)[x].of = b}
                                = (o + 1) .. (o + 1 + Len(VirtualBases(b)))
<1> DEFINE cb == ConstructionBases(c)
           A == SecondaryVtts(c)
           n(i) == 1 + Len(VirtualBases(cb[i]))
           row(i) == [k \in 1 .. n(i) |-> Entry(cb[i], k - 1)]
           ss == [i \in DOMAIN cb |-> row(i)]
<1>1. A = FlattenSeq(ss)
  BY DEF SecondaryVtts
<1>2. /\ cb \in Seq(1 .. (c - 1)) /\ Differ(cb)
      /\ \A x \in DOMAIN cb : \E i \in DOMAIN ctx[c].bases : cb[x] = ctx[c].bases[i].class
  <2> DEFINE bs == ctx[c].bases
             no(i) == bs[i].virt \/ ~HasVirtualBase(bs[i].class)
             I == {i \in DOMAIN bs : ~no(i)}
             g == [i \in DOMAIN bs |-> bs[i].class]
             rs == [i \in DOMAIN bs |-> IF no(i) THEN << >> ELSE <<bs[i].class>>]
             ts == [i \in DOMAIN g |-> IF i \in I THEN <<g[i]>> ELSE << >>]
  <2>1. cb = FlattenSeq(rs)
    BY DEF ConstructionBases
  <2>2. BasesIn(c, I) = FlattenSeq(ts)
    BY DEF BasesIn, Sift
  <2> HIDE DEF no, cb
  <2>3. rs = ts
    <3>1. DOMAIN g = DOMAIN bs /\ \A i \in DOMAIN bs : g[i] = bs[i].class
      OBVIOUS
    <3>2. \A i \in DOMAIN bs : (i \in I <=> ~no(i))
      OBVIOUS
    <3> HIDE DEF g, I, bs
    <3>3. ASSUME NEW i \in DOMAIN bs
          PROVE  (IF no(i) THEN << >> ELSE <<bs[i].class>>) = (IF i \in I THEN <<g[i]>> ELSE << >>)
      BY <3>1, <3>2, Zenon
    <3> QED BY <3>1, <3>3
  <2>4. BasesIn(c, I) = cb
    <3> HIDE DEF rs, ts
    <3> QED BY <2>1, <2>2, <2>3
  <2> HIDE DEF I
  <2> QED BY <2>4, BasesAt
<1> HIDE DEF cb, A
<1>3. PICK l \in Nat : l = Len(cb) /\ DOMAIN cb = 1 .. l
  BY <1>2, Measured
<1>4. ASSUME NEW i \in DOMAIN cb PROVE cb[i] \in 1 .. (c - 1) /\ cb[i] \in DOMAIN ctx
  <2>1. cb[i] \in 1 .. (c - 1)
    BY <1>2, Measured
  <2>2. ctx \in Seq(Class)
    BY DEF WellFormed
  <2> QED BY <2>1, <2>2
<1>5. ASSUME NEW i \in DOMAIN cb PROVE n(i) \in Nat \ {0}
  <2>1. VirtualBases(cb[i]) \in Seq(1 .. (cb[i] - 1))
    BY <1>4, VirtualBelow
  <2> QED BY <2>1
<1>6. ASSUME NEW i \in DOMAIN cb
      PROVE  /\ row(i) \in Seq(EntrySet) /\ DOMAIN row(i) = 1 .. n(i)
             /\ \A k \in 1 .. n(i) : row(i)[k].of = cb[i]
  <2> HIDE DEF n
  <2>1. \A k \in 1 .. n(i) : Entry(cb[i], k - 1) \in EntrySet
    <3>1. cb[i] \in Nat
      BY <1>4
    <3>2. \A k \in 1 .. n(i) : k - 1 \in Nat
      BY <1>5
    <3> QED BY <3>1, <3>2, EntryParts
  <2>2. row(i) \in Seq(EntrySet)
    BY <1>5, <2>1
  <2> QED BY <2>2, EntryParts
<1>7. DOMAIN ss = DOMAIN cb /\ \A i \in DOMAIN cb : ss[i] = row(i)
  OBVIOUS
<1> HIDE DEF row
<1>8. ss \in Rows(EntrySet)
  <2>1. \A i \in 1 .. l : row(i) \in Seq(EntrySet)
    BY <1>3, <1>6
  <2> QED BY <1>3, <2>1 DEF Rows
<1> HIDE DEF ss, n
<1>9. A \in Seq(EntrySet) /\ \E off : FlatMap(A, ss, off)
  BY <1>1, <1>8, Flat
<1>10. PICK off : FlatMap(A, ss, off)
  BY <1>9
<1>11. /\ \A i \in DOMAIN cb : off[i] \in Nat
       /\ \A i \in DOMAIN cb : \A j \in 1 .. n(i) : off[i] + j \in DOMAIN A /\ A[off[i] + j].of = cb[i]
       /\ \A x \in DOMAIN A : \E i \in DOMAIN cb : \E j \in 1 .. n(i) : x = off[i] + j
  <2>1. \A i \in DOMAIN cb : DOMAIN ss[i] = 1 .. n(i) /\ \A j \in 1 .. n(i) : ss[i][j].of = cb[i]
    BY <1>6, <1>7
  <2>2. \A i \in DOMAIN cb : off[i] \in Nat
    BY <1>7, <1>10 DEF FlatMap
  <2>3. ASSUME NEW i \in DOMAIN cb, NEW j \in 1 .. n(i)
        PROVE  off[i] + j \in DOMAIN A /\ A[off[i] + j].of = cb[i]
    <3>1. i \in DOMAIN ss /\ j \in DOMAIN ss[i] /\ ss[i][j].of = cb[i]
      BY <1>7, <2>1
    <3>2. off[i] + j \in DOMAIN A /\ A[off[i] + j] = ss[i][j]
      BY <1>10, <3>1 DEF FlatMap
    <3> QED BY <3>1, <3>2
  <2>4. ASSUME NEW x \in DOMAIN A PROVE \E i \in DOMAIN cb : \E j \in 1 .. n(i) : x = off[i] + j
    <3>1. PICK i \in DOMAIN ss : \E j \in DOMAIN ss[i] : x = off[i] + j
      BY <1>10 DEF FlatMap
    <3> QED BY <1>7, <2>1, <3>1
  <2> QED BY <2>2, <2>3, <2>4
<1>12. ASSUME NEW x \in DOMAIN A PROVE A[x].of # 0
  <2>1. PICK i \in DOMAIN cb : A[x].of = cb[i]
    BY <1>11
  <2> QED BY <1>4, <2>1
<1>13. ASSUME NEW b \in Range(cb)
       PROVE  /\ b \in DOMAIN ctx /\ \E i \in DOMAIN ctx[c].bases : b = ctx[c].bases[i].class
              /\ \E o \in Nat : {x \in DOMAIN A : A[x].of = b} = (o + 1) .. (o + 1 + Len(VirtualBases(b)))
  <2>1. PICK i \in DOMAIN cb : b = cb[i]
    BY DEF Range
  <2>2. n(i) = 1 + Len(VirtualBases(b))
    BY <2>1 DEF n
  <2>3. ASSUME NEW x \in DOMAIN A, A[x].of = b PROVE x \in (off[i] + 1) .. (off[i] + n(i))
    <3>1. PICK h \in DOMAIN cb : \E j \in 1 .. n(h) : x = off[h] + j
      BY <1>11
    <3>2. PICK j \in 1 .. n(h) : x = off[h] + j
      BY <3>1
    <3>3. h = i
      BY <1>2, <1>11, <2>1, <2>3, <3>2 DEF Differ
    <3> QED BY <1>5, <1>11, <3>2, <3>3
  <2>4. ASSUME NEW x \in (off[i] + 1) .. (off[i] + n(i)) PROVE x \in DOMAIN A /\ A[x].of = b
    <3>1. x - off[i] \in 1 .. n(i) /\ x = off[i] + (x - off[i])
      BY <1>5, <1>11
    <3> QED BY <1>11, <2>1, <3>1
  <2>5. {x \in DOMAIN A : A[x].of = b} = (off[i] + 1) .. (off[i] + n(i))
    BY <2>3, <2>4
  <2>6. off[i] \in Nat /\ off[i] + n(i) = off[i] + 1 + Len(VirtualBases(b))
    <3>1. PICK w \in Nat : w = Len(VirtualBases(b))
      BY <1>4, <2>1, VirtualBelow
    <3>2. PICK o \in Nat : o = off[i]
      BY <1>11
    <3>3. n(i) = 1 + w
      BY <2>2, <3>1
    <3> QED BY <3>1, <3>2, <3>3
  <2>7. {x \in DOMAIN A : A[x].of = b} = (off[i] + 1) .. (off[i] + 1 + Len(VirtualBases(b)))
    BY <2>5, <2>6
  <2>8. \E k \in DOMAIN ctx[c].bases : b = ctx[c].bases[k].class
    BY <1>2, <2>1
  <2> QED BY <1>4, <2>1, <2>6, <2>7, <2>8
<1> QED BY <1>9, <1>12, <1>13 DEF A, cb

(* The places of one element and three sequences joined.                     *)
Parted(v, e, a, b, d, la, lb, ld) ==
  /\ DOMAIN v = 1 .. (1 + la + lb + ld) /\ v[1] = e
  /\ \A x \in 1 .. la : v[1 + x] = a[x]
  /\ \A x \in 1 .. lb : v[1 + la + x] = b[x]
  /\ \A x \in 1 .. ld : v[1 + la + lb + x] = d[x]

(* Joining them puts each at its place.                                      *)
LEMMA FourParts ==
  ASSUME NEW S, NEW e \in S, NEW a \in Seq(S), NEW b \in Seq(S), NEW d \in Seq(S),
         NEW la \in Nat, NEW lb \in Nat, NEW ld \in Nat,
         DOMAIN a = 1 .. la, DOMAIN b = 1 .. lb, DOMAIN d = 1 .. ld
  PROVE  Parted(<<e>> \o a \o b \o d, e, a, b, d, la, lb, ld)
<1> DEFINE p == <<e>> \o a
           q == p \o b
           v == q \o d
<1>1. <<e>> \in Seq(S) /\ DOMAIN <<e>> = 1 .. 1 /\ <<e>>[1] = e
  OBVIOUS
<1>2. p \in Seq(S) /\ Joins(p, <<e>>, a, 1, la)
  BY <1>1, ConcatJoins
<1> HIDE DEF p
<1>3. q \in Seq(S) /\ Joins(q, p, b, 1 + la, lb)
  <2>1. 1 + la \in Nat /\ DOMAIN p = 1 .. (1 + la)
    BY <1>2 DEF Joins
  <2> QED BY <1>2, <2>1, ConcatJoins
<1> HIDE DEF q
<1>4. Joins(v, q, d, 1 + la + lb, ld)
  <2>1. 1 + la + lb \in Nat /\ DOMAIN q = 1 .. (1 + la + lb)
    BY <1>3 DEF Joins
  <2> QED BY <1>3, <2>1, ConcatJoins
<1> HIDE DEF v
<1>5. /\ DOMAIN p = 1 .. (1 + la) /\ p[1] = e /\ \A x \in 1 .. la : p[1 + x] = a[x]
  BY <1>1, <1>2 DEF Joins
<1>6. /\ DOMAIN q = 1 .. (1 + la + lb) /\ q[1] = e
      /\ \A x \in 1 .. la : q[1 + x] = a[x]
      /\ \A x \in 1 .. lb : q[1 + la + x] = b[x]
  <2>1. /\ DOMAIN q = 1 .. (1 + la + lb)
        /\ \A x \in 1 .. (1 + la) : q[x] = p[x]
        /\ \A x \in 1 .. lb : q[1 + la + x] = b[x]
    BY <1>3, Zenon DEF Joins
  <2>2. 1 \in 1 .. (1 + la)
    OBVIOUS
  <2>3. \A x \in 1 .. la : 1 + x \in 1 .. (1 + la)
    OBVIOUS
  <2> QED BY <1>5, <2>1, <2>2, <2>3, Zenon
<1>7. /\ DOMAIN v = 1 .. (1 + la + lb + ld) /\ v[1] = e
      /\ \A x \in 1 .. la : v[1 + x] = a[x]
      /\ \A x \in 1 .. lb : v[1 + la + x] = b[x]
      /\ \A x \in 1 .. ld : v[1 + la + lb + x] = d[x]
  <2>1. /\ DOMAIN v = 1 .. (1 + la + lb + ld)
        /\ \A x \in 1 .. (1 + la + lb) : v[x] = q[x]
        /\ \A x \in 1 .. ld : v[1 + la + lb + x] = d[x]
    BY <1>4, Zenon DEF Joins
  <2>2. 1 \in 1 .. (1 + la + lb)
    OBVIOUS
  <2>3. \A x \in 1 .. la : 1 + x \in 1 .. (1 + la + lb)
    OBVIOUS
  <2>4. \A x \in 1 .. lb : 1 + la + x \in 1 .. (1 + la + lb)
    OBVIOUS
  <2> QED BY <1>6, <2>1, <2>2, <2>3, <2>4, Zenon
<1> QED BY <1>7, Zenon DEF v, q, p, Parted

(* Every place is in one of the parts.                                       *)
Covered(v, e, a, b, d, la, lb, ld) ==
  /\ 1 \in DOMAIN v /\ v[1] = e
  /\ \A x \in 1 .. la : 1 + x \in DOMAIN v /\ v[1 + x] = a[x]
  /\ \A x \in 1 .. lb : 1 + la + x \in DOMAIN v /\ v[1 + la + x] = b[x]
  /\ \A x \in 1 .. ld : 1 + la + lb + x \in DOMAIN v /\ v[1 + la + lb + x] = d[x]
  /\ \A k \in DOMAIN v :
       \/ k = 1
       \/ \E x \in 1 .. la : k = 1 + x /\ v[k] = a[x]
       \/ \E x \in 1 .. lb : k = 1 + la + x /\ v[k] = b[x]
       \/ \E x \in 1 .. ld : k = 1 + la + lb + x /\ v[k] = d[x]

(* Each place of the joined sequence is one of theirs.                       *)
LEMMA PartsOf ==
  ASSUME NEW la \in Nat, NEW lb \in Nat, NEW ld \in Nat, NEW v, NEW e, NEW a, NEW b, NEW d,
         Parted(v, e, a, b, d, la, lb, ld)
  PROVE  Covered(v, e, a, b, d, la, lb, ld)
<1>1. ASSUME NEW k \in 1 .. (1 + la + lb + ld)
      PROVE  \/ k = 1
             \/ \E x \in 1 .. la : k = 1 + x
             \/ \E x \in 1 .. lb : k = 1 + la + x
             \/ \E x \in 1 .. ld : k = 1 + la + lb + x
  <2>1. k # 1 /\ k <= 1 + la => k - 1 \in 1 .. la /\ k = 1 + (k - 1)
    OBVIOUS
  <2>2. k > 1 + la /\ k <= 1 + la + lb => k - 1 - la \in 1 .. lb /\ k = 1 + la + (k - 1 - la)
    OBVIOUS
  <2>3. k > 1 + la + lb => k - 1 - la - lb \in 1 .. ld /\ k = 1 + la + lb + (k - 1 - la - lb)
    OBVIOUS
  <2>4. k = 1 \/ (k # 1 /\ k <= 1 + la) \/ (k > 1 + la /\ k <= 1 + la + lb) \/ k > 1 + la + lb
    OBVIOUS
  <2> QED BY <2>1, <2>2, <2>3, <2>4
<1>2. /\ 1 \in 1 .. (1 + la + lb + ld)
      /\ \A x \in 1 .. la : 1 + x \in 1 .. (1 + la + lb + ld)
      /\ \A x \in 1 .. lb : 1 + la + x \in 1 .. (1 + la + lb + ld)
      /\ \A x \in 1 .. ld : 1 + la + lb + x \in 1 .. (1 + la + lb + ld)
  OBVIOUS
<1>3. /\ DOMAIN v = 1 .. (1 + la + lb + ld) /\ v[1] = e
      /\ \A x \in 1 .. la : v[1 + x] = a[x]
      /\ \A x \in 1 .. lb : v[1 + la + x] = b[x]
      /\ \A x \in 1 .. ld : v[1 + la + lb + x] = d[x]
  BY DEF Parted
<1>4. ASSUME NEW k \in DOMAIN v
      PROVE  \/ k = 1
             \/ \E x \in 1 .. la : k = 1 + x /\ v[k] = a[x]
             \/ \E x \in 1 .. lb : k = 1 + la + x /\ v[k] = b[x]
             \/ \E x \in 1 .. ld : k = 1 + la + lb + x /\ v[k] = d[x]
  <2>1. CASE k = 1
    BY <2>1
  <2>2. CASE \E x \in 1 .. la : k = 1 + x
    BY <1>3, <2>2, Zenon
  <2>3. CASE \E x \in 1 .. lb : k = 1 + la + x
    BY <1>3, <2>3, Zenon
  <2>4. CASE \E x \in 1 .. ld : k = 1 + la + lb + x
    BY <1>3, <2>4, Zenon
  <2> QED BY <1>1, <1>3, <2>1, <2>2, <2>3, <2>4, Zenon
<1> QED BY <1>2, <1>3, <1>4, Zenon DEF Covered

(* A table that is named in one of the parts is named once.                  *)
LEMMA NamedOnce ==
  ASSUME NEW la \in Nat, NEW lb \in Nat, NEW ld \in Nat, NEW v, NEW a, NEW b, NEW d,
         Parted(v, Entry(0, 0), a, b, d, la, lb, ld),
         \A x \in 1 .. la : a[x].of # 0,
         NEW J, NEW K, NamesOn(b, 1 .. lb, J), NamesOn(d, 1 .. ld, K),
         J \intersect K = {}, 0 \notin J, 0 \notin K, NEW i \in {0} \union J \union K
  PROVE  \E k \in DOMAIN v : \A h \in DOMAIN v : v[h] = Entry(0, i) <=> h = k
<1>1. (\A j, h : Entry(0, j) = Entry(0, h) => j = h) /\ \A j : Entry(0, j).of = 0
  BY EntryParts
<1>2. \A x \in 1 .. la : a[x] # Entry(0, i)
  BY <1>1
<1>6. Covered(v, Entry(0, 0), a, b, d, la, lb, ld)
  BY PartsOf
<1>7. /\ v[1] = Entry(0, 0)
      /\ \A k \in DOMAIN v :
           \/ k = 1
           \/ \E x \in 1 .. la : k = 1 + x /\ v[k] = a[x]
           \/ \E x \in 1 .. lb : k = 1 + la + x /\ v[k] = b[x]
           \/ \E x \in 1 .. ld : k = 1 + la + lb + x /\ v[k] = d[x]
  BY <1>6, Zenon DEF Covered
<1>8. \A x \in 1 .. lb : 1 + la + x \in DOMAIN v /\ v[1 + la + x] = b[x]
  BY <1>6, Zenon DEF Covered
<1>9. \A x \in 1 .. ld : 1 + la + lb + x \in DOMAIN v /\ v[1 + la + lb + x] = d[x]
  BY <1>6, Zenon DEF Covered
<1>3. CASE i = 0
  <2>1. \A x \in 1 .. lb : b[x] # Entry(0, i)
    BY <1>1, <1>3 DEF NamesOn
  <2>2. \A x \in 1 .. ld : d[x] # Entry(0, i)
    BY <1>1, <1>3 DEF NamesOn
  <2>3. \A h \in DOMAIN v : v[h] = Entry(0, i) => h = 1
    BY <1>2, <1>7, <2>1, <2>2, Zenon
  <2> QED BY <1>3, <2>3, <1>6 DEF Covered
<1>4. CASE i \in J
  <2>1. PICK x \in 1 .. lb : \A y \in 1 .. lb : b[y] = Entry(0, i) <=> y = x
    BY <1>4 DEF NamesOn
  <2>2. \A y \in 1 .. ld : d[y] # Entry(0, i)
    BY <1>1, <1>4 DEF NamesOn
  <2>3. Entry(0, 0) # Entry(0, i)
    BY <1>1, <1>4
  <2>4. ASSUME NEW h \in DOMAIN v, v[h] = Entry(0, i) PROVE h = 1 + la + x
    <3>1. \E y \in 1 .. lb : h = 1 + la + y /\ b[y] = Entry(0, i)
      BY <1>2, <1>7, <2>2, <2>3, <2>4, Zenon
    <3> QED BY <2>1, <3>1, Zenon
  <2>6. b[x] = Entry(0, i)
    BY <2>1
  <2>5. 1 + la + x \in DOMAIN v /\ v[1 + la + x] = Entry(0, i)
    BY <1>8, <2>6
  <2> QED BY <2>4, <2>5
<1>5. CASE i \in K
  <2>1. PICK x \in 1 .. ld : \A y \in 1 .. ld : d[y] = Entry(0, i) <=> y = x
    BY <1>5 DEF NamesOn
  <2>2. \A y \in 1 .. lb : b[y] # Entry(0, i)
    BY <1>1, <1>5 DEF NamesOn
  <2>3. Entry(0, 0) # Entry(0, i)
    BY <1>1, <1>5
  <2>4. ASSUME NEW h \in DOMAIN v, v[h] = Entry(0, i) PROVE h = 1 + la + lb + x
    <3>1. \E y \in 1 .. ld : h = 1 + la + lb + y /\ d[y] = Entry(0, i)
      BY <1>2, <1>7, <2>2, <2>3, <2>4, Zenon
    <3> QED BY <2>1, <3>1, Zenon
  <2>6. d[x] = Entry(0, i)
    BY <2>1
  <2>5. 1 + la + lb + x \in DOMAIN v /\ v[1 + la + lb + x] = Entry(0, i)
    BY <1>9, <2>6
  <2> QED BY <2>4, <2>5
<1> QED BY <1>3, <1>4, <1>5

(* The entries of a base fill one run.                                       *)
NoneOf(q, l, e) == \A x \in 1 .. l : q[x].of # e
RunOf(q, l, e, o, w) == {x \in 1 .. l : q[x].of = e} = (o + 1) .. (o + 1 + w)

(* A run of w + 1 entries that nothing else repeats is counted as such.      *)
LEMMA RunCount ==
  ASSUME NEW la \in Nat, NEW lb \in Nat, NEW ld \in Nat, NEW v, NEW a, NEW b, NEW d, NEW e, NEW e0,
         Parted(v, e0, a, b, d, la, lb, ld),
         e0.of # e, NoneOf(b, lb, e), NoneOf(d, ld, e),
         NEW o \in Nat, NEW w \in Nat, RunOf(a, la, e, o, w)
  PROVE  Cardinality({k \in DOMAIN v : v[k].of = e}) = 1 + w
<1>6. Covered(v, e0, a, b, d, la, lb, ld)
  BY PartsOf
<1>1. ASSUME NEW k \in DOMAIN v, v[k].of = e PROVE k \in (o + 2) .. (o + 2 + w)
  <2>1. PICK x \in 1 .. la : k = 1 + x /\ v[k] = a[x]
    BY <1>1, <1>6, Zenon DEF Covered, NoneOf
  <2>2. x \in (o + 1) .. (o + 1 + w)
    BY <1>1, <2>1 DEF RunOf
  <2> QED BY <2>1, <2>2
<1>2. ASSUME NEW k \in (o + 2) .. (o + 2 + w) PROVE k \in DOMAIN v /\ v[k].of = e
  <2>1. PICK x \in (o + 1) .. (o + 1 + w) : k = 1 + x
    <3>1. k - 1 \in (o + 1) .. (o + 1 + w) /\ k = 1 + (k - 1)
      OBVIOUS
    <3> QED BY <3>1
  <2>2. x \in 1 .. la /\ a[x].of = e
    BY <2>1 DEF RunOf
  <2> QED BY <2>1, <2>2, <1>6 DEF Covered
<1>3. {k \in DOMAIN v : v[k].of = e} = (o + 2) .. (o + 2 + w)
  BY <1>1, <1>2
<1>4. PICK p \in Int, q \in Int : p = o + 2 /\ q = o + 2 + w /\ ~(p > q) /\ q - p + 1 = 1 + w
  OBVIOUS
<1>5. Cardinality(p .. q) = q - p + 1
  BY <1>4, FS_Interval
<1> QED BY <1>3, <1>4, <1>5

(* A sequence without repetition has as many members as places.              *)
LEMMA DifferCount ==
  ASSUME NEW S, NEW q \in Seq(S), Differ(q)
  PROVE  Cardinality(Range(q)) = Len(q)
<1>1. PICK n \in Nat : n = Len(q) /\ DOMAIN q = 1 .. n
  BY Measured
<1>2. q \in Bijection(1 .. n, Range(q))
  <2>1. q \in [1 .. n -> Range(q)]
    BY <1>1 DEF Range
  <2>2. \A x, y \in 1 .. n : q[x] = q[y] => x = y
    BY <1>1 DEF Differ
  <2>3. \A y \in Range(q) : \E x \in 1 .. n : q[x] = y
    BY <1>1 DEF Range
  <2> QED BY <2>1, <2>2, <2>3 DEF Bijection, Injection, Surjection, IsInjective
<1>3. ExistsBijection(1 .. n, Range(q))
  BY <1>2 DEF ExistsBijection
<1>4. IsFiniteSet(1 .. n) /\ Cardinality(1 .. n) = n
  BY FS_Interval
<1> QED BY <1>1, <1>3, <1>4, FS_Bijection

(* What the entries of a VTT are.                                            *)
LEMMA VttRight ==
  ASSUME WellFormed(ctx), NEW c \in DOMAIN ctx, NEW S, tables[c].subs \in Seq(S),
         Apart(tables[c].subs)
  PROVE  LET v == VttOf(c)
         IN /\ v[1] = Entry(0, 0)
            /\ \A i \in 0 .. Len(tables[c].subs) :
                 Cardinality({k \in DOMAIN v : v[k] = Entry(0, i)}) = 1
            /\ \A b \in Range(ConstructionBases(c)) :
                 Cardinality({k \in DOMAIN v : v[k].of = b})
                   = 1 + Cardinality(Range(VirtualBases(b)) \intersect Range(VirtualBases(c)))
<1> DEFINE a == SecondaryVtts(c)
           b == OwnVirtual(c)
           d == OwnSecondary(c)
           v == VttOf(c)
           J == ForVirtual(c)
           ts == tables[c].subs
           K == DOMAIN ts \ J
<1>1. a \in Seq(EntrySet) /\ \A x \in DOMAIN a : a[x].of # 0
  BY SecondaryRuns
<1>2. Names(b, J) /\ Names(d, K)
  BY OwnNames
<1>3. J \subseteq DOMAIN ts
  BY DEF ForVirtual
<1>4. v = <<Entry(0, 0)>> \o a \o b \o d
  BY DEF VttOf
<1>5. PICK n \in Nat : n = Len(ts) /\ DOMAIN ts = 1 .. n
  BY Measured
<1> HIDE DEF a, b, d, v, J, ts
<1>6. b \in Seq(EntrySet) /\ d \in Seq(EntrySet) /\ Entry(0, 0) \in EntrySet
  BY <1>2, EntryParts DEF Names
<1>7. PICK la \in Nat : DOMAIN a = 1 .. la
  BY <1>1, Measured
<1>8. PICK lb \in Nat : DOMAIN b = 1 .. lb
  BY <1>6, Measured
<1>9. PICK ld \in Nat : DOMAIN d = 1 .. ld
  BY <1>6, Measured
<1>10. Parted(v, Entry(0, 0), a, b, d, la, lb, ld)
  BY <1>1, <1>4, <1>6, <1>7, <1>8, <1>9, FourParts
<1>11. \A x \in 1 .. la : a[x].of # 0
  BY <1>1, <1>7
<1>12. NamesOn(b, 1 .. lb, J) /\ NamesOn(d, 1 .. ld, K)
  BY <1>2, <1>8, <1>9 DEF Names
<1>13. /\ J \intersect K = {} /\ 0 \notin J /\ 0 \notin K
       /\ \A i \in 0 .. n : i \in {0} \union J \union K
  BY <1>3, <1>5
<1> HIDE DEF K
<1>14. ASSUME NEW i \in 0 .. n PROVE Cardinality({k \in DOMAIN v : v[k] = Entry(0, i)}) = 1
  <2>1. i \in {0} \union J \union K
    BY <1>13
  <2>2. \E k \in DOMAIN v : \A h \in DOMAIN v : v[h] = Entry(0, i) <=> h = k
    BY <1>10, <1>11, <1>12, <1>13, <2>1, NamedOnce
  <2>3. PICK k \in DOMAIN v : \A h \in DOMAIN v : v[h] = Entry(0, i) <=> h = k
    BY <2>2
  <2>4. {h \in DOMAIN v : v[h] = Entry(0, i)} = {k}
    BY <2>3
  <2> QED BY <2>4, FS_Singleton
<1>15. ASSUME NEW e \in Range(ConstructionBases(c))
       PROVE  Cardinality({k \in DOMAIN v : v[k].of = e})
                = 1 + Cardinality(Range(VirtualBases(e)) \intersect Range(VirtualBases(c)))
  <2>1. e \in DOMAIN ctx /\ \E i \in DOMAIN ctx[c].bases : e = ctx[c].bases[i].class
    BY SecondaryRuns
  <2>2. VirtualBases(e) \in Seq(1 .. (e - 1)) /\ Differ(VirtualBases(e))
    BY <2>1, VirtualBelow, VirtualOnce DEF Once, Differ
  <2>3. PICK w \in Nat : w = Len(VirtualBases(e))
    BY <2>2, Measured
  <2>4. Cardinality(Range(VirtualBases(e))) = w
    BY <2>2, <2>3, DifferCount
  <2>5. Range(VirtualBases(e)) \intersect Range(VirtualBases(c)) = Range(VirtualBases(e))
    BY <2>1, VirtualInherited
  <2>6. \E o \in Nat : {x \in DOMAIN a : a[x].of = e} = (o + 1) .. (o + 1 + Len(VirtualBases(e)))
    BY SecondaryRuns, Zenon DEF a
  <2>7. PICK o \in Nat : RunOf(a, la, e, o, w)
    <3>1. PICK o \in Nat : {x \in DOMAIN a : a[x].of = e} = (o + 1) .. (o + 1 + w)
      BY <2>3, <2>6, Zenon
    <3>2. {x \in DOMAIN a : a[x].of = e} = {x \in 1 .. la : a[x].of = e}
      BY <1>7
    <3> QED BY <3>1, <3>2, Zenon DEF RunOf
  <2>8. e # 0
    BY <2>1, ClassParts
  <2>9. \A i : Entry(0, i).of # e
    BY <2>8, EntryParts
  <2>10. Entry(0, 0).of # e /\ NoneOf(b, lb, e) /\ NoneOf(d, ld, e)
    <3>1. (\A x \in 1 .. lb : \E i \in J : b[x] = Entry(0, i))
            /\ (\A x \in 1 .. ld : \E i \in K : d[x] = Entry(0, i))
      BY <1>12, Zenon DEF NamesOn
    <3> HIDE DEF b, d, J, K
    <3> QED BY <2>9, <3>1, Zenon DEF NoneOf
  <2>11. Cardinality({k \in DOMAIN v : v[k].of = e}) = 1 + w
    BY <1>10, <2>7, <2>10, RunCount
  <2> QED BY <2>4, <2>5, <2>11
<1>16. v[1] = Entry(0, 0)
  BY <1>10 DEF Parted
<1> QED BY <1>5, <1>14, <1>15, <1>16 DEF v, ts

(* VttCoversTables: of a class that is no base in both ways, the VTT names   *)
(* each sub-table of the vtable once, the primary one first, and of each     *)
(* construction vtable its primary table and one for every virtual base of   *)
(* the base (vtt.rs, vtt and construction_vtables).                          *)
THEOREM VttCorrect == Spec => []VttCoversTables
<1>1. Init => SubsInv /\ ForsInv
  <2> SUFFICES ASSUME Init PROVE SubsInv /\ ForsInv
    OBVIOUS
  <2>1. tables = << >> /\ phase = "idle" /\ sub = 1
    BY DEF Init
  <2>2. ClassIds = {}
    BY <2>1 DEF ClassIds
  <2> QED BY <2>1, <2>2 DEF SubsInv, ForsInv
<1>2. IInv /\ SubsInv /\ ForsInv /\ [Next]_vars => SubsInv' /\ ForsInv'
  BY SubsKept, ForsKept
<1>3. IInv /\ ForsInv => VttCoversTables
  <2> SUFFICES ASSUME IInv, ForsInv, NEW c \in ClassIds, ~BothWays(c)
               PROVE  LET v == VttOf(c)
                      IN /\ v[1] = Entry(0, 0)
                         /\ \A i \in 0 .. Len(tables[c].subs) :
                              Cardinality({k \in DOMAIN v : v[k] = Entry(0, i)}) = 1
                         /\ \A b \in Range(ConstructionBases(c)) :
                              Cardinality({k \in DOMAIN v : v[k].of = b})
                                = 1 + Cardinality(Range(VirtualBases(b)) \intersect Range(VirtualBases(c)))
    BY DEF VttCoversTables
  <2>1. WellFormed(ctx) /\ c \in DOMAIN ctx
    <3>1. ctx \in Seq(Class)
      BY DEF IInv, WellFormed
    <3>2. PICK R : tables \in Seq(R)
      BY DEF IInv
    <3> QED BY <3>1, <3>2 DEF IInv, ClassIds
  <2>2. PICK S : tables[c].subs \in Seq(S)
    BY DEF ForsInv
  <2>3. Apart(tables[c].subs)
    BY DEF ForsInv
  <2> QED BY <2>1, <2>2, <2>3, VttRight
<1> QED BY <1>1, <1>2, <1>3, TablesInvariant, PTL DEF Spec

-----------------------------------------------------------------------------
(* The attribute of an imported class. *)

(* The pair of destructors stands at places p and p + 1 of the table; there  *)
(* is none when p is 0.                                                      *)
PairAt(s, p) ==
  /\ p \in Nat
  /\ p # 0 => /\ p \in DOMAIN s /\ p + 1 \in DOMAIN s
              /\ s[p].kind = "D1" /\ s[p + 1].kind = "D0"
  /\ \A i \in DOMAIN s : i # p /\ (p = 0 \/ i # p + 1) => s[i].kind = "Method"

(* One slot per function.                                                    *)
Single(s) ==
  /\ \A i, l \in DOMAIN s : s[i].kind = "Method" /\ s[l].kind = "Method"
                            /\ SlotSig(s[i]) = SlotSig(s[l]) => i = l
  /\ \A i \in DOMAIN s : s[i].kind = "Method" => SlotSig(s[i]) \in Sig

(* Two slots of one function are one slot.                                   *)
LEMMA OnePlain ==
  ASSUME WellFormed(ctx), NEW c \in DOMAIN ctx, NEW s, Built(c, s) PROVE Single(s)
<1>1. PICK w : \E a \in Nat, n \in Nat :
        /\ Places(c, a, n, w) /\ Len(w) = Len(s) /\ DOMAIN w = DOMAIN s
        /\ \A i \in DOMAIN s : Filled(c, a, n, w[i], s[i])
        /\ \A k, j \in Nat : Decl(c, k, j) => Scanned(k, j, a, n)
  BY BuiltParts
<1>2. PICK a \in Nat, n \in Nat :
        /\ Places(c, a, n, w) /\ DOMAIN w = DOMAIN s
        /\ \A i \in DOMAIN s : Filled(c, a, n, w[i], s[i])
  BY <1>1
<1>3. ASSUME NEW i \in DOMAIN s, s[i].kind = "Method"
      PROVE  ~MethOf(c, w[i]).dtor /\ SlotSig(s[i]) = MethOf(c, w[i]).sig /\ MethOf(c, w[i]) \in Method
  <2>1. w[i] \in Place /\ MethOf(c, w[i]) \in Method /\ Filled(c, a, n, w[i], s[i])
    BY <1>2, PlaceType
  <2> QED BY <1>3, <2>1, SlotKind
<1>4. ASSUME NEW i \in DOMAIN s, NEW l \in DOMAIN s, s[i].kind = "Method", s[l].kind = "Method",
             SlotSig(s[i]) = SlotSig(s[l])
      PROVE  i = l
  <2>1. Alike(MethOf(c, w[i]), MethOf(c, w[l])) /\ ~MethOf(c, w[i]).dtor
    BY <1>3, <1>4 DEF Alike
  <2> QED BY <1>2, <2>1, OneMethod
<1>5. \A i \in DOMAIN s : s[i].kind = "Method" => SlotSig(s[i]) \in Sig
  BY <1>3 DEF Method
<1> QED BY <1>4, <1>5 DEF Single

(* A finished table has the pair at one place, or has none.                  *)
LEMMA PairPlace ==
  ASSUME WellFormed(ctx), NEW c \in DOMAIN ctx, NEW s, Built(c, s)
  PROVE  s \in Seq(SlotSet) /\ \E p : PairAt(s, p)
<1> DEFINE d1 == {i \in DOMAIN s : s[i].kind = "D1"}
           d0 == {i \in DOMAIN s : s[i].kind = "D0"}
<1>1. s \in Seq(SlotSet)
  BY BuiltParts
<1>7. /\ \A k, j \in Nat : Decl(c, k, j) /\ ~Meth(c, k, j).dtor =>
           \E i \in DOMAIN s :
             {l \in DOMAIN s : s[l].kind = "Method" /\ SlotSig(s[l]) = Meth(c, k, j).sig} = {i}
      /\ (\E k, j \in Nat : Decl(c, k, j) /\ Meth(c, k, j).dtor) => \E i : d1 = {i}
      /\ d1 # {} => \E k, j \in Nat : Decl(c, k, j) /\ Meth(c, k, j).dtor
      /\ d0 = {i + 1 : i \in d1}
      /\ \A i \in d1 \union d0 : s[i].overrider = c
  BY SlotsOfTable
<1>2. d1 # {} => \E i : d1 = {i}
  <2> HIDE DEF d1, d0
  <2> QED BY <1>7
<1>3. d0 = {i + 1 : i \in d1}
  BY <1>7
<1>4. \A i \in DOMAIN s : s[i].kind \in {"Method", "D1", "D0"} /\ i \in Nat \ {0}
  <2>1. \A i \in DOMAIN s : s[i] \in SlotSet /\ i \in Nat \ {0}
    BY <1>1
  <2>2. \A x \in SlotSet : x.kind \in {"Method", "D1", "D0"}
    BY DEF SlotSet
  <2> QED BY <2>1, <2>2
<1>5. CASE d1 = {}
  <2>1. \A i \in DOMAIN s : s[i].kind = "Method"
    BY <1>3, <1>4, <1>5
  <2>2. PairAt(s, 0)
    BY <2>1 DEF PairAt
  <2> QED BY <1>1, <2>2
<1>6. CASE d1 # {}
  <2>1. PICK p : d1 = {p}
    BY <1>2, <1>6
  <2>2. d0 = {p + 1}
    BY <1>3, <2>1
  <2>3. p \in DOMAIN s /\ s[p].kind = "D1" /\ p \in Nat \ {0}
    BY <1>4, <2>1
  <2>4. p + 1 \in DOMAIN s /\ s[p + 1].kind = "D0"
    BY <2>2
  <2>5. \A i \in DOMAIN s : i # p /\ i # p + 1 => s[i].kind = "Method"
    BY <1>4, <2>1, <2>2
  <2>6. PairAt(s, p)
    BY <2>3, <2>4, <2>5 DEF PairAt
  <2> QED BY <1>1, <2>6
<1> QED BY <1>5, <1>6

(* The record of a function; the slot that the record at place x is of.      *)
Plain(s) == [name |-> NameOf[SlotSig(s)], params |-> ParamsOf[SlotSig(s)], target |-> Target(s)]
Marked(p, x) == p > 1 /\ x = p
Where(p, x) == IF p = 0 THEN x ELSE IF p = 1 THEN x + 2 ELSE IF x < p THEN x ELSE x + 1
Cut(n, p) == IF p = 0 THEN n ELSE IF p = 1 THEN n - 2 ELSE n - 1

Recorded(r, s, n, p) ==
  /\ Cut(n, p) \in Nat /\ DOMAIN r = 1 .. Cut(n, p)
  /\ \A x \in 1 .. Cut(n, p) :
       IF Marked(p, x) THEN r[x] = Marker
       ELSE /\ Where(p, x) \in 1 .. n /\ s[Where(p, x)].kind = "Method"
            /\ r[x] = Plain(s[Where(p, x)])

(* The records: one per function, and one for a pair that is not first.      *)
LEMMA RecordsAre ==
  ASSUME NEW c, tables[c].slots \in Seq(SlotSet), NEW n \in Nat, n = Len(tables[c].slots),
         NEW p, PairAt(tables[c].slots, p)
  PROVE  (\E R : Records(c) \in Seq(R)) /\ Recorded(Records(c), tables[c].slots, n, p)
<1> DEFINE s == tables[c].slots
           ss == [i \in DOMAIN s |-> RecordsOf(c, s[i])]
           R == {Marker} \union {Plain(s[i]) : i \in DOMAIN s}
           r == FlattenSeq(ss)
<1>1. DOMAIN s = 1 .. n /\ Records(c) = r /\ p \in Nat
  BY DEF Records, PairAt
<1>2. DtorLeading(c) <=> p = 1
  <2>1. ASSUME p = 1 PROVE DtorLeading(c)
    <3>1. 1 \in DOMAIN s /\ s[1].kind = "D1"
      BY <2>1 DEF PairAt
    <3> QED BY <3>1 DEF DtorLeading, IsDtor
  <2>2. ASSUME p # 1, DtorLeading(c) PROVE FALSE
    <3>1. 1 \in DOMAIN s /\ s[1].kind # "Method"
      BY <1>1, <2>2 DEF DtorLeading, IsDtor
    <3> QED BY <1>1, <2>2, <3>1 DEF PairAt
  <2> QED BY <2>1, <2>2
<1>3. \A i \in 1 .. n : i # p /\ (p = 0 \/ i # p + 1) => ss[i] = <<Plain(s[i])>> /\ s[i].kind = "Method"
  BY <1>1 DEF PairAt, RecordsOf, IsDtor, Plain
<1>10. p \in Nat /\ \A x : Len(<<x>>) = 1 /\ <<x>>[1] = x
  BY <1>1
<1>4. p # 0 => /\ p \in 1 .. n /\ p + 1 \in 1 .. n /\ ss[p + 1] = << >>
               /\ ss[p] = IF p = 1 THEN << >> ELSE <<Marker>>
  BY <1>1, <1>2 DEF PairAt, RecordsOf, IsDtor
<1> HIDE DEF s
<1>5. \A i \in 1 .. n : ss[i] \in Seq(R)
  <2>1. \A i \in 1 .. n : Plain(s[i]) \in R
    BY <1>1
  <2>2. Marker \in R
    OBVIOUS
  <2> HIDE DEF ss, R
  <2>6. \A x \in R : <<x>> \in Seq(R)
    OBVIOUS
  <2>3. SUFFICES ASSUME NEW i \in 1 .. n PROVE ss[i] \in Seq(R)
    OBVIOUS
  <2>4. CASE i # p /\ (p = 0 \/ i # p + 1)
    BY <1>3, <2>1, <2>4, <2>6, Zenon
  <2>5. CASE p # 0 /\ (i = p \/ i = p + 1)
    <3>1. ss[i] = << >> \/ ss[i] = <<Marker>>
      BY <1>4, <2>5
    <3>2. << >> \in Seq(R) /\ <<Marker>> \in Seq(R)
      BY <2>2, <2>6
    <3> QED BY <3>1, <3>2
  <2> QED BY <1>1, <2>4, <2>5
<1>6. ss \in Rows(R) /\ DOMAIN ss = 1 .. n
  <2>1. DOMAIN ss = 1 .. n /\ ss = [i \in 1 .. n |-> ss[i]]
    BY <1>1
  <2> HIDE DEF ss, R
  <2> QED BY <1>5, <2>1 DEF Rows
<1> HIDE DEF ss, R
<1>7. CASE p = 0
  <2>1. \A i \in 1 .. n : Len(ss[i]) = 1 /\ ss[i][1] = Plain(s[i]) /\ s[i].kind = "Method"
    <3>1. \A i \in 1 .. n : i # p
      BY <1>7
    <3> QED BY <1>3, <1>7, <1>10, <3>1, Zenon
  <2>2. r \in Seq(R) /\ DOMAIN r = 1 .. n /\ \A x \in 1 .. n : r[x] = ss[x][1]
    BY <1>6, <2>1, FlatOnes
  <2> HIDE DEF r
  <2>3. Recorded(r, s, n, p)
    BY <1>7, <2>1, <2>2 DEF Recorded, Cut, Where, Marked
  <2> QED BY <1>1, <2>2, <2>3 DEF s
<1>8. CASE p = 1
  <2>1. 1 \in 1 .. n /\ 2 \in 1 .. n /\ 2 \in 1 .. n /\ Len(ss[1]) = 0 /\ Len(ss[2]) = 0
    BY <1>4, <1>8
  <2>2. \A i \in 1 .. n : i < 1 \/ i > 2 =>
          Len(ss[i]) = 1 /\ ss[i][1] = Plain(s[i]) /\ s[i].kind = "Method"
    <3>1. \A i \in 1 .. n : i < 1 \/ i > 2 => i # p /\ i # p + 1
      BY <1>8
    <3> QED BY <1>3, <1>10, <3>1, Zenon
  <2>3. Stretch(ss, n, 1, 2, 0, 0)
    BY <2>1, <2>2 DEF Stretch
  <2>4. r \in Seq(R) /\ Widened(r, ss, n, 1, 2, IF 2 = 1 THEN 0 ELSE 0 + 0)
    <3>1. 0 \in Nat /\ 2 \in 1 .. n /\ 2 >= 1
      BY <2>1
    <3>2. 2 \in 1 .. n /\ \A y : y \in 1 .. n /\ y >= 1 => y \in 1 .. n
      BY <3>1
    <3> QED BY <1>6, <2>1, <2>3, <3>1, FlatStretch
  <2> HIDE DEF r
  <2>5. DOMAIN r = 1 .. (n - 2) /\ \A x \in 3 .. n : r[x - 2] = ss[x][1]
    BY <2>1, <2>4 DEF Widened
  <2>6. \A x \in 1 .. (n - 2) : x + 2 \in 3 .. n /\ (x + 2) - 2 = x /\ x + 2 \in 1 .. n /\ x + 2 > 2
    OBVIOUS
  <2>7. \A x \in 1 .. (n - 2) : r[x] = Plain(s[x + 2]) /\ s[x + 2].kind = "Method"
    BY <2>2, <2>5, <2>6
  <2>8. Recorded(r, s, n, p)
    BY <1>8, <2>1, <2>5, <2>6, <2>7 DEF Recorded, Cut, Where, Marked
  <2> QED BY <1>1, <2>4, <2>8 DEF s
<1>9. CASE p > 1
  <2>1. p \in 1 .. n /\ p + 1 \in 1 .. n /\ Len(ss[p]) = 1 /\ Len(ss[p + 1]) = 0
        /\ DOMAIN ss[p] = 1 .. 1 /\ ss[p][1] = Marker
    BY <1>4, <1>9
  <2>2. \A i \in 1 .. n : i < p \/ i > p + 1 =>
          Len(ss[i]) = 1 /\ ss[i][1] = Plain(s[i]) /\ s[i].kind = "Method"
    <3>1. \A i \in 1 .. n : i < p \/ i > p + 1 => i # p /\ i # p + 1
      BY <1>10
    <3> QED BY <1>3, <1>10, <3>1, Zenon
  <2>3. Stretch(ss, n, p, p + 1, 1, 0)
    BY <2>1, <2>2 DEF Stretch
  <2>4. r \in Seq(R) /\ Widened(r, ss, n, p, p + 1, IF p + 1 = p THEN 1 ELSE 1 + 0) /\ Within(r, ss, p)
    <3>1. 0 \in Nat /\ 1 \in Nat /\ p + 1 \in p .. n
      BY <2>1
    <3> QED BY <1>6, <2>1, <2>3, <3>1, FlatStretch
  <2> HIDE DEF r
  <2>5. /\ DOMAIN r = 1 .. (n - 1)
        /\ \A x \in 1 .. (p - 1) : r[x] = ss[x][1]
        /\ \A x \in (p + 2) .. n : r[x - 1] = ss[x][1]
    BY <2>1, <2>4 DEF Widened
  <2>6. r[p] = Marker
    BY <2>1, <2>4 DEF Within
  <2>7. ASSUME NEW x \in 1 .. (n - 1), x # p
        PROVE  Where(p, x) \in 1 .. n /\ s[Where(p, x)].kind = "Method" /\ r[x] = Plain(s[Where(p, x)])
    <3>1. CASE x < p
      <4>1. Where(p, x) = x /\ x \in 1 .. (p - 1) /\ x \in 1 .. n
        BY <1>9, <1>10, <3>1 DEF Where
      <4> QED BY <2>2, <2>5, <3>1, <4>1
    <3>2. CASE x > p
      <4>1. Where(p, x) = x + 1 /\ x + 1 \in (p + 2) .. n /\ x + 1 \in 1 .. n /\ x + 1 > p + 1 /\ (x + 1) - 1 = x
        BY <1>9, <2>1, <3>2 DEF Where
      <4> QED BY <2>2, <2>5, <4>1
    <3> QED BY <2>1, <2>7, <3>1, <3>2
  <2>8. Cut(n, p) = n - 1 /\ n - 1 \in Nat /\ \A x : Marked(p, x) <=> x = p
    BY <1>9, <2>1 DEF Cut, Marked
  <2>9. Recorded(r, s, n, p)
    BY <2>5, <2>6, <2>7, <2>8 DEF Recorded
  <2> QED BY <1>1, <2>4, <2>9 DEF s
<1> QED BY <1>1, <1>7, <1>8, <1>9

-----------------------------------------------------------------------------
(* The reader. *)

(* Two records that are of no pair are of two slots, and every function has  *)
(* one.                                                                      *)
LEMMA WhereApart ==
  ASSUME NEW n \in Nat, NEW p \in Nat, p # 0 => p \in 1 .. n /\ p + 1 \in 1 .. n,
         NEW x \in 1 .. Cut(n, p), NEW y \in 1 .. Cut(n, p),
         ~Marked(p, x), ~Marked(p, y), Where(p, x) = Where(p, y)
  PROVE  x = y
BY DEF Cut, Marked, Where

(* The table a reader is left with: the records with their targets, and the  *)
(* new function when it overrides none (g = 1).                              *)
Retargeted(v, e, n, p, g) ==
  /\ g \in {0, 1} /\ DOMAIN v = 1 .. (Cut(n, p) + g)
  /\ \A x \in 1 .. Cut(n, p) :
       IF Marked(p, x) THEN v[x].name = "~dtor"
       ELSE v[x].name # "~dtor" /\ v[x].target = e[Where(p, x)]
  /\ g = 1 => v[Cut(n, p) + 1].name # "~dtor"

(* An override takes the record of its function and of no other.             *)
LEMMA ChosenIs ==
  ASSUME NEW c, NEW R, Records(c) \in Seq(R), NEW over, NEW len \in Nat, DOMAIN Records(c) = 1 .. len
  PROVE  /\ Chosen(c, over) \in Nat
         /\ Chosen(c, over) = 0 => \A x \in 1 .. len : ~Matches(Records(c)[x], over)
         /\ Chosen(c, over) # 0 => /\ Chosen(c, over) \in 1 .. len
                                   /\ Matches(Records(c)[Chosen(c, over)], over)
<1> DEFINE r == Records(c)
           I == {x \in 1 .. len : Matches(r[x], over)}
<1>1. len = Len(r)
  OBVIOUS
<1>2. Chosen(c, over) = First(I)
  <2>1. Chosen(c, over) = IF I # {} THEN CHOOSE x \in I : \A y \in I : x <= y ELSE 0
    BY <1>1 DEF Chosen, SelectInSeq, Min
  <2> HIDE DEF I
  <2> QED BY <2>1 DEF First
<1>3. I \in SUBSET (1 .. len)
  OBVIOUS
<1>4. (I = {} => First(I) = 0) /\ (I # {} => First(I) \in I)
  <2> HIDE DEF I
  <2> QED BY <1>3, FirstOf
<1>5. I = {} => \A x \in 1 .. len : ~Matches(Records(c)[x], over)
  OBVIOUS
<1>6. First(I) \in I => /\ First(I) \in 1 .. len /\ First(I) \in Nat \ {0}
                        /\ Matches(Records(c)[First(I)], over)
  OBVIOUS
<1> HIDE DEF I
<1> QED BY <1>2, <1>4, <1>5, <1>6

(* So each record reaches what C++ expects in the slot it is of.             *)
LEMMA VirtualsAre ==
  ASSUME NEW c, NEW s, s = tables[c].slots, NEW n \in Nat, DOMAIN s = 1 .. n,
         NEW p \in Nat, p # 0 => p \in 1 .. n /\ p + 1 \in 1 .. n, Single(s), ToldApart(c),
         NEW R, Records(c) \in Seq(R), Recorded(Records(c), s, n, p),
         NEW over \in Overriding
  PROVE  /\ \E V : Virtuals(c, over) \in Seq(V)
         /\ Retargeted(Virtuals(c, over), Expected(c, over), n, p, IF Chosen(c, over) = 0 THEN 1 ELSE 0)
<1> DEFINE r == Records(c)
           k == Chosen(c, over)
           v == Virtuals(c, over)
           e == Expected(c, over)
           len == Cut(n, p)
<1>1. len \in Nat /\ DOMAIN r = 1 .. len
  BY DEF Recorded
<1>2. \A x \in 1 .. len :
        IF Marked(p, x) THEN r[x] = Marker
        ELSE /\ Where(p, x) \in 1 .. n /\ s[Where(p, x)].kind = "Method"
             /\ r[x] = Plain(s[Where(p, x)])
  BY DEF Recorded
<1>3. PICK t \in Sig : over = [name |-> NameOf[t], params |-> ParamsOf[t]] /\ NameOf[t] # NoName
  BY DEF Overriding
<1>4. over.name = NameOf[t] /\ over.params = ParamsOf[t] /\ over.name # NoName /\ over.name # "~dtor"
  BY <1>3, NamesAssumption
<1>5. /\ k \in Nat
      /\ k = 0 => \A x \in 1 .. len : ~Matches(r[x], over)
      /\ k # 0 => k \in 1 .. len /\ Matches(r[k], over)
  BY <1>1, ChosenIs
<1>6. ASSUME NEW x \in 1 .. len, ~Marked(p, x)
      PROVE  /\ r[x].name = NameOf[SlotSig(s[Where(p, x)])] /\ r[x].params = ParamsOf[SlotSig(s[Where(p, x)])]
             /\ r[x].target = Target(s[Where(p, x)]) /\ r[x].name # "~dtor"
             /\ Where(p, x) \in DOMAIN s /\ ~IsDtor(s[Where(p, x)]) /\ s[Where(p, x)] \in Range(s)
             /\ s[Where(p, x)].kind = "Method"
  <2>1. Where(p, x) \in DOMAIN s /\ s[Where(p, x)].kind = "Method" /\ r[x] = Plain(s[Where(p, x)])
    BY <1>2, <1>6
  <2>2. SlotSig(s[Where(p, x)]) \in Sig
    BY <2>1 DEF Single
  <2>3. NameOf[SlotSig(s[Where(p, x)])] # "~dtor"
    BY <2>2, NamesAssumption
  <2> QED BY <2>1, <2>3 DEF Plain, IsDtor, Range
<1>7. ASSUME NEW x \in 1 .. len, Marked(p, x) PROVE r[x].name = "~dtor" /\ ~Matches(r[x], over)
  BY <1>2, <1>4, <1>7 DEF Marker, Matches
<1> HIDE DEF r, k, v, e, len
<1>8. ASSUME NEW x \in 1 .. len, ~Marked(p, x) PROVE Matches(r[x], over) <=> x = k
  <2>1. ASSUME x = k PROVE Matches(r[x], over)
    BY <1>5, <2>1
  <2>2. ASSUME Matches(r[x], over) PROVE x = k
    <3>1. k \in 1 .. len /\ Matches(r[k], over) /\ ~Marked(p, k)
      BY <1>5, <1>7, <2>2
    <3>2. r[x].name = r[k].name /\ r[x].params = r[k].params /\ r[x].name # NoName
      BY <1>4, <2>2, <3>1 DEF Matches
    <3>3. SlotSig(s[Where(p, x)]) = SlotSig(s[Where(p, k)])
      BY <1>6, <1>8, <3>1, <3>2 DEF ToldApart
    <3>4. Where(p, x) = Where(p, k)
      BY <1>6, <1>8, <3>1, <3>3 DEF Single
    <3> QED BY <1>8, <3>1, <3>4, WhereApart DEF len
  <2> QED BY <2>1, <2>2
<1>9. ASSUME NEW x \in 1 .. len, ~Marked(p, x)
      PROVE  e[Where(p, x)] = IF x = k THEN RustSlot ELSE r[x].target
  <2>1. e[Where(p, x)] =
          IF NameOf[SlotSig(s[Where(p, x)])] = over.name /\ ParamsOf[SlotSig(s[Where(p, x)])] = over.params
          THEN RustSlot ELSE Target(s[Where(p, x)])
    BY <1>6, <1>9 DEF e, Expected
  <2>2. Matches(r[x], over) <=> x = k
    BY <1>8, <1>9
  <2> QED BY <1>6, <1>9, <2>1, <2>2 DEF Matches
<1>10. CASE k = 0
  <2>1. v = Append(r, [name |-> over.name, params |-> over.params, target |-> RustSlot])
    BY <1>10 DEF v, k, r, Virtuals
  <2> DEFINE u == [name |-> over.name, params |-> over.params, target |-> RustSlot]
  <2>2. u.name # "~dtor"
    BY <1>4
  <2> HIDE DEF u
  <2>3. r \in Seq(R)
    BY DEF r
  <2>4. /\ v \in Seq(R \union {u}) /\ DOMAIN v = 1 .. (len + 1) /\ v[len + 1] = u
        /\ \A x \in 1 .. len : v[x] = r[x]
    <3>1. v = Append(r, u)
      BY <2>1 DEF u
    <3>2. r \in Seq(R \union {u}) /\ Len(r) = len
      BY <1>1, <2>3 DEF r, len
    <3> QED BY <1>1, <3>1, <3>2
  <2>5. \A x \in 1 .. len : x # k
    BY <1>10
  <2>6. \A x \in 1 .. len :
          IF Marked(p, x) THEN v[x].name = "~dtor"
          ELSE v[x].name # "~dtor" /\ v[x].target = e[Where(p, x)]
    BY <1>6, <1>7, <1>9, <2>4, <2>5
  <2>7. Retargeted(v, e, n, p, 1)
    BY <2>2, <2>4, <2>6 DEF Retargeted, len
  <2> QED BY <1>10, <2>4, <2>7 DEF v, e, k
<1>11. CASE k # 0
  <2>1. v = [r EXCEPT ![k] = [@ EXCEPT !.target = RustSlot]]
    BY <1>11 DEF v, k, r, Virtuals
  <2> DEFINE u == [r[k] EXCEPT !.target = RustSlot]
  <2>2. k \in 1 .. len /\ ~Marked(p, k)
    BY <1>5, <1>7, <1>11
  <2>3. u.name = r[k].name /\ u.target = RustSlot
    <3>1. r[k] = Plain(s[Where(p, k)])
      BY <1>2, <2>2 DEF r, len
    <3> QED BY <3>1 DEF Plain
  <2>4. r \in Seq(R)
    BY DEF r
  <2>5. v = [r EXCEPT ![k] = u]
    BY <2>1
  <2> HIDE DEF u
  <2>6. /\ v \in Seq(R \union {u}) /\ DOMAIN v = 1 .. (len + 0) /\ v[k] = u
        /\ \A x \in 1 .. len : x # k => v[x] = r[x]
    <3>1. r \in Seq(R \union {u}) /\ DOMAIN r = 1 .. len /\ len \in Nat
      BY <1>1, <2>4 DEF r, len
    <3> QED BY <2>2, <2>5, <3>1
  <2>7. \A x \in 1 .. len :
          IF Marked(p, x) THEN v[x].name = "~dtor"
          ELSE v[x].name # "~dtor" /\ v[x].target = e[Where(p, x)]
    BY <1>6, <1>7, <1>9, <2>2, <2>3, <2>6
  <2>8. Retargeted(v, e, n, p, 0)
    BY <2>6, <2>7 DEF Retargeted, len
  <2> QED BY <1>11, <2>6, <2>8 DEF v, e, k
<1> QED BY <1>10, <1>11

(* What stands at each place of the assembled table, and how many do.        *)
Rebuilt(A, e, n, g) == DOMAIN A = 1 .. (n + g) /\ \A i \in 1 .. n : A[i] = e[i]

(* emit_vtable puts the pair where the marker is, or first.                  *)
LEMMA AssembledIs ==
  ASSUME NEW c, NEW s, s = tables[c].slots, NEW n \in Nat, DOMAIN s = 1 .. n,
         NEW p, PairAt(s, p), NEW over, NEW V, Virtuals(c, over) \in Seq(V), NEW g,
         Retargeted(Virtuals(c, over), Expected(c, over), n, p, g)
  PROVE  (\E S : Assembled(c, over) \in Seq(S)) /\ Rebuilt(Assembled(c, over), Expected(c, over), n, g)
<1> DEFINE v == Virtuals(c, over)
           e == Expected(c, over)
           len == Cut(n, p) + g
           D == <<<<"D1">>, <<"D0">>>>
           ss == [i \in DOMAIN v |-> IF v[i].name = "~dtor" THEN DtorSlots(c) ELSE <<v[i].target>>]
           S == {<<"D1">>, <<"D0">>} \union {v[i].target : i \in DOMAIN v}
           F == FlattenSeq(ss)
           positional == \E i \in DOMAIN v : v[i].name = "~dtor"
<1>1. Assembled(c, over) = (IF positional THEN << >> ELSE DtorSlots(c)) \o F
  BY DEF Assembled
<1>2. p \in Nat /\ (p # 0 => /\ p \in 1 .. n /\ p + 1 \in 1 .. n
                             /\ s[p].kind = "D1" /\ s[p + 1].kind = "D0")
  BY DEF PairAt
<1>3. DtorSlots(c) = IF p = 0 THEN << >> ELSE D
  <2>1. HasVDtor(c) <=> p # 0
    <3>1. ASSUME p # 0 PROVE HasVDtor(c)
      <4>1. s[p] \in Range(s) /\ IsDtor(s[p])
        BY <1>2, <3>1 DEF Range, IsDtor
      <4> QED BY <4>1 DEF HasVDtor
    <3>2. ASSUME p = 0 PROVE ~HasVDtor(c)
      <4>1. \A i \in DOMAIN s : ~IsDtor(s[i])
        BY <1>2, <3>2 DEF PairAt, IsDtor
      <4> QED BY <4>1 DEF HasVDtor, Range
    <3> QED BY <3>1, <3>2
  <2> QED BY <2>1 DEF DtorSlots
<1>4. p # 0 => e[p] = <<"D1">> /\ e[p + 1] = <<"D0">>
  <2> SUFFICES ASSUME p # 0 PROVE e[p] = <<"D1">> /\ e[p + 1] = <<"D0">>
    OBVIOUS
  <2>1. p \in DOMAIN s /\ p + 1 \in DOMAIN s /\ IsDtor(s[p]) /\ IsDtor(s[p + 1])
    BY <1>2 DEF IsDtor
  <2>2. e[p] = <<s[p].kind>> /\ e[p + 1] = <<s[p + 1].kind>>
    BY <2>1 DEF Expected
  <2> QED BY <1>2, <2>2
<1>5. /\ g \in {0, 1} /\ DOMAIN v = 1 .. len
      /\ \A x \in 1 .. Cut(n, p) :
           IF Marked(p, x) THEN v[x].name = "~dtor"
           ELSE v[x].name # "~dtor" /\ v[x].target = e[Where(p, x)]
      /\ g = 1 => v[Cut(n, p) + 1].name # "~dtor"
  BY DEF Retargeted
<1>6. Cut(n, p) = (IF p = 0 THEN n ELSE IF p = 1 THEN n - 2 ELSE n - 1) /\ Cut(n, p) \in Nat
      /\ len \in Nat
  BY <1>2, <1>5 DEF Cut
<1>7. \A x \in 1 .. len : x \in 1 .. Cut(n, p) \/ (g = 1 /\ x = Cut(n, p) + 1)
  BY <1>5, <1>6
<1>8. \A x \in 1 .. len : v[x].name = "~dtor" <=> Marked(p, x)
  <2>1. \A x \in 1 .. Cut(n, p) : v[x].name = "~dtor" <=> Marked(p, x)
    BY <1>5
  <2>2. g = 1 => ~Marked(p, Cut(n, p) + 1)
    BY <1>2, <1>6 DEF Marked
  <2> QED BY <1>5, <1>7, <2>1, <2>2, Zenon
<1>9. ss \in Rows(S) /\ DOMAIN ss = 1 .. len
  <2>1. \A i \in DOMAIN v : v[i].target \in S
    OBVIOUS
  <2>2. <<"D1">> \in S /\ <<"D0">> \in S
    OBVIOUS
  <2> HIDE DEF S
  <2>3. << >> \in Seq(S) /\ D \in Seq(S)
    BY <2>2
  <2>4. \A i \in DOMAIN v : <<v[i].target>> \in Seq(S)
    BY <2>1
  <2>5. \A i \in DOMAIN v : ss[i] \in Seq(S)
    BY <1>3, <2>3, <2>4
  <2>6. DOMAIN ss = 1 .. len /\ ss = [i \in 1 .. len |-> ss[i]] /\ \A i \in 1 .. len : ss[i] \in Seq(S)
    BY <1>5, <2>5
  <2> HIDE DEF ss, len
  <2> QED BY <1>6, <2>6 DEF Rows
<1>10. \A x \in 1 .. len : IF Marked(p, x) THEN ss[x] = D ELSE ss[x] = <<v[x].target>>
  <2>1. \A x : Marked(p, x) => p # 0
    BY DEF Marked
  <2> QED BY <1>3, <1>5, <1>8, <2>1
<1>11. D \in Seq(S) /\ Len(D) = 2 /\ DOMAIN D = 1 .. 2 /\ D[1] = <<"D1">> /\ D[2] = <<"D0">>
  OBVIOUS
<1>12. positional <=> \E x \in 1 .. len : Marked(p, x)
  BY <1>5, <1>8
<1>13. \A x : Len(<<x>>) = 1 /\ <<x>>[1] = x
  OBVIOUS
<1> HIDE DEF v, e, D, ss, S
<1>14. CASE p < 2
  <2>1. \A x : ~Marked(p, x)
    BY <1>2, <1>14 DEF Marked
  <2>2. \A x \in 1 .. len : Len(ss[x]) = 1 /\ ss[x][1] = v[x].target
    BY <1>10, <1>13, <2>1, Zenon
  <2>3. F \in Seq(S) /\ DOMAIN F = 1 .. len /\ \A x \in 1 .. len : F[x] = ss[x][1]
    BY <1>6, <1>9, <2>2, FlatOnes
  <2>4. ~positional
    BY <1>12, <2>1
  <2> HIDE DEF F, positional
  <2>5. \A x \in 1 .. Cut(n, p) : x \in 1 .. len /\ F[x] = e[Where(p, x)]
    <3>1. \A x \in 1 .. Cut(n, p) : x \in 1 .. len
      BY <1>5, <1>6
    <3> QED BY <1>5, <2>1, <2>2, <2>3, <3>1, Zenon
  <2>6. CASE p = 0
    <3>1. Assembled(c, over) = << >> \o F
      BY <1>1, <1>3, <2>4, <2>6
    <3>2. Assembled(c, over) = F
      BY <2>3, <3>1
    <3>3. Cut(n, p) = n /\ \A x : Where(p, x) = x
      BY <1>6, <2>6 DEF Where
    <3>4. Rebuilt(F, e, n, g)
      BY <2>3, <2>5, <3>3 DEF Rebuilt
    <3> QED BY <2>3, <3>2, <3>4 DEF e
  <2>7. CASE p = 1
    <3>1. Assembled(c, over) = D \o F
      BY <1>1, <1>3, <2>4, <2>7
    <3>2. D \o F \in Seq(S) /\ DOMAIN (D \o F) = 1 .. (2 + len)
          /\ (D \o F)[1] = D[1] /\ (D \o F)[2] = D[2]
          /\ \A x \in 1 .. len : (D \o F)[x + 2] = F[x]
      <4>1. PairThen(D \o F, S, D, F, len)
        <5> HIDE DEF len
        <5> QED BY <1>6, <1>11, <2>3, PairFirst
      <4> QED BY <4>1, Zenon DEF PairThen
    <3>3. Cut(n, p) = n - 2 /\ \A x : Where(p, x) = x + 2
      BY <1>6, <2>7 DEF Where
    <3>4. \A x \in 1 .. (n - 2) : (D \o F)[x + 2] = e[x + 2]
      BY <2>5, <3>2, <3>3, Zenon
    <3>5. e[1] = D[1] /\ e[2] = D[2]
      BY <1>4, <1>11, <2>7
    <3>6. ASSUME NEW i \in 1 .. n PROVE (D \o F)[i] = e[i]
      <4>1. CASE i > 2
        <5>1. i - 2 \in 1 .. (n - 2) /\ (i - 2) + 2 = i
          BY <4>1
        <5> QED BY <3>4, <5>1
      <4>2. i = 1 \/ i = 2 \/ i > 2
        OBVIOUS
      <4>3. (D \o F)[1] = e[1] /\ (D \o F)[2] = e[2]
        BY <3>2, <3>5
      <4> HIDE DEF D
      <4> QED BY <4>1, <4>2, <4>3, Zenon
    <3>7. 2 + len = n + g
      BY <1>5, <3>3
    <3>8. Rebuilt(D \o F, e, n, g)
      BY <3>2, <3>6, <3>7 DEF Rebuilt
    <3> QED BY <3>1, <3>2, <3>8 DEF e
  <2> QED BY <1>2, <1>14, <2>6, <2>7
<1>15. CASE p > 1
  <2>1. Cut(n, p) = n - 1 /\ p \in 1 .. n /\ p + 1 \in 1 .. n /\ \A x : Marked(p, x) <=> x = p
    BY <1>2, <1>6, <1>15 DEF Marked
  <2>2. p \in 1 .. len /\ p \in 1 .. (n - 1)
    BY <1>5, <2>1
  <2>3. ss[p] = D
    BY <1>10, <2>1, <2>2
  <2>4. \A x \in 1 .. len : x # p => Len(ss[x]) = 1 /\ ss[x][1] = v[x].target
    BY <1>10, <1>13, <2>1, Zenon
  <2>5. Stretch(ss, len, p, p, 2, 0)
    BY <1>11, <2>2, <2>3, <2>4 DEF Stretch
  <2>6. F \in Seq(S) /\ Widened(F, ss, len, p, p, IF p = p THEN 2 ELSE 2 + 0) /\ Within(F, ss, p)
    <3>1. 0 \in Nat /\ 2 \in Nat /\ p \in p .. len
      BY <2>2
    <3> QED BY <1>6, <1>9, <2>2, <2>5, <3>1, FlatStretch
  <2>7. positional
    BY <1>12, <2>1, <2>2
  <2> HIDE DEF F, positional
  <2>8. /\ DOMAIN F = 1 .. (len + 1)
        /\ \A x \in 1 .. (p - 1) : F[x] = ss[x][1]
        /\ \A x \in (p + 1) .. len : F[x + 1] = ss[x][1]
    BY <1>6, <2>2, <2>6 DEF Widened
  <2>9. F[p] = e[p] /\ F[p + 1] = e[p + 1]
    <3>1. \A j \in 1 .. 2 : F[p - 1 + j] = D[j]
      BY <1>11, <2>3, <2>6 DEF Within
    <3>2. F[p] = D[1] /\ F[p + 1] = D[2]
      BY <2>1, <3>1
    <3> QED BY <1>2, <1>4, <1>11, <1>15, <3>2
  <2>10. \A x \in 1 .. (n - 1) : x # p => x \in 1 .. len /\ ss[x][1] = e[Where(p, x)]
    <3>1. \A x \in 1 .. (n - 1) : x \in 1 .. len
      BY <1>5, <2>1
    <3> QED BY <1>5, <2>1, <2>4, <3>1, Zenon
  <2>11. ASSUME NEW i \in 1 .. n PROVE F[i] = e[i]
    <3>1. CASE i < p
      <4>1. i \in 1 .. (n - 1) /\ i # p /\ Where(p, i) = i /\ i \in 1 .. (p - 1)
        BY <1>15, <2>1, <3>1 DEF Where
      <4> QED BY <2>8, <2>10, <4>1
    <3>2. CASE i > p + 1
      <4>1. i - 1 \in 1 .. (n - 1) /\ i - 1 # p /\ Where(p, i - 1) = i /\ i - 1 \in (p + 1) .. len /\ (i - 1) + 1 = i
        BY <1>5, <1>15, <2>1, <3>2 DEF Where
      <4> QED BY <2>8, <2>10, <4>1
    <3> QED BY <2>1, <2>9, <3>1, <3>2
  <2>12. Rebuilt(F, e, n, g)
    <3>1. len + 1 = n + g
      BY <1>5, <2>1
    <3> QED BY <2>8, <2>11, <3>1 DEF Rebuilt
  <2>13. Assembled(c, over) = F
    <3>1. Assembled(c, over) = << >> \o F
      BY <1>1, <2>7
    <3> QED BY <2>6, <3>1
  <2> QED BY <2>6, <2>12, <2>13 DEF e
<1> QED BY <1>2, <1>14, <1>15

(* AttrRebuildsTable: the attribute of a class and its reader rebuild the    *)
(* table of the class, slot for slot, with the override where C++ would put  *)
(* it (primary_vtable_slots, build_imported_vtable_attr and emit_vtable).    *)
THEOREM AttrCorrect == Spec => []AttrRebuildsTable
<1>1. IInv => AttrRebuildsTable
  <2> SUFFICES ASSUME IInv, NEW c \in ClassIds, HasAttr(c), ToldApart(c), NEW over \in Overriding
               PROVE  /\ Len(Assembled(c, over))
                           = Len(tables[c].slots) + IF Chosen(c, over) = 0 THEN 1 ELSE 0
                      /\ SubSeq(Assembled(c, over), 1, Len(tables[c].slots)) = Expected(c, over)
    BY DEF AttrRebuildsTable
  <2> DEFINE s == tables[c].slots
             A == Assembled(c, over)
             e == Expected(c, over)
             g == IF Chosen(c, over) = 0 THEN 1 ELSE 0
  <2>1. WellFormed(ctx) /\ c \in DOMAIN ctx /\ Built(c, s)
    BY TableParts DEF HasAttr
  <2>2. s \in Seq(SlotSet) /\ Single(s)
    BY <2>1, PairPlace, OnePlain
  <2>3. PICK p : PairAt(s, p)
    BY <2>1, PairPlace
  <2>4. PICK n \in Nat : n = Len(s) /\ DOMAIN s = 1 .. n
    BY <2>2, Measured
  <2>5. p \in Nat /\ (p # 0 => p \in 1 .. n /\ p + 1 \in 1 .. n)
    BY <2>3, <2>4 DEF PairAt
  <2>6. (\E R : Records(c) \in Seq(R)) /\ Recorded(Records(c), s, n, p)
    BY <2>2, <2>3, <2>4, RecordsAre
  <2>7. (\E V : Virtuals(c, over) \in Seq(V)) /\ Retargeted(Virtuals(c, over), e, n, p, g)
    BY <2>2, <2>4, <2>5, <2>6, VirtualsAre
  <2>8. (\E S : A \in Seq(S)) /\ Rebuilt(A, e, n, g)
    BY <2>3, <2>4, <2>7, AssembledIs
  <2>9. e = [i \in 1 .. n |-> e[i]]
    BY <2>4 DEF Expected
  <2>10. g \in {0, 1}
    OBVIOUS
  <2> HIDE DEF A, e, g
  <2>11. PICK S : A \in Seq(S)
    BY <2>8
  <2>12. Len(A) = n + g
    BY <2>4, <2>8, <2>10, <2>11 DEF Rebuilt
  <2>13. SubSeq(A, 1, n) = [i \in 1 .. n |-> A[i]]
    BY <2>11, <2>12, <2>10
  <2>14. SubSeq(A, 1, n) = e
    BY <2>8, <2>9, <2>13 DEF Rebuilt
  <2> QED BY <2>4, <2>12, <2>14 DEF A, e, g
<1> QED BY <1>1, TablesInvariant, PTL

===============================================================================
