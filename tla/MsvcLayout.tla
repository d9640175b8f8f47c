------------------------------ MODULE MsvcLayout ------------------------------
(***************************************************************************)
(* The MSVC record layout, crates/rustc_abi_cxx/src/layout_msvc.rs: a      *)
(* function of the class declarations ItaniumLayout lays out too.          *)
(*                                                                         *)
(* The State of the source has a cursor and a size; every step leaves them *)
(* equal, so there is one number here.  A bit-field takes a whole unit of  *)
(* its type; a union is laid out like a struct.  `packed' stands for the   *)
(* sidecar of #pragma pack.                                                *)
(***************************************************************************)
EXTENDS ItaniumLayout

CONSTANT PackTo   \* the N of #pragma pack(N)

ASSUME PackAssumption == PackTo \in Nat \ {0}

-----------------------------------------------------------------------------
VptrBytes == 8

(* State::cap, bump_align *)
Cap(c, a) == IF ctx[c].packed THEN MinOf(a, PackTo) ELSE a

(* round_up_cursor, then n bytes.                                            *)
Put(st, c, role, of, n, a) ==
  LET at == AlignUp(st.size, Cap(c, a))
  IN [st EXCEPT !.size = at + n,
                !.align = MaxOf(@, Cap(c, a)),
                !.placed = @ \union {Bytes(role, of, at, n, Cap(c, a))}]

(* base_is_empty reads the finished layout of the base.  The mutant forgets  *)
(* that the data may be in its bases.                                        *)
EmptyBaseBug(done, b) == ~\E p \in done[b].placed : p.role = "field"
EmptyBase(done, b) ==
  \/ done[b].size = 0
  \/ done[b].size = 1 /\ ~\E p \in done[b].placed : p.role \in {"field", "base"}

(* Empty base optimization: the first base only.                             *)
TakesNoRoom(st, done, b) ==
  /\ EmptyBase(done, b)
  /\ ~\E p \in st.placed : p.role \in {"base", "vptr"}
  /\ ~ctx[b].poly

PlaceMsvcBase(st, c, done, b) ==
  IF TakesNoRoom(st, done, b)
  THEN [st EXCEPT !.placed = @ \union {Bytes("base", b, st.size, 0, 1)}]
  ELSE Put(st, c, "base", b, done[b].size, done[b].align)

(* One pass over the bases for each kind, which skips those of the other.    *)
AfterBases(start, c, done) ==
  LET run[n \in 0 .. Len(ctx[c].bases)] ==
        IF n = 0 THEN start
        ELSE IF ctx[c].bases[n].virt THEN run[n - 1]
        ELSE PlaceMsvcBase(run[n - 1], c, done, ctx[c].bases[n].class)
  IN run[Len(ctx[c].bases)]

MsvcStart == [size |-> 0, align |-> 1, placed |-> {}]

Vptr(st, c) ==
  IF ctx[c].poly /\ ~\E i \in DOMAIN ctx[c].bases :
                        ~ctx[c].bases[i].virt /\ ctx[ctx[c].bases[i].class].poly
  THEN Put(st, c, "vptr", 0, VptrBytes, VptrBytes) ELSE st

(* A vbptr unless a base brings one; only its direct virtual bases tell.     *)
HasVirtual(c) == \E i \in DOMAIN ctx[c].bases : ctx[c].bases[i].virt
InheritsVbptr(c) ==
  \E i \in DOMAIN ctx[c].bases : ~ctx[c].bases[i].virt /\ HasVirtual(ctx[c].bases[i].class)

Vbptr(st, c) ==
  IF HasVirtual(c) /\ ~InheritsVbptr(c)
  THEN Put(st, c, "vbptr", 0, VptrBytes, VptrBytes) ELSE st

(* type_size_align: void takes no room and is no error; arrays multiply.     *)
MsvcSize(done, f) ==
  IF f.ref THEN PtrSize
  ELSE f.len * (IF f.rec # 0 THEN done[f.rec].size ELSE IF f.sized THEN f.size ELSE 0)
MsvcAlign(done, f) ==
  IF f.ref THEN PtrSize ELSE IF f.rec # 0 THEN done[f.rec].align ELSE f.align

PlaceMsvcField(st, c, done, k) ==
  LET f == ctx[c].fields[k]
      natural == MsvcAlign(done, f)
  IN Put(st, c, "field", k, MsvcSize(done, f),
         IF f.bitfield THEN natural ELSE MaxOf(natural, f.explicit))

AfterFields(start, c, done) ==
  LET run[n \in 0 .. Len(ctx[c].fields)] ==
        IF n = 0 THEN start ELSE PlaceMsvcField(run[n - 1], c, done, n)
  IN run[Len(ctx[c].fields)]

(* The non-virtual part ends padded; direct virtual bases follow.            *)
NonVirtualEnd(st, c) ==
  LET al == MaxOf(st.align, ctx[c].align)
  IN [st EXCEPT !.align = al, !.size = AlignUp(st.size, al)]

AfterVirtual(start, c, done) ==
  LET run[n \in 0 .. Len(ctx[c].bases)] ==
        IF n = 0 THEN start
        ELSE IF ~ctx[c].bases[n].virt THEN run[n - 1]
        ELSE LET b == ctx[c].bases[n].class
             IN Put(run[n - 1], c, "vbase", b, done[b].size, done[b].align)
  IN run[Len(ctx[c].bases)]

Bare(c) ==
  ctx[c].kind = "class" /\ ctx[c].fields = << >> /\ ctx[c].bases = << >> /\ ~ctx[c].poly

MsvcFinish(st, c) ==
  LET sz == AlignUp(st.size, st.align)
  IN [st EXCEPT !.size = IF Bare(c) THEN MaxOf(1, sz) ELSE sz]

(* compute_layout of layout_msvc.rs                                          *)
MsvcLayoutOf(c, done) ==
  LET bases == Vbptr(AfterBases(Vptr(MsvcStart, c), c, done), c)
      nonvirtual == NonVirtualEnd(AfterFields(bases, c, done), c)
  IN MsvcFinish(AfterVirtual(nonvirtual, c, done), c)

MsvcLayouts ==
  LET run[n \in 0 .. Len(ctx)] ==
        IF n = 0 THEN << >> ELSE Append(run[n - 1], MsvcLayoutOf(n, run[n - 1]))
  IN run[Len(ctx)]

-----------------------------------------------------------------------------
IsBase(p) == p.role \in {"base", "vbase"}

(* The classes that hold any data: the fewest such that a class with a member *)
(* of some size, or with a base among them, is one of them.                   *)
WithData(all) ==
  {c \in DOMAIN ctx :
     \A D \in SUBSET DOMAIN ctx :
       (\A d \in DOMAIN ctx :
          (\E p \in all[d].placed : IF IsBase(p) THEN p.of \in D ELSE Occupies(p)) => d \in D)
       => c \in D}

(* What a subobject takes: of a base, all of it, if there is any data in it.  *)
Extent(p, all, data) ==
  IF IsBase(p)
  THEN [p EXCEPT !.hi = p.lo + IF p.of \in data THEN 8 * all[p.of].size ELSE 0] ELSE p

(* No subobject starts before the full size of the one below it ends, tail   *)
(* padding included, unless it is a base without any data; each is aligned   *)
(* as far as #pragma pack allows, in every element of an array, and inside.  *)
(* (The size of an empty class is 1 whatever its alignas.)                   *)
MsvcNoTailReuse ==
  Len(classes) = Len(ctx) =>
    LET all == MsvcLayouts
        data == WithData(all)
    IN \A c \in DOMAIN ctx :
         /\ c \in data => all[c].size % all[c].align = 0
         /\ \A p \in all[c].placed :
              /\ Extent(p, all, data).hi <= 8 * all[c].size
              /\ p.lo % (8 * p.align) = 0 /\ p.align <= all[c].align
              /\ \A q \in all[c].placed :
                   LET one == Extent(p, all, data)
                       other == Extent(q, all, data)
                   IN p # q /\ Occupies(one) /\ Occupies(other) => Disjoint(one, other)
===============================================================================
