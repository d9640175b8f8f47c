--------------------------- MODULE ExceptionsProofs ---------------------------
(***************************************************************************)
(* The exception boundary implements ThrowingCalls, for any threads, sites,*)
(* exception classes, lists of classes, nesting and number of exceptions.  *)
(*                                                                         *)
(* The invariant says of the call that is about to be decoded that what    *)
(* from_raw will read is the answer to its own callee (Delivers); it is    *)
(* kept because only the innermost call of a thread can be in that state,  *)
(* and a buffer is written only by a call of the same thread that is       *)
(* innermost itself.                                                       *)
(***************************************************************************)
EXTENDS Exceptions, TLAPS, WellFoundedInduction

Less == {ss \in Nat \X Nat : ss[1] < ss[2]}

(* A set of naturals has a least element.                                    *)
LEMMA Least ==
  ASSUME NEW T, T \subseteq Nat, T # {}
  PROVE  \E x \in T : \A y \in T : x <= y
<1>1. IsWellFoundedOn(Less, Nat)
  BY NatLessThanWellFounded DEF OpToRel, Less
<1>2. \E x \in T : \A y \in T : ~ (<<y, x>> \in Less)
  BY <1>1, WFMin
<1>3. ASSUME NEW x \in T, NEW y \in T, <<y, x>> \notin Less PROVE x <= y
  BY <1>3 DEF Less
<1> QED BY <1>2, <1>3

(* The arm that catches is one that may, and none before it may.             *)
LEMMA ArmOfFirst ==
  ASSUME NEW s \in Site, NEW e \in Exc, HasArm(s, e)
  PROVE  /\ ArmOf(s, e) \in Arms(s) /\ CatchesIn(s, ArmOf(s, e), e)
         /\ \A b \in Arms(s) : CatchesIn(s, b, e) => ArmOf(s, e) <= b
<1> DEFINE T == {arm \in Arms(s) : CatchesIn(s, arm, e)}
<1>1. T \subseteq Nat /\ T # {}
  BY ThrowingAssumption DEF HasArm, Arms
<1>2. \E x \in T : \A y \in T : x <= y
  BY <1>1, Least
<1> QED BY <1>2 DEF ArmOf

(* The first of a set of places, or 0 when there is none.                    *)
LEMMA FirstOfPlaces ==
  ASSUME NEW I, I \subseteq Nat \ {0}
  PROVE  IF I = {} THEN FirstOrNone(I) = 0
         ELSE FirstOrNone(I) \in I /\ \A j \in I : FirstOrNone(I) <= j
<1>1. CASE I = {}
  BY <1>1 DEF FirstOrNone
<1>2. CASE I # {}
  <2>1. \E x \in I : \A y \in I : x <= y
    BY <1>2, Least
  <2> QED BY <1>2, <2>1 DEF FirstOrNone
<1> QED BY <1>1, <1>2

(* The selector of either backend is the first entry that catches.           *)
LEMMA SelectorFirst ==
  ASSUME NEW s \in Site, NEW e \in Exc
  PROVE  IF Calls!Matching(s, e) = {} THEN Selector(s, e) = 0
         ELSE /\ Selector(s, e) \in Calls!Matching(s, e) /\ Selector(s, e) \in Nat \ {0}
              /\ Selector(s, e) \in DOMAIN Catches[s]
              /\ \A j \in Calls!Matching(s, e) : Selector(s, e) <= j
<1>1. DOMAIN Catches[s] \subseteq Nat \ {0}
  BY ThrowingAssumption
<1>2. Calls!Matching(s, e) \subseteq DOMAIN Catches[s]
  BY DEF Calls!Matching
<1>3. Selector(s, e) = FirstOrNone(Calls!Matching(s, e))
  <2>1. CASE s \in Exact
    <3>1. Calls!Matching(s, e) = {i \in DOMAIN Catches[s] : Catches[s][i] = e}
      BY <2>1 DEF Calls!Matching
    <3> QED BY <2>1, <3>1 DEF Selector, MatchTypeinfo
  <2>2. CASE s \notin Exact
    <3>1. Calls!Matching(s, e) = {i \in DOMAIN Catches[s] : Catches[s][i] \in Bases[e]}
      BY <2>2, ThrowingAssumption DEF Calls!Matching
    <3> QED BY <2>2, <3>1 DEF Selector, MatchClauses
  <2> QED BY <2>1, <2>2
<1> QED BY <1>1, <1>2, <1>3, FirstOfPlaces

-----------------------------------------------------------------------------
(* What from_raw makes of each raw error is the answer of ThrowingCalls.     *)
Decoded(t, raw) == IF raw.tag = OkTag THEN [kind |-> "ok"] ELSE FromRaw(t, raw)

Kinded(tag, m) ==
  [kind |-> Kind(tag), arm |-> IF tag >= TypedBase THEN tag - TypedBase ELSE 0, msg |-> m]

LEMMA KindedTyped ==
  ASSUME NEW n \in Nat, NEW m
  PROVE  TypedBase + n # OkTag /\ Kinded(TypedBase + n, m) = Calls!Err("typed", n, m)
<1> DEFINE tag == TypedBase + n
<1>1. tag >= TypedBase /\ tag # OkTag /\ tag - TypedBase = n
  BY DEF TypedBase, OkTag
<1>2. Kind(tag) = "typed"
  BY <1>1 DEF Kind
<1> HIDE DEF tag
<1>3. tag # OkTag /\ Kinded(tag, m) = Calls!Err("typed", n, m)
  BY <1>1, <1>2 DEF Calls!Err, Kinded
<1> QED BY <1>3 DEF tag

LEMMA DecodedStatic ==
  ASSUME NEW t \in Thread, NEW tag, tag # OkTag
  PROVE  Decoded(t, [tag |-> tag, message |-> Static]) = Kinded(tag, Fixed)
BY DEF Decoded, FromRaw, Deref, Static, Kinded

LEMMA AnswerReturned ==
  ASSUME NEW s \in Site, NEW t \in Thread
  PROVE  Decoded(t, NoRaw) = Calls!Answer(s, Returned)
BY DEF Decoded, NoRaw, OkTag, Calls!Answer, Calls!Ok, Returned

LEMMA AnswerUnknown ==
  ASSUME NEW s \in Site, NEW e \in Exc, NEW m, NEW t \in Thread,
         IF s \in Native THEN Selector(s, e) = 0 ELSE ~HasArm(s, e)
  PROVE  Decoded(t, [tag |-> UnknownTag, message |-> Static]) = Calls!Answer(s, Thrown(e, m))
<1>1. Calls!Matching(s, e) = {}
  <2>1. CASE s \in Native
    BY <2>1, SelectorFirst
  <2>2. CASE s \notin Native
    BY <2>2, ThrowingAssumption DEF Calls!Matching, HasArm, Arms, CatchesIn
  <2> QED BY <2>1, <2>2
<1>2. s \in Native \/ e \notin Std
  BY ThrowingAssumption DEF HasArm, Arms, CatchesIn
<1>3. Calls!Answer(s, Thrown(e, m)) = Calls!Err("unknown", 0, Fixed)
  BY <1>1, <1>2 DEF Calls!Answer, Calls!AnswerThrown, Thrown
<1>4. Decoded(t, [tag |-> UnknownTag, message |-> Static]) = Calls!Err("unknown", 0, Fixed)
  BY DEF Decoded, FromRaw, Kind, Deref, Static, UnknownTag, OkTag, StdTag, TypedBase, Calls!Err
<1> QED BY <1>3, <1>4

LEMMA AnswerSelected ==
  ASSUME NEW s \in Native, NEW e \in Exc, NEW m, NEW t \in Thread, Selector(s, e) # 0
  PROVE  Decoded(t, [tag |-> TypedBase + Selector(s, e) - 1, message |-> Static])
           = Calls!Answer(s, Thrown(e, m))
<1> DEFINE i == Selector(s, e)
<1>0. s \in Site
  BY ThrowingAssumption
<1>1. i \in Calls!Matching(s, e) /\ \A j \in Calls!Matching(s, e) : i <= j
  BY <1>0, SelectorFirst
<1>2. i \in Nat /\ i >= 1
  BY <1>0, SelectorFirst
<1>3. \A j \in Calls!Matching(s, e) : j \in Nat
  BY <1>0, ThrowingAssumption DEF Calls!Matching
<1>4. Calls!FirstMatch(s, e) = i
  <2>1. \A k \in Calls!Matching(s, e) : (\A j \in Calls!Matching(s, e) : k <= j) => k = i
    BY <1>1, <1>2, <1>3
  <2> QED BY <1>1, <2>1 DEF Calls!FirstMatch
<1>5. Calls!Answer(s, Thrown(e, m)) = Calls!Err("typed", i - 1, Fixed)
  BY <1>1, <1>4 DEF Calls!Answer, Calls!AnswerThrown, Thrown
<1>6. Decoded(t, [tag |-> TypedBase + i - 1, message |-> Static]) = Calls!Err("typed", i - 1, Fixed)
  <2>1. TypedBase + i - 1 = TypedBase + (i - 1) /\ i - 1 \in Nat
    BY <1>2 DEF TypedBase
  <2> HIDE DEF i
  <2> QED BY <2>1, KindedTyped, DecodedStatic
<1> QED BY <1>5, <1>6

LEMMA AnswerArm ==
  ASSUME NEW s \in Site \ Native, NEW e \in Exc, NEW m, HasArm(s, e), NEW arm, arm = ArmOf(s, e)
  PROVE  ArmTag(s, arm) # OkTag /\ Kinded(ArmTag(s, arm), m) = Calls!Answer(s, Thrown(e, m))
<1>1. /\ arm \in Arms(s) /\ CatchesIn(s, arm, e)
      /\ \A b \in Arms(s) : CatchesIn(s, b, e) => arm <= b
  BY ArmOfFirst
<1>2. arm \in Nat /\ arm >= 1 /\ Len(Catches[s]) \in Nat /\ arm <= Len(Catches[s]) + 1
      /\ DOMAIN Catches[s] = 1 .. Len(Catches[s])
  BY <1>1, ThrowingAssumption DEF Arms
<1>3. Calls!Matching(s, e) = {j \in 1 .. Len(Catches[s]) : CatchesIn(s, j, e)}
  BY <1>2, ThrowingAssumption DEF Calls!Matching, CatchesIn
<1>4. CASE arm <= Len(Catches[s])
  <2>1. Calls!FirstMatch(s, e) = arm
    <3>1. arm \in Calls!Matching(s, e) /\ \A j \in Calls!Matching(s, e) : arm <= j /\ j \in Nat
      BY <1>1, <1>2, <1>3, <1>4 DEF Arms
    <3>2. \A k \in Calls!Matching(s, e) : (\A j \in Calls!Matching(s, e) : k <= j) => k = arm
      BY <3>1, <1>2
    <3> QED BY <3>1, <3>2 DEF Calls!FirstMatch
  <2>2. Calls!Matching(s, e) # {}
    BY <1>1, <1>2, <1>3, <1>4
  <2>3. Calls!Answer(s, Thrown(e, m)) = Calls!Err("typed", arm - 1, m)
    BY <2>1, <2>2 DEF Calls!Answer, Calls!AnswerThrown, Thrown
  <2>4. ArmTag(s, arm) = TypedBase + (arm - 1) /\ arm - 1 \in Nat
    BY <1>2, <1>4 DEF ArmTag, TypedBase
  <2> QED BY <2>3, <2>4, KindedTyped
<1>5. CASE ~(arm <= Len(Catches[s]))
  <2>1. arm = Len(Catches[s]) + 1 /\ arm > Len(Catches[s])
    BY <1>2, <1>5
  <2>2. Calls!Matching(s, e) = {}
    BY <1>1, <1>2, <1>3, <2>1 DEF Arms
  <2>3. e \in Std
    BY <1>1, <2>1 DEF CatchesIn
  <2>4. Calls!Answer(s, Thrown(e, m)) = Calls!Err("std", 0, m)
    BY <2>2, <2>3 DEF Calls!Answer, Calls!AnswerThrown, Thrown
  <2>5. ArmTag(s, arm) = StdTag
    BY <2>1 DEF ArmTag
  <2>6. Kind(StdTag) = "std" /\ StdTag # OkTag /\ ~(StdTag >= TypedBase)
    BY DEF Kind, StdTag, OkTag, TypedBase
  <2> QED BY <2>4, <2>5, <2>6 DEF Calls!Err, Kinded
<1> QED BY <1>4, <1>5

-----------------------------------------------------------------------------
(* The inductive invariant.                                                  *)
Ends == {Running, Returned} \union {Thrown(e, m) : e \in Exc, m \in Msg}
Pointers == {Null, Static} \union {Into(s, arm) : s \in Site, arm \in Nat}
Frames == [site : Site, pc : {"body", "what", "raw"}, out : Ends, arm : Nat,
           raw : [tag : Nat, message : Pointers], slot : {"none", "uninit", "init", "assigned"}]

Shape ==
  /\ stack \in [Thread -> Seq(Frames)]
  /\ buf = [t \in Thread |-> [s \in Site |-> [arm \in Arms(s) |-> buf[t][s][arm]]]]
  /\ result = [t \in Thread |-> result[t]]
  /\ raised \in Nat

Catching(f) ==
  /\ f.site \notin Native
  /\ f.out = Thrown(f.out.exc, f.out.msg) /\ f.out.exc \in Exc
  /\ HasArm(f.site, f.out.exc) /\ f.arm = ArmOf(f.site, f.out.exc)

(* What from_raw will read is the answer to the callee of this call.         *)
Delivers(t, f) == Decoded(t, f.raw) = Calls!Answer(f.site, f.out)

FrameOK(t, i) ==
  LET f == stack[t][i] IN
    /\ f.pc = "body" <=> f.out = Running
    /\ f.pc = "body" => f.raw = NoRaw
    /\ i < Len(stack[t]) => f.pc # "raw"
    /\ f.pc = "what" => Catching(f)
    /\ f.pc = "raw" => Delivers(t, f)

IInv == Shape /\ \A t \in Thread : \A i \in 1 .. Len(stack[t]) : FrameOK(t, i)

LEMMA FrameParts ==
  \A f \in Frames : f.site \in Site /\ f.out \in Ends
BY DEF Frames

LEMMA BarType ==
  ASSUME NEW st \in Seq(Frames)
  PROVE  Bar(st) \in Seq([site : Site, out : Ends]) /\ Len(Bar(st)) = Len(st)
         /\ (Bar(st) = <<>> <=> st = <<>>)
<1>1. Len(st) \in Nat /\ DOMAIN st = 1 .. Len(st) /\ \A i \in 1 .. Len(st) : st[i] \in Frames
  OBVIOUS
<1>2. \A i \in 1 .. Len(st) : Bar(st)[i] \in [site : Site, out : Ends]
  BY <1>1, FrameParts DEF Bar
<1>3. Bar(st) = [i \in 1 .. Len(st) |-> Bar(st)[i]]
  BY <1>1 DEF Bar
<1>4. Bar(st) \in Seq([site : Site, out : Ends]) /\ Len(Bar(st)) = Len(st)
  BY <1>1, <1>2, <1>3
<1> QED BY <1>1, <1>4

LEMMA BarAppend ==
  ASSUME NEW st \in Seq(Frames), NEW f \in Frames
  PROVE  Bar(Append(st, f)) = Append(Bar(st), [site |-> f.site, out |-> f.out])
<1>1. DOMAIN Append(st, f) = 1 .. Len(st) + 1 /\ Len(st) \in Nat
  OBVIOUS
<1>2. Append(Bar(st), [site |-> f.site, out |-> f.out]) \in Seq([site : Site, out : Ends])
      /\ Len(Append(Bar(st), [site |-> f.site, out |-> f.out])) = Len(st) + 1
  <2>1. [site |-> f.site, out |-> f.out] \in [site : Site, out : Ends]
    BY FrameParts
  <2>2. Bar(st) \in Seq([site : Site, out : Ends]) /\ Len(Bar(st)) = Len(st)
    BY BarType
  <2> QED BY <2>1, <2>2
<1>3. \A i \in 1 .. Len(st) + 1 :
        Bar(Append(st, f))[i] = Append(Bar(st), [site |-> f.site, out |-> f.out])[i]
  BY <1>1, BarType DEF Bar
<1>4. DOMAIN Bar(Append(st, f)) = 1 .. Len(st) + 1
  BY <1>1 DEF Bar
<1> QED BY <1>1, <1>2, <1>3, <1>4 DEF Bar

LEMMA BarFront ==
  ASSUME NEW st \in Seq(Frames), st # <<>>
  PROVE  Bar(SubSeq(st, 1, Len(st) - 1)) = SubSeq(Bar(st), 1, Len(Bar(st)) - 1)
<1>1. Len(st) \in Nat /\ Len(st) >= 1 /\ Len(Bar(st)) = Len(st)
      /\ Bar(st) \in Seq([site : Site, out : Ends])
  <2>1. Len(st) \in Nat /\ Len(st) >= 1
    OBVIOUS
  <2> QED BY <2>1, BarType
<1>2. /\ SubSeq(st, 1, Len(st) - 1) = [i \in 1 .. Len(st) - 1 |-> st[i]]
      /\ SubSeq(Bar(st), 1, Len(st) - 1) = [i \in 1 .. Len(st) - 1 |-> Bar(st)[i]]
  BY <1>1
<1> QED BY <1>1, <1>2 DEF Bar

LEMMA BarPut ==
  ASSUME NEW st \in Seq(Frames), st # <<>>, NEW f \in Frames, f.site = st[Len(st)].site
  PROVE  Bar([st EXCEPT ![Len(st)] = f]) = [Bar(st) EXCEPT ![Len(st)].out = f.out]
<1>1. Len(st) \in Nat /\ Len(st) \in 1 .. Len(st) /\ DOMAIN st = 1 .. Len(st)
  OBVIOUS
<1>2. [st EXCEPT ![Len(st)] = f] = [i \in 1 .. Len(st) |-> IF i = Len(st) THEN f ELSE st[i]]
  BY <1>1
<1>3. [Bar(st) EXCEPT ![Len(st)].out = f.out]
        = [i \in 1 .. Len(st) |-> IF i = Len(st) THEN [Bar(st)[i] EXCEPT !.out = f.out] ELSE Bar(st)[i]]
  BY <1>1 DEF Bar
<1>4. [Bar(st)[Len(st)] EXCEPT !.out = f.out] = [site |-> f.site, out |-> f.out]
  BY <1>1 DEF Bar
<1>5. \A i \in 1 .. Len(st) :
        Bar([st EXCEPT ![Len(st)] = f])[i] = [Bar(st) EXCEPT ![Len(st)].out = f.out][i]
  BY <1>1, <1>2, <1>3, <1>4 DEF Bar
<1> QED BY <1>1, <1>2, <1>3, <1>5 DEF Bar

-----------------------------------------------------------------------------
(* The innermost frame of a thread is replaced.                              *)
LEMMA TopFacts ==
  ASSUME IInv, NEW t \in Thread, stack[t] # <<>>
  PROVE  /\ stack[t] \in Seq(Frames) /\ Depth(t) \in Nat /\ Depth(t) >= 1
         /\ Top(t) \in Frames /\ Top(t) = stack[t][Depth(t)] /\ FrameOK(t, Depth(t))
<1>1. stack[t] \in Seq(Frames) /\ Depth(t) = Len(stack[t])
  BY DEF IInv, Shape, Depth
<1>2. Depth(t) \in Nat /\ Depth(t) >= 1 /\ stack[t][Depth(t)] \in Frames
  BY <1>1
<1> QED BY <1>1, <1>2 DEF IInv, Top

LEMMA AtTop ==
  ASSUME IInv, NEW t \in Thread, NEW pc, At(t, pc)
  PROVE  stack[t] # <<>> /\ Top(t).pc = pc
BY DEF At

LEMMA PutKeeps ==
  ASSUME IInv, NEW t \in Thread, NEW f \in Frames, stack[t] # <<>>, Put(t, f),
         \A u \in Thread \ {t} : buf'[u] = buf[u],
         f.pc # "body", f.out # Running,
         f.pc = "what" => Catching(f),
         f.pc = "raw" => Delivers(t, f)'
  PROVE  /\ stack' \in [Thread -> Seq(Frames)]
         /\ \A u \in Thread : \A i \in 1 .. Len(stack'[u]) : FrameOK(u, i)'
<1>1. /\ stack[t] \in Seq(Frames) /\ Depth(t) \in Nat /\ Depth(t) >= 1
      /\ Depth(t) = Len(stack[t]) /\ stack \in [Thread -> Seq(Frames)]
  BY TopFacts DEF IInv, Shape, Depth
<1>2. stack' = [stack EXCEPT ![t] = [stack[t] EXCEPT ![Depth(t)] = f]]
  BY <1>1 DEF Put, Depth
<1>3. /\ [stack[t] EXCEPT ![Depth(t)] = f] \in Seq(Frames)
      /\ Len([stack[t] EXCEPT ![Depth(t)] = f]) = Depth(t)
  BY <1>1
<1>4. stack' \in [Thread -> Seq(Frames)]
  BY <1>1, <1>2, <1>3
<1>5. ASSUME NEW u \in Thread \ {t}, NEW i \in 1 .. Len(stack'[u]) PROVE FrameOK(u, i)'
  <2>1. stack'[u] = stack[u]
    BY <1>1, <1>2
  <2>2. FrameOK(u, i)
    BY <2>1 DEF IInv
  <2>3. \A p : Deref(u, p)' = Deref(u, p)
    BY DEF Deref, BufferThread
  <2>4. \A g : Delivers(u, g)' <=> Delivers(u, g)
    BY <2>3 DEF Delivers, Decoded, FromRaw
  <2> QED BY <2>1, <2>2, <2>4 DEF FrameOK
<1>6. ASSUME NEW i \in 1 .. Len(stack'[t]) PROVE FrameOK(t, i)'
  <2>1. /\ Len(stack'[t]) = Depth(t) /\ stack'[t][Depth(t)] = f
        /\ i # Depth(t) => i < Depth(t) /\ stack'[t][i] = stack[t][i]
    BY <1>1, <1>2, <1>3
  <2>2. FrameOK(t, i)
    BY <1>1, <2>1 DEF IInv
  <2>3. CASE i = Depth(t)
    BY <2>1, <2>3 DEF FrameOK, Delivers
  <2>4. CASE i # Depth(t)
    BY <1>1, <2>1, <2>2, <2>4 DEF FrameOK
  <2> QED BY <2>3, <2>4
<1> QED BY <1>4, <1>5, <1>6

LEMMA PutMaps ==
  ASSUME IInv, NEW t \in Thread, NEW f \in Frames, stack[t] # <<>>, Put(t, f),
         f.site = Top(t).site
  PROVE  Pending' = [Pending EXCEPT ![t][Len(Pending[t])].out = f.out]
<1>1. /\ stack[t] \in Seq(Frames) /\ Depth(t) = Len(stack[t])
      /\ stack \in [Thread -> Seq(Frames)] /\ Top(t) = stack[t][Len(stack[t])]
  BY TopFacts DEF IInv, Shape, Depth
<1>2. stack' = [stack EXCEPT ![t] = [stack[t] EXCEPT ![Len(stack[t])] = f]]
  BY <1>1 DEF Put, Depth
<1>3. Pending[t] = Bar(stack[t]) /\ Len(Pending[t]) = Len(stack[t])
  BY <1>1, BarType DEF Pending
<1>4. Bar(stack'[t]) = [Bar(stack[t]) EXCEPT ![Len(stack[t])].out = f.out]
  BY <1>1, <1>2, BarPut
<1>5. Pending' = [u \in Thread |-> Bar(stack'[u])]
  BY DEF Pending, Bar
<1>6. \A u \in Thread \ {t} : stack'[u] = stack[u]
  BY <1>1, <1>2
<1> QED BY <1>3, <1>4, <1>5, <1>6 DEF Pending

LEMMA PendingTop ==
  ASSUME IInv, NEW t \in Thread, stack[t] # <<>>
  PROVE  /\ Pending[t] # <<>> /\ Len(Pending[t]) = Depth(t)
         /\ Calls!Top(t) = [site |-> Top(t).site, out |-> Top(t).out]
<1>1. stack[t] \in Seq(Frames) /\ Depth(t) \in 1 .. Len(stack[t]) /\ Depth(t) = Len(stack[t])
  BY TopFacts DEF Depth
<1>2. Pending[t] = Bar(stack[t]) /\ Len(Bar(stack[t])) = Depth(t) /\ Bar(stack[t]) # <<>>
  BY <1>1, BarType DEF Pending
<1>3. DOMAIN stack[t] = 1 .. Len(stack[t])
  BY <1>1
<1> QED BY <1>1, <1>2, <1>3 DEF Calls!Top, Bar, Top

-----------------------------------------------------------------------------
(* The initial state, and each action.                                       *)
LEMMA InitIs ==
  ASSUME Init
  PROVE  IInv /\ Calls!CallInit
<1>0. <<>> \in Seq(Frames) /\ Len(<<>>) = 0
  OBVIOUS
<1>1. stack \in [Thread -> Seq(Frames)] /\ \A t \in Thread : Len(stack[t]) = 0
  BY <1>0 DEF Init
<1>2. Shape
  BY <1>1 DEF Init, Shape
<1>3. \A t \in Thread : Bar(<<>>) = <<>>
  BY DEF Bar
<1>4. Pending = [t \in Thread |-> <<>>]
  BY <1>3 DEF Init, Pending
<1>5. IInv
  BY <1>1, <1>2 DEF IInv
<1> QED BY <1>4, <1>5 DEF Calls!CallInit, Calls!Ok, Init

LEMMA StepCall ==
  ASSUME IInv, NEW t \in Thread, NEW s \in Site, Call(t, s)
  PROVE  IInv' /\ Calls!Call(t, s)
<1> DEFINE f == [site |-> s, pc |-> "body", out |-> Running, arm |-> 1, raw |-> NoRaw,
                 slot |-> IF Ret[s] = "void" THEN "none" ELSE "uninit"]
<1>1. stack \in [Thread -> Seq(Frames)] /\ stack[t] \in Seq(Frames) /\ Len(stack[t]) \in Nat
  BY DEF IInv, Shape
<1>2. f \in Frames
  BY DEF Frames, Ends, NoRaw, OkTag, Pointers
<1>3. stack' = [stack EXCEPT ![t] = Append(stack[t], f)]
  BY DEF Call
<1> HIDE DEF f
<1>4. /\ Append(stack[t], f) \in Seq(Frames) /\ Len(Append(stack[t], f)) = Len(stack[t]) + 1
      /\ Append(stack[t], f)[Len(stack[t]) + 1] = f
      /\ \A i \in 1 .. Len(stack[t]) : Append(stack[t], f)[i] = stack[t][i]
  BY <1>1, <1>2
<1>5. Shape'
  <2>1. stack' \in [Thread -> Seq(Frames)]
    BY <1>1, <1>3, <1>4
  <2> QED BY <2>1 DEF Call, Shape, IInv
<1>6. \A u \in Thread : \A g : Delivers(u, g)' <=> Delivers(u, g)
  <2>1. \A u \in Thread : \A p : Deref(u, p)' = Deref(u, p)
    BY DEF Deref, BufferThread, Call
  <2> QED BY <2>1 DEF Delivers, Decoded, FromRaw
<1>7. ASSUME NEW u \in Thread, NEW i \in 1 .. Len(stack'[u]) PROVE FrameOK(u, i)'
  <2>1. CASE u # t
    <3>1. stack'[u] = stack[u]
      BY <1>1, <1>3, <2>1
    <3> QED BY <1>6, <3>1 DEF FrameOK, IInv
  <2>2. CASE u = t /\ i = Len(stack[t]) + 1
    <3>1. stack'[u][i] = f /\ ~(i < Len(stack'[u]))
      BY <1>1, <1>3, <1>4, <2>2
    <3> QED BY <3>1 DEF FrameOK, f
  <2>3. CASE u = t /\ i # Len(stack[t]) + 1
    <3>1. stack'[u][i] = stack[t][i] /\ i \in 1 .. Len(stack[t])
      BY <1>1, <1>3, <1>4, <2>3
    <3>2. FrameOK(t, i)
      BY <3>1 DEF IInv
    <3>3. stack[t][i].pc # "raw"
      <4>1. CASE i < Len(stack[t])
        BY <3>2, <4>1 DEF FrameOK
      <4>2. CASE i = Len(stack[t])
        BY <1>1, <4>2 DEF Call, At, Top, Depth
      <4> QED BY <1>1, <3>1, <4>1, <4>2
    <3> QED BY <2>3, <3>1, <3>2, <3>3 DEF FrameOK
  <2> QED BY <2>1, <2>2, <2>3
<1>8. Calls!Call(t, s)
  <2>1. Pending[t] = Bar(stack[t]) /\ Len(Pending[t]) = Depth(t)
    BY <1>1, BarType DEF Pending, Depth
  <2>2. Bar(stack'[t]) = Append(Bar(stack[t]), [site |-> s, out |-> Running])
    <3>1. f.site = s /\ f.out = Running
      BY DEF f
    <3> QED BY <1>1, <1>2, <1>3, <3>1, BarAppend
  <2>3. \A u \in Thread \ {t} : stack'[u] = stack[u]
    BY <1>1, <1>3
  <2>4. Pending' = [u \in Thread |-> Bar(stack'[u])]
    BY DEF Pending, Bar
  <2>5. Pending' = [Pending EXCEPT ![t] = Append(Pending[t], [site |-> s, out |-> Running])]
    BY <2>1, <2>2, <2>3, <2>4 DEF Pending
  <2> QED BY <2>1, <2>5 DEF Calls!Call, Call, Calls!Running, Running
<1> QED BY <1>5, <1>7, <1>8 DEF IInv

(* The actions that end the callee.                                          *)
LEMMA StepEnd ==
  ASSUME IInv, NEW t \in Thread, At(t, "body"), NEW f \in Frames, Put(t, f),
         f.site = Top(t).site, f.out # Running, f.pc # "body",
         f.pc = "what" => Catching(f), f.pc = "raw" => Delivers(t, f),
         UNCHANGED <<buf, result>>, raised' \in Nat
  PROVE  IInv' /\ Calls!End(t, f.out)
<1>1. stack[t] # <<>> /\ Top(t).pc = "body" /\ Top(t).out = Running
  BY TopFacts DEF At, FrameOK
<1>2. Delivers(t, f)' <=> Delivers(t, f)
  <2>1. \A p : Deref(t, p)' = Deref(t, p)
    BY DEF Deref, BufferThread
  <2> QED BY <2>1 DEF Delivers, Decoded, FromRaw
<1>3. /\ stack' \in [Thread -> Seq(Frames)]
      /\ \A u \in Thread : \A i \in 1 .. Len(stack'[u]) : FrameOK(u, i)'
  BY <1>1, <1>2, PutKeeps
<1>4. IInv'
  BY <1>3 DEF IInv, Shape
<1>5. Calls!End(t, f.out)
  BY <1>1, PutMaps, PendingTop DEF Calls!End, Calls!Running, Running
<1> QED BY <1>4, <1>5

LEMMA StaticRaw ==
  \A tag \in Nat : [tag |-> tag, message |-> Static] \in [tag : Nat, message : Pointers]
BY DEF Pointers

LEMMA StepReturn ==
  ASSUME IInv, NEW t \in Thread, Return(t)
  PROVE  IInv' /\ Calls!End(t, Calls!Returned)
<1> DEFINE slot == CASE Ret[Top(t).site] = "void" -> "none"
                     [] Ret[Top(t).site] = "class" -> "assigned"
                     [] OTHER -> "init"
           f == [Top(t) EXCEPT !.pc = "raw", !.out = Returned, !.slot = slot]
<1>1. At(t, "body") /\ Put(t, f) /\ UNCHANGED <<buf, result>> /\ raised' \in Nat
  BY DEF Return, IInv, Shape
<1>2. Top(t) \in Frames
  BY <1>1, TopFacts DEF At
<1>s. slot \in {"none", "init", "assigned"}
  OBVIOUS
<1>r. Returned \in Ends
  BY DEF Ends
<1> HIDE DEF slot
<1>3. f \in Frames /\ f.site = Top(t).site /\ f.out = Returned /\ f.pc = "raw"
      /\ f.raw = Top(t).raw
  BY <1>2, <1>s, <1>r DEF Frames
<1>4. Top(t).raw = NoRaw
  BY <1>1, TopFacts DEF At, FrameOK
<1> HIDE DEF f
<1>5. Delivers(t, f)
  BY <1>2, <1>3, <1>4, AnswerReturned, FrameParts DEF Delivers
<1>6. Returned # Running /\ Returned = Calls!Returned
  BY DEF Returned, Running, Calls!Returned
<1> QED BY <1>1, <1>3, <1>5, <1>6, StepEnd

LEMMA RaisedType ==
  ASSUME IInv, raised < MaxRaise
  PROVE  raised + 1 \in Nat /\ raised + 1 \in Msg
BY ThrowingAssumption DEF IInv, Shape

LEMMA StepCatchArm ==
  ASSUME IInv, NEW t \in Thread, NEW e \in Exc, CatchArm(t, e)
  PROVE  IInv' /\ Calls!End(t, Calls!Thrown(e, raised + 1))
<1> DEFINE f == [Top(t) EXCEPT !.pc = "what", !.out = Thrown(e, raised + 1),
                              !.arm = ArmOf(Top(t).site, e)]
<1>1. At(t, "body") /\ Put(t, f) /\ UNCHANGED <<buf, result>> /\ raised' \in Nat
      /\ Top(t).site \notin Native /\ HasArm(Top(t).site, e) /\ raised + 1 \in Msg
  BY RaisedType DEF CatchArm
<1>2. Top(t) \in Frames
  BY <1>1, TopFacts DEF At
<1>3. ArmOf(Top(t).site, e) \in Nat
  <2>1. ArmOf(Top(t).site, e) \in Arms(Top(t).site)
    BY <1>1, <1>2, FrameParts, ArmOfFirst
  <2> QED BY <2>1 DEF Arms
<1>4. Thrown(e, raised + 1) \in Ends
  BY <1>1 DEF Ends
<1>5. f \in Frames /\ f.site = Top(t).site /\ f.out = Thrown(e, raised + 1) /\ f.pc = "what"
      /\ f.arm = ArmOf(Top(t).site, e)
  BY <1>2, <1>3, <1>4 DEF Frames
<1> HIDE DEF f
<1>6. Catching(f)
  BY <1>1, <1>5 DEF Catching, Thrown
<1>7. Thrown(e, raised + 1) # Running /\ Thrown(e, raised + 1) = Calls!Thrown(e, raised + 1)
  BY DEF Thrown, Running, Calls!Thrown
<1> QED BY <1>1, <1>5, <1>6, <1>7, StepEnd

LEMMA StepCatchUnknown ==
  ASSUME IInv, NEW t \in Thread, NEW e \in Exc, CatchUnknown(t, e)
  PROVE  IInv' /\ Calls!End(t, Calls!Thrown(e, raised + 1))
<1> DEFINE f == [Top(t) EXCEPT !.pc = "raw", !.out = Thrown(e, raised + 1),
                              !.raw = [tag |-> UnknownTag, message |-> Static]]
<1>1. At(t, "body") /\ Put(t, f) /\ UNCHANGED <<buf, result>> /\ raised' \in Nat
      /\ (IF Top(t).site \in Native THEN Selector(Top(t).site, e) = 0
                                    ELSE ~HasArm(Top(t).site, e))
      /\ raised + 1 \in Msg
  BY RaisedType DEF CatchUnknown
<1>2. Top(t) \in Frames
  BY <1>1, TopFacts DEF At
<1>3. Thrown(e, raised + 1) \in Ends
  BY <1>1 DEF Ends
<1>4. f \in Frames /\ f.site = Top(t).site /\ f.out = Thrown(e, raised + 1) /\ f.pc = "raw"
      /\ f.raw = [tag |-> UnknownTag, message |-> Static]
  <2>1. [tag |-> UnknownTag, message |-> Static] \in [tag : Nat, message : Pointers]
    BY StaticRaw DEF UnknownTag
  <2> QED BY <1>2, <1>3, <2>1 DEF Frames
<1> HIDE DEF f
<1>5. Delivers(t, f)
  BY <1>1, <1>2, <1>4, AnswerUnknown, FrameParts DEF Delivers
<1>6. Thrown(e, raised + 1) # Running /\ Thrown(e, raised + 1) = Calls!Thrown(e, raised + 1)
  BY DEF Thrown, Running, Calls!Thrown
<1> QED BY <1>1, <1>4, <1>5, <1>6, StepEnd

LEMMA StepCatchTyped ==
  ASSUME IInv, NEW t \in Thread, NEW e \in Exc, CatchTyped(t, e)
  PROVE  IInv' /\ Calls!End(t, Calls!Thrown(e, raised + 1))
<1> DEFINE tag == TypedBase + Selector(Top(t).site, e) - 1
           f == [Top(t) EXCEPT !.pc = "raw", !.out = Thrown(e, raised + 1),
                              !.raw = [tag |-> tag, message |-> Static]]
<1>1. At(t, "body") /\ Put(t, f) /\ UNCHANGED <<buf, result>> /\ raised' \in Nat
      /\ Top(t).site \in Native /\ Selector(Top(t).site, e) # 0 /\ raised + 1 \in Msg
  BY RaisedType DEF CatchTyped
<1>2. Top(t) \in Frames
  BY <1>1, TopFacts DEF At
<1>3. Thrown(e, raised + 1) \in Ends
  BY <1>1 DEF Ends
<1>4. tag \in Nat
  <2>1. Selector(Top(t).site, e) \in DOMAIN Catches[Top(t).site]
    BY <1>1, <1>2, FrameParts, SelectorFirst
  <2>2. Selector(Top(t).site, e) \in Nat
    BY <1>2, <2>1, FrameParts, ThrowingAssumption
  <2> QED BY <2>2 DEF TypedBase
<1>5. Decoded(t, [tag |-> tag, message |-> Static])
        = Calls!Answer(Top(t).site, Thrown(e, raised + 1))
  BY <1>1, AnswerSelected
<1> HIDE DEF tag
<1>6. f \in Frames /\ f.site = Top(t).site /\ f.out = Thrown(e, raised + 1) /\ f.pc = "raw"
      /\ f.raw = [tag |-> tag, message |-> Static]
  BY <1>2, <1>3, <1>4, StaticRaw DEF Frames
<1> HIDE DEF f
<1>7. Delivers(t, f)
  BY <1>5, <1>6 DEF Delivers
<1>8. Thrown(e, raised + 1) # Running /\ Thrown(e, raised + 1) = Calls!Thrown(e, raised + 1)
  BY DEF Thrown, Running, Calls!Thrown
<1> QED BY <1>1, <1>6, <1>7, <1>8, StepEnd

LEMMA StepCopyWhat ==
  ASSUME IInv, NEW t \in Thread, CopyWhat(t)
  PROVE  IInv' /\ UNCHANGED Calls!callVars
<1>1. At(t, "what")
  BY DEF CopyWhat
<1>2. PICK g \in Frames : g = Top(t) /\ g.out # Running /\ g.pc = "what" /\ Catching(g)
  BY <1>1, TopFacts DEF At, FrameOK
<1>3. g.site \in Site \ Native /\ g.arm \in Arms(g.site)
  BY <1>2, FrameParts, ArmOfFirst DEF Catching
<1>4. g.arm \in Nat /\ g.arm >= 1 /\ Len(Catches[g.site]) \in Nat
  BY <1>3, ThrowingAssumption DEF Arms
<1>5. PICK raw \in [tag : Nat, message : Pointers] :
        raw = [tag |-> ArmTag(g.site, g.arm), message |-> Into(g.site, g.arm)]
  <2>1. ArmTag(g.site, g.arm) \in Nat
    BY <1>4 DEF ArmTag, StdTag, TypedBase
  <2>2. Into(g.site, g.arm) \in Pointers
    BY <1>3, <1>4 DEF Pointers
  <2> QED BY <2>1, <2>2
<1>6. PICK f \in Frames : /\ f = [g EXCEPT !.pc = "raw", !.raw = raw]
                         /\ f.site = g.site /\ f.out = g.out /\ f.pc = "raw" /\ f.raw = raw
  <2> DEFINE h == [g EXCEPT !.pc = "raw", !.raw = raw]
  <2>1. g \in Frames
    OBVIOUS
  <2>2. h \in Frames /\ h.site = g.site /\ h.out = g.out /\ h.pc = "raw" /\ h.raw = raw
    BY <2>1 DEF Frames
  <2>3. h = [g EXCEPT !.pc = "raw", !.raw = raw]
    OBVIOUS
  <2> HIDE DEF h
  <2> QED BY <2>2, <2>3
<1>7. /\ Put(t, f) /\ UNCHANGED <<raised, result>> /\ stack[t] # <<>>
      /\ buf' = [buf EXCEPT ![t][g.site][g.arm] = g.out.msg]
  BY <1>1, <1>2, <1>5, <1>6 DEF CopyWhat, BufferThread, At
<1>8. /\ \A u \in Thread \ {t} : buf'[u] = buf[u]
      /\ buf'[t][g.site][g.arm] = g.out.msg
      /\ buf' = [u \in Thread |-> [s \in Site |-> [arm \in Arms(s) |-> buf'[u][s][arm]]]]
  <2>1. buf = [u \in Thread |-> [s \in Site |-> [arm \in Arms(s) |-> buf[u][s][arm]]]]
    BY DEF IInv, Shape
  <2>2. DOMAIN buf = Thread /\ \A u \in Thread : DOMAIN buf[u] = Site
        /\ \A s \in Site : DOMAIN buf[u][s] = Arms(s)
    BY <2>1
  <2>3. buf' = [buf EXCEPT ![t] = [buf[t] EXCEPT ![g.site] =
                  [buf[t][g.site] EXCEPT ![g.arm] = g.out.msg]]]
    BY <1>7
  <2>4. \A u \in Thread \ {t} : buf'[u] = buf[u]
    BY <2>2, <2>3
  <2>5. buf'[t] = [buf[t] EXCEPT ![g.site] = [buf[t][g.site] EXCEPT ![g.arm] = g.out.msg]]
    BY <2>2, <2>3
  <2>6. buf'[t][g.site][g.arm] = g.out.msg
    BY <1>3, <2>2, <2>5
  <2>7. buf'[t] = [s \in Site |-> [arm \in Arms(s) |-> buf'[t][s][arm]]]
    <3>1. DOMAIN buf'[t] = Site /\ buf'[t] = [s \in Site |-> buf'[t][s]]
      BY <2>2, <2>5
    <3>2. \A s \in Site : DOMAIN buf'[t][s] = Arms(s)
                         /\ buf'[t][s] = [arm \in Arms(s) |-> buf'[t][s][arm]]
      <4> TAKE s \in Site
      <4>1. buf[t][s] = [arm \in Arms(s) |-> buf[t][s][arm]]
        BY <2>1
      <4>2. CASE s = g.site
        <5>1. buf'[t][s] = [buf[t][s] EXCEPT ![g.arm] = g.out.msg]
          BY <1>3, <2>2, <2>5, <4>2
        <5> QED BY <4>1, <5>1
      <4>3. CASE s # g.site
        <5>1. buf'[t][s] = buf[t][s]
          BY <2>2, <2>5, <4>3
        <5> QED BY <4>1, <5>1
      <4> QED BY <4>2, <4>3
    <3> QED BY <3>1, <3>2
  <2>8. buf' = [u \in Thread |-> buf'[u]]
    BY <2>2, <2>3
  <2>9. ASSUME NEW u \in Thread
        PROVE  buf'[u] = [s \in Site |-> [arm \in Arms(s) |-> buf'[u][s][arm]]]
    <3>1. CASE u = t
      BY <2>7, <3>1
    <3>2. CASE u # t
      <4>1. buf'[u] = buf[u] /\ buf[u] = [s \in Site |-> [arm \in Arms(s) |-> buf[u][s][arm]]]
        BY <2>1, <2>4, <3>2
      <4> QED BY <4>1
    <3> QED BY <3>1, <3>2
  <2> QED BY <2>4, <2>6, <2>8, <2>9
<1>9. Delivers(t, f)'
  <2>1. ArmTag(g.site, g.arm) # OkTag
        /\ Kinded(ArmTag(g.site, g.arm), g.out.msg) = Calls!Answer(g.site, g.out)
    BY <1>2, <1>3, AnswerArm DEF Catching
  <2>2. Deref(t, raw.message)' = g.out.msg
    BY <1>5, <1>8 DEF Deref, Into, BufferThread
  <2>3. Decoded(t, raw)' = Kinded(ArmTag(g.site, g.arm), g.out.msg)
    BY <1>5, <2>1, <2>2 DEF Decoded, FromRaw, Kinded
  <2> QED BY <1>6, <2>1, <2>3 DEF Delivers
<1>10. IInv'
  <2>1. f.pc # "body" /\ f.out # Running /\ (f.pc = "what" => Catching(f))
    BY <1>2, <1>6
  <2>2. /\ stack' \in [Thread -> Seq(Frames)]
        /\ \A u \in Thread : \A i \in 1 .. Len(stack'[u]) : FrameOK(u, i)'
    BY <1>7, <1>8, <1>9, <2>1, PutKeeps
  <2> QED BY <1>7, <1>8, <2>2 DEF IInv, Shape
<1>11. Pending' = Pending
  <2>1. Pending' = [Pending EXCEPT ![t][Len(Pending[t])].out = f.out]
    BY <1>2, <1>6, <1>7, PutMaps
  <2>2. Calls!Top(t) = [site |-> g.site, out |-> f.out]
    BY <1>2, <1>6, <1>7, PendingTop
  <2>3. /\ Pending = [u \in Thread |-> Bar(stack[u])] /\ stack[t] \in Seq(Frames)
        /\ Pending[t] \in Seq([site : Site, out : Ends])
    BY <1>7, TopFacts, BarType DEF Pending
  <2>4. [Pending[t] EXCEPT ![Len(Pending[t])].out = f.out] = Pending[t]
    BY <2>2, <2>3 DEF Calls!Top
  <2> QED BY <2>1, <2>3, <2>4
<1> QED BY <1>7, <1>10, <1>11 DEF Calls!callVars

(* Decode pops the call and delivers the answer.                             *)
LEMMA StepDecode ==
  ASSUME IInv, NEW t \in Thread, Decode(t)
  PROVE  IInv' /\ Calls!Deliver(t)
<1>1. PICK g \in Frames : g = Top(t) /\ g.pc = "raw" /\ g.out # Running /\ Delivers(t, g)
  BY TopFacts DEF Decode, At, FrameOK
<1>2. /\ stack[t] \in Seq(Frames) /\ stack[t] # <<>> /\ Depth(t) = Len(stack[t])
      /\ Depth(t) \in Nat /\ Depth(t) >= 1 /\ stack \in [Thread -> Seq(Frames)]
  BY TopFacts DEF Decode, At, IInv, Shape, Depth
<1>3. stack' = [stack EXCEPT ![t] = SubSeq(stack[t], 1, Len(stack[t]) - 1)]
  BY <1>2 DEF Decode
<1>4. result' = [result EXCEPT ![t] = Decoded(t, g.raw)]
  BY <1>1 DEF Decode, Decoded
<1>5. /\ SubSeq(stack[t], 1, Len(stack[t]) - 1) \in Seq(Frames)
      /\ Len(SubSeq(stack[t], 1, Len(stack[t]) - 1)) = Len(stack[t]) - 1
      /\ \A i \in 1 .. Len(stack[t]) - 1 : SubSeq(stack[t], 1, Len(stack[t]) - 1)[i] = stack[t][i]
  BY <1>2
<1>6. Shape'
  <2>1. stack' \in [Thread -> Seq(Frames)]
    BY <1>2, <1>3, <1>5
  <2>2. result' = [u \in Thread |-> result'[u]]
    BY <1>4 DEF IInv, Shape
  <2> QED BY <2>1, <2>2 DEF Decode, Shape, IInv
<1>7. ASSUME NEW u \in Thread, NEW i \in 1 .. Len(stack'[u]) PROVE FrameOK(u, i)'
  <2>1. \A h : Delivers(u, h)' <=> Delivers(u, h)
    <3>1. \A p : Deref(u, p)' = Deref(u, p)
      BY DEF Deref, BufferThread, Decode
    <3> QED BY <3>1 DEF Delivers, Decoded, FromRaw
  <2>2. CASE u # t
    <3>1. stack'[u] = stack[u]
      BY <1>2, <1>3, <2>2
    <3> QED BY <2>1, <3>1 DEF FrameOK, IInv
  <2>3. CASE u = t
    <3>1. stack'[u][i] = stack[t][i] /\ i \in 1 .. Len(stack[t]) /\ i < Len(stack[t])
      BY <1>2, <1>3, <1>5, <2>3
    <3>2. FrameOK(t, i)
      BY <3>1 DEF IInv
    <3> QED BY <2>3, <3>1, <3>2 DEF FrameOK
  <2> QED BY <2>2, <2>3
<1>8. Pending' = [Pending EXCEPT ![t] = SubSeq(Pending[t], 1, Len(Pending[t]) - 1)]
  <2>1. Pending[t] = Bar(stack[t])
    BY DEF Pending
  <2>2. Bar(stack'[t]) = SubSeq(Bar(stack[t]), 1, Len(Bar(stack[t])) - 1)
    BY <1>2, <1>3, BarFront
  <2>3. \A u \in Thread \ {t} : stack'[u] = stack[u]
    BY <1>2, <1>3
  <2>4. Pending' = [u \in Thread |-> Bar(stack'[u])]
    BY DEF Pending, Bar
  <2> QED BY <2>1, <2>2, <2>3, <2>4 DEF Pending
<1>9. /\ Pending[t] # <<>> /\ Calls!Top(t) = [site |-> g.site, out |-> g.out]
  BY <1>1, <1>2, PendingTop
<1>10. Decoded(t, g.raw) = Calls!Answer(g.site, g.out) /\ g.out # Calls!Running
  BY <1>1 DEF Delivers, Calls!Running, Running
<1>11. Calls!Deliver(t)
  BY <1>4, <1>8, <1>9, <1>10 DEF Calls!Deliver
<1> QED BY <1>6, <1>7, <1>11 DEF IInv

-----------------------------------------------------------------------------
(* IInv is inductive, and every step is a step of ThrowingCalls or stutters.  *)
LEMMA NextKeeps == IInv /\ [Next]_vars => IInv' /\ [Calls!CallNext]_(Calls!callVars)
<1> SUFFICES ASSUME IInv, [Next]_vars PROVE IInv' /\ [Calls!CallNext]_(Calls!callVars)
  OBVIOUS
<1>1. ASSUME NEW t \in Thread, NEW s \in Site, Call(t, s)
      PROVE  IInv' /\ Calls!CallNext
  BY <1>1, StepCall DEF Calls!CallNext
<1>2. ASSUME NEW t \in Thread, NEW e \in Exc, CatchArm(t, e) \/ CatchUnknown(t, e) \/ CatchTyped(t, e)
      PROVE  IInv' /\ Calls!CallNext
  <2>1. raised + 1 \in Msg
    BY <1>2, RaisedType DEF CatchArm, CatchUnknown, CatchTyped
  <2>2. IInv' /\ Calls!End(t, Calls!Thrown(e, raised + 1))
    BY <1>2, StepCatchArm, StepCatchUnknown, StepCatchTyped
  <2> QED BY <2>1, <2>2 DEF Calls!CallNext
<1>3. ASSUME NEW t \in Thread, Return(t)
      PROVE  IInv' /\ Calls!CallNext
  BY <1>3, StepReturn DEF Calls!CallNext
<1>4. ASSUME NEW t \in Thread, CopyWhat(t)
      PROVE  IInv' /\ UNCHANGED Calls!callVars
  BY <1>4, StepCopyWhat
<1>5. ASSUME NEW t \in Thread, Decode(t)
      PROVE  IInv' /\ Calls!CallNext
  BY <1>5, StepDecode DEF Calls!CallNext
<1>6. CASE UNCHANGED vars
  <2>1. stack' = stack /\ buf' = buf /\ result' = result /\ raised' = raised
    BY <1>6 DEF vars
  <2>2. Pending' = Pending
    BY <2>1 DEF Pending, Bar
  <2>3. ASSUME NEW t \in Thread, NEW i \in 1 .. Len(stack'[t]) PROVE FrameOK(t, i)'
    <3>1. FrameOK(t, i)
      BY <2>1, <2>3 DEF IInv
    <3>2. \A p : Deref(t, p)' = Deref(t, p)
      BY <2>1 DEF Deref, BufferThread
    <3>3. \A h : Delivers(t, h)' <=> Delivers(t, h)
      BY <3>2 DEF Delivers, Decoded, FromRaw
    <3> QED BY <2>1, <3>1, <3>3 DEF FrameOK
  <2>4. Shape'
    BY <2>1 DEF Shape, IInv
  <2> QED BY <2>1, <2>2, <2>3, <2>4 DEF IInv, Calls!callVars
<1> QED BY <1>1, <1>2, <1>3, <1>4, <1>5, <1>6 DEF Next

(* Spec => ImplementsCalls: the shims, the landing pad helpers and the       *)
(* decoder give every caller the outcome of its own call.                    *)
THEOREM CallsImplemented == Spec => ImplementsCalls
<1>1. Init => IInv /\ Calls!CallInit
  BY InitIs
<1> QED BY <1>1, NextKeeps, PTL DEF Spec, ImplementsCalls, Calls!CallSpec

-----------------------------------------------------------------------------
(* The sequence of begun catches follows the stack: a step keeps the frames  *)
(* that catch, adds the innermost frame to them, or takes it away.           *)
LEMMA OrderKept ==
  ASSUME NEW c, NEW st, NEW st2, InOrder(c, st), Catchers(st2) = Catchers(st),
         \A i \in Catchers(st) : st2[i].out.msg = st[i].out.msg
  PROVE  InOrder(c, st2)
BY DEF InOrder

LEMMA OrderBegun ==
  ASSUME NEW c \in Seq(Msg), NEW st \in Seq(Frames), NEW st2, NEW n \in Nat, NEW m \in Msg,
         InOrder(c, st), \A i \in Catchers(st) : i < n, Catchers(st2) = Catchers(st) \union {n},
         \A i \in Catchers(st) : st2[i].out.msg = st[i].out.msg, st2[n].out.msg = m
  PROVE  InOrder(Append(c, m), st2)
<1>1. PICK at \in [DOMAIN c -> Catchers(st)] :
        /\ \A i, j \in DOMAIN c : i < j => at[i] < at[j]
        /\ \A k \in Catchers(st) : \E i \in DOMAIN c : at[i] = k
        /\ \A i \in DOMAIN c : c[i] = st[at[i]].out.msg
  BY DEF InOrder
<1> DEFINE d == Append(c, m)
<1>2. /\ Len(c) \in Nat /\ DOMAIN c = 1 .. Len(c) /\ DOMAIN d = 1 .. Len(c) + 1
      /\ d[Len(c) + 1] = m
      /\ \A i \in 1 .. Len(c) : d[i] = c[i]
  OBVIOUS
<1> HIDE DEF d
<1>3. Catchers(st) \subseteq Nat
  BY DEF Catchers
<1> DEFINE on == [i \in 1 .. Len(c) + 1 |-> IF i = Len(c) + 1 THEN n ELSE at[i]]
<1>4. /\ on[Len(c) + 1] = n
      /\ \A i \in 1 .. Len(c) : on[i] = at[i] /\ at[i] \in Catchers(st)
  BY <1>1, <1>2
<1>5. on \in [DOMAIN d -> Catchers(st2)]
  BY <1>2, <1>4
<1> HIDE DEF on
<1>6. \A i, j \in 1 .. Len(c) + 1 : i < j => on[i] < on[j]
  <2> SUFFICES ASSUME NEW i \in 1 .. Len(c) + 1, NEW j \in 1 .. Len(c) + 1, i < j
               PROVE  on[i] < on[j]
    OBVIOUS
  <2>1. i \in 1 .. Len(c) /\ on[i] = at[i] /\ at[i] \in Catchers(st)
    BY <1>2, <1>4
  <2>2. CASE j = Len(c) + 1
    BY <1>4, <2>1, <2>2
  <2>3. CASE j # Len(c) + 1
    <3>1. j \in 1 .. Len(c) /\ on[j] = at[j]
      BY <1>2, <1>4, <2>3
    <3> QED BY <1>1, <1>2, <2>1, <3>1
  <2> QED BY <2>2, <2>3
<1>7. \A k \in Catchers(st2) : \E i \in 1 .. Len(c) + 1 : on[i] = k
  <2> SUFFICES ASSUME NEW k \in Catchers(st2) PROVE \E i \in 1 .. Len(c) + 1 : on[i] = k
    OBVIOUS
  <2>1. CASE k = n
    BY <1>2, <1>4, <2>1
  <2>2. CASE k # n
    <3>1. PICK i \in 1 .. Len(c) : at[i] = k
      BY <1>1, <1>2, <2>2
    <3>2. i \in 1 .. Len(c) + 1 /\ on[i] = k
      BY <1>2, <1>4, <3>1
    <3> QED BY <3>2
  <2> QED BY <2>1, <2>2
<1>8. \A i \in 1 .. Len(c) + 1 : d[i] = st2[on[i]].out.msg
  <2> SUFFICES ASSUME NEW i \in 1 .. Len(c) + 1 PROVE d[i] = st2[on[i]].out.msg
    OBVIOUS
  <2>1. CASE i = Len(c) + 1
    BY <1>2, <1>4, <2>1
  <2>2. CASE i # Len(c) + 1
    <3>1. i \in 1 .. Len(c)
      BY <1>2, <2>2
    <3> QED BY <1>1, <1>2, <1>4, <3>1
  <2> QED BY <2>1, <2>2
<1>9. DOMAIN d = 1 .. Len(c) + 1
  BY <1>2
<1>10. InOrder(d, st2)
  <2>1. /\ \A i, j \in DOMAIN d : i < j => on[i] < on[j]
        /\ \A k \in Catchers(st2) : \E i \in DOMAIN d : on[i] = k
        /\ \A i \in DOMAIN d : d[i] = st2[on[i]].out.msg
    BY <1>6, <1>7, <1>8, <1>9
  <2> QED BY <1>5, <2>1 DEF InOrder
<1> QED BY <1>10 DEF d

LEMMA OrderEnded ==
  ASSUME NEW c \in Seq(Msg), NEW st \in Seq(Frames), NEW st2, NEW n \in Catchers(st),
         InOrder(c, st), \A i \in Catchers(st) : i <= n, Catchers(st2) = Catchers(st) \ {n},
         \A i \in Catchers(st2) : st2[i].out.msg = st[i].out.msg
  PROVE  InOrder(SubSeq(c, 1, Len(c) - 1), st2)
<1>1. PICK at \in [DOMAIN c -> Catchers(st)] :
        /\ \A i, j \in DOMAIN c : i < j => at[i] < at[j]
        /\ \A k \in Catchers(st) : \E i \in DOMAIN c : at[i] = k
        /\ \A i \in DOMAIN c : c[i] = st[at[i]].out.msg
  BY DEF InOrder
<1>2. Len(c) \in Nat /\ DOMAIN c = 1 .. Len(c) /\ Catchers(st) \subseteq Nat
  BY DEF Catchers
<1>3. Len(c) >= 1 /\ at[Len(c)] = n
  <2>1. PICK i \in 1 .. Len(c) : at[i] = n
    BY <1>1, <1>2
  <2>2. Len(c) >= 1 /\ Len(c) \in 1 .. Len(c)
    BY <1>2, <2>1
  <2>3. at[Len(c)] \in Catchers(st) /\ at[Len(c)] <= n /\ n \in Nat /\ at[Len(c)] \in Nat
    BY <1>1, <1>2, <2>2
  <2>4. i < Len(c) => n < at[Len(c)]
    BY <1>1, <1>2, <2>1, <2>2
  <2>5. i = Len(c)
    BY <2>3, <2>4
  <2> QED BY <2>1, <2>2, <2>5
<1> DEFINE d == SubSeq(c, 1, Len(c) - 1)
           on == [i \in 1 .. Len(c) - 1 |-> at[i]]
<1>4. DOMAIN d = 1 .. Len(c) - 1 /\ \A i \in 1 .. Len(c) - 1 : d[i] = c[i]
  BY <1>2, <1>3
<1>5. \A i \in 1 .. Len(c) - 1 : i \in 1 .. Len(c) /\ at[i] \in Catchers(st) /\ at[i] < n
  <2> TAKE i \in 1 .. Len(c) - 1
  <2>1. i \in 1 .. Len(c) /\ Len(c) \in 1 .. Len(c) /\ i < Len(c)
    BY <1>2, <1>3
  <2> QED BY <1>1, <1>2, <1>3, <2>1
<1>6. on \in [DOMAIN d -> Catchers(st2)]
  <2>1. \A i \in 1 .. Len(c) - 1 : at[i] \in Catchers(st) \ {n}
    BY <1>2, <1>5
  <2> QED BY <1>4, <2>1
<1>7. \A i, j \in DOMAIN d : i < j => on[i] < on[j]
  BY <1>1, <1>2, <1>4, <1>5
<1>8. \A k \in Catchers(st2) : \E i \in DOMAIN d : on[i] = k
  <2> SUFFICES ASSUME NEW k \in Catchers(st2) PROVE \E i \in DOMAIN d : on[i] = k
    OBVIOUS
  <2>1. PICK i \in 1 .. Len(c) : at[i] = k
    BY <1>1, <1>2
  <2>2. i # Len(c)
    BY <1>3, <2>1
  <2>3. i \in 1 .. Len(c) - 1
    BY <2>2
  <2> QED BY <1>4, <2>1, <2>3
<1>9. \A i \in DOMAIN d : d[i] = st2[on[i]].out.msg
  BY <1>1, <1>2, <1>4, <1>5, <1>6
<1> HIDE DEF d, on
<1>10. InOrder(d, st2)
  BY <1>6, <1>7, <1>8, <1>9 DEF InOrder
<1> QED BY <1>10 DEF d

(* A slot is filled only by a callee that returned.                          *)
SlotOK(f) ==
  (f.slot = "uninit") <=> Ret[f.site] # "void" /\ (f.pc = "raw" => f.raw.tag # OkTag)

Caught ==
  /\ caught \in [Thread -> Seq(Msg)]
  /\ CatchesBalanced
  /\ \A t \in Thread : \A i \in DOMAIN stack[t] : SlotOK(stack[t][i])

LEMMA CaughtStep ==
  ASSUME IInv, Caught, NEW t \in Thread, NEW st \in Seq(Frames), NEW c \in Seq(Msg),
         stack' = [stack EXCEPT ![t] = st], caught' = [caught EXCEPT ![t] = c],
         InOrder(c, st), \A i \in DOMAIN st : SlotOK(st[i])
  PROVE  Caught'
<1>1. stack \in [Thread -> Seq(Frames)] /\ caught \in [Thread -> Seq(Msg)]
  BY DEF IInv, Shape, Caught
<1>2. /\ stack'[t] = st /\ caught'[t] = c
      /\ \A u \in Thread \ {t} : stack'[u] = stack[u] /\ caught'[u] = caught[u]
  BY <1>1
<1>3. caught' \in [Thread -> Seq(Msg)]
  BY <1>1
<1>4. ASSUME NEW u \in Thread
      PROVE  InOrder(caught'[u], stack'[u]) /\ \A i \in DOMAIN stack'[u] : SlotOK(stack'[u][i])
  <2>1. CASE u = t
    BY <1>2, <2>1
  <2>2. CASE u # t
    BY <1>2, <2>2 DEF Caught, CatchesBalanced
  <2> QED BY <2>1, <2>2
<1>5. CatchesBalanced'
  BY <1>4 DEF CatchesBalanced
<1> QED BY <1>3, <1>4, <1>5 DEF Caught

LEMMA CaughtPut ==
  ASSUME IInv, Caught, NEW t \in Thread, NEW f \in Frames, NEW c \in Seq(Msg), stack[t] # <<>>,
         Put(t, f), caught' = [caught EXCEPT ![t] = c], SlotOK(f),
         \/ Top(t).pc # "what" /\ f.pc # "what" /\ c = caught[t]
         \/ /\ Top(t).pc # "what" /\ f.pc = "what"
            /\ f.out.msg \in Msg /\ c = Append(caught[t], f.out.msg)
         \/ Top(t).pc = "what" /\ f.pc # "what" /\ c = SubSeq(caught[t], 1, Len(caught[t]) - 1)
  PROVE  Caught'
<1> DEFINE n == Depth(t)
           st == [stack[t] EXCEPT ![n] = f]
<1>1. /\ stack[t] \in Seq(Frames) /\ n \in Nat /\ n >= 1 /\ n = Len(stack[t])
      /\ stack \in [Thread -> Seq(Frames)] /\ caught[t] \in Seq(Msg) /\ Top(t) = stack[t][n]
  BY TopFacts DEF IInv, Shape, Depth, Caught, Top
<1>2. stack' = [stack EXCEPT ![t] = st]
  BY <1>1 DEF Put
<1>3. /\ st \in Seq(Frames) /\ DOMAIN st = 1 .. n /\ DOMAIN stack[t] = 1 .. n /\ st[n] = f
      /\ \A i \in 1 .. n : i # n => st[i] = stack[t][i] /\ i < n
  BY <1>1
<1> HIDE DEF st, n
<1>4. /\ \A i \in Catchers(stack[t]) : i # n => i < n /\ i \in Catchers(st) /\ st[i] = stack[t][i]
      /\ \A i \in Catchers(st) : i # n => i \in Catchers(stack[t])
      /\ n \in Catchers(st) <=> f.pc = "what"
      /\ n \in Catchers(stack[t]) <=> Top(t).pc = "what"
  BY <1>1, <1>3 DEF Catchers
<1>5. InOrder(caught[t], stack[t]) /\ \A i \in DOMAIN stack[t] : SlotOK(stack[t][i])
  BY DEF Caught, CatchesBalanced
<1>6. InOrder(c, st)
  <2>1. CASE Top(t).pc # "what" /\ f.pc # "what" /\ c = caught[t]
    <3>1. Catchers(st) = Catchers(stack[t])
          /\ \A i \in Catchers(stack[t]) : st[i].out.msg = stack[t][i].out.msg
      <4>1. n \notin Catchers(st) /\ n \notin Catchers(stack[t])
        BY <1>4, <2>1
      <4>2. \A i \in Catchers(stack[t]) : i \in Catchers(st) /\ st[i] = stack[t][i]
        BY <1>4, <4>1
      <4>3. Catchers(st) \subseteq Catchers(stack[t])
        BY <1>4, <4>1
      <4> QED BY <4>2, <4>3
    <3> QED BY <1>5, <2>1, <3>1, OrderKept
  <2>2. CASE /\ Top(t).pc # "what" /\ f.pc = "what"
             /\ f.out.msg \in Msg /\ c = Append(caught[t], f.out.msg)
    <3>1. Catchers(st) = Catchers(stack[t]) \union {n}
          /\ \A i \in Catchers(stack[t]) : i < n /\ st[i].out.msg = stack[t][i].out.msg
      <4>1. n \in Catchers(st) /\ n \notin Catchers(stack[t])
        BY <1>4, <2>2
      <4>2. \A i \in Catchers(stack[t]) : i < n /\ i \in Catchers(st) /\ st[i] = stack[t][i]
        BY <1>4, <4>1
      <4> QED BY <1>4, <4>1, <4>2
    <3>2. /\ caught[t] \in Seq(Msg) /\ stack[t] \in Seq(Frames) /\ n \in Nat
          /\ f.out.msg \in Msg /\ st[n].out.msg = f.out.msg /\ c = Append(caught[t], f.out.msg)
      BY <1>1, <1>3, <2>2
    <3>3. \A i \in Catchers(stack[t]) : i < n
      BY <3>1
    <3>4. \A i \in Catchers(stack[t]) : st[i].out.msg = stack[t][i].out.msg
      BY <3>1
    <3>5. InOrder(Append(caught[t], f.out.msg), st)
      BY <1>5, <3>1, <3>2, <3>3, <3>4, OrderBegun
    <3> QED BY <3>2, <3>5
  <2>3. CASE Top(t).pc = "what" /\ f.pc # "what" /\ c = SubSeq(caught[t], 1, Len(caught[t]) - 1)
    <3>1. n \in Catchers(stack[t]) /\ Catchers(st) = Catchers(stack[t]) \ {n}
          /\ \A i \in Catchers(st) : st[i].out.msg = stack[t][i].out.msg
      <4>1. n \notin Catchers(st) /\ n \in Catchers(stack[t])
        BY <1>4, <2>3
      <4> QED BY <1>4, <4>1
    <3>2. \A i \in Catchers(stack[t]) : i <= n
      BY <1>1, <1>3 DEF Catchers
    <3> QED BY <1>1, <1>5, <2>3, <3>1, <3>2, OrderEnded
  <2> QED BY <2>1, <2>2, <2>3
<1>7. \A i \in DOMAIN st : SlotOK(st[i])
  BY <1>3, <1>5
<1> QED BY <1>2, <1>3, <1>6, <1>7, CaughtStep

(* A call above, and the innermost call when it is decoded, catch nothing.   *)
LEMMA CaughtCall ==
  ASSUME IInv, Caught, NEW t \in Thread, NEW s \in Site, Call(t, s)
  PROVE  Caught'
<1> DEFINE f == [site |-> s, pc |-> "body", out |-> Running, arm |-> 1, raw |-> NoRaw,
                 slot |-> IF Ret[s] = "void" THEN "none" ELSE "uninit"]
           st == Append(stack[t], f)
<1>1. stack[t] \in Seq(Frames) /\ caught[t] \in Seq(Msg) /\ caught \in [Thread -> Seq(Msg)]
  BY DEF IInv, Shape, Caught
<1>2. f \in Frames
  BY DEF Frames, Ends, NoRaw, OkTag, Pointers
<1>3. SlotOK(f) /\ f.pc # "what"
  BY DEF SlotOK
<1>4. stack' = [stack EXCEPT ![t] = st] /\ caught' = [caught EXCEPT ![t] = caught[t]]
  BY <1>1 DEF Call
<1> HIDE DEF f
<1>5. /\ st \in Seq(Frames) /\ DOMAIN st = 1 .. Len(stack[t]) + 1 /\ st[Len(stack[t]) + 1] = f
      /\ DOMAIN stack[t] = 1 .. Len(stack[t]) /\ Len(stack[t]) \in Nat
      /\ \A i \in 1 .. Len(stack[t]) : st[i] = stack[t][i]
  BY <1>1, <1>2
<1> HIDE DEF st
<1>6. \A i \in DOMAIN st : (i \in DOMAIN stack[t] /\ st[i] = stack[t][i]) \/ st[i] = f
  BY <1>5
<1>7. Catchers(st) = Catchers(stack[t])
      /\ \A i \in Catchers(stack[t]) : st[i].out.msg = stack[t][i].out.msg
  BY <1>3, <1>5, <1>6 DEF Catchers
<1>8. InOrder(caught[t], st)
  BY <1>7, OrderKept DEF Caught, CatchesBalanced
<1>9. \A i \in DOMAIN st : SlotOK(st[i])
  BY <1>3, <1>6 DEF Caught
<1> QED BY <1>1, <1>4, <1>5, <1>8, <1>9, CaughtStep

LEMMA CaughtDecode ==
  ASSUME IInv, Caught, NEW t \in Thread, Decode(t)
  PROVE  Caught'
<1> DEFINE n == Len(stack[t])
           st == SubSeq(stack[t], 1, n - 1)
<1>1. /\ stack[t] \in Seq(Frames) /\ n \in Nat /\ n >= 1 /\ stack[t][n].pc = "raw"
      /\ caught[t] \in Seq(Msg) /\ caught \in [Thread -> Seq(Msg)]
  BY TopFacts DEF Decode, At, Top, Depth, Caught
<1>2. stack' = [stack EXCEPT ![t] = st] /\ caught' = [caught EXCEPT ![t] = caught[t]]
  BY <1>1 DEF Decode, Depth
<1>3. /\ st \in Seq(Frames) /\ DOMAIN st = 1 .. n - 1 /\ DOMAIN stack[t] = 1 .. n
      /\ \A i \in 1 .. n - 1 : st[i] = stack[t][i] /\ i \in 1 .. n
      /\ \A i \in 1 .. n : i # n => i \in 1 .. n - 1
  BY <1>1
<1> HIDE DEF st, n
<1>4. Catchers(st) = Catchers(stack[t])
      /\ \A i \in Catchers(stack[t]) : st[i].out.msg = stack[t][i].out.msg
  BY <1>1, <1>3 DEF Catchers
<1>5. InOrder(caught[t], st)
  BY <1>4, OrderKept DEF Caught, CatchesBalanced
<1>6. \A i \in DOMAIN st : SlotOK(st[i])
  BY <1>3 DEF Caught
<1> QED BY <1>1, <1>2, <1>3, <1>5, <1>6, CaughtStep

LEMMA CaughtNext ==
  ASSUME IInv, Caught, [Next]_vars
  PROVE  Caught'
<1>0. caught \in [Thread -> Seq(Msg)] /\ \A t \in Thread : caught' = caught => caught' = [caught EXCEPT ![t] = caught[t]]
  BY DEF Caught
<1>f. ASSUME NEW t \in Thread, stack[t] # <<>>
      PROVE  /\ Top(t) \in Frames /\ Top(t).site \in Site /\ SlotOK(Top(t)) /\ caught[t] \in Seq(Msg)
             /\ FrameOK(t, Depth(t)) /\ Top(t) = stack[t][Depth(t)]
  <2>1. Top(t) \in Frames /\ Top(t) = stack[t][Depth(t)] /\ Depth(t) \in DOMAIN stack[t]
        /\ FrameOK(t, Depth(t))
    BY <1>f, TopFacts DEF Depth
  <2> QED BY <1>0, <2>1, FrameParts DEF Caught
<1>1. ASSUME NEW t \in Thread, Return(t) PROVE Caught'
  <2> DEFINE slot == CASE Ret[Top(t).site] = "void" -> "none"
                       [] Ret[Top(t).site] = "class" -> "assigned"
                       [] OTHER -> "init"
             f == [Top(t) EXCEPT !.pc = "raw", !.out = Returned, !.slot = slot]
  <2>1. /\ Put(t, f) /\ stack[t] # <<>> /\ Top(t).pc = "body"
        /\ caught' = [caught EXCEPT ![t] = caught[t]]
    BY <1>0, <1>1 DEF Return, At
  <2>2. slot \in {"none", "init", "assigned"}
    OBVIOUS
  <2>3. Returned \in Ends
    BY DEF Ends
  <2> HIDE DEF slot
  <2>4. f \in Frames /\ f.pc = "raw" /\ f.site = Top(t).site /\ f.raw = Top(t).raw /\ f.slot = slot
    BY <1>f, <2>1, <2>2, <2>3 DEF Frames
  <2> HIDE DEF f
  <2>5. f.raw.tag = OkTag
    BY <1>f, <2>1, <2>4 DEF FrameOK, NoRaw
  <2>6. SlotOK(f)
    BY <2>2, <2>4, <2>5 DEF SlotOK
  <2> QED BY <1>f, <2>1, <2>4, <2>6, CaughtPut
<1>2. ASSUME NEW t \in Thread, NEW e \in Exc, CatchArm(t, e) PROVE Caught'
  <2> DEFINE f == [Top(t) EXCEPT !.pc = "what", !.out = Thrown(e, raised + 1),
                                 !.arm = ArmOf(Top(t).site, e)]
             c == Append(caught[t], raised + 1)
  <2>1. /\ Put(t, f) /\ stack[t] # <<>> /\ Top(t).pc = "body" /\ HasArm(Top(t).site, e)
        /\ caught' = [caught EXCEPT ![t] = c] /\ raised + 1 \in Msg
    BY <1>2, RaisedType DEF CatchArm, At
  <2>2. ArmOf(Top(t).site, e) \in Nat
    BY <1>f, <2>1, ArmOfFirst DEF Arms
  <2>3. Thrown(e, raised + 1) \in Ends /\ Thrown(e, raised + 1).msg = raised + 1
    BY <2>1 DEF Ends, Thrown
  <2>4. /\ f \in Frames /\ f.pc = "what" /\ f.site = Top(t).site /\ f.slot = Top(t).slot
        /\ f.out.msg = raised + 1
    BY <1>f, <2>1, <2>2, <2>3 DEF Frames
  <2> HIDE DEF f
  <2>5. SlotOK(f)
    BY <1>f, <2>1, <2>4 DEF SlotOK
  <2>6. c \in Seq(Msg) /\ c = Append(caught[t], f.out.msg)
    BY <1>f, <2>1, <2>4
  <2> HIDE DEF c
  <2> QED BY <2>1, <2>4, <2>5, <2>6, CaughtPut
<1>3. ASSUME NEW t \in Thread, NEW e \in Exc, NEW tag \in Nat \ {0}, At(t, "body"),
             Put(t, [Top(t) EXCEPT !.pc = "raw", !.out = Thrown(e, raised + 1),
                                   !.raw = [tag |-> tag, message |-> Static]]),
             raised + 1 \in Msg, caught' = caught
      PROVE  Caught'
  <2> DEFINE f == [Top(t) EXCEPT !.pc = "raw", !.out = Thrown(e, raised + 1),
                                 !.raw = [tag |-> tag, message |-> Static]]
  <2>1. /\ Put(t, f) /\ stack[t] # <<>> /\ Top(t).pc = "body"
        /\ caught' = [caught EXCEPT ![t] = caught[t]]
    BY <1>0, <1>3 DEF At
  <2>2. Thrown(e, raised + 1) \in Ends /\ [tag |-> tag, message |-> Static] \in [tag : Nat, message : Pointers]
    BY <1>3, StaticRaw DEF Ends
  <2>3. /\ f \in Frames /\ f.pc = "raw" /\ f.site = Top(t).site /\ f.slot = Top(t).slot
        /\ f.raw.tag = tag
    BY <1>f, <2>1, <2>2 DEF Frames
  <2> HIDE DEF f
  <2>4. SlotOK(f)
    BY <1>f, <2>1, <2>3 DEF SlotOK, OkTag
  <2> QED BY <1>f, <2>1, <2>3, <2>4, CaughtPut
<1>4. ASSUME NEW t \in Thread, NEW e \in Exc, CatchUnknown(t, e) PROVE Caught'
  <2>1. UnknownTag \in Nat \ {0}
    BY DEF UnknownTag
  <2> QED BY <1>3, <1>4, <2>1, RaisedType DEF CatchUnknown
<1>5. ASSUME NEW t \in Thread, NEW e \in Exc, CatchTyped(t, e) PROVE Caught'
  <2> DEFINE i == Selector(Top(t).site, e)
  <2>1. stack[t] # <<>> /\ i # 0
    BY <1>5 DEF CatchTyped, At
  <2>2. Catches[Top(t).site] \in Seq(Std) /\ i \in DOMAIN Catches[Top(t).site]
    BY <1>f, <2>1, SelectorFirst, ThrowingAssumption
  <2>3. i \in Nat \ {0}
    BY <2>2
  <2> HIDE DEF i
  <2>4. TypedBase + i - 1 \in Nat \ {0}
    BY <2>3 DEF TypedBase
  <2> QED BY <1>3, <1>5, <2>4, RaisedType DEF CatchTyped, i
<1>6. ASSUME NEW t \in Thread, CopyWhat(t) PROVE Caught'
  <2> DEFINE raw == [tag |-> ArmTag(Top(t).site, Top(t).arm),
                     message |-> Into(Top(t).site, Top(t).arm)]
             f == [Top(t) EXCEPT !.pc = "raw", !.raw = raw]
             c == SubSeq(caught[t], 1, Len(caught[t]) - 1)
  <2>1. /\ Put(t, f) /\ stack[t] # <<>> /\ Top(t).pc = "what" /\ caught' = [caught EXCEPT ![t] = c]
    BY <1>6 DEF CopyWhat, At
  <2>2. Top(t).site \in Site \ Native /\ Top(t).arm \in Arms(Top(t).site)
    BY <1>f, <2>1, ArmOfFirst DEF FrameOK, Catching
  <2>3. Len(Catches[Top(t).site]) \in Nat /\ Top(t).arm \in Nat /\ Top(t).arm >= 1
    BY <2>2, ThrowingAssumption DEF Arms
  <2>4. ArmTag(Top(t).site, Top(t).arm) \in Nat \ {0}
    BY <2>3 DEF ArmTag, StdTag, TypedBase
  <2>5. raw \in [tag : Nat, message : Pointers] /\ raw.tag # OkTag
    BY <2>2, <2>3, <2>4 DEF Pointers, OkTag
  <2> HIDE DEF raw
  <2>6. /\ f \in Frames /\ f.pc = "raw" /\ f.site = Top(t).site /\ f.slot = Top(t).slot
        /\ f.raw = raw
    BY <1>f, <2>1, <2>5 DEF Frames
  <2> HIDE DEF f
  <2>7. SlotOK(f)
    BY <1>f, <2>1, <2>5, <2>6 DEF SlotOK
  <2>8. c \in Seq(Msg)
    <3>1. Len(caught[t]) \in Nat /\ \A i \in 1 .. Len(caught[t]) - 1 : caught[t][i] \in Msg
      BY <1>f, <2>1
    <3> QED BY <3>1
  <2> QED BY <2>1, <2>6, <2>7, <2>8, CaughtPut
<1>7. CASE UNCHANGED vars
  BY <1>7 DEF vars, Caught, CatchesBalanced
<1> QED BY <1>1, <1>2, <1>4, <1>5, <1>6, <1>7, CaughtCall, CaughtDecode DEF Next

LEMMA CaughtCorrect == Spec => [](IInv /\ Caught)
<1>1. Init => IInv /\ Caught
  <2> SUFFICES ASSUME Init PROVE Caught
    BY InitIs
  <2>1. \A t \in Thread : stack[t] = <<>> /\ caught[t] = <<>>
    BY DEF Init
  <2>2. caught \in [Thread -> Seq(Msg)]
    <3>1. <<>> \in Seq(Msg)
      OBVIOUS
    <3> QED BY <3>1 DEF Init
  <2>3. InOrder(<<>>, <<>>)
    <3>1. Catchers(<<>>) = {} /\ DOMAIN <<>> = {}
      BY DEF Catchers
    <3> DEFINE at == [i \in {} |-> 0]
    <3>2. at \in [DOMAIN <<>> -> Catchers(<<>>)]
      BY <3>1
    <3>3. /\ \A i, j \in DOMAIN <<>> : i < j => at[i] < at[j]
          /\ \A k \in Catchers(<<>>) : \E i \in DOMAIN <<>> : at[i] = k
          /\ \A i \in DOMAIN <<>> : <<>>[i] = <<>>[at[i]].out.msg
      BY <3>1
    <3> HIDE DEF at
    <3> QED BY <3>2, <3>3 DEF InOrder
  <2>4. \A t \in Thread : DOMAIN stack[t] = {}
    BY <2>1
  <2>5. CatchesBalanced
    BY <2>1, <2>3 DEF CatchesBalanced
  <2>6. \A t \in Thread : \A i \in DOMAIN stack[t] : SlotOK(stack[t][i])
    BY <2>4
  <2> QED BY <2>2, <2>5, <2>6 DEF Caught
<1>2. IInv /\ Caught /\ [Next]_vars => IInv' /\ Caught'
  BY CaughtNext, NextKeeps
<1> QED BY <1>1, <1>2, PTL DEF Spec

(* CatchesBalanced: no catch is left open, and catches end in order.         *)
THEOREM CatchesCorrect == Spec => []CatchesBalanced
<1>1. IInv /\ Caught => CatchesBalanced
  BY DEF Caught
<1> QED BY <1>1, CaughtCorrect, PTL

(* SlotAgreesWithTag: the wrapper reads the slot exactly when it was filled. *)
THEOREM SlotsCorrect == Spec => []SlotAgreesWithTag
<1>1. IInv /\ Caught => SlotAgreesWithTag
  <2> SUFFICES ASSUME IInv, Caught, NEW t \in Thread, At(t, "raw")
               PROVE  (Top(t).slot = "uninit") = (Top(t).raw.tag # OkTag /\ Ret[Top(t).site] # "void")
    BY DEF SlotAgreesWithTag
  <2>1. Top(t) = stack[t][Depth(t)] /\ Depth(t) \in DOMAIN stack[t] /\ Top(t).pc = "raw"
    BY TopFacts DEF At, Depth
  <2>2. SlotOK(Top(t))
    BY <2>1 DEF Caught
  <2> QED BY <2>1, <2>2 DEF SlotOK
<1> QED BY <1>1, CaughtCorrect, PTL
=============================================================================
