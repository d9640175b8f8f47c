--------------------------- MODULE SequenceLemmas ---------------------------
(* Lemmas about numbers and sequences that the proofs of several components  *)
(* cite: induction, the first index that passes a test, and what             *)
(* FlattenSeq makes of a sequence of sequences.                              *)
EXTENDS Integers, Sequences, SequencesExt, FiniteSets, TLAPS, WellFoundedInduction,
        FiniteSetTheorems

Less == {ss \in Nat \X Nat : ss[1] < ss[2]}

(* A set of naturals has a least element.                                    *)
LEMMA Least ==
  ASSUME NEW T, T \subseteq Nat, T # {}
  PROVE  \E x \in T : \A y \in T : x <= y
<1>1. IsWellFoundedOn(Less, Nat)
  BY NatLessThanWellFounded DEF OpToRel, Less
<1>2. \E x \in T : \A y \in T : ~ (<<y, x>> \in Less)
  BY <1>1, WFMin
<1>3. ASSUME NEW x \in T, NEW y \in T, <<y, x>> \notin Less PROVE x <= y
  BY <1>3 DEF Less
<1> QED BY <1>2, <1>3

(* Induction, for a property written as the set of numbers that have it.     *)
LEMMA Induct ==
  ASSUME NEW T, \A n \in Nat : (\A k \in Nat : k < n => k \in T) => n \in T
  PROVE  Nat \subseteq T
<1> SUFFICES ASSUME Nat \ T # {} PROVE FALSE
  OBVIOUS
<1>1. PICK x \in Nat \ T : \A y \in Nat \ T : x <= y
  BY Least
<1>2. \A k \in Nat : k < x => k \in T
  BY <1>1
<1> QED BY <1>1, <1>2

(* The first index of a sequence that passes a test, and 0 when none does.   *)
First(I) == IF I # {} THEN CHOOSE x \in I : \A y \in I : x <= y ELSE 0

(* Its result is the least such index.                                      *)
LEMMA FirstOf ==
  ASSUME NEW n \in Nat, NEW I \in SUBSET (1 .. n)
  PROVE  /\ I = {} => First(I) = 0
         /\ I # {} => First(I) \in I /\ \A y \in I : First(I) <= y
<1>1. I \subseteq Nat
  OBVIOUS
<1>2. I # {} => \E x \in I : \A y \in I : x <= y
  BY <1>1, Least
<1> QED BY <1>2 DEF First

-----------------------------------------------------------------------------
(* FlattenSeq. *)

Rows(S) == Seq(Seq(S))
IsFlat(f, ss, n) ==
  f = [i \in 1 .. n |-> IF i = 1 THEN ss[i] ELSE f[i - 1] \o ss[i]]

(* One step of the flattening.                                               *)
LEMMA FlatSteps ==
  ASSUME NEW S, NEW ss \in Rows(S), ss # << >>
  PROVE  \E f \in [1 .. Len(ss) -> Seq(S)] :
           /\ FlattenSeq(ss) = f[Len(ss)]
           /\ f[1] = ss[1]
           /\ \A i \in 2 .. Len(ss) : f[i] = f[i - 1] \o ss[i]
<1>1. Len(ss) \in Nat \ {0} /\ \A i \in 1 .. Len(ss) : ss[i] \in Seq(S)
  BY DEF Rows
<1> DEFINE T == {j \in Nat : j <= Len(ss) => \E f : IsFlat(f, ss, j)}
<1>2. ASSUME NEW j \in Nat, \A k \in Nat : k < j => k \in T, j <= Len(ss)
      PROVE  \E f : IsFlat(f, ss, j)
  <2>1. CASE j = 0
    <3> DEFINE f == [i \in 1 .. j |-> << >>]
    <3>1. 1 .. j = {}
      BY <2>1
    <3>2. f = [i \in 1 .. j |-> IF i = 1 THEN ss[i] ELSE f[i - 1] \o ss[i]]
      BY <3>1
    <3> QED BY <3>2 DEF IsFlat
  <2>2. CASE j # 0
    <3>1. PICK f : IsFlat(f, ss, j - 1)
      <4>1. j - 1 \in Nat /\ j - 1 < j /\ j - 1 <= Len(ss)
        BY <1>2, <2>2, <1>1
      <4>2. j - 1 \in T
        BY <1>2, <4>1
      <4> QED BY <4>1, <4>2
    <3> DEFINE last == IF j = 1 THEN ss[j] ELSE f[j - 1] \o ss[j]
               g == [i \in 1 .. j |-> IF i = j THEN last ELSE f[i]]
    <3>2. ASSUME NEW i \in 1 .. j
          PROVE  g[i] = (IF i = 1 THEN ss[i] ELSE g[i - 1] \o ss[i])
      <4>1. i # 1 => g[i - 1] = f[i - 1]
        BY <1>2
      <4>2. CASE i = j
        BY <4>1, <4>2
      <4>3. CASE i # j
        <5>1. i \in 1 .. (j - 1)
          BY <1>2, <4>3
        <5>2. f[i] = IF i = 1 THEN ss[i] ELSE f[i - 1] \o ss[i]
          BY <3>1, <5>1 DEF IsFlat
        <5> QED BY <4>1, <4>3, <5>1, <5>2
      <4> QED BY <4>2, <4>3
    <3> HIDE DEF last
    <3>3. g = [i \in 1 .. j |-> IF i = 1 THEN ss[i] ELSE g[i - 1] \o ss[i]]
      BY <3>2
    <3> QED BY <3>3 DEF IsFlat
  <2> QED BY <2>1, <2>2
<1>3. \A j \in Nat : (\A k \in Nat : k < j => k \in T) => j \in T
  BY <1>2
<1> HIDE DEF T
<1>4. Nat \subseteq T
  BY <1>3, Induct
<1>5. \E f : IsFlat(f, ss, Len(ss))
  BY <1>1, <1>4 DEF T
<1> DEFINE g == CHOOSE f : IsFlat(f, ss, Len(ss))
<1>6. FlattenSeq(ss) = g[Len(ss)]
  BY <1>1 DEF FlattenSeq, IsFlat
<1>7. IsFlat(g, ss, Len(ss))
  BY <1>5
<1> HIDE DEF g
<1>8. /\ DOMAIN g = 1 .. Len(ss)
      /\ \A i \in 1 .. Len(ss) : g[i] = IF i = 1 THEN ss[i] ELSE g[i - 1] \o ss[i]
      /\ g = [i \in 1 .. Len(ss) |-> g[i]]
  BY <1>7 DEF IsFlat
<1> DEFINE U == {j \in Nat : j \in 1 .. Len(ss) => g[j] \in Seq(S)}
<1>9. ASSUME NEW j \in Nat, \A k \in Nat : k < j => k \in U, j \in 1 .. Len(ss)
      PROVE  g[j] \in Seq(S)
  <2>1. g[j] = IF j = 1 THEN ss[j] ELSE g[j - 1] \o ss[j]
    BY <1>8, <1>9
  <2>2. j # 1 => g[j - 1] \in Seq(S)
    BY <1>1, <1>9
  <2>3. ss[j] \in Seq(S)
    BY <1>1, <1>9
  <2> QED BY <2>1, <2>2, <2>3
<1>10. \A j \in Nat : (\A k \in Nat : k < j => k \in U) => j \in U
  BY <1>9
<1> HIDE DEF U
<1>11. Nat \subseteq U
  BY <1>10, Induct
<1>12. \A i \in 1 .. Len(ss) : g[i] \in Seq(S)
  BY <1>1, <1>11 DEF U
<1>13. g \in [1 .. Len(ss) -> Seq(S)]
  BY <1>8, <1>12
<1>14. g[1] = ss[1] /\ \A i \in 2 .. Len(ss) : g[i] = g[i - 1] \o ss[i]
  <2>1. 1 \in 1 .. Len(ss) /\ \A i \in 2 .. Len(ss) : i \in 1 .. Len(ss) /\ i # 1
    BY <1>1
  <2> QED BY <1>8, <2>1
<1> QED BY <1>6, <1>13, <1>14

(* Sequences one after the other hold what each holds.                       *)
LEMMA FlatType ==
  ASSUME NEW S, NEW ss \in Rows(S)
  PROVE  FlattenSeq(ss) \in Seq(S)
<1>1. CASE ss = << >>
  BY <1>1 DEF FlattenSeq
<1>2. CASE ss # << >>
  <2>1. PICK f \in [1 .. Len(ss) -> Seq(S)] : FlattenSeq(ss) = f[Len(ss)]
    BY <1>2, FlatSteps
  <2>2. Len(ss) \in 1 .. Len(ss)
    BY <1>2 DEF Rows
  <2> QED BY <2>1, <2>2
<1> QED BY <1>1, <1>2

(* Where the sequences s[1], .., s[n] lie when they follow one another: the  *)
(* i-th starts after place off[i].                                           *)
IsOffsets(off, w, n) ==
  /\ off \in [1 .. (n + 1) -> Nat]
  /\ off[1] = 0
  /\ \A i \in 1 .. n : off[i + 1] = off[i] + w[i]
(* A later sequence starts no earlier.                                       *)
LEMMA OffsetsGrow ==
  ASSUME NEW n \in Nat, NEW w \in [1 .. n -> Nat], NEW off, IsOffsets(off, w, n)
  PROVE  \A i, j \in 1 .. (n + 1) : i <= j => off[i] <= off[j]
<1>1. /\ off \in [1 .. (n + 1) -> Nat]
      /\ \A i \in 1 .. n : off[i + 1] = off[i] + w[i]
  BY DEF IsOffsets
<1> SUFFICES ASSUME NEW i \in 1 .. (n + 1)
             PROVE  \A j \in 1 .. (n + 1) : i <= j => off[i] <= off[j]
  OBVIOUS
<1> DEFINE T == {j \in Nat : j \in 1 .. (n + 1) /\ i <= j => off[i] <= off[j]}
<1>2. ASSUME NEW j \in Nat, \A k \in Nat : k < j => k \in T, j \in 1 .. (n + 1), i <= j
      PROVE  off[i] <= off[j]
  <2>1. CASE i = j
    BY <1>1, <1>2, <2>1
  <2>2. CASE i # j
    <3>1. j - 1 \in Nat /\ j - 1 < j /\ j - 1 \in 1 .. n /\ i <= j - 1
      BY <1>2, <2>2
    <3>2. off[i] <= off[j - 1]
      BY <1>2, <3>1
    <3>3. off[j] = off[j - 1] + w[j - 1]
      <4>1. off[(j - 1) + 1] = off[j - 1] + w[j - 1]
        BY <1>1, <3>1
      <4>2. (j - 1) + 1 = j
        BY <1>2
      <4> QED BY <4>1, <4>2
    <3>4. off[j - 1] \in Nat /\ off[i] \in Nat /\ w[j - 1] \in Nat
      <4>1. j - 1 \in 1 .. (n + 1)
        BY <3>1
      <4> QED BY <1>1, <3>1, <4>1
    <3> QED BY <3>2, <3>3, <3>4
  <2> QED BY <2>1, <2>2
<1>3. \A j \in Nat : (\A k \in Nat : k < j => k \in T) => j \in T
  BY <1>2
<1> HIDE DEF T
<1>4. Nat \subseteq T
  BY <1>3, Induct
<1> QED BY <1>4 DEF T

(* What was put together one sequence at a time lies in those places: l[i]   *)
(* is how long it is once the i-th of length w[i] is there.                  *)
Joined(f, l, s, w, n) ==
  /\ l[1] = w[1]
  /\ \A x \in 1 .. w[1] : f[1][x] = s[1][x]
  /\ \A i \in 2 .. n :
       /\ l[i] = l[i - 1] + w[i]
       /\ \A x \in 1 .. l[i - 1] : f[i][x] = f[i - 1][x]
       /\ \A x \in 1 .. w[i] : f[i][l[i - 1] + x] = s[i][x]
Laid(f, l, s, w, off, m, n) ==
  /\ \A i \in 1 .. n : \A j \in 1 .. w[i] :
       off[i] + j \in 1 .. l[m] /\ f[m][off[i] + j] = s[i][j]
  /\ \A x \in 1 .. l[m] : \E i \in 1 .. n : \E j \in 1 .. w[i] : x = off[i] + j
(* So each sequence is found at its place, and nothing else is.              *)
LEMMA JoinedLaid ==
  ASSUME NEW n \in Nat \ {0}, NEW s, NEW w \in [1 .. n -> Nat], NEW f, NEW l \in [1 .. n -> Nat],
         Joined(f, l, s, w, n)
  PROVE  \E off : IsOffsets(off, w, n) /\ l[n] = off[n + 1] /\ Laid(f, l, s, w, off, n, n)
<1>1. \A i \in 1 .. n : l[i] \in Nat /\ w[i] \in Nat
  OBVIOUS
<1>2. l[1] = w[1] /\ \A x \in 1 .. w[1] : f[1][x] = s[1][x]
  BY DEF Joined
<1>3. ASSUME NEW i \in 2 .. n
      PROVE  /\ l[i] = l[i - 1] + w[i]
             /\ \A x \in 1 .. l[i - 1] : f[i][x] = f[i - 1][x]
             /\ \A x \in 1 .. w[i] : f[i][l[i - 1] + x] = s[i][x]
  BY DEF Joined
<1> DEFINE off == [i \in 1 .. (n + 1) |-> IF i = 1 THEN 0 ELSE l[i - 1]]
<1>5. off[1] = 0 /\ \A i \in 1 .. n : off[i + 1] = l[i]
  <2>1. 1 \in 1 .. (n + 1)
    OBVIOUS
  <2>2. ASSUME NEW i \in 1 .. n PROVE off[i + 1] = l[i]
    <3>1. i + 1 \in 1 .. (n + 1) /\ i + 1 # 1 /\ (i + 1) - 1 = i
      OBVIOUS
    <3> QED BY <3>1
  <2> QED BY <2>1, <2>2
<1>6. off \in [1 .. (n + 1) -> Nat]
  <2>1. ASSUME NEW i \in 1 .. (n + 1), i # 1 PROVE l[i - 1] \in Nat
    <3>1. i - 1 \in 1 .. n
      BY <2>1
    <3> QED BY <1>1, <3>1
  <2> QED BY <2>1
<1> HIDE DEF off
<1>7. \A i \in 2 .. n : off[i] = l[i - 1]
  <2>1. ASSUME NEW i \in 2 .. n PROVE off[i] = l[i - 1]
    <3>1. i - 1 \in 1 .. n /\ (i - 1) + 1 = i
      OBVIOUS
    <3> QED BY <1>5, <3>1
  <2> QED BY <2>1
<1>8. IsOffsets(off, w, n)
  <2>1. ASSUME NEW i \in 1 .. n PROVE off[i + 1] = off[i] + w[i]
    <3>1. CASE i = 1
      BY <1>1, <1>2, <1>5, <3>1
    <3>2. CASE i # 1
      <4>1. i \in 2 .. n
        BY <3>2
      <4> QED BY <1>3, <1>5, <1>7, <4>1
    <3> QED BY <3>1, <3>2
  <2> QED BY <1>5, <1>6, <2>1 DEF IsOffsets
<1> DEFINE T == {m \in Nat : m \in 1 .. n => Laid(f, l, s, w, off, m, m)}
<1>9. ASSUME NEW m \in Nat, \A k \in Nat : k < m => k \in T, m \in 1 .. n
      PROVE  Laid(f, l, s, w, off, m, m)
  <2>1. CASE m = 1
    <3>1. l[m] = w[m] /\ off[m] = 0 /\ w[m] \in Nat /\ \A x \in 1 .. w[m] : f[m][x] = s[m][x]
      BY <1>1, <1>2, <1>5, <1>9, <2>1
    <3>2. ASSUME NEW i \in 1 .. m PROVE i = m
      BY <2>1
    <3>3. ASSUME NEW j \in 1 .. w[m]
          PROVE  off[m] + j \in 1 .. l[m] /\ f[m][off[m] + j] = s[m][j]
      <4>1. off[m] + j = j
        BY <3>1
      <4> QED BY <3>1, <4>1
    <3>4. ASSUME NEW x \in 1 .. l[m] PROVE x \in 1 .. w[m] /\ x = off[m] + x
      BY <3>1
    <3>5. m \in 1 .. m
      BY <2>1
    <3>6. \A i \in 1 .. m : \A j \in 1 .. w[i] :
            off[i] + j \in 1 .. l[m] /\ f[m][off[i] + j] = s[i][j]
      BY <3>2, <3>3
    <3>7. \A x \in 1 .. l[m] : \E i \in 1 .. m : \E j \in 1 .. w[i] : x = off[i] + j
      BY <3>4, <3>5
    <3> QED BY <3>6, <3>7 DEF Laid
  <2>2. CASE m # 1
    <3>1. m \in 2 .. n /\ m - 1 \in 1 .. n /\ m - 1 < m /\ m - 1 \in Nat
      BY <1>9, <2>2
    <3>2. Laid(f, l, s, w, off, m - 1, m - 1)
      <4>1. m - 1 \in T
        BY <1>9, <3>1
      <4> QED BY <3>1, <4>1
    <3> HIDE DEF T
    <3>3. /\ l[m] = l[m - 1] + w[m]
          /\ \A x \in 1 .. l[m - 1] : f[m][x] = f[m - 1][x]
          /\ \A x \in 1 .. w[m] : f[m][l[m - 1] + x] = s[m][x]
          /\ l[m] \in Nat /\ l[m - 1] \in Nat /\ w[m] \in Nat /\ off[m] = l[m - 1]
      BY <1>1, <1>3, <1>7, <1>9, <3>1
    <3>4. ASSUME NEW i \in 1 .. m, NEW j \in 1 .. w[i]
          PROVE  off[i] + j \in 1 .. l[m] /\ f[m][off[i] + j] = s[i][j]
      <4>1. CASE i = m
        <5>1. j \in 1 .. w[m] /\ w[m] \in Nat
          BY <3>3, <4>1
        <5>2. off[m] + j \in 1 .. l[m] /\ f[m][off[m] + j] = s[m][j]
          BY <3>3, <5>1
        <5> QED BY <4>1, <5>2
      <4>2. CASE i # m
        <5>1. i \in 1 .. (m - 1)
          BY <3>1, <4>2
        <5>2. off[i] + j \in 1 .. l[m - 1] /\ f[m - 1][off[i] + j] = s[i][j]
          BY <3>2, <5>1 DEF Laid
        <5>3. ASSUME NEW x \in 1 .. l[m - 1] PROVE x \in 1 .. l[m]
          BY <3>3
        <5> QED BY <3>3, <5>2, <5>3
      <4> QED BY <4>1, <4>2
    <3>5. ASSUME NEW x \in 1 .. l[m]
          PROVE  \E i \in 1 .. m : \E j \in 1 .. w[i] : x = off[i] + j
      <4>1. CASE x <= l[m - 1]
        <5>1. x \in 1 .. l[m - 1]
          BY <3>3, <4>1
        <5>2. PICK i \in 1 .. (m - 1) : \E j \in 1 .. w[i] : x = off[i] + j
          BY <3>2, <5>1 DEF Laid
        <5>3. i \in 1 .. m
          BY <3>1
        <5> QED BY <5>2, <5>3
      <4>2. CASE x > l[m - 1]
        <5> DEFINE j == x - l[m - 1]
        <5>1. j \in 1 .. w[m] /\ x = off[m] + j
          BY <3>3, <4>2
        <5>2. m \in 1 .. m
          BY <3>1
        <5> HIDE DEF j
        <5> QED BY <5>1, <5>2
      <4> QED BY <3>3, <4>1, <4>2
    <3> QED BY <3>4, <3>5 DEF Laid
  <2> QED BY <2>1, <2>2
<1>10. \A m \in Nat : (\A k \in Nat : k < m => k \in T) => m \in T
  BY <1>9
<1> HIDE DEF T
<1>11. Nat \subseteq T
  BY <1>10, Induct
<1>12. n \in T /\ n \in 1 .. n
  BY <1>11
<1>13. Laid(f, l, s, w, off, n, n)
  BY <1>12 DEF T
<1>14. l[n] = off[n + 1]
  BY <1>5, <1>12
<1> QED BY <1>8, <1>13, <1>14

(* The length of a sequence, as a number on its own.                         *)
LEMMA Measured ==
  ASSUME NEW S, NEW s \in Seq(S)
  PROVE  /\ \E n \in Nat : n = Len(s) /\ DOMAIN s = 1 .. n /\ (n = 0 <=> s = << >>)
         /\ \A i \in DOMAIN s : s[i] \in S
<1>1. Len(s) \in Nat /\ DOMAIN s = 1 .. Len(s) /\ (Len(s) = 0 <=> s = << >>)
  OBVIOUS
<1>2. \A i \in DOMAIN s : s[i] \in S
  OBVIOUS
<1> DEFINE n == Len(s)
<1>3. n \in Nat /\ n = Len(s) /\ DOMAIN s = 1 .. n /\ (n = 0 <=> s = << >>)
  BY <1>1
<1> HIDE DEF n
<1> QED BY <1>2, <1>3

(* The two parts of a concatenation.                                         *)
LEMMA ConcatParts ==
  ASSUME NEW S, NEW a \in Seq(S), NEW b \in Seq(S), NEW la, NEW lb, la = Len(a), lb = Len(b)
  PROVE  /\ Len(a \o b) = la + lb
         /\ \A x \in 1 .. la : (a \o b)[x] = a[x]
         /\ \A x \in 1 .. lb : (a \o b)[la + x] = b[x]
  OBVIOUS

(* A sequence is one of the things that occur in it, and stays one.          *)
OfItsOwn(s) == s \in Seq(Range(s))
(* An element is appended.                                                   *)
LEMMA Appended ==
  ASSUME NEW s, OfItsOwn(s), NEW x
  PROVE  /\ OfItsOwn(Append(s, x))
         /\ \E n \in Nat :
              /\ Len(s) = n /\ DOMAIN s = 1 .. n
              /\ Len(Append(s, x)) = n + 1 /\ DOMAIN Append(s, x) = 1 .. (n + 1)
              /\ \A i \in 1 .. n : Append(s, x)[i] = s[i]
              /\ Append(s, x)[n + 1] = x
         /\ Range(Append(s, x)) = Range(s) \cup {x}
<1> DEFINE S == Range(s) \cup {x}
           t == Append(s, x)
<1>1. s \in Seq(Range(s))
  BY DEF OfItsOwn
<1>2. \A R : \A y \in Seq(R) : \A Q : R \subseteq Q => y \in Seq(Q)
  OBVIOUS
<1>3. s \in Seq(S) /\ x \in S
  BY <1>1, <1>2
<1> HIDE DEF S
<1>4. PICK n \in Nat : n = Len(s) /\ DOMAIN s = 1 .. n
  BY <1>3, Measured
<1>5. /\ t \in Seq(S) /\ Len(t) = Len(s) + 1
      /\ DOMAIN t = 1 .. (Len(s) + 1)
      /\ \A i \in 1 .. Len(s) : t[i] = s[i]
      /\ t[Len(s) + 1] = x
  BY <1>3
<1> HIDE DEF t
<1>6. /\ Len(t) = n + 1 /\ DOMAIN t = 1 .. (n + 1)
      /\ \A i \in 1 .. n : t[i] = s[i]
      /\ t[n + 1] = x
  BY <1>4, <1>5
<1>7. Range(t) = Range(s) \cup {x}
  <2>1. n + 1 \in DOMAIN t /\ \A i \in DOMAIN s : i \in DOMAIN t /\ t[i] = s[i]
    BY <1>4, <1>6
  <2>2. \A i \in DOMAIN t : i \in DOMAIN s \/ i = n + 1
    BY <1>4, <1>6
  <2> QED BY <1>6, <2>1, <2>2 DEF Range
<1>8. t \in Seq(Range(t))
  BY <1>5, <1>7 DEF S
<1> QED BY <1>4, <1>6, <1>7, <1>8 DEF OfItsOwn, t

(* FlattenSeq lays out the sequences it joins.                               *)
Widths(ss) == [i \in DOMAIN ss |-> Len(ss[i])]
(* Each sequence is found at its offset in the result.                       *)
LEMMA FlatPlaces ==
  ASSUME NEW S, NEW ss \in Rows(S)
  PROVE  \E off :
           /\ IsOffsets(off, Widths(ss), Len(ss))
           /\ FlattenSeq(ss) \in Seq(S)
           /\ Len(FlattenSeq(ss)) = off[Len(ss) + 1]
           /\ \A i \in DOMAIN ss : \A j \in DOMAIN ss[i] :
                /\ off[i] + j \in DOMAIN FlattenSeq(ss)
                /\ FlattenSeq(ss)[off[i] + j] = ss[i][j]
           /\ \A x \in DOMAIN FlattenSeq(ss) :
                \E i \in DOMAIN ss : \E j \in DOMAIN ss[i] : x = off[i] + j
<1>1. CASE ss = << >>
  <2> DEFINE off == [i \in 1 .. 1 |-> 0]
  <2>1. FlattenSeq(ss) = << >> /\ Len(ss) = 0 /\ DOMAIN ss = {}
    BY <1>1 DEF FlattenSeq
  <2>2. off \in [1 .. (0 + 1) -> Nat] /\ off[1] = 0 /\ off[0 + 1] = 0
    OBVIOUS
  <2>3. 1 .. 0 = {} /\ Len(FlattenSeq(ss)) = 0 /\ DOMAIN FlattenSeq(ss) = {}
    BY <2>1
  <2> HIDE DEF off
  <2>4. IsOffsets(off, Widths(ss), Len(ss))
    <3>1. IsOffsets(off, Widths(ss), 0)
      BY <2>2, <2>3 DEF IsOffsets
    <3> QED BY <2>1, <3>1
  <2>5. Len(FlattenSeq(ss)) = off[Len(ss) + 1]
    BY <2>1, <2>2, <2>3
  <2>6. FlattenSeq(ss) \in Seq(S)
    BY <2>1
  <2> QED BY <2>1, <2>3, <2>4, <2>5, <2>6
<1>2. CASE ss # << >>
  <2>1. PICK f \in [1 .. Len(ss) -> Seq(S)] :
           /\ FlattenSeq(ss) = f[Len(ss)]
           /\ f[1] = ss[1]
           /\ \A i \in 2 .. Len(ss) : f[i] = f[i - 1] \o ss[i]
    BY <1>2, FlatSteps
  <2>2. PICK n \in Nat : n = Len(ss) /\ DOMAIN ss = 1 .. n /\ (n = 0 <=> ss = << >>)
    BY Measured DEF Rows
  <2>3. FlattenSeq(ss) \in Seq(S)
    BY FlatType
  <2>4. \A i \in 1 .. n : ss[i] \in Seq(S)
    BY <2>2, Measured DEF Rows
  <2>5. n \in Nat \ {0}
    BY <1>2, <2>2
  <2>6. /\ f \in [1 .. n -> Seq(S)] /\ FlattenSeq(ss) = f[n] /\ f[1] = ss[1]
        /\ \A i \in 2 .. n : f[i] = f[i - 1] \o ss[i]
    BY <2>1, <2>2
  <2> DEFINE w == Widths(ss)
             l == [i \in 1 .. n |-> Len(f[i])]
  <2>7. /\ w \in [1 .. n -> Nat]
        /\ \A i \in 1 .. n : w[i] = Len(ss[i]) /\ DOMAIN ss[i] = 1 .. w[i]
    BY <2>2, <2>4, Measured DEF Widths
  <2>8. /\ l \in [1 .. n -> Nat]
        /\ \A i \in 1 .. n : l[i] = Len(f[i]) /\ DOMAIN f[i] = 1 .. l[i]
    BY <2>6, Measured
  <2> HIDE DEF w, l
  <2>9. ASSUME NEW i \in 2 .. n
        PROVE  /\ l[i] = l[i - 1] + w[i]
               /\ \A x \in 1 .. l[i - 1] : f[i][x] = f[i - 1][x]
               /\ \A x \in 1 .. w[i] : f[i][l[i - 1] + x] = ss[i][x]
    <3>1. i \in 1 .. n /\ i - 1 \in 1 .. n
      BY <2>5
    <3>2. f[i - 1] \in Seq(S) /\ ss[i] \in Seq(S) /\ f[i] = f[i - 1] \o ss[i]
      BY <2>4, <2>6, <3>1
    <3>4. l[i - 1] = Len(f[i - 1]) /\ w[i] = Len(ss[i]) /\ l[i] = Len(f[i])
      BY <2>7, <2>8, <3>1
    <3> DEFINE a == f[i - 1]
               b == ss[i]
               la == l[i - 1]
               lb == w[i]
    <3>5. a \in Seq(S) /\ b \in Seq(S) /\ la = Len(a) /\ lb = Len(b) /\ f[i] = a \o b
      BY <3>2, <3>4
    <3> HIDE DEF a, b, la, lb
    <3>6. /\ Len(a \o b) = la + lb
          /\ \A x \in 1 .. la : (a \o b)[x] = a[x]
          /\ \A x \in 1 .. lb : (a \o b)[la + x] = b[x]
      BY <3>5, ConcatParts
    <3>7. l[i] = la + lb
      BY <3>4, <3>5, <3>6
    <3> QED BY <3>5, <3>6, <3>7, Zenon DEF a, b, la, lb
  <2>10. Joined(f, l, ss, w, n)
    <3>1. 1 \in 1 .. n
      BY <2>5
    <3>2. l[1] = w[1]
      BY <2>6, <2>7, <2>8, <3>1
    <3> QED BY <2>6, <2>9, <3>2 DEF Joined
  <2>11. PICK off : IsOffsets(off, w, n) /\ l[n] = off[n + 1] /\ Laid(f, l, ss, w, off, n, n)
    BY <2>5, <2>7, <2>8, <2>10, JoinedLaid
  <2>12. n \in 1 .. n
    BY <2>5
  <2>13. DOMAIN FlattenSeq(ss) = 1 .. l[n] /\ Len(FlattenSeq(ss)) = off[n + 1]
    BY <2>6, <2>8, <2>11, <2>12
  <2>14. ASSUME NEW i \in DOMAIN ss, NEW j \in DOMAIN ss[i]
         PROVE  /\ off[i] + j \in DOMAIN FlattenSeq(ss)
                /\ FlattenSeq(ss)[off[i] + j] = ss[i][j]
    <3>1. i \in 1 .. n /\ j \in 1 .. w[i]
      BY <2>2, <2>7
    <3> QED BY <2>6, <2>11, <2>13, <3>1 DEF Laid
  <2>15. ASSUME NEW x \in DOMAIN FlattenSeq(ss)
         PROVE  \E i \in DOMAIN ss : \E j \in DOMAIN ss[i] : x = off[i] + j
    <3>1. PICK i \in 1 .. n : \E j \in 1 .. w[i] : x = off[i] + j
      BY <2>11, <2>13 DEF Laid
    <3> QED BY <2>2, <2>7, <3>1
  <2>16. IsOffsets(off, Widths(ss), Len(ss)) /\ off[n + 1] = off[Len(ss) + 1]
    BY <2>2, <2>11 DEF w
  <2> QED BY <2>3, <2>13, <2>14, <2>15, <2>16
<1> QED BY <1>1, <1>2

(* Of places none of which holds more than one thing, those that hold one:   *)
(* `pos' lists them in order.                                                *)
Holding(w, off, m, n) ==
  /\ \A x \in 1 .. m : \E i \in 1 .. n : w[i] = 1 /\ x = off[i] + 1
  /\ \A i \in 1 .. n : w[i] = 1 => off[i] + 1 \in 1 .. m
Lists(pos, w, off, m, n) ==
  /\ \A x \in 1 .. m : w[pos[x]] = 1 /\ x = off[pos[x]] + 1
  /\ \A x, y \in 1 .. m : x < y => pos[x] < pos[y]
  /\ \A i \in 1 .. n : w[i] = 1 => \E x \in 1 .. m : pos[x] = i
(* Such a list exists.                                                       *)
LEMMA Holders ==
  ASSUME NEW n \in Nat, NEW m \in Nat, NEW w \in [1 .. n -> {0, 1}],
         NEW off, IsOffsets(off, w, n), Holding(w, off, m, n)
  PROVE  \E pos \in [1 .. m -> 1 .. n] : Lists(pos, w, off, m, n)
<1>1. /\ off \in [1 .. (n + 1) -> Nat]
      /\ \A i \in 1 .. n : off[i + 1] = off[i] + w[i]
  BY DEF IsOffsets
<1>2. w \in [1 .. n -> Nat]
  OBVIOUS
<1>3. \A i, j \in 1 .. (n + 1) : i <= j => off[i] <= off[j]
  BY <1>2, OffsetsGrow
<1> DEFINE at(x) == CHOOSE i \in 1 .. n : w[i] = 1 /\ x = off[i] + 1
           pos == [x \in 1 .. m |-> at(x)]
<1>4. \A x \in 1 .. m : pos[x] \in 1 .. n /\ w[pos[x]] = 1 /\ x = off[pos[x]] + 1
  BY DEF Holding
<1>5. pos \in [1 .. m -> 1 .. n]
  BY DEF Holding
<1> HIDE DEF pos
<1>6. ASSUME NEW x \in 1 .. m, NEW y \in 1 .. m, x < y PROVE pos[x] < pos[y]
  <2>1. pos[x] \in 1 .. (n + 1) /\ pos[y] \in 1 .. (n + 1)
    BY <1>4
  <2>2. off[pos[x]] \in Nat /\ off[pos[y]] \in Nat
    BY <1>1, <2>1
  <2>3. x = off[pos[x]] + 1 /\ y = off[pos[y]] + 1
    BY <1>4
  <2>4. pos[y] <= pos[x] => off[pos[y]] <= off[pos[x]]
    BY <1>3, <2>1
  <2> QED BY <1>6, <2>1, <2>2, <2>3, <2>4
<1>7. ASSUME NEW i \in 1 .. n, w[i] = 1
      PROVE  \E x \in 1 .. m : pos[x] = i
  <2> DEFINE x == off[i] + 1
             p == pos[x]
  <2>1. x \in 1 .. m
    BY <1>7 DEF Holding
  <2>2. p \in 1 .. n /\ w[p] = 1 /\ x = off[p] + 1
    BY <1>4, <2>1
  <2> HIDE DEF p
  <2>3. off[i] \in Nat /\ off[p] \in Nat /\ off[i + 1] = off[i] + 1 /\ off[p + 1] = off[p] + 1
    <3>1. i \in 1 .. (n + 1) /\ p \in 1 .. (n + 1)
      BY <2>2
    <3> QED BY <1>1, <1>7, <2>2, <3>1
  <2>4. p < i => off[p + 1] <= off[i]
    <3>1. p < i => p + 1 \in 1 .. (n + 1) /\ i \in 1 .. (n + 1) /\ p + 1 <= i
      BY <2>2
    <3> QED BY <1>3, <3>1
  <2>5. i < p => off[i + 1] <= off[p]
    <3>1. i < p => i + 1 \in 1 .. (n + 1) /\ p \in 1 .. (n + 1) /\ i + 1 <= p
      BY <2>2
    <3> QED BY <1>3, <3>1
  <2>6. p = i
    BY <2>2, <2>3, <2>4, <2>5
  <2> QED BY <2>1, <2>6 DEF p
<1> QED BY <1>4, <1>5, <1>6, <1>7 DEF Lists

(* When each of the sequences holds one thing or none, FlattenSeq sifts.     *)
Sieves(S) == {ss \in Rows(S) : \A i \in DOMAIN ss : Len(ss[i]) <= 1}
(* It keeps the members of those that hold one, in order.                    *)
LEMMA Sifted ==
  ASSUME NEW S, NEW ss \in Sieves(S)
  PROVE  \E pos \in [DOMAIN FlattenSeq(ss) -> DOMAIN ss] :
           /\ FlattenSeq(ss) \in Seq(S)
           /\ \A x \in DOMAIN FlattenSeq(ss) :
                ss[pos[x]] # << >> /\ FlattenSeq(ss)[x] = ss[pos[x]][1]
           /\ \A x, y \in DOMAIN FlattenSeq(ss) : x < y => pos[x] < pos[y]
           /\ \A i \in DOMAIN ss : ss[i] # << >> =>
                \E x \in DOMAIN FlattenSeq(ss) : pos[x] = i
<1> DEFINE F == FlattenSeq(ss)
           w == Widths(ss)
<1>1. ss \in Rows(S)
  BY DEF Sieves
<1>2. PICK off : /\ IsOffsets(off, w, Len(ss))
                 /\ F \in Seq(S)
                 /\ \A i \in DOMAIN ss : \A j \in DOMAIN ss[i] :
                      off[i] + j \in DOMAIN F /\ F[off[i] + j] = ss[i][j]
                 /\ \A x \in DOMAIN F :
                      \E i \in DOMAIN ss : \E j \in DOMAIN ss[i] : x = off[i] + j
  BY <1>1, FlatPlaces
<1>3. PICK n \in Nat : n = Len(ss) /\ DOMAIN ss = 1 .. n
  BY <1>1, Measured DEF Rows
<1> HIDE DEF F, w
<1>4. PICK m \in Nat : DOMAIN F = 1 .. m
  BY <1>2, Measured
<1>5. \A i \in 1 .. n : ss[i] \in Seq(S) /\ Len(ss[i]) <= 1
  BY <1>1, <1>3, Measured DEF Rows, Sieves
<1>6. ASSUME NEW i \in 1 .. n
      PROVE  w[i] = Len(ss[i]) /\ w[i] \in {0, 1} /\ DOMAIN ss[i] = 1 .. w[i]
             /\ (w[i] = 0 <=> ss[i] = << >>)
  <2>1. PICK y \in Nat : y = Len(ss[i]) /\ DOMAIN ss[i] = 1 .. y /\ (y = 0 <=> ss[i] = << >>)
    BY <1>5, Measured
  <2>2. y <= 1
    BY <1>5, <2>1
  <2>3. w[i] = y
    BY <1>3, <2>1 DEF w, Widths
  <2>4. y \in {0, 1}
    BY <2>2
  <2> QED BY <2>1, <2>3, <2>4, Zenon
<1>7. w \in [1 .. n -> {0, 1}]
  BY <1>3, <1>6 DEF w, Widths
<1>8. IsOffsets(off, w, n)
  BY <1>2, <1>3
<1>9. ASSUME NEW x \in 1 .. m PROVE \E i \in 1 .. n : w[i] = 1 /\ x = off[i] + 1
  <2>0. x \in DOMAIN F
    BY <1>4
  <2>1. PICK i \in DOMAIN ss : \E j \in DOMAIN ss[i] : x = off[i] + j
    BY <1>2, <2>0
  <2> i \in 1 .. n
    BY <1>3
  <2>2. PICK j \in 1 .. w[i] : x = off[i] + j
    BY <1>6, <2>1
  <2>3. w[i] \in {0, 1}
    BY <1>6
  <2>4. j = 1 /\ w[i] = 1
    BY <2>3
  <2> QED BY <2>2, <2>4
<1>10. ASSUME NEW i \in 1 .. n, w[i] = 1
       PROVE  off[i] + 1 \in 1 .. m /\ F[off[i] + 1] = ss[i][1]
  <2>1. 1 \in DOMAIN ss[i]
    BY <1>6, <1>10
  <2> QED BY <1>2, <1>3, <1>4, <2>1
<1>11. PICK pos \in [1 .. m -> 1 .. n] :  Lists(pos, w, off, m, n)
  <2>1. Holding(w, off, m, n)
    BY <1>9, <1>10 DEF Holding
  <2> QED BY <1>7, <1>8, <2>1, Holders
<1>12. ASSUME NEW x \in 1 .. m PROVE ss[pos[x]] # << >> /\ F[x] = ss[pos[x]][1]
  <2>1. pos[x] \in 1 .. n /\ w[pos[x]] = 1 /\ x = off[pos[x]] + 1
    BY <1>11 DEF Lists
  <2>2. ss[pos[x]] # << >>
    BY <1>6, <2>1
  <2> QED BY <1>10, <2>1, <2>2
<1>13. ASSUME NEW i \in 1 .. n, ss[i] # << >> PROVE \E x \in 1 .. m : pos[x] = i
  BY <1>6, <1>11, <1>13 DEF Lists
<1>14. /\ pos \in [DOMAIN F -> DOMAIN ss]
       /\ \A x \in DOMAIN F : ss[pos[x]] # << >> /\ F[x] = ss[pos[x]][1]
       /\ \A x, y \in DOMAIN F : x < y => pos[x] < pos[y]
       /\ \A i \in DOMAIN ss : ss[i] # << >> => \E x \in DOMAIN F : pos[x] = i
  BY <1>3, <1>4, <1>11, <1>12, <1>13 DEF Lists
<1> QED BY <1>2, <1>14 DEF F

(* FlattenSeq keeps the order: what lies in an earlier sequence comes first. *)
FlatMap(F, ss, off) ==
  /\ \A i \in DOMAIN ss : off[i] \in Nat
  /\ \A i \in DOMAIN ss : \A j \in DOMAIN ss[i] :
       off[i] + j \in DOMAIN F /\ F[off[i] + j] = ss[i][j]
  /\ \A x \in DOMAIN F : \E i \in DOMAIN ss : \E j \in DOMAIN ss[i] : x = off[i] + j
  /\ \A i, l \in DOMAIN ss : \A j \in DOMAIN ss[i] : \A h \in DOMAIN ss[l] :
       i < l => off[i] + j < off[l] + h
(* Such offsets exist.                                                       *)
LEMMA Flat ==
  ASSUME NEW S, NEW ss \in Rows(S)
  PROVE  FlattenSeq(ss) \in Seq(S) /\ \E off : FlatMap(FlattenSeq(ss), ss, off)
<1> DEFINE F == FlattenSeq(ss)
           w == Widths(ss)
<1>1. PICK off : /\ IsOffsets(off, w, Len(ss))
                 /\ F \in Seq(S)
                 /\ \A i \in DOMAIN ss : \A j \in DOMAIN ss[i] :
                      off[i] + j \in DOMAIN F /\ F[off[i] + j] = ss[i][j]
                 /\ \A x \in DOMAIN F :
                      \E i \in DOMAIN ss : \E j \in DOMAIN ss[i] : x = off[i] + j
  BY FlatPlaces
<1>2. PICK n \in Nat : n = Len(ss) /\ DOMAIN ss = 1 .. n
  BY Measured DEF Rows
<1> HIDE DEF F, w
<1>3. ASSUME NEW i \in 1 .. n
      PROVE  w[i] = Len(ss[i]) /\ w[i] \in Nat /\ DOMAIN ss[i] = 1 .. w[i]
  <2>1. ss[i] \in Seq(S)
    BY <1>2, Measured DEF Rows
  <2>2. PICK y \in Nat : y = Len(ss[i]) /\ DOMAIN ss[i] = 1 .. y
    BY <2>1, Measured
  <2>3. w[i] = y
    BY <1>2, <2>2 DEF w, Widths
  <2> QED BY <2>2, <2>3, Zenon
<1>4. w \in [1 .. n -> Nat] /\ IsOffsets(off, w, n)
  BY <1>1, <1>2, <1>3 DEF w, Widths
<1>5. \A i, j \in 1 .. (n + 1) : i <= j => off[i] <= off[j]
  BY <1>4, OffsetsGrow
<1>6. \A i \in 1 .. n : off[i] \in Nat /\ off[i + 1] = off[i] + w[i]
  BY <1>4 DEF IsOffsets
<1>7. ASSUME NEW i \in 1 .. n, NEW l \in 1 .. n, NEW j \in 1 .. w[i], NEW h \in 1 .. w[l], i < l
      PROVE  off[i] + j < off[l] + h
  <2>1. off[i + 1] <= off[l]
    BY <1>5, <1>7
  <2>2. off[i + 1] = off[i] + w[i] /\ off[i] \in Nat /\ w[i] \in Nat /\ off[l] \in Nat
    BY <1>3, <1>6
  <2> QED BY <2>1, <2>2
<1>8. FlatMap(F, ss, off)
  <2>1. \A i, l \in DOMAIN ss : \A j \in DOMAIN ss[i] : \A h \in DOMAIN ss[l] :
          i < l => off[i] + j < off[l] + h
    BY <1>2, <1>3, <1>7
  <2> QED BY <1>1, <1>2, <1>6, <2>1 DEF FlatMap
<1> QED BY <1>1, <1>8 DEF F

(* The members of a sequence whose places are in I, in order.                *)
Sift(g, I) == FlattenSeq([i \in DOMAIN g |-> IF i \in I THEN <<g[i]>> ELSE << >>])
Sifts(F, g, I, pos) ==
  /\ pos \in [DOMAIN F -> DOMAIN g]
  /\ \A x \in DOMAIN F : pos[x] \in I /\ F[x] = g[pos[x]]
  /\ \A x, y \in DOMAIN F : x < y => pos[x] < pos[y]
  /\ \A i \in DOMAIN g : i \in I => \E x \in DOMAIN F : pos[x] = i
Seqs(S) == Seq(S)
(* Sift lists them.                                                          *)
LEMMA Sifting ==
  ASSUME NEW S, NEW g \in Seqs(S), NEW I
  PROVE  Sift(g, I) \in Seq(S) /\ \E pos : Sifts(Sift(g, I), g, I, pos)
<1> DEFINE one(i) == IF i \in I THEN <<g[i]>> ELSE << >>
           ss == [i \in DOMAIN g |-> one(i)]
           F == FlattenSeq(ss)
<1>1. PICK n \in Nat : n = Len(g) /\ DOMAIN g = 1 .. n
  BY Measured DEF Seqs
<1>2. \A i \in DOMAIN g : g[i] \in S
  BY Measured DEF Seqs
<1>3. \A i \in DOMAIN g : one(i) \in Seq(S) /\ Len(one(i)) <= 1
  BY <1>2
<1>4. \A i \in DOMAIN g : /\ one(i) # << >> <=> i \in I
                          /\ i \in I => one(i)[1] = g[i]
  OBVIOUS
<1> HIDE DEF one
<1>5. ss \in Sieves(S)
  <2>1. ss \in Seq(Seq(S))
    BY <1>1, <1>3
  <2> QED BY <1>3, <2>1 DEF Sieves, Rows
<1>6. DOMAIN ss = DOMAIN g /\ \A i \in DOMAIN g : ss[i] = one(i)
  OBVIOUS
<1> HIDE DEF ss
<1>7. PICK pos \in [DOMAIN F -> DOMAIN ss] :
           /\ F \in Seq(S)
           /\ \A x \in DOMAIN F : ss[pos[x]] # << >> /\ F[x] = ss[pos[x]][1]
           /\ \A x, y \in DOMAIN F : x < y => pos[x] < pos[y]
           /\ \A i \in DOMAIN ss : ss[i] # << >> => \E x \in DOMAIN F : pos[x] = i
  BY <1>5, Sifted
<1> HIDE DEF F
<1>8. Sifts(F, g, I, pos)
  <2>1. \A x \in DOMAIN F : pos[x] \in DOMAIN g
    BY <1>6, <1>7
  <2>2. \A x \in DOMAIN F : pos[x] \in I /\ F[x] = g[pos[x]]
    BY <1>4, <1>6, <1>7, <2>1
  <2>3. \A i \in DOMAIN g : i \in I => \E x \in DOMAIN F : pos[x] = i
    BY <1>4, <1>6, <1>7
  <2> QED BY <1>6, <1>7, <2>2, <2>3 DEF Sifts
<1>9. F = Sift(g, I)
  BY DEF F, ss, one, Sift
<1> QED BY <1>7, <1>8, <1>9

(* Any sequence is one of its own members.                                   *)
LEMMA OwnMembers == ASSUME NEW S, NEW s \in Seqs(S) PROVE OfItsOwn(s)
<1>1. s \in Seq(S)
  BY DEF Seqs
<1>2. PICK n \in Nat : n = Len(s) /\ DOMAIN s = 1 .. n
  BY <1>1, Measured
<1>3. s = [i \in 1 .. n |-> s[i]]
  BY <1>1, <1>2
<1>4. \A i \in 1 .. n : s[i] \in Range(s)
  BY <1>2 DEF Range
<1> DEFINE R == Range(s)
<1> HIDE DEF R
<1>5. [i \in 1 .. n |-> s[i]] \in Seq(R)
  BY <1>4 DEF R
<1> QED BY <1>3, <1>5 DEF OfItsOwn, R

-----------------------------------------------------------------------------
(* A loop is written as a function of the number of turns taken.             *)
(* f[i] comes from f[i - 1] by the function g[i].                            *)
IsRun(f, n, a, g) == f = [i \in 0 .. n |-> IF i = 0 THEN a ELSE g[i][f[i - 1]]]

(* There is such a function.                                                 *)
LEMMA Runs == ASSUME NEW a, NEW g PROVE \A n \in Nat : \E f : IsRun(f, n, a, g)
<1> DEFINE T == {n \in Nat : \E f : IsRun(f, n, a, g)}
<1>1. ASSUME NEW n \in Nat, \A b \in Nat : b < n => b \in T
      PROVE  \E f : IsRun(f, n, a, g)
  <2>1. CASE n = 0
    <3> DEFINE e == [i \in 0 .. 0 |-> a]
    <3>1. e = [i \in 0 .. 0 |-> IF i = 0 THEN a ELSE g[i][e[i - 1]]]
      OBVIOUS
    <3> QED BY <2>1, <3>1 DEF IsRun
  <2>2. CASE n # 0
    <3>1. n - 1 \in Nat /\ n - 1 < n
      BY <2>2
    <3>2. PICK f : IsRun(f, n - 1, a, g)
      BY <1>1, <3>1
    <3> DEFINE h == [i \in 0 .. n |-> IF i = 0 THEN a ELSE g[i][f[i - 1]]]
    <3>3. ASSUME NEW i \in 0 .. n, i # 0 PROVE f[i - 1] = h[i - 1]
      <4>1. i - 1 \in 0 .. (n - 1) /\ i - 1 \in 0 .. n
        BY <3>1, <3>3
      <4>2. f[i - 1] = (IF i - 1 = 0 THEN a ELSE g[i - 1][f[(i - 1) - 1]])
        BY <3>2, <4>1, Zenon DEF IsRun
      <4>3. h[i - 1] = (IF i - 1 = 0 THEN a ELSE g[i - 1][f[(i - 1) - 1]])
        BY <4>1, Zenon
      <4> QED BY <4>2, <4>3
    <3>4. h = [i \in 0 .. n |-> IF i = 0 THEN a ELSE g[i][h[i - 1]]]
      BY <3>3, Zenon
    <3> QED BY <3>4 DEF IsRun
  <2> QED BY <2>1, <2>2
<1>2. \A n \in Nat : (\A b \in Nat : b < n => b \in T) => n \in T
  BY <1>1
<1> HIDE DEF T
<1>3. Nat \subseteq T
  BY <1>2, Induct
<1> QED BY <1>3 DEF T

(* What each turn preserves holds after all of them.                         *)
LEMMA RunStays ==
  ASSUME NEW n \in Nat, NEW T, NEW f, f[0] \in T[0],
         \A i \in 1 .. n : f[i - 1] \in T[i - 1] => f[i] \in T[i]
  PROVE  \A i \in 0 .. n : f[i] \in T[i]
<1> DEFINE S == {i \in Nat : i <= n => f[i] \in T[i]}
<1>1. ASSUME NEW i \in Nat, \A b \in Nat : b < i => b \in S, i <= n
      PROVE  f[i] \in T[i]
  <2>1. CASE i = 0
    BY <2>1
  <2>2. CASE i # 0
    <3>1. i \in 1 .. n /\ i - 1 \in Nat /\ i - 1 < i /\ i - 1 <= n
      BY <1>1, <2>2
    <3>2. f[i - 1] \in T[i - 1]
      BY <1>1, <3>1
    <3> QED BY <3>1, <3>2
  <2> QED BY <2>1, <2>2
<1>2. \A i \in Nat : (\A b \in Nat : b < i => b \in S) => i \in S
  BY <1>1
<1> HIDE DEF S
<1>3. Nat \subseteq S
  BY <1>2, Induct
<1> QED BY <1>3 DEF S

-----------------------------------------------------------------------------
(* FlattenSeq of sequences most of which hold one thing. *)

Ones(n, w, a, b) ==
  a \in 1 .. (n + 1) /\ b \in 1 .. (n + 1) /\ a <= b /\ \A i \in a .. (b - 1) : w[i] = 1
Climbs(off, a, b) == off[b] = off[a] + (b - a)

(* Where every sequence of a stretch holds one thing, the offsets go up by   *)
(* one.                                                                      *)
LEMMA SteadyOffsets ==
  ASSUME NEW n \in Nat, NEW w, NEW off, IsOffsets(off, w, n),
         NEW a, NEW b, Ones(n, w, a, b)
  PROVE  Climbs(off, a, b)
<1> DEFINE T == {k \in Nat : k \in a .. b => off[k] = off[a] + (k - a)}
<1>1. /\ off \in [1 .. (n + 1) -> Nat]
      /\ \A i \in 1 .. n : off[i + 1] = off[i] + w[i]
      /\ a \in 1 .. (n + 1) /\ b \in 1 .. (n + 1) /\ a <= b
      /\ \A i \in a .. (b - 1) : w[i] = 1
  BY DEF IsOffsets, Ones
<1>2. ASSUME NEW k \in Nat, \A j \in Nat : j < k => j \in T PROVE k \in T
  <2>1. CASE k \notin a .. b
    BY <2>1
  <2>2. CASE k = a
    <3>1. off[a] \in Nat
      BY <1>1
    <3> QED BY <2>2, <3>1
  <2>3. CASE k \in a .. b /\ k # a
    <3>1. k - 1 \in Nat /\ k - 1 < k /\ k - 1 \in a .. b /\ k - 1 \in a .. (b - 1) /\ k - 1 \in 1 .. n
      BY <1>1, <2>3
    <3>2. off[k - 1] = off[a] + ((k - 1) - a) /\ off[a] \in Nat
      BY <1>1, <1>2, <3>1
    <3>3. off[(k - 1) + 1] = off[k - 1] + w[k - 1] /\ w[k - 1] = 1
      BY <1>1, <3>1
    <3>4. (k - 1) + 1 = k
      OBVIOUS
    <3>5. off[k] = off[a] + (k - a)
      BY <1>1, <3>2, <3>3, <3>4
    <3> QED BY <3>5
  <2> QED BY <2>1, <2>2, <2>3
<1> HIDE DEF T
<1>3. Nat \subseteq T
  BY <1>2, Induct
<1>4. b \in T /\ b \in a .. b
  BY <1>1, <1>3
<1> QED BY <1>1, <1>4 DEF T, Climbs

FlatAt(F, ss, off, S) ==
  /\ IsOffsets(off, Widths(ss), Len(ss))
  /\ F \in Seq(S)
  /\ Len(F) = off[Len(ss) + 1]
  /\ \A i \in DOMAIN ss : \A j \in DOMAIN ss[i] :
       off[i] + j \in DOMAIN F /\ F[off[i] + j] = ss[i][j]

(* FlattenSeq has such offsets.                                              *)
LEMMA FlatOffsets ==
  ASSUME NEW S, NEW ss \in Rows(S) PROVE \E off : FlatAt(FlattenSeq(ss), ss, off, S)
<1>1. PICK off :
        /\ IsOffsets(off, Widths(ss), Len(ss))
        /\ FlattenSeq(ss) \in Seq(S)
        /\ Len(FlattenSeq(ss)) = off[Len(ss) + 1]
        /\ \A i \in DOMAIN ss : \A j \in DOMAIN ss[i] :
             /\ off[i] + j \in DOMAIN FlattenSeq(ss)
             /\ FlattenSeq(ss)[off[i] + j] = ss[i][j]
        /\ \A x \in DOMAIN FlattenSeq(ss) :
             \E i \in DOMAIN ss : \E j \in DOMAIN ss[i] : x = off[i] + j
  BY FlatPlaces
<1>2. FlatAt(FlattenSeq(ss), ss, off, S)
  BY <1>1, Zenon DEF FlatAt
<1> QED BY <1>2

(* What FlattenSeq makes of sequences of one thing each, those from place p  *)
(* to place q aside, which together hold len things.                         *)
Widened(F, ss, n, p, q, len) ==
  /\ DOMAIN F = 1 .. (n + len - (q + 1 - p))
  /\ \A x \in 1 .. (p - 1) : F[x] = ss[x][1]
  /\ \A x \in (q + 1) .. n : F[x + len - (q + 1 - p)] = ss[x][1]

Within(F, ss, p) == \A j \in DOMAIN ss[p] : p - 1 + j \in DOMAIN F /\ F[p - 1 + j] = ss[p][j]
Stretch(ss, n, p, q, v, w) ==
  /\ \A i \in 1 .. n : i < p \/ i > q => Len(ss[i]) = 1
  /\ Len(ss[p]) = v
  /\ q = p \/ (q = p + 1 /\ Len(ss[q]) = w)

(* One stretch of other sequences moves those behind it.                     *)
LEMMA FlatStretch ==
  ASSUME NEW S, NEW ss \in Rows(S), NEW n \in Nat, DOMAIN ss = 1 .. n,
         NEW p \in 1 .. n, NEW q \in p .. n, NEW v \in Nat, NEW w \in Nat,
         Stretch(ss, n, p, q, v, w)
  PROVE  /\ FlattenSeq(ss) \in Seq(S)
         /\ Widened(FlattenSeq(ss), ss, n, p, q, IF q = p THEN v ELSE v + w)
         /\ Within(FlattenSeq(ss), ss, p)
<1>0. PICK off : FlatAt(FlattenSeq(ss), ss, off, S)
  BY FlatOffsets, Zenon
<1> DEFINE F == FlattenSeq(ss)
           len == IF q = p THEN v ELSE v + w
           width == Widths(ss)
<1>1. /\ IsOffsets(off, width, Len(ss))
      /\ F \in Seq(S)
      /\ Len(F) = off[Len(ss) + 1]
      /\ \A i \in DOMAIN ss : \A j \in DOMAIN ss[i] :
           off[i] + j \in DOMAIN F /\ F[off[i] + j] = ss[i][j]
  BY <1>0, Zenon DEF FlatAt
<1>2. n = Len(ss)
  BY DEF Rows
<1>3. /\ \A i \in 1 .. n : i < p \/ i > q => width[i] = 1
      /\ width[p] = v
      /\ q = p \/ (q = p + 1 /\ width[q] = w)
  BY DEF Widths, Stretch
<1>4. \A i \in 1 .. n : i < p \/ i > q => DOMAIN ss[i] = 1 .. 1
  BY DEF Rows, Stretch
<1>5. DOMAIN F = 1 .. off[n + 1]
  BY <1>1, <1>2
<1> HIDE DEF F, width
<1>6. /\ IsOffsets(off, width, n) /\ off \in [1 .. (n + 1) -> Nat] /\ off[1] = 0
      /\ \A i \in 1 .. n : off[i + 1] = off[i] + width[i]
  BY <1>1, <1>2 DEF IsOffsets
<1>7. \A x \in 1 .. p : off[x] = x - 1
  <2> SUFFICES ASSUME NEW x \in 1 .. p PROVE off[x] = x - 1
    OBVIOUS
  <2>1. Ones(n, width, 1, x)
    BY <1>3 DEF Ones
  <2>2. Climbs(off, 1, x)
    BY <1>6, <2>1, SteadyOffsets, Zenon
  <2> QED BY <1>6, <2>2 DEF Climbs
<1>8. off[q + 1] = p - 1 + len /\ len \in Nat
  <2>1. p \in 1 .. n /\ q \in 1 .. n /\ width[p] = v
    BY <1>3
  <2>2. off[p + 1] = p - 1 + v
    BY <1>6, <1>7, <2>1
  <2>3. CASE q = p
    BY <2>2, <2>3
  <2>4. CASE q # p
    <3>1. q = p + 1 /\ width[q] = w
      BY <2>1, <2>4, <1>3
    <3>2. off[q + 1] = off[q] + width[q]
      BY <1>6, <2>1
    <3> QED BY <2>2, <2>4, <3>1, <3>2
  <2> QED BY <2>3, <2>4
<1>9. \A x \in (q + 1) .. (n + 1) : off[x] = p - 1 + len + (x - (q + 1))
  <2> SUFFICES ASSUME NEW x \in (q + 1) .. (n + 1)
               PROVE  off[x] = p - 1 + len + (x - (q + 1))
    OBVIOUS
  <2>1. Ones(n, width, q + 1, x)
    BY <1>3 DEF Ones
  <2>3. Climbs(off, q + 1, x)
    BY <1>6, <2>1, SteadyOffsets, Zenon
  <2> QED BY <1>8, <2>3 DEF Climbs
<1>10. \A i \in DOMAIN ss : \A j \in DOMAIN ss[i] :
         off[i] + j \in DOMAIN F /\ F[off[i] + j] = ss[i][j]
  BY <1>1
<1> HIDE DEF len
<1>11. DOMAIN F = 1 .. (n + len - (q + 1 - p))
  <2>1. off[n + 1] = p - 1 + len + ((n + 1) - (q + 1))
    BY <1>9
  <2>2. p - 1 + len + ((n + 1) - (q + 1)) = n + len - (q + 1 - p)
    BY <1>8
  <2> QED BY <1>5, <2>1, <2>2
<1>12. \A x \in 1 .. (p - 1) : F[x] = ss[x][1]
  <2> SUFFICES ASSUME NEW x \in 1 .. (p - 1) PROVE F[x] = ss[x][1]
    OBVIOUS
  <2>1. x \in 1 .. n /\ (x < p \/ x > q) /\ x \in 1 .. p
    OBVIOUS
  <2>2. 1 \in DOMAIN ss[x]
    BY <1>4, <2>1
  <2>3. F[off[x] + 1] = ss[x][1]
    BY <1>10, <2>1, <2>2
  <2>4. off[x] + 1 = x
    BY <1>7, <2>1
  <2> QED BY <2>3, <2>4
<1>13. \A x \in (q + 1) .. n : F[x + len - (q + 1 - p)] = ss[x][1]
  <2> SUFFICES ASSUME NEW x \in (q + 1) .. n PROVE F[x + len - (q + 1 - p)] = ss[x][1]
    OBVIOUS
  <2>1. x \in 1 .. n /\ (x < p \/ x > q) /\ x \in (q + 1) .. (n + 1)
    OBVIOUS
  <2>2. 1 \in DOMAIN ss[x]
    BY <1>4, <2>1
  <2>3. F[off[x] + 1] = ss[x][1]
    BY <1>10, <2>1, <2>2
  <2>4. off[x] + 1 = x + len - (q + 1 - p)
    BY <1>8, <1>9, <2>1
  <2> QED BY <2>3, <2>4
<1>14. Within(F, ss, p)
  <2>1. p \in DOMAIN ss /\ off[p] = p - 1
    BY <1>7
  <2> QED BY <1>10, <2>1 DEF Within
<1> QED BY <1>1, <1>11, <1>12, <1>13, <1>14 DEF F, len, Widened

(* Sequences of one thing each, joined.                                      *)
LEMMA FlatOnes ==
  ASSUME NEW S, NEW ss \in Rows(S), NEW n \in Nat, DOMAIN ss = 1 .. n,
         \A i \in 1 .. n : Len(ss[i]) = 1
  PROVE  /\ FlattenSeq(ss) \in Seq(S)
         /\ DOMAIN FlattenSeq(ss) = 1 .. n /\ \A x \in 1 .. n : FlattenSeq(ss)[x] = ss[x][1]
<1>1. CASE n = 0
  <2>1. ss = << >>
    BY <1>1 DEF Rows
  <2>2. FlattenSeq(ss) = << >>
    BY <2>1 DEF FlattenSeq
  <2> QED BY <1>1, <2>2
<1>2. CASE n # 0
  <2>1. 1 \in 1 .. n /\ 1 \in 1 .. n /\ Len(ss[1]) = 1 /\ DOMAIN ss[1] = 1 .. 1
    BY <1>2 DEF Rows
  <2>2. /\ FlattenSeq(ss) \in Seq(S)
        /\ Widened(FlattenSeq(ss), ss, n, 1, 1, IF 1 = 1 THEN 1 ELSE 1 + 1)
        /\ Within(FlattenSeq(ss), ss, 1)
    <3>1. Stretch(ss, n, 1, 1, 1, 1)
      BY <2>1 DEF Stretch
    <3>2. 1 \in Nat /\ 1 \in 1 .. 1
      OBVIOUS
    <3> QED BY <2>1, <3>1, <3>2, FlatStretch
  <2>3. FlattenSeq(ss)[1] = ss[1][1]
    BY <2>1, <2>2 DEF Within
  <2>4. /\ DOMAIN FlattenSeq(ss) = 1 .. n
        /\ \A x \in 2 .. n : FlattenSeq(ss)[x] = ss[x][1]
    BY <2>2 DEF Widened
  <2> QED BY <2>2, <2>3, <2>4
<1> QED BY <1>1, <1>2

(* v is made of the sequence a, of length la, and of b after it.             *)
Joins(v, a, b, la, lb) ==
  /\ DOMAIN v = 1 .. (la + lb)
  /\ \A x \in 1 .. la : v[x] = a[x]
  /\ \A x \in 1 .. lb : v[la + x] = b[x]

(* Concatenation joins.                                                      *)
LEMMA ConcatJoins ==
  ASSUME NEW S, NEW a \in Seq(S), NEW b \in Seq(S), NEW la \in Nat, NEW lb \in Nat,
         DOMAIN a = 1 .. la, DOMAIN b = 1 .. lb
  PROVE  a \o b \in Seq(S) /\ Joins(a \o b, a, b, la, lb)
<1>1. Len(a) = la /\ Len(b) = lb
  OBVIOUS
<1>2. /\ Len(a \o b) = la + lb
      /\ \A x \in 1 .. la : (a \o b)[x] = a[x]
      /\ \A x \in 1 .. lb : (a \o b)[la + x] = b[x]
  BY <1>1, ConcatParts
<1>3. a \o b \in Seq(S) /\ DOMAIN (a \o b) = 1 .. Len(a \o b)
  OBVIOUS
<1> QED BY <1>2, <1>3 DEF Joins

PairThen(q, S, d, f, len) ==
  /\ q \in Seq(S) /\ DOMAIN q = 1 .. (2 + len)
  /\ q[1] = d[1] /\ q[2] = d[2]
  /\ \A x \in 1 .. len : q[x + 2] = f[x]

(* A pair in front moves the rest by two.                                    *)
LEMMA PairFirst ==
  ASSUME NEW S, NEW d \in Seq(S), DOMAIN d = 1 .. 2, NEW f \in Seq(S),
         NEW len \in Nat, DOMAIN f = 1 .. len
  PROVE  PairThen(d \o f, S, d, f, len)
<1> DEFINE q == d \o f
<1>1. q \in Seq(S) /\ Joins(q, d, f, 2, len)
  BY ConcatJoins
<1> HIDE DEF q
<1>2. /\ DOMAIN q = 1 .. (2 + len)
      /\ \A x \in 1 .. 2 : q[x] = d[x]
      /\ \A x \in 1 .. len : q[2 + x] = f[x]
  BY <1>1, Zenon DEF Joins
<1>3. \A x \in 1 .. len : q[x + 2] = f[x]
  <2>1. \A x \in 1 .. len : 2 + x = x + 2
    OBVIOUS
  <2> QED BY <1>2, <2>1, Zenon
<1>4. q[1] = d[1] /\ q[2] = d[2]
  BY <1>2
<1> QED BY <1>1, <1>2, <1>3, <1>4 DEF PairThen, q

=============================================================================
