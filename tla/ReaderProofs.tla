---------------------------- MODULE ReaderProofs ----------------------------
(***************************************************************************)
(* Theorems about what a server and a reader get of the articles of module *)
(* Articles: the lines between the keyword lines, the bytes they decode    *)
(* to, the file these add up to, and the list of articles in the nzb file. *)
(* The recursive functions this is stated with are followed by induction   *)
(* on sets of numbers: a set without a smallest element is empty.          *)
(***************************************************************************)
EXTENDS ArticlesProofs, SequenceTheorems

-----------------------------------------------------------------------------
(* Induction.                                                               *)

LEMMA SmallestOfSet ==
  ASSUME NEW T \in SUBSET Nat, T # {}
  PROVE  \E m \in T : \A k \in T : m <= k
<1>1. PICK m \in T : \A k \in T : <<k, m>> \notin OpToRel(<, Nat)
  BY NatLessThanWellFounded, WFMin
<1>2. \A k \in T : ~(k < m)
  BY <1>1 DEF OpToRel
<1> QED
  BY <1>2

\* What holds of 0, and of n + 1 if of n, holds of all numbers: T are those it holds of.
LEMMA SetInduction ==
  ASSUME NEW T, 0 \in T, \A n \in Nat : n \in T => n + 1 \in T
  PROVE  \A n \in Nat : n \in T
<1> DEFINE U == {n \in Nat : n \notin T}
<1>1. SUFFICES ASSUME U # {} PROVE FALSE
  OBVIOUS
<1>2. PICK m \in U : \A k \in U : m <= k
  BY <1>1, SmallestOfSet
<1>3. m # 0 /\ m - 1 \in Nat /\ m - 1 \notin U
  BY <1>2
<1> QED
  BY <1>3

-----------------------------------------------------------------------------
(* InOrder and Chosen.                                                      *)

IsInOrder(I, n, f) ==
  f = [i \in 0..n |-> IF i = 0 THEN <<>> ELSE IF i \in I THEN Append(f[i - 1], i) ELSE f[i - 1]]

LEMMA InOrderExists == ASSUME NEW I, NEW n \in Nat PROVE \E f : IsInOrder(I, n, f)
<1> DEFINE T == {k \in Nat : \E f : IsInOrder(I, k, f)}
<1>1. 0 \in T
  <2>1. IsInOrder(I, 0, [i \in 0..0 |-> <<>>])
    BY DEF IsInOrder
  <2> QED
    BY <2>1
<1>2. ASSUME NEW k \in Nat, k \in T PROVE k + 1 \in T
  <2>1. PICK f : IsInOrder(I, k, f)
    BY <1>2
  <2> DEFINE last == IF k + 1 \in I THEN Append(f[k], k + 1) ELSE f[k]
             g == [i \in 0..(k + 1) |-> IF i = k + 1 THEN last ELSE f[i]]
  <2>2. \A i \in 0..k : f[i] = IF i = 0 THEN <<>> ELSE IF i \in I THEN Append(f[i - 1], i) ELSE f[i - 1]
    BY <2>1 DEF IsInOrder
  <2>3. ASSUME NEW i \in 0..(k + 1)
        PROVE  g[i] = IF i = 0 THEN <<>> ELSE IF i \in I THEN Append(g[i - 1], i) ELSE g[i - 1]
    BY <2>2
  <2> HIDE DEF last
  <2>4. IsInOrder(I, k + 1, g)
    BY <2>3 DEF IsInOrder
  <2> QED
    BY <2>4
<1> HIDE DEF T
<1>3. n \in T
  BY <1>1, <1>2, SetInduction
<1> QED
  BY <1>3 DEF T

LEMMA InOrderUnique ==
  ASSUME NEW I, NEW n \in Nat, NEW m \in Nat, NEW f, IsInOrder(I, n, f), NEW g, IsInOrder(I, m, g),
         NEW k \in Nat, k <= n, k <= m
  PROVE  f[k] = g[k]
<1> DEFINE T == {i \in Nat : i <= n /\ i <= m => f[i] = g[i]}
<1>1. /\ \A i \in 0..n : f[i] = IF i = 0 THEN <<>> ELSE IF i \in I THEN Append(f[i - 1], i) ELSE f[i - 1]
      /\ \A i \in 0..m : g[i] = IF i = 0 THEN <<>> ELSE IF i \in I THEN Append(g[i - 1], i) ELSE g[i - 1]
  BY DEF IsInOrder
<1>2. 0 \in T
  BY <1>1
<1>3. ASSUME NEW i \in Nat, i \in T PROVE i + 1 \in T
  BY <1>1, <1>3
<1> HIDE DEF T
<1>4. k \in T
  BY <1>2, <1>3, SetInduction
<1> QED
  BY <1>4 DEF T

LEMMA InOrderIs ==
  ASSUME NEW I, NEW n \in Nat
  PROVE  \E f : IsInOrder(I, n, f) /\ InOrder(I, n) = f[n]
<1> DEFINE f == CHOOSE g : IsInOrder(I, n, g)
<1>1. IsInOrder(I, n, f)
  BY InOrderExists
<1>2. InOrder(I, n) = f[n]
  BY DEF InOrder, IsInOrder
<1> QED
  BY <1>1, <1>2

LEMMA InOrderOfNone == ASSUME NEW I PROVE InOrder(I, 0) = <<>>
<1>1. PICK f : IsInOrder(I, 0, f) /\ InOrder(I, 0) = f[0]
  BY InOrderIs
<1> QED
  BY <1>1 DEF IsInOrder

LEMMA InOrderStep ==
  ASSUME NEW I, NEW n \in Nat
  PROVE  /\ n + 1 \in I => InOrder(I, n + 1) = Append(InOrder(I, n), n + 1)
         /\ n + 1 \notin I => InOrder(I, n + 1) = InOrder(I, n)
<1>1. PICK f : IsInOrder(I, n, f) /\ InOrder(I, n) = f[n]
  BY InOrderIs
<1>2. PICK g : IsInOrder(I, n + 1, g) /\ InOrder(I, n + 1) = g[n + 1]
  BY InOrderIs
<1>3. f[n] = g[n]
  BY <1>1, <1>2, InOrderUnique
<1>4. n + 1 \in 0..(n + 1) /\ n + 1 # 0 /\ (n + 1) - 1 = n
  OBVIOUS
<1>5. g[n + 1] = IF n + 1 \in I THEN Append(g[n], n + 1) ELSE g[n]
  BY <1>2, <1>4 DEF IsInOrder
<1> QED
  BY <1>1, <1>2, <1>3, <1>5, Zenon

\* Only the members up to n count, and each is there.
LEMMA InOrderRange ==
  ASSUME NEW I, NEW n \in Nat
  PROVE  /\ InOrder(I, n) \in Seq(Nat)
         /\ \A k \in DOMAIN InOrder(I, n) : InOrder(I, n)[k] \in 1..n /\ InOrder(I, n)[k] \in I
<1> DEFINE Good(s, m) == s \in Seq(Nat) /\ \A k \in 1..Len(s) : s[k] \in 1..m /\ s[k] \in I
           T == {m \in Nat : Good(InOrder(I, m), m)}
<1>1. 0 \in T
  <2>1. Good(<<>>, 0)
    OBVIOUS
  <2> HIDE DEF Good
  <2> QED
    BY <2>1, InOrderOfNone
<1>2. ASSUME NEW m \in Nat, m \in T PROVE m + 1 \in T
  <2>1. PICK s : s = InOrder(I, m)
    OBVIOUS
  <2>2. Good(s, m)
    BY <1>2, <2>1
  <2>0. m + 1 \in Nat /\ (Good(InOrder(I, m + 1), m + 1) => m + 1 \in T)
    OBVIOUS
  <2>3. CASE m + 1 \in I
    <3>1. InOrder(I, m + 1) = Append(s, m + 1)
      BY <2>1, <2>3, InOrderStep
    <3>2. Good(Append(s, m + 1), m + 1)
      BY <2>2, <2>3
    <3> HIDE DEF Good
    <3> QED
      BY <2>0, <3>1, <3>2
  <2>4. CASE m + 1 \notin I
    <3>1. InOrder(I, m + 1) = s
      BY <2>1, <2>4, InOrderStep
    <3>2. Good(s, m + 1)
      BY <2>2
    <3> HIDE DEF Good
    <3> QED
      BY <2>0, <3>1, <3>2
  <2> QED
    BY <2>3, <2>4
<1> HIDE DEF T
<1>3. n \in T
  BY <1>1, <1>2, SetInduction
<1> QED
  BY <1>3 DEF T

LEMMA InOrderSame ==
  ASSUME NEW I, NEW J, NEW n \in Nat, I \cap 1..n = J \cap 1..n
  PROVE  InOrder(I, n) = InOrder(J, n)
<1> DEFINE T == {m \in Nat : m <= n => InOrder(I, m) = InOrder(J, m)}
<1>1. 0 \in T
  BY InOrderOfNone
<1>2. ASSUME NEW m \in Nat, m \in T PROVE m + 1 \in T
  <2>1. m + 1 <= n => (m + 1 \in I <=> m + 1 \in J)
    OBVIOUS
  <2>2. m + 1 <= n => InOrder(I, m) = InOrder(J, m)
    BY <1>2
  <2>3. m + 1 <= n => InOrder(I, m + 1) = InOrder(J, m + 1)
    BY <2>1, <2>2, InOrderStep, Zenon
  <2> QED
    BY <2>3
<1> HIDE DEF T
<1>3. n \in T
  BY <1>1, <1>2, SetInduction
<1> QED
  BY <1>3 DEF T

-----------------------------------------------------------------------------
(* FlattenSeq.                                                              *)

IsFlat(s, n, f) == f = [i \in 1..n |-> IF i = 1 THEN s[i] ELSE f[i - 1] \o s[i]]

LEMMA FlatExists == ASSUME NEW s, NEW n \in Nat PROVE \E f : IsFlat(s, n, f)
<1> DEFINE T == {k \in Nat : \E f : IsFlat(s, k, f)}
<1>1. 0 \in T
  <2>1. IsFlat(s, 0, [i \in 1..0 |-> <<>>])
    BY DEF IsFlat
  <2> QED
    BY <2>1
<1>2. ASSUME NEW k \in Nat, k \in T PROVE k + 1 \in T
  <2>1. PICK f : IsFlat(s, k, f)
    BY <1>2
  <2> DEFINE last == IF k + 1 = 1 THEN s[k + 1] ELSE f[k] \o s[k + 1]
             g == [i \in 1..(k + 1) |-> IF i = k + 1 THEN last ELSE f[i]]
  <2>2. \A i \in 1..k : f[i] = IF i = 1 THEN s[i] ELSE f[i - 1] \o s[i]
    BY <2>1 DEF IsFlat
  <2>3. ASSUME NEW i \in 1..(k + 1) PROVE g[i] = IF i = 1 THEN s[i] ELSE g[i - 1] \o s[i]
    <3>1. CASE i = k + 1
      <4>1. g[i] = last /\ (i # 1 => i - 1 = k /\ g[k] = f[k])
        BY <3>1
      <4> QED
        BY <3>1, <4>1
    <3>2. CASE i # k + 1
      <4>1. i \in 1..k /\ g[i] = f[i] /\ (i # 1 => g[i - 1] = f[i - 1])
        BY <3>2
      <4> QED
        BY <2>2, <4>1
    <3> QED
      BY <3>1, <3>2
  <2> HIDE DEF last
  <2>4. IsFlat(s, k + 1, g)
    BY <2>3 DEF IsFlat
  <2> QED
    BY <2>4
<1> HIDE DEF T
<1>3. n \in T
  BY <1>1, <1>2, SetInduction
<1> QED
  BY <1>3 DEF T

LEMMA FlatUnique ==
  ASSUME NEW s, NEW n \in Nat \ {0}, NEW f, IsFlat(s, n, f), NEW t, NEW m \in Nat, NEW g, IsFlat(t, m, g),
         n <= m, \A i \in 1..n : s[i] = t[i]
  PROVE  f[n] = g[n]
<1> DEFINE T == {i \in Nat : i + 1 <= n => f[i + 1] = g[i + 1]}
<1>1. /\ \A i \in 1..n : f[i] = IF i = 1 THEN s[i] ELSE f[i - 1] \o s[i]
      /\ \A i \in 1..m : g[i] = IF i = 1 THEN t[i] ELSE g[i - 1] \o t[i]
  BY DEF IsFlat
<1>2. 0 \in T
  BY <1>1
<1>3. ASSUME NEW i \in Nat, i \in T PROVE i + 1 \in T
  <2>1. SUFFICES ASSUME i + 2 <= n PROVE f[i + 2] = g[i + 2]
    OBVIOUS
  <2>2. f[i + 1] = g[i + 1] /\ i + 2 \in 1..n /\ i + 2 \in 1..m /\ i + 2 # 1 /\ (i + 2) - 1 = i + 1
        /\ s[i + 2] = t[i + 2]
    BY <1>3, <2>1
  <2>3. f[i + 2] = f[i + 1] \o s[i + 2] /\ g[i + 2] = g[i + 1] \o t[i + 2]
    BY <1>1, <2>2
  <2> QED
    BY <2>2, <2>3
<1> HIDE DEF T
<1>4. n - 1 \in T
  BY <1>2, <1>3, SetInduction
<1> QED
  BY <1>4 DEF T

LEMMA FlattenIs ==
  ASSUME NEW s, Len(s) \in Nat, Len(s) # 0
  PROVE  \E f : IsFlat(s, Len(s), f) /\ FlattenSeq(s) = f[Len(s)]
<1> DEFINE f == CHOOSE g : IsFlat(s, Len(s), g)
<1>1. IsFlat(s, Len(s), f)
  BY FlatExists
<1>2. FlattenSeq(s) = f[Len(s)]
  BY DEF FlattenSeq, IsFlat
<1> QED
  BY <1>1, <1>2

LEMMA FlattenEmpty == FlattenSeq(<<>>) = <<>>
  BY DEF FlattenSeq

LEMMA FlattenAppend ==
  ASSUME NEW S, NEW s \in Seq(Seq(S)), NEW x \in Seq(S)
  PROVE  FlattenSeq(Append(s, x)) = FlattenSeq(s) \o x
<1> DEFINE t == Append(s, x)
<1>1. /\ Len(s) \in Nat /\ Len(t) = Len(s) + 1 /\ t[Len(s) + 1] = x
      /\ \A i \in 1..Len(s) : t[i] = s[i]
  OBVIOUS
<1> HIDE DEF t
<1>2. PICK g : IsFlat(t, Len(t), g) /\ FlattenSeq(t) = g[Len(t)]
  BY <1>1, FlattenIs
<1>3. CASE Len(s) = 0
  <2>1. FlattenSeq(s) = <<>>
    BY <1>3, FlattenEmpty
  <2>2. g[1] = t[1]
    BY <1>1, <1>2, <1>3 DEF IsFlat
  <2>3. FlattenSeq(t) = x
    BY <1>1, <1>2, <1>3, <2>2
  <2>4. <<>> \o x = x
    OBVIOUS
  <2> QED
    BY <2>1, <2>3, <2>4 DEF t
<1>4. CASE Len(s) # 0
  <2>1. PICK f : IsFlat(s, Len(s), f) /\ FlattenSeq(s) = f[Len(s)]
    BY <1>1, <1>4, FlattenIs
  <2>2. f[Len(s)] = g[Len(s)]
    <3>1. /\ Len(s) \in Nat \ {0} /\ Len(t) \in Nat /\ Len(s) <= Len(t)
          /\ \A i \in 1..Len(s) : s[i] = t[i]
      BY <1>1, <1>4
    <3>2. IsFlat(s, Len(s), f) /\ IsFlat(t, Len(t), g)
      BY <1>2, <2>1
    <3> QED
      BY <3>1, <3>2, FlatUnique, SMTT(60)
  <2>3. Len(t) \in 1..Len(t) /\ Len(t) # 1 /\ Len(t) - 1 = Len(s)
    BY <1>1, <1>4
  <2>4. g[Len(t)] = g[Len(t) - 1] \o t[Len(t)]
    BY <1>2, <2>3 DEF IsFlat
  <2> QED
    BY <1>1, <1>2, <2>1, <2>2, <2>3, <2>4 DEF t
<1> QED
  BY <1>3, <1>4

-----------------------------------------------------------------------------
(* The decoder.                                                             *)

IsDecoding(l, f) ==
  f = [i \in 1..(Len(l) + 2) |->
         IF i > Len(l) THEN <<>>
         ELSE IF l[i] = ESCAPE /\ i < Len(l) THEN <<(l[i + 1] - 64 - 42) % 256>> \o f[i + 2]
         ELSE <<(l[i] - 42) % 256>> \o f[i + 1]]

\* One line of the definition above.
Decodes(l, f, i) ==
  f[i] = IF i > Len(l) THEN <<>>
         ELSE IF l[i] = ESCAPE /\ i < Len(l) THEN <<(l[i + 1] - 64 - 42) % 256>> \o f[i + 2]
         ELSE <<(l[i] - 42) % 256>> \o f[i + 1]

LEMMA DecodingLines ==
  ASSUME NEW l, NEW f, IsDecoding(l, f), NEW i \in 1..(Len(l) + 2) PROVE Decodes(l, f, i)
  BY DEF IsDecoding, Decodes

\* A decoding of a line has one of the rest of the line in it.
LEMMA DecodingOfTail ==
  ASSUME NEW c \in Byte, NEW t \in Seq(Byte), NEW f, IsDecoding(<<c>> \o t, f)
  PROVE  IsDecoding(t, [i \in 1..(Len(t) + 2) |-> f[i + 1]])
<1> DEFINE l == <<c>> \o t
           g == [i \in 1..(Len(t) + 2) |-> f[i + 1]]
<1>1. Len(t) \in Nat /\ Len(l) = Len(t) + 1 /\ \A i \in 1..Len(t) : l[i + 1] = t[i]
  OBVIOUS
<1>2. IsDecoding(l, f)
  OBVIOUS
<1> HIDE DEF l
<1>3. ASSUME NEW i \in 1..(Len(t) + 2) PROVE Decodes(t, g, i)
  <2>1. i + 1 \in 1..(Len(l) + 2) /\ i \in Nat
    BY <1>1
  <2>2. Decodes(l, f, i + 1)
    BY <1>2, <2>1, DecodingLines
  <2>3. g[i] = f[i + 1]
    OBVIOUS
  <2>4. CASE i > Len(t)
    <3>1. i + 1 > Len(l)
      BY <1>1, <2>1, <2>4
    <3> QED
      BY <2>2, <2>3, <2>4, <3>1 DEF Decodes
  <2>5. CASE i <= Len(t) /\ l[i + 1] = ESCAPE /\ i < Len(t)
    <3>1. /\ ~(i + 1 > Len(l)) /\ i + 1 < Len(l) /\ ~(i > Len(t))
          /\ t[i] = l[i + 1] /\ t[i + 1] = l[(i + 1) + 1] /\ g[i + 2] = f[(i + 1) + 2]
      <4>1. i \in 1..Len(t) /\ i + 1 \in 1..Len(t) /\ i + 2 \in 1..(Len(t) + 2)
        BY <1>1, <2>1, <2>5
      <4>2. g[i + 2] = f[(i + 2) + 1] /\ (i + 2) + 1 = (i + 1) + 2
        BY <2>1, <4>1
      <4>3. t[i] = l[i + 1] /\ t[i + 1] = l[(i + 1) + 1]
        BY <1>1, <4>1
      <4>4. ~(i + 1 > Len(l)) /\ i + 1 < Len(l) /\ ~(i > Len(t))
        BY <1>1, <2>1, <2>5
      <4> QED
        BY <4>2, <4>3, <4>4
    <3> QED
      BY <2>2, <2>3, <2>5, <3>1 DEF Decodes
  <2>6. CASE i <= Len(t) /\ ~(l[i + 1] = ESCAPE /\ i < Len(t))
    <3>1. /\ ~(i + 1 > Len(l)) /\ (i + 1 < Len(l) <=> i < Len(t)) /\ ~(i > Len(t))
          /\ t[i] = l[i + 1] /\ g[i + 1] = f[(i + 1) + 1]
      <4>1. i \in 1..Len(t) /\ i + 1 \in 1..(Len(t) + 2)
        BY <1>1, <2>1, <2>6
      <4>2. g[i + 1] = f[(i + 1) + 1]
        BY <4>1
      <4>3. t[i] = l[i + 1]
        BY <1>1, <4>1
      <4>4. ~(i + 1 > Len(l)) /\ (i + 1 < Len(l) <=> i < Len(t)) /\ ~(i > Len(t))
        BY <1>1, <2>1, <2>6
      <4> QED
        BY <4>2, <4>3, <4>4
    <3> QED
      BY <2>2, <2>3, <2>6, <3>1 DEF Decodes
  <2> QED
    BY <1>1, <2>1, <2>4, <2>5, <2>6
<1> QED
  BY <1>3 DEF IsDecoding, Decodes

LEMMA DecodingExists ==
  ASSUME NEW l \in Seq(Byte) PROVE \E f : IsDecoding(l, f)
<1> DEFINE T == {n \in Nat : \A k \in Seq(Byte) : Len(k) = n => \E f : IsDecoding(k, f)}
<1>1. 0 \in T
  <2>1. ASSUME NEW k \in Seq(Byte), Len(k) = 0 PROVE IsDecoding(k, [i \in 1..(0 + 2) |-> <<>>])
    BY <2>1 DEF IsDecoding
  <2> QED
    BY <2>1
<1>2. ASSUME NEW n \in Nat, n \in T PROVE n + 1 \in T
  <2>1. SUFFICES ASSUME NEW k \in Seq(Byte), Len(k) = n + 1 PROVE \E f : IsDecoding(k, f)
    OBVIOUS
  <2> DEFINE t == Tail(k)
  <2>2. t \in Seq(Byte) /\ Len(t) = n /\ \A i \in 1..n : t[i] = k[i + 1]
    BY <2>1
  <2> HIDE DEF t
  <2>3. PICK f : IsDecoding(t, f)
    BY <1>2, <2>2
  <2> DEFINE first == IF k[1] = ESCAPE /\ 1 < Len(k) THEN <<(k[1 + 1] - 64 - 42) % 256>> \o f[2]
                      ELSE <<(k[1] - 42) % 256>> \o f[1]
             g == [i \in 1..(Len(k) + 2) |-> IF i = 1 THEN first ELSE f[i - 1]]
  <2>4. ASSUME NEW i \in 1..(Len(k) + 2) PROVE Decodes(k, g, i)
    <3>1. CASE i = 1
      <4>1. g[i] = first /\ g[i + 1] = f[1] /\ g[i + 2] = f[2] /\ ~(i > Len(k))
        BY <2>1, <3>1
      <4> QED
        BY <3>1, <4>1 DEF Decodes
    <3> SUFFICES ASSUME i # 1 PROVE Decodes(k, g, i)
      BY <3>1
    <3>2. PICK j : j = i - 1
      OBVIOUS
    <3>3. j \in 1..(Len(t) + 2) /\ g[i] = f[j] /\ i = j + 1
      BY <2>1, <2>2, <3>2
    <3>4. Decodes(t, f, j)
      BY <2>3, <3>3, DecodingLines
    <3> HIDE DEF g, first
    <3>5. CASE j > Len(t)
      BY <2>1, <2>2, <3>3, <3>4, <3>5 DEF Decodes
    <3>6. CASE j <= Len(t) /\ t[j] = ESCAPE /\ j < Len(t)
      <4>1. k[i] = t[j] /\ k[i + 1] = t[j + 1] /\ g[i + 2] = f[j + 2]
            /\ ~(i > Len(k)) /\ i < Len(k) /\ ~(j > Len(t))
        BY <2>1, <2>2, <3>3, <3>6 DEF g
      <4> QED
        BY <3>3, <3>4, <3>6, <4>1 DEF Decodes
    <3>7. CASE j <= Len(t) /\ ~(t[j] = ESCAPE /\ j < Len(t))
      <4>1. /\ k[i] = t[j] /\ g[i + 1] = f[j + 1] /\ ~(i > Len(k))
            /\ (i < Len(k) <=> j < Len(t)) /\ ~(j > Len(t))
        BY <2>1, <2>2, <3>3, <3>7 DEF g
      <4> QED
        BY <3>3, <3>4, <3>7, <4>1 DEF Decodes
    <3> QED
      BY <2>2, <3>3, <3>5, <3>6, <3>7
  <2> HIDE DEF first
  <2>5. g = [i \in 1..(Len(k) + 2) |-> g[i]]
    OBVIOUS
  <2> HIDE DEF g
  <2>6. IsDecoding(k, g)
    BY <2>4, <2>5 DEF IsDecoding, Decodes
  <2> QED
    BY <2>6
<1> HIDE DEF T
<1>3. Len(l) \in T
  BY <1>1, <1>2, SetInduction
<1> QED
  BY <1>3 DEF T

LEMMA DecodingUnique ==
  ASSUME NEW l, Len(l) \in Nat, NEW f, IsDecoding(l, f), NEW g, IsDecoding(l, g)
  PROVE  \A i \in 1..(Len(l) + 2) : f[i] = g[i]
<1> DEFINE n == Len(l) + 2
           T == {k \in Nat : \A i \in 1..n : i + k >= n => f[i] = g[i]}
<1>1. \A i \in 1..n : Decodes(l, f, i) /\ Decodes(l, g, i)
  BY DecodingLines
<1>2. 0 \in T
  <2>1. ASSUME NEW i \in 1..n, i + 0 >= n PROVE f[i] = g[i]
    <3>1. i > Len(l)
      BY <2>1
    <3> QED
      BY <1>1, <2>1, <3>1 DEF Decodes
  <2> QED
    BY <2>1
<1>3. ASSUME NEW k \in Nat, k \in T PROVE k + 1 \in T
  <2>1. SUFFICES ASSUME NEW i \in 1..n, i + (k + 1) >= n PROVE f[i] = g[i]
    OBVIOUS
  <2>2. \A j \in 1..n : j > i => f[j] = g[j]
    BY <1>3, <2>1
  <2>3. Decodes(l, f, i) /\ Decodes(l, g, i)
    BY <1>1
  <2>4. CASE i > Len(l)
    BY <2>3, <2>4 DEF Decodes
  <2>5. CASE i <= Len(l)
    <3>1. i + 1 \in 1..n /\ i + 2 \in 1..n /\ i + 1 > i /\ i + 2 > i
      BY <2>5
    <3>2. f[i + 1] = g[i + 1] /\ f[i + 2] = g[i + 2]
      BY <2>2, <3>1
    <3> QED
      BY <2>3, <3>2 DEF Decodes
  <2> QED
    BY <2>4, <2>5
<1> HIDE DEF T
<1>4. Len(l) + 2 \in T
  BY <1>2, <1>3, SetInduction
<1> QED
  BY <1>4 DEF T

LEMMA DecodedIs ==
  ASSUME NEW l \in Seq(Byte)
  PROVE  \E f : IsDecoding(l, f) /\ Decoded(l) = f[1]
<1> DEFINE f == CHOOSE g : IsDecoding(l, g)
<1>1. IsDecoding(l, f)
  BY DecodingExists
<1>2. Decoded(l) = f[1]
  BY DEF Decoded, IsDecoding
<1> QED
  BY <1>1, <1>2

LEMMA DecodedType == ASSUME NEW l \in Seq(Byte) PROVE Decoded(l) \in Seq(Byte)
<1>1. PICK f : IsDecoding(l, f) /\ Decoded(l) = f[1]
  BY DecodedIs
<1> DEFINE n == Len(l) + 2
           T == {k \in Nat : \A i \in 1..n : i + k >= n => f[i] \in Seq(Byte)}
<1>2. \A i \in 1..n : Decodes(l, f, i)
  BY <1>1, DecodingLines
<1>3. 0 \in T
  <2>1. ASSUME NEW i \in 1..n, i + 0 >= n PROVE f[i] \in Seq(Byte)
    <3>1. i > Len(l) /\ <<>> \in Seq(Byte)
      BY <2>1
    <3> QED
      BY <1>2, <2>1, <3>1 DEF Decodes
  <2> QED
    BY <2>1
<1>4. ASSUME NEW k \in Nat, k \in T PROVE k + 1 \in T
  <2>1. SUFFICES ASSUME NEW i \in 1..n, i + (k + 1) >= n PROVE f[i] \in Seq(Byte)
    OBVIOUS
  <2>2. \A j \in 1..n : j > i => f[j] \in Seq(Byte)
    BY <1>4, <2>1
  <2>3. Decodes(l, f, i)
    BY <1>2
  <2>4. CASE i > Len(l)
    <3>1. f[i] = <<>>
      BY <2>3, <2>4 DEF Decodes
    <3> QED
      BY <3>1
  <2>5. CASE i <= Len(l)
    <3>1. i + 1 \in 1..n /\ i + 2 \in 1..n /\ i + 1 > i /\ i + 2 > i /\ ~(i > Len(l)) /\ Len(l) \in Nat
      BY <2>5
    <3>2. f[i + 1] \in Seq(Byte) /\ f[i + 2] \in Seq(Byte)
      BY <2>2, <3>1
    <3>3. l[i] \in Byte /\ (i < Len(l) => l[i + 1] \in Byte)
      BY <2>5, <3>1
    <3>4. \A c \in Byte : (c - 42) % 256 \in Byte /\ (c - 64 - 42) % 256 \in Byte
      BY DEF Byte
    <3>5. \A c \in Byte, s \in Seq(Byte) : <<c>> \o s \in Seq(Byte)
      OBVIOUS
    <3>6. CASE l[i] = ESCAPE /\ i < Len(l)
      <4>1. f[i] = <<(l[i + 1] - 64 - 42) % 256>> \o f[i + 2]
        BY <2>3, <3>1, <3>6 DEF Decodes
      <4>2. (l[i + 1] - 64 - 42) % 256 \in Byte
        BY <3>3, <3>4, <3>6
      <4> QED
        BY <3>2, <3>5, <4>1, <4>2, Zenon
    <3>7. CASE ~(l[i] = ESCAPE /\ i < Len(l))
      <4>1. f[i] = <<(l[i] - 42) % 256>> \o f[i + 1]
        BY <2>3, <3>1, <3>7 DEF Decodes
      <4>2. (l[i] - 42) % 256 \in Byte
        BY <3>3, <3>4
      <4> QED
        BY <3>2, <3>5, <4>1, <4>2, Zenon
    <3> QED
      BY <3>6, <3>7
  <2> QED
    BY <2>4, <2>5
<1> HIDE DEF T
<1>5. Len(l) + 2 \in T
  BY <1>3, <1>4, SetInduction
<1>6. 1 \in 1..n /\ 1 + (Len(l) + 2) >= n
  OBVIOUS
<1> QED
  BY <1>1, <1>5, <1>6 DEF T

LEMMA DecodedEmpty == Decoded(<<>>) = <<>>
<1>1. <<>> \in Seq(Byte) /\ Len(<<>>) = 0
  OBVIOUS
<1>2. PICK f : IsDecoding(<<>>, f) /\ Decoded(<<>>) = f[1]
  BY <1>1, DecodedIs
<1>3. 1 \in 1..(Len(<<>>) + 2) /\ 1 > Len(<<>>)
  BY <1>1
<1>4. Decodes(<<>>, f, 1)
  BY <1>2, <1>3, DecodingLines
<1> QED
  BY <1>2, <1>3, <1>4 DEF Decodes

LEMMA DecodedPlain ==
  ASSUME NEW c \in Byte, c # ESCAPE, NEW t \in Seq(Byte)
  PROVE  Decoded(<<c>> \o t) = <<(c - 42) % 256>> \o Decoded(t)
<1> DEFINE l == <<c>> \o t
<1>1. l \in Seq(Byte) /\ Len(l) = Len(t) + 1 /\ l[1] = c /\ Len(t) \in Nat
  OBVIOUS
<1>2. PICK f : IsDecoding(l, f) /\ Decoded(l) = f[1]
  BY <1>1, DecodedIs
<1>3. PICK g : IsDecoding(t, g) /\ Decoded(t) = g[1]
  BY DecodedIs
<1> DEFINE h == [i \in 1..(Len(t) + 2) |-> f[i + 1]]
<1>4. IsDecoding(t, h)
  BY <1>2, DecodingOfTail
<1>5. h[1] = f[1 + 1] /\ 1 \in 1..(Len(t) + 2)
  BY <1>1
<1> HIDE DEF l, h
<1>6. h[1] = g[1]
  BY <1>1, <1>3, <1>4, <1>5, DecodingUnique
<1>7. Decodes(l, f, 1) /\ ~(1 > Len(l))
  BY <1>1, <1>2, DecodingLines
<1>8. f[1] = <<(l[1] - 42) % 256>> \o f[1 + 1]
  BY <1>1, <1>7 DEF Decodes
<1> QED
  BY <1>1, <1>2, <1>3, <1>5, <1>6, <1>8 DEF l

LEMMA DecodedEscape ==
  ASSUME NEW c \in Byte, NEW t \in Seq(Byte)
  PROVE  Decoded(<<ESCAPE, c>> \o t) = <<(c - 64 - 42) % 256>> \o Decoded(t)
<1> DEFINE u == <<c>> \o t
           l == <<ESCAPE>> \o u
<1>1. /\ ESCAPE \in Byte /\ u \in Seq(Byte) /\ l \in Seq(Byte) /\ Len(t) \in Nat
      /\ Len(u) = Len(t) + 1 /\ Len(l) = Len(t) + 2 /\ l[1] = ESCAPE /\ l[2] = c
  BY CharactersDiffer
<1>2. <<ESCAPE, c>> \o t = l
  BY CharactersDiffer
<1>3. PICK f : IsDecoding(l, f) /\ Decoded(l) = f[1]
  BY <1>1, DecodedIs
<1>4. PICK g : IsDecoding(t, g) /\ Decoded(t) = g[1]
  BY DecodedIs
<1> DEFINE h == [i \in 1..(Len(u) + 2) |-> f[i + 1]]
           k == [i \in 1..(Len(t) + 2) |-> h[i + 1]]
<1>5. IsDecoding(u, h)
  BY <1>1, <1>3, DecodingOfTail
<1>6. k[1] = f[1 + 2] /\ 1 \in 1..(Len(t) + 2)
  BY <1>1
<1>7. IsDecoding(t, k)
  <2> HIDE DEF h
  <2> QED
    BY <1>5, DecodingOfTail
<1> HIDE DEF l, h, k, u
<1>8. k[1] = g[1]
  BY <1>1, <1>4, <1>6, <1>7, DecodingUnique
<1>9. Decodes(l, f, 1) /\ ~(1 > Len(l)) /\ 1 < Len(l)
  BY <1>1, <1>3, DecodingLines
<1>10. f[1] = <<(l[1 + 1] - 64 - 42) % 256>> \o f[1 + 2]
  BY <1>1, <1>9 DEF Decodes
<1>11. l[1 + 1] = c /\ f[1 + 2] = g[1]
  BY <1>1, <1>6, <1>8
<1>12. f[1] = <<(c - 64 - 42) % 256>> \o g[1]
  BY <1>10, <1>11, Zenon
<1> QED
  BY <1>2, <1>3, <1>4, <1>12, Zenon

\* Whatever follows a byte that was encoded, the decoder gets the byte back and goes on
\* with what follows.
LEMMA EncodedIsDecoded ==
  ASSUME NEW b \in Byte, NEW pos \in Nat, NEW t \in Seq(Byte)
  PROVE  Decoded(Encoded(b, pos) \o t) = <<b>> \o Decoded(t)
<1> DEFINE c == Shifted(b)
<1>1. c \in Byte /\ (c - 42) % 256 = b
  BY DEF Shifted, Byte
<1>2. (c + 64) % 256 \in Byte /\ (((c + 64) % 256) - 64 - 42) % 256 = b
  BY DEF Shifted, Byte
<1>3. CASE NeedsEscaping(c, pos)
  <2>1. PICK e : e = (c + 64) % 256
    OBVIOUS
  <2>2. Encoded(b, pos) = <<ESCAPE, e>>
    BY <1>3, <2>1 DEF Encoded
  <2>3. e \in Byte /\ (e - 64 - 42) % 256 = b
    BY <1>2, <2>1
  <2>4. Decoded(<<ESCAPE, e>> \o t) = <<(e - 64 - 42) % 256>> \o Decoded(t)
    BY <2>3, DecodedEscape
  <2> QED
    BY <2>2, <2>3, <2>4, Zenon
<1>4. CASE ~NeedsEscaping(c, pos)
  <2>1. Encoded(b, pos) = <<c>> /\ c # ESCAPE
    BY <1>4 DEF Encoded, NeedsEscaping
  <2> HIDE DEF c
  <2>2. Decoded(<<c>> \o t) = <<(c - 42) % 256>> \o Decoded(t)
    BY <1>1, <2>1, DecodedPlain
  <2> QED
    BY <1>1, <2>1, <2>2, Zenon
<1> QED
  BY <1>3, <1>4

-----------------------------------------------------------------------------
(* What lines carry.                                                        *)

LEMMA FlattenType ==
  ASSUME NEW S, NEW s \in Seq(Seq(S)) PROVE FlattenSeq(s) \in Seq(S)
<1> DEFINE T == {n \in Nat : \A t \in Seq(Seq(S)) : Len(t) = n => FlattenSeq(t) \in Seq(S)}
<1>1. 0 \in T
  <2>1. ASSUME NEW t \in Seq(Seq(S)), Len(t) = 0 PROVE FlattenSeq(t) \in Seq(S)
    <3>1. t = <<>> /\ <<>> \in Seq(S)
      BY <2>1
    <3> QED
      BY <3>1, FlattenEmpty
  <2> QED
    BY <2>1
<1>2. ASSUME NEW n \in Nat, n \in T PROVE n + 1 \in T
  <2>1. SUFFICES ASSUME NEW t \in Seq(Seq(S)), Len(t) = n + 1 PROVE FlattenSeq(t) \in Seq(S)
    OBVIOUS
  <2> DEFINE u == SubSeq(t, 1, n)
             x == t[n + 1]
  <2>2. u \in Seq(Seq(S)) /\ Len(u) = n /\ x \in Seq(S) /\ t = Append(u, x)
    BY <2>1
  <2> HIDE DEF u, x
  <2>3. FlattenSeq(u) \in Seq(S)
    BY <1>2, <2>2
  <2>4. FlattenSeq(Append(u, x)) = FlattenSeq(u) \o x
    BY <2>2, FlattenAppend
  <2> QED
    BY <2>2, <2>3, <2>4
<1> HIDE DEF T
<1>3. Len(s) \in T
  BY <1>1, <1>2, SetInduction
<1> QED
  BY <1>3 DEF T

\* However a line goes on, its decoding begins with d.
Carries(l, d) == \A t \in Seq(Byte) : Decoded(l \o t) = d \o Decoded(t)

LEMMA EncodedType == ASSUME NEW b \in Byte, NEW pos \in Nat PROVE Encoded(b, pos) \in Seq(Byte)
<1>1. \A c \in Byte : <<c>> \in Seq(Byte) /\ <<ESCAPE, c>> \in Seq(Byte)
  BY CharactersDiffer
<1>2. {64, 73, 74, 77, 96, 110, 125} \subseteq Byte
  BY CharactersDiffer
<1>3. CASE \E c \in Byte : Encoded(b, pos) = <<c>>
  BY <1>1, <1>3
<1>4. CASE \E c \in {64, 73, 74, 77, 96, 110, 125} : Encoded(b, pos) = <<ESCAPE, c>>
  <2>1. PICK c \in Byte : Encoded(b, pos) = <<ESCAPE, c>>
    BY <1>2, <1>4
  <2> QED
    BY <1>1, <2>1, Zenon
<1> QED
  BY <1>3, <1>4, EncodedByte

LEMMA Associate ==
  ASSUME NEW x \in Seq(Byte), NEW y \in Seq(Byte), NEW z \in Seq(Byte)
  PROVE  (x \o y) \o z = x \o (y \o z)
  BY ConcatAssociative

Regroups(u, d, v, w) == (u \o d) \o (v \o w) = (u \o (d \o v)) \o w

LEMMA Regroup ==
  ASSUME NEW u \in Seq(Byte), NEW d \in Seq(Byte), NEW v \in Seq(Byte), NEW w \in Seq(Byte)
  PROVE  Regroups(u, d, v, w)
<1>1. ASSUME NEW s \in Seq(Byte), NEW t \in Seq(Byte) PROVE s \o t \in Seq(Byte)
  OBVIOUS
<1>2. u \o d \in Seq(Byte)
  BY <1>1, Zenon
<1>3. ((u \o d) \o v) \o w = (u \o d) \o (v \o w)
  BY <1>2, Associate, Zenon
<1>4. (u \o d) \o v = u \o (d \o v)
  BY Associate, Zenon
<1> QED
  BY <1>3, <1>4, Zenon DEF Regroups

\* The decoder is in step with the encoder.
LEMMA CarriesMore ==
  ASSUME NEW l \in Seq(Byte), NEW d \in Seq(Byte), Carries(l, d), NEW b \in Byte, NEW pos \in Nat
  PROVE  Carries(l \o Encoded(b, pos), d \o <<b>>)
<1> SUFFICES ASSUME NEW t \in Seq(Byte)
             PROVE  Decoded((l \o Encoded(b, pos)) \o t) = (d \o <<b>>) \o Decoded(t)
  BY DEF Carries
<1>1. PICK e \in Seq(Byte) : e = Encoded(b, pos)
  BY EncodedType
<1>2. e \o t \in Seq(Byte) /\ <<b>> \in Seq(Byte) /\ Decoded(t) \in Seq(Byte)
  BY DecodedType
<1>3. (l \o e) \o t = l \o (e \o t)
  BY Associate, Zenon
<1>6. (d \o <<b>>) \o Decoded(t) = d \o (<<b>> \o Decoded(t))
  <2>1. PICK u, v : u = <<b>> /\ v = Decoded(t)
    OBVIOUS
  <2>2. u \in Seq(Byte) /\ v \in Seq(Byte)
    BY <1>2, <2>1
  <2>3. (d \o u) \o v = d \o (u \o v)
    BY <2>2, Associate, Zenon
  <2> QED
    BY <2>1, <2>3
<1>4. Decoded(l \o (e \o t)) = d \o Decoded(e \o t)
  BY <1>2 DEF Carries
<1>5. Decoded(e \o t) = <<b>> \o Decoded(t)
  BY <1>1, EncodedIsDecoded
<1> QED
  BY <1>1, <1>3, <1>4, <1>5, <1>6, Zenon

LEMMA CarriesNothing == Carries(<<>>, <<>>)
<1> SUFFICES ASSUME NEW t \in Seq(Byte) PROVE Decoded(<<>> \o t) = <<>> \o Decoded(t)
  BY DEF Carries
<1>1. ASSUME NEW s \in Seq(Byte) PROVE <<>> \o s = s
  OBVIOUS
<1> QED
  BY <1>1, DecodedType, Zenon

LEMMA CarriesAll == ASSUME NEW l \in Seq(Byte), NEW d \in Seq(Byte), Carries(l, d) PROVE Decoded(l) = d
<1>1. <<>> \in Seq(Byte)
  OBVIOUS
<1>2. Decoded(l \o <<>>) = d \o <<>>
  BY <1>1, DecodedEmpty, Zenon DEF Carries
<1>3. ASSUME NEW s \in Seq(Byte) PROVE s \o <<>> = s
  OBVIOUS
<1> QED
  BY <1>2, <1>3, Zenon

-----------------------------------------------------------------------------
(* From the bytes of a part to its lines and back.                          *)

Texts(ls) == [i \in DOMAIN ls |-> Decoded(ls[i])]

Text(ls) == FlattenSeq(Texts(ls))

LEMMA TextsType ==
  ASSUME NEW ls \in Seq(Seq(Byte))
  PROVE  Texts(ls) \in Seq(Seq(Byte)) /\ Text(ls) \in Seq(Byte)
<1>1. \A i \in 1..Len(ls) : Decoded(ls[i]) \in Seq(Byte)
  BY DecodedType
<1>2. DOMAIN ls = 1..Len(ls) /\ Len(ls) \in Nat
  OBVIOUS
<1>3. Texts(ls) \in [1..Len(ls) -> Seq(Byte)]
  BY <1>1, <1>2, Zenon DEF Texts
<1>4. ASSUME NEW n \in Nat, NEW S, NEW f \in [1..n -> S] PROVE f \in Seq(S)
  OBVIOUS
<1>5. Texts(ls) \in Seq(Seq(Byte))
  BY <1>2, <1>3, <1>4, Zenon
<1> QED
  BY <1>5, FlattenType DEF Text

LEMMA TextOfNone == Text(<<>>) = <<>>
<1>1. Texts(<<>>) = <<>>
  BY DEF Texts
<1> QED
  BY <1>1, FlattenEmpty DEF Text

LEMMA TextAppend ==
  ASSUME NEW ls \in Seq(Seq(Byte)), NEW l \in Seq(Byte)
  PROVE  Text(Append(ls, l)) = Text(ls) \o Decoded(l)
<1>1. Texts(ls) \in Seq(Seq(Byte)) /\ Decoded(l) \in Seq(Byte)
  BY TextsType, DecodedType
<1>2. Texts(Append(ls, l)) = Append(Texts(ls), Decoded(l))
  BY DEF Texts
<1> QED
  BY <1>1, <1>2, FlattenAppend, Zenon DEF Text

\* What is left of the part and what is in the lines make up the part.
InStep(data, ls, l, rest) ==
  \E d \in Seq(Byte) : Carries(l, d) /\ data = (Text(ls) \o d) \o rest

LEMMA StepsBegin == ASSUME NEW data \in Seq(Byte) PROVE InStep(data, <<>>, <<>>, data)
<1>1. <<>> \in Seq(Byte) /\ <<>> \o <<>> = <<>>
  OBVIOUS
<1>2. <<>> \o data = data
  OBVIOUS
<1>3. data = (Text(<<>>) \o <<>>) \o data
  BY <1>1, <1>2, TextOfNone, Zenon
<1> QED
  BY <1>1, <1>3, CarriesNothing, Zenon DEF InStep

LEMMA ByteInStep ==
  ASSUME NEW data, NEW ls \in Seq(Seq(Byte)), NEW l \in Seq(Byte), NEW rest \in Seq(Byte), rest # <<>>,
         InStep(data, ls, l, rest)
  PROVE  InStep(data, ls, l \o Encoded(Head(rest), Len(l)), Tail(rest))
<1>1. PICK d \in Seq(Byte) : Carries(l, d) /\ data = (Text(ls) \o d) \o rest
  BY DEF InStep
<1>2. PICK b, tail : b = Head(rest) /\ tail = Tail(rest)
  OBVIOUS
<1>3. b \in Byte /\ tail \in Seq(Byte) /\ rest = <<b>> \o tail /\ <<b>> \in Seq(Byte) /\ Len(l) \in Nat
  BY <1>2
<1>4. Carries(l \o Encoded(b, Len(l)), d \o <<b>>)
  BY <1>1, <1>3, CarriesMore
<1>5. Text(ls) \in Seq(Byte) /\ Text(ls) \o d \in Seq(Byte) /\ d \o <<b>> \in Seq(Byte)
  BY <1>3, TextsType
<1>6. (Text(ls) \o d) \o (<<b>> \o tail) = (Text(ls) \o (d \o <<b>>)) \o tail
  <2>1. <<b>> \in Seq(Byte) /\ tail \in Seq(Byte) /\ Text(ls) \in Seq(Byte)
    BY <1>3, <1>5
  <2>2. Regroups(Text(ls), d, <<b>>, tail)
    BY <2>1, Regroup
  <2> QED
    BY <2>2, Zenon DEF Regroups
<1>7. data = (Text(ls) \o (d \o <<b>>)) \o tail
  BY <1>1, <1>3, <1>6, Zenon
<1> QED
  BY <1>2, <1>4, <1>5, <1>7, Zenon DEF InStep

LEMMA LineInStep ==
  ASSUME NEW data, NEW ls \in Seq(Seq(Byte)), NEW l \in Seq(Byte), NEW rest, InStep(data, ls, l, rest)
  PROVE  InStep(data, Append(ls, l), <<>>, rest)
<1>1. PICK d \in Seq(Byte) : Carries(l, d) /\ data = (Text(ls) \o d) \o rest
  BY DEF InStep
<1>2. Text(Append(ls, l)) = Text(ls) \o d
  BY <1>1, CarriesAll, TextAppend
<1>3. Text(ls) \o d \in Seq(Byte) /\ <<>> \in Seq(Byte)
  BY TextsType
<1>4. ASSUME NEW s \in Seq(Byte) PROVE s \o <<>> = s
  OBVIOUS
<1>5. data = (Text(Append(ls, l)) \o <<>>) \o rest
  BY <1>1, <1>2, <1>3, <1>4, Zenon
<1> QED
  BY <1>3, <1>5, CarriesNothing, Zenon DEF InStep

LEMMA StepsEnd ==
  ASSUME NEW data, NEW ls \in Seq(Seq(Byte)), InStep(data, ls, <<>>, <<>>) PROVE Text(ls) = data
<1>1. PICK d \in Seq(Byte) : Carries(<<>>, d) /\ data = (Text(ls) \o d) \o <<>>
  BY DEF InStep
<1>2. <<>> \in Seq(Byte)
  OBVIOUS
<1>3. d = <<>>
  BY <1>1, <1>2, CarriesAll, DecodedEmpty
<1>4. ASSUME NEW s \in Seq(Byte) PROVE s \o <<>> = s
  OBVIOUS
<1> QED
  BY <1>1, <1>3, <1>4, TextsType, Zenon

-----------------------------------------------------------------------------
(* The articles carry their parts.                                          *)

\* As many bytes as =ypart has room for.
Measured(p) == p.data \in Seq(Byte) /\ Len(p.data) = p.end - p.begin + 1

\* The payload is made of harmless lines that decode to the part.
IsWhole(a) ==
  \E ls \in Seq(Seq(Byte)) :
    a.payload = Payload(ls) /\ (\A i \in DOMAIN ls : Harmless(ls[i])) /\ Text(ls) = a.part.data

WholeInv ==
  /\ stage = "encode" => Measured(part) /\ InStep(part.data, lines, line, input)
  /\ \A i \in DOMAIN articles : Measured(articles[i].part) /\ IsWhole(articles[i])

LEMMA PartIsMeasured ==
  ASSUME TypeInv, ReadPart, stage' = "encode"
  PROVE  Measured(part') /\ input' = part'.data
<1> DEFINE f == files[file + 1]
           bytes == disk[f.id]
<1>1. PICK n, offset : /\ offset = piece * cfg.article_size /\ n = BytesRead(f, offset)
               /\ part' = [file |-> file, piece |-> piece, total |-> f.parts, size |-> f.size,
                           begin |-> offset + 1, end |-> offset + n,
                           data |-> SubSeq(disk[f.id], offset + 1, offset + n)]
               /\ input' = SubSeq(disk[f.id], offset + 1, offset + n)
  BY DEF ReadPart
<1>2. file + 1 \in DOMAIN files /\ f \in FileRecord /\ piece \in Nat /\ cfg.article_size \in Nat
  BY SizeAssumption DEF TypeInv, MainInv, ReadPart, Running
<1>3. bytes \in Seq(Byte) /\ Len(bytes) \in Nat
  BY <1>2 DEF TypeInv, WorldInv, FileRecord
<1>4. offset \in Nat
  BY <1>1, <1>2
<1>5. n = 0 \/ (offset < Len(bytes) /\ n = Least(cfg.article_size, Len(bytes) - offset))
  BY <1>1 DEF BytesRead
<1> HIDE DEF bytes
<1>6. n \in Nat /\ (n = 0 \/ offset + n <= Len(bytes))
  BY <1>2, <1>3, <1>4, <1>5 DEF Least
<1>7. SubSeq(bytes, offset + 1, offset + n) \in Seq(Byte) /\ Len(SubSeq(bytes, offset + 1, offset + n)) = n
  BY <1>3, <1>4, <1>6
<1>8. (offset + n) - (offset + 1) + 1 = n
  BY <1>4, <1>6
<1>9. /\ part'.data = SubSeq(bytes, offset + 1, offset + n) /\ input' = part'.data
      /\ part'.end = offset + n /\ part'.begin = offset + 1
  BY <1>1 DEF bytes
<1> QED
  BY <1>7, <1>8, <1>9 DEF Measured

\* A log keeps what holds of each article: one is added, or gets another id.
LEMMA ArticlesStep ==
  ASSUME TypeInv, PartsInv, [Next]_vars, ~LoadConfig, ~Walk
  PROVE  /\ Len(articles) \in Nat /\ DOMAIN articles = 1..Len(articles)
         /\ \/ EnqueueArticle /\ DOMAIN articles' = 1..(Len(articles) + 1)
            \/ DOMAIN articles' = DOMAIN articles
         /\ \A i \in DOMAIN articles :
              articles'[i].part = articles[i].part /\ articles'[i].payload = articles[i].payload
         /\ EnqueueArticle => /\ articles'[Len(articles) + 1].part = part
                              /\ articles'[Len(articles) + 1].payload = Payload(lines)
<1>1. IsLog(articles)
  BY DEF PartsInv
<1>2. Len(articles) \in Nat /\ DOMAIN articles = 1..Len(articles)
  BY <1>1, LogAppended
<1>3. CASE EnqueueArticle
  <2> DEFINE a == [part |-> part, payload |-> Payload(lines),
                   msgid |-> MessageId(RunNonce, cfg.msgiddomain, file, piece)]
  <2>1. articles' = Append(articles, a) /\ a.part = part /\ a.payload = Payload(lines)
    BY <1>3 DEF EnqueueArticle
  <2> HIDE DEF a
  <2>2. /\ DOMAIN Append(articles, a) = 1..(Len(articles) + 1)
        /\ Append(articles, a)[Len(articles) + 1] = a
        /\ \A i \in DOMAIN articles : Append(articles, a)[i] = articles[i]
    BY <1>1, LogAppended
  <2> QED
    BY <1>2, <1>3, <2>1, <2>2, Zenon
<1>4. CASE Retry
  <2>1. ~EnqueueArticle \/ articles' = articles
    BY <1>4 DEF Retry, EnqueueArticle, main, position
  <2>2. PICK i \in DOMAIN articles : \E m : articles' = [articles EXCEPT ![i].msgid = m]
    BY <1>4 DEF Retry
  <2>3. PICK m : articles' = [articles EXCEPT ![i].msgid = m]
    BY <2>2
  <2>4. DOMAIN articles' = DOMAIN articles
        /\ \A j \in DOMAIN articles :
             articles'[j].part = articles[j].part /\ articles'[j].payload = articles[j].payload
    BY <1>1, <2>3, LogRenamed
  <2>5. ~EnqueueArticle
    <3>1. EnqueueArticle => piece' = piece + 1
      BY DEF EnqueueArticle
    <3>2. piece' = piece /\ piece \in Nat
      BY <1>4 DEF Retry, main, position, TypeInv, MainInv
    <3> QED
      BY <3>1, <3>2
  <2> QED
    BY <1>2, <2>4, <2>5
<1>5. CASE ~EnqueueArticle /\ ~Retry
  <2>1. articles' = articles
    BY <1>5 DEF Next, RemovePath, RemoveEntry, ChangeFile, StartPool, OutgrowMemory, NextFile, ReadPart,
         EncodePart, End, Ended, vars,
                posted
  <2> QED
    BY <1>2, <1>5, <2>1
<1> QED
  BY <1>3, <1>4, <1>5

LEMMA WholeStep ==
  ASSUME TypeInv, PartsInv, LinesAreSafe, WholeInv, [Next]_vars PROVE WholeInv'
<1>1. CASE LoadConfig \/ Walk
  <2>1. articles' = <<>> /\ stage' # "encode"
    BY <1>1, WalkMoves DEF LoadConfig, PartsInv, posted, Searching, Walking
  <2> QED
    BY <2>1 DEF WholeInv
<1> SUFFICES ASSUME ~LoadConfig, ~Walk PROVE WholeInv'
  BY <1>1
<1> DEFINE Good(a) == Measured(a.part) /\ IsWhole(a)
<1>0. \A a, b : a.part = b.part /\ a.payload = b.payload => (Good(a) => Good(b))
  BY DEF IsWhole
<1>2. /\ Len(articles) \in Nat /\ DOMAIN articles = 1..Len(articles)
      /\ \/ EnqueueArticle /\ DOMAIN articles' = 1..(Len(articles) + 1)
         \/ DOMAIN articles' = DOMAIN articles
      /\ \A i \in DOMAIN articles :
           articles'[i].part = articles[i].part /\ articles'[i].payload = articles[i].payload
      /\ EnqueueArticle => /\ articles'[Len(articles) + 1].part = part
                           /\ articles'[Len(articles) + 1].payload = Payload(lines)
  BY ArticlesStep
<1>3. EnqueueArticle => \E i : Good([part |-> part, payload |-> Payload(lines), msgid |-> i])
  <2>1. SUFFICES ASSUME EnqueueArticle PROVE Good([part |-> part, payload |-> Payload(lines), msgid |-> 0])
    OBVIOUS
  <2>2. Measured(part) /\ InStep(part.data, lines, <<>>, <<>>) /\ lines \in Seq(Seq(Byte))
    BY <2>1 DEF EnqueueArticle, BlockEncoded, WholeInv, TypeInv, EncoderInv
  <2>3. Text(lines) = part.data
    BY <2>2, StepsEnd
  <2>4. \A i \in DOMAIN lines : Harmless(lines[i])
    BY DEF LinesAreSafe
  <2> QED
    BY <2>2, <2>3, <2>4 DEF IsWhole
<1>4. \A i \in DOMAIN articles : Good(articles[i])
  BY DEF WholeInv
<1> HIDE DEF Good
<1>5. \A i \in DOMAIN articles' : Good(articles'[i])
  <2>1. \A i \in DOMAIN articles : Good(articles'[i])
    BY <1>0, <1>2, <1>4, Zenon
  <2>2. EnqueueArticle => Good(articles'[Len(articles) + 1])
    <3> SUFFICES ASSUME EnqueueArticle PROVE Good(articles'[Len(articles) + 1])
      OBVIOUS
    <3>1. PICK i : Good([part |-> part, payload |-> Payload(lines), msgid |-> i])
      BY <1>3
    <3>2. PICK a : a = [part |-> part, payload |-> Payload(lines), msgid |-> i]
      OBVIOUS
    <3>3. a.part = part /\ a.payload = Payload(lines) /\ Good(a)
      BY <3>1, <3>2
    <3> QED
      BY <1>0, <1>2, <3>3, Zenon
  <2>3. \/ DOMAIN articles' = DOMAIN articles
        \/ /\ EnqueueArticle
           /\ \A i \in DOMAIN articles' : i \in DOMAIN articles \/ i = Len(articles) + 1
    BY <1>2
  <2> QED
    BY <2>1, <2>2, <2>3
<1>6. stage' = "encode" => Measured(part)' /\ InStep(part.data, lines, line, input)'
  <2> SUFFICES ASSUME stage' = "encode" PROVE Measured(part)' /\ InStep(part.data, lines, line, input)'
    OBVIOUS
  <2>1. CASE ReadPart
    <3>1. Measured(part') /\ input' = part'.data
      BY <2>1, PartIsMeasured
    <3>2. line' = <<>> /\ lines' = <<>>
      BY <2>1 DEF ReadPart, TypeInv, EncoderInv
    <3>3. part'.data \in Seq(Byte)
      BY <3>1 DEF Measured
    <3> QED
      BY <3>1, <3>2, <3>3, StepsBegin
  <2>2. CASE EncodePart
    <3>1. stage = "encode" /\ part' = part /\ (EncodeByte \/ EndLine)
      BY <2>2 DEF EncodePart
    <3>2. Measured(part) /\ InStep(part.data, lines, line, input)
      BY <3>1 DEF WholeInv
    <3>3. lines \in Seq(Seq(Byte)) /\ line \in Seq(Byte) /\ input \in Seq(Byte)
      BY DEF TypeInv, EncoderInv, SafeSoFar
    <3>4. CASE EncodeByte
      <4>1. /\ input # <<>> /\ line' = line \o Encoded(Head(input), Len(line))
            /\ input' = Tail(input) /\ lines' = lines
        BY <3>4 DEF EncodeByte
      <4>2. InStep(part.data, lines, line \o Encoded(Head(input), Len(line)), Tail(input))
        BY <3>2, <3>3, <4>1, ByteInStep
      <4> QED
        BY <3>1, <3>2, <4>1, <4>2
    <3>5. CASE EndLine
      <4>1. lines' = Append(lines, line) /\ line' = <<>> /\ input' = input
        BY <3>5 DEF EndLine
      <4>2. InStep(part.data, Append(lines, line), <<>>, input)
        BY <3>2, <3>3, LineInStep
      <4> QED
        BY <3>1, <3>2, <4>1, <4>2
    <3> QED
      BY <3>1, <3>4, <3>5
  <2>3. CASE UNCHANGED <<stage, part, encoder>>
    BY <2>3 DEF WholeInv, encoder
  <2>4. ReadPart \/ EncodePart \/ UNCHANGED <<stage, part, encoder>>
    BY DEF Next, RemovePath, RemoveEntry, ChangeFile, StartPool, OutgrowMemory, NextFile, EnqueueArticle,
         Retry, End, Ended, vars, main
  <2> QED
    BY <2>1, <2>2, <2>3, <2>4
<1> QED
  BY <1>5, <1>6 DEF WholeInv, Good

LEMMA WholeInvariant == Spec => []WholeInv
<1>1. Init => WholeInv
  BY DEF Init, WholeInv
<1> QED
  BY <1>1, TypeInvariant, PartsInvariant, LinesStaySafe, WholeStep, PTL DEF Spec

-----------------------------------------------------------------------------
(* What a server and a reader make of an article.                           *)

\* A sequence with some elements before and behind it.
Framed(r, a, b, s, c) ==
  /\ Len(s) \in Nat /\ Len(r) = Len(s) + 3
  /\ r[1] = a /\ r[2] = b /\ r[Len(s) + 3] = c
  /\ \A i \in 1..Len(s) : r[i + 2] = s[i]

LEMMA PayloadShape ==
  ASSUME NEW ls \in Seq(Seq(Byte)), NEW p, p = Payload(ls)
  PROVE  /\ p \in Seq(Seq(Byte)) /\ Len(ls) \in Nat /\ Len(p) = Len(ls) + 3
         /\ p[1] = Keyword(1) /\ p[2] = Keyword(2) /\ p[Len(ls) + 3] = Keyword(3)
         /\ \A i \in 1..Len(ls) : p[i + 2] = ls[i]
<1>1. ASSUME NEW S, NEW a \in S, NEW b \in S, NEW c \in S, NEW s \in Seq(S), NEW r, r = <<a, b>> \o s \o <<c>>
      PROVE  r \in Seq(S) /\ Framed(r, a, b, s, c)
  <2>1. /\ <<a, b>> \o s \o <<c>> \in Seq(S) /\ Len(s) \in Nat
        /\ Len(<<a, b>> \o s \o <<c>>) = Len(s) + 3
        /\ (<<a, b>> \o s \o <<c>>)[1] = a /\ (<<a, b>> \o s \o <<c>>)[2] = b
        /\ (<<a, b>> \o s \o <<c>>)[Len(s) + 3] = c
        /\ \A i \in 1..Len(s) : (<<a, b>> \o s \o <<c>>)[i + 2] = s[i]
    OBVIOUS
  <2> QED
    BY <1>1, <2>1, Zenon DEF Framed
<1>2. Keyword(1) \in Seq(Byte) /\ Keyword(2) \in Seq(Byte) /\ Keyword(3) \in Seq(Byte)
  BY CharactersDiffer DEF Keyword
<1>3. p = <<Keyword(1), Keyword(2)>> \o ls \o <<Keyword(3)>>
  BY DEF Payload
<1>4. p \in Seq(Seq(Byte)) /\ Framed(p, Keyword(1), Keyword(2), ls, Keyword(3))
  BY <1>1, <1>2, <1>3, Zenon
<1> QED
  BY <1>4, Zenon DEF Framed

LEMMA PayloadIsTakenApart ==
  ASSUME NEW a, NEW ls \in Seq(Seq(Byte)), a.payload = Payload(ls)
  PROVE  DataLines(a) = ls
<1> PICK p : p = a.payload
  OBVIOUS
<1>1. /\ p \in Seq(Seq(Byte)) /\ Len(ls) \in Nat /\ Len(p) = Len(ls) + 3
      /\ \A i \in 1..Len(ls) : p[i + 2] = ls[i]
  BY PayloadShape
<1>2. SubSeq(p, 3, Len(p) - 1) = ls
  BY <1>1
<1> QED
  BY <1>2 DEF DataLines

\* What is decoded from an article is what its keyword lines say, for every line length and
\* article size and whatever the bytes of the file: the bytes that were read from it, as many
\* as =ypart has room for, even if the file changes meanwhile (yencgenerator.cc:44-83,
\* yenc.cc:7-18, yenc.hpp:21-49).
THEOREM ArticlesAreDecoded == Spec => []ArticlesDecode
<1>1. WholeInv => ArticlesDecode
  <2> SUFFICES ASSUME WholeInv, NEW i \in DOMAIN articles
               PROVE  LET p == articles[i].part
                      IN Restored(articles[i]) = p.data /\ Len(p.data) = p.end - p.begin + 1
    BY DEF ArticlesDecode
  <2>1. Measured(articles[i].part) /\ IsWhole(articles[i])
    BY DEF WholeInv
  <2>2. PICK ls \in Seq(Seq(Byte)) : articles[i].payload = Payload(ls) /\ Text(ls) = articles[i].part.data
    BY <2>1 DEF IsWhole
  <2>3. DataLines(articles[i]) = ls
    BY <2>2, PayloadIsTakenApart
  <2>4. Restored(articles[i]) = Text(ls)
    BY <2>3 DEF Restored, Text, Texts
  <2> QED
    BY <2>1, <2>2, <2>4 DEF Measured
<1> QED
  BY <1>1, WholeInvariant, PTL

LEMMA ShortSequences ==
  /\ Append(<<>>, 1) = <<1>>
  /\ Append(<<1>>, 2) = <<1, 2>>
  /\ \A k \in Nat : Append(<<1, 2>>, k) = <<1, 2, k>>
<1>1. Append(<<>>, 1) = <<1>>
  OBVIOUS
<1>2. Append(<<1>>, 2) = <<1, 2>>
  <2>1. <<1, 2>> \in Seq(Nat) /\ Append(<<1>>, 2) \in Seq(Nat)
    OBVIOUS
  <2>2. Len(<<1, 2>>) = 2 /\ Len(Append(<<1>>, 2)) = 2 /\ \A i \in 1..2 : Append(<<1>>, 2)[i] = <<1, 2>>[i]
    OBVIOUS
  <2> QED
    BY <2>1, <2>2, SeqEqual
<1>3. ASSUME NEW k \in Nat PROVE Append(<<1, 2>>, k) = <<1, 2, k>>
  <2>1. <<1, 2, k>> \in Seq(Nat) /\ Append(<<1, 2>>, k) \in Seq(Nat)
    OBVIOUS
  <2>2. /\ Len(<<1, 2, k>>) = 3 /\ Len(Append(<<1, 2>>, k)) = 3
        /\ \A i \in 1..3 : Append(<<1, 2>>, k)[i] = <<1, 2, k>>[i]
    OBVIOUS
  <2> QED
    BY <2>1, <2>2, SeqEqual
<1> QED
  BY <1>1, <1>2, <1>3

\* The keyword lines of a payload are its first two and its last.
LEMMA KeywordLinesAreThree ==
  ASSUME NEW a, NEW ls \in Seq(Seq(Byte)), a.payload = Payload(ls), \A i \in DOMAIN ls : Harmless(ls[i])
  PROVE  KeywordLines(a) = <<Keyword(1), Keyword(2), Keyword(3)>>
<1> PICK p : p = a.payload
  OBVIOUS
<1> DEFINE I == {i \in DOMAIN p : IsKeywordLine(p[i])}
           n == Len(ls) + 3
<1>1. /\ p \in Seq(Seq(Byte)) /\ Len(ls) \in Nat /\ Len(p) = n
      /\ p[1] = Keyword(1) /\ p[2] = Keyword(2) /\ p[n] = Keyword(3)
      /\ \A i \in 1..Len(ls) : p[i + 2] = ls[i]
  BY PayloadShape
<1>2. IsKeywordLine(Keyword(1)) /\ IsKeywordLine(Keyword(2)) /\ IsKeywordLine(Keyword(3))
  BY DEF IsKeywordLine, Keyword
<1>3. \A i \in 1..Len(ls) : ~IsKeywordLine(ls[i])
  BY DEF IsKeywordLine, Harmless
<1>4. 1 \in I /\ 2 \in I /\ n \in I
  BY <1>1, <1>2
<1>5. \A i \in Nat : 3 <= i /\ i < n => i \notin I
  <2>1. \A i \in Nat : 3 <= i /\ i < n => i - 2 \in 1..Len(ls) /\ (i - 2) + 2 = i
    BY <1>1
  <2>2. \A i \in Nat : 3 <= i /\ i < n => p[i] = ls[i - 2] /\ ~IsKeywordLine(ls[i - 2])
    BY <1>1, <1>3, <2>1
  <2> QED
    BY <2>2
<1>6. n \in Nat /\ n >= 3 /\ n - 1 \in Nat
  BY <1>1
<1> HIDE DEF I, n
<1>7. InOrder(I, 2) = <<1, 2>>
  <2>1. 0 + 1 \in I /\ 1 + 1 \in I /\ 0 \in Nat /\ 1 \in Nat
    BY <1>4
  <2>2. InOrder(I, 0 + 1) = Append(<<>>, 0 + 1)
    BY <2>1, InOrderStep, InOrderOfNone, Zenon
  <2>3. InOrder(I, 1 + 1) = Append(InOrder(I, 1), 1 + 1)
    BY <2>1, InOrderStep, Zenon
  <2>4. 0 + 1 = 1 /\ 1 + 1 = 2
    OBVIOUS
  <2> QED
    BY <2>2, <2>3, <2>4, ShortSequences, Zenon
<1>8. InOrder(I, n - 1) = <<1, 2>>
  <2> DEFINE T == {k \in Nat : k + 2 < n => InOrder(I, k + 2) = <<1, 2>>}
  <2>1. 0 \in T
    BY <1>7
  <2>2. ASSUME NEW k \in Nat, k \in T PROVE k + 1 \in T
    <3> SUFFICES ASSUME (k + 1) + 2 < n PROVE InOrder(I, (k + 1) + 2) = <<1, 2>>
      OBVIOUS
    <3>1. k + 2 \in Nat /\ (k + 2) + 1 = (k + 1) + 2 /\ k + 2 < n /\ (k + 2) + 1 \notin I
      BY <1>5, <1>6
    <3>2. InOrder(I, (k + 2) + 1) = InOrder(I, k + 2)
      BY <3>1, InOrderStep
    <3> QED
      BY <2>2, <3>1, <3>2
  <2> HIDE DEF T
  <2>3. n - 3 \in T
    BY <1>6, <2>1, <2>2, SetInduction
  <2>4. (n - 3) + 2 < n => InOrder(I, (n - 3) + 2) = <<1, 2>>
    BY <2>3 DEF T
  <2> QED
    BY <1>6, <2>4
<1>9. InOrder(I, n) = <<1, 2, n>>
  <2>1. (n - 1) + 1 = n
    BY <1>6
  <2>2. InOrder(I, n) = Append(<<1, 2>>, n)
    BY <1>4, <1>6, <1>8, <2>1, InOrderStep
  <2> QED
    BY <1>6, <2>2, ShortSequences, Zenon
<1>10. KeywordLines(a) = Chosen(p, I)
  BY DEF KeywordLines, I
<1>11. Chosen(p, I) = [i \in 1..3 |-> p[<<1, 2, n>>[i]]]
  BY <1>1, <1>9 DEF Chosen
<1>12. [i \in 1..3 |-> p[<<1, 2, n>>[i]]] = <<p[1], p[2], p[n]>>
  OBVIOUS
<1> QED
  BY <1>1, <1>10, <1>11, <1>12

FramedTwice(r, h, e, s, d) ==
  /\ Len(s) \in Nat /\ Len(r) = Len(s) + 4 /\ r[Len(s) + 4] = d
  /\ r[1] = h /\ r[2] = e /\ r[Len(s) + 3] = e
  /\ \A i \in 1..Len(s) : r[i + 2] = s[i]

\* No line of a payload ends the message for a server.
LEMMA MessageIsTakenWhole ==
  ASSUME NEW a, NEW ls \in Seq(Seq(Byte)), a.payload = Payload(ls), \A i \in DOMAIN ls : Harmless(ls[i])
  PROVE  LinesTaken(Message(a)) = Len(Message(a))
<1> PICK p : p = a.payload
  OBVIOUS
<1>1. /\ p \in Seq(Seq(Byte)) /\ Len(ls) \in Nat /\ Len(p) = Len(ls) + 3
      /\ p[1] = Keyword(1) /\ p[2] = Keyword(2) /\ p[Len(ls) + 3] = Keyword(3)
      /\ \A i \in 1..Len(ls) : p[i + 2] = ls[i]
  BY PayloadShape
<1>2. \A i \in 1..Len(p) : p[i] # <<DOT>>
  <2>1. \A i \in 1..3 : Keyword(i) # <<DOT>>
    BY DEF Keyword
  <2>2. \A i \in 1..Len(ls) : ls[i] # <<DOT>>
    <3>1. \A i \in 1..Len(ls) : ls[i][1] # DOT
      BY DEF Harmless
    <3> QED
      BY <3>1
  <2>3. \A i \in 1..Len(p) : i = 1 \/ i = 2 \/ i = Len(ls) + 3 \/ (i - 2 \in 1..Len(ls) /\ (i - 2) + 2 = i)
    <3>1. \A b, c \in Nat : c = b + 3 => \A i \in 1..c :
             i = 1 \/ i = 2 \/ i = b + 3 \/ (i - 2 \in 1..b /\ (i - 2) + 2 = i)
      OBVIOUS
    <3>2. Len(ls) \in Nat /\ Len(p) \in Nat /\ Len(p) = Len(ls) + 3
      BY <1>1
    <3> QED
      BY <3>1, <3>2, Zenon
  <2>4. \A k \in 1..Len(ls) : p[k + 2] = ls[k]
    BY <1>1, Zenon
  <2>5. \A i \in 1..Len(p) : i - 2 \in 1..Len(ls) /\ (i - 2) + 2 = i => p[i] = ls[i - 2]
    BY <2>4, Zenon
  <2>6. p[1] # <<DOT>> /\ p[2] # <<DOT>> /\ p[Len(ls) + 3] # <<DOT>>
    BY <1>1, <2>1
  <2> QED
    BY <2>2, <2>3, <2>5, <2>6
<1>3. PICK m : m = Message(a)
  OBVIOUS
<1>4. /\ Len(p) \in Nat /\ Len(m) = Len(p) + 4 /\ m[Len(p) + 4] = <<DOT>>
      /\ m[1] = <<72>> /\ m[2] = <<>> /\ m[Len(p) + 3] = <<>>
      /\ \A i \in 1..Len(p) : m[i + 2] = p[i]
  <2>1. ASSUME NEW S, NEW s \in Seq(S), NEW h \in S, NEW e \in S, NEW d \in S,
               NEW r, r = <<h>> \o <<e>> \o s \o <<e, d>>
        PROVE  FramedTwice(r, h, e, s, d)
    <3> DEFINE q == <<h>> \o <<e>> \o s \o <<e, d>>
    <3>1. /\ Len(s) \in Nat /\ Len(q) = Len(s) + 4 /\ q[Len(s) + 4] = d
          /\ q[1] = h /\ q[2] = e /\ q[Len(s) + 3] = e
          /\ \A i \in 1..Len(s) : q[i + 2] = s[i]
      OBVIOUS
    <3> QED
      BY <2>1, <3>1, Zenon DEF FramedTwice
  <2>2. <<72>> \in Seq(Byte) /\ <<>> \in Seq(Byte) /\ <<DOT>> \in Seq(Byte)
    BY CharactersDiffer
  <2>3. m = <<<<72>>>> \o <<<<>>>> \o p \o <<<<>>, <<DOT>>>>
    BY <1>3 DEF Message, HeaderLines
  <2>4. FramedTwice(m, <<72>>, <<>>, p, <<DOT>>)
    BY <1>1, <2>1, <2>2, <2>3, Zenon
  <2> QED
    BY <2>4, Zenon DEF FramedTwice
<1> DEFINE I == {i \in 1..Len(m) : m[i] = <<DOT>>}
<1>5. Len(m) \in I /\ I \in SUBSET Int
  BY <1>4
<1>6. \A i \in I : Len(m) <= i
  <2>1. \A i \in 1..Len(m) : \/ i = 1 \/ i = 2 \/ i = Len(p) + 3 \/ i = Len(m)
                            \/ (i - 2 \in 1..Len(p) /\ (i - 2) + 2 = i)
    BY <1>4
  <2>2. \A i \in 1..Len(m) : i - 2 \in 1..Len(p) /\ (i - 2) + 2 = i => m[i] = p[i - 2]
    BY <1>4
  <2>3. <<72>> # <<DOT>> /\ <<>> # <<DOT>>
    BY CharactersDiffer
  <2>4. \A i \in I : i = Len(m)
    BY <1>2, <1>4, <2>1, <2>2, <2>3
  <2> QED
    BY <1>4, <2>4
<1>7. I # {} /\ Min(I) = Len(m)
  BY <1>5, <1>6, LeastElement
<1>8. LinesTaken(m) = IF I # {} THEN Min(I) ELSE 0
  BY DEF LinesTaken, SelectInSeq
<1> QED
  BY <1>3, <1>7, <1>8

\* A server takes the whole article that connection::send_article writes without doubling
\* dots (connection.cc:324-327), and a reader finds the three keyword lines and no others
\* (yencgenerator.cc:50-83), whatever the bytes of the file.
THEOREM ArticlesAreTakenWhole == Spec => []ArticlesArriveWhole
<1>1. WholeInv => ArticlesArriveWhole
  <2> SUFFICES ASSUME WholeInv, NEW i \in DOMAIN articles
               PROVE  /\ LinesTaken(Message(articles[i])) = Len(Message(articles[i]))
                      /\ KeywordLines(articles[i]) = <<Keyword(1), Keyword(2), Keyword(3)>>
    BY DEF ArticlesArriveWhole
  <2>1. IsWhole(articles[i])
    BY DEF WholeInv
  <2>2. PICK ls \in Seq(Seq(Byte)) :
           articles[i].payload = Payload(ls) /\ \A j \in DOMAIN ls : Harmless(ls[j])
    BY <2>1 DEF IsWhole
  <2> QED
    BY <2>2, KeywordLinesAreThree, MessageIsTakenWhole
<1> QED
  BY <1>1, WholeInvariant, PTL

-----------------------------------------------------------------------------
(* The order of the articles.                                               *)

\* Where the articles of a file are, and how many it has so far.
Of(f) == {i \in DOMAIN articles : articles[i].part.file = f}

Order(f) == InOrder(Of(f), Len(articles))

Count(f) == IF f < file THEN files[f + 1].parts ELSE IF f = file THEN piece ELSE 0

\* The pieces of a file are the first, the second and so on.
InPieces(f) ==
  /\ Len(Order(f)) = Count(f)
  /\ \A k \in DOMAIN Order(f) : articles[Order(f)[k]].part.piece = k - 1

OrderInv == \A f \in Nat : f + 1 \in DOMAIN files => InPieces(f)

LEMMA NothingInOrder == ASSUME articles = <<>>, file = 0, piece = 0 PROVE OrderInv
<1>1. \A f : Order(f) = <<>>
  BY InOrderOfNone DEF Order
<1>2. \A f \in Nat : Count(f) = 0
  BY DEF Count
<1> QED
  BY <1>1, <1>2 DEF OrderInv, InPieces

\* Another article of the file that is being posted is its next piece.
LEMMA OrderGrows ==
  ASSUME TypeInv, PartsInv, OrderInv, EnqueueArticle, NEW f \in Nat, f + 1 \in DOMAIN files
  PROVE  InPieces(f)'
<1>1. ~LoadConfig /\ ~Walk
  BY WalkMoves DEF EnqueueArticle, LoadConfig, Walking
<1>2. [Next]_vars
  BY DEF Next
<1> DEFINE n == Len(articles)
<1>3. /\ n \in Nat /\ DOMAIN articles = 1..n /\ DOMAIN articles' = 1..(n + 1)
      /\ \A i \in DOMAIN articles : articles'[i].part = articles[i].part
      /\ articles'[n + 1].part = part
  <2>1. /\ n \in Nat /\ DOMAIN articles = 1..n
        /\ \A i \in DOMAIN articles : articles'[i].part = articles[i].part
        /\ articles'[n + 1].part = part
    BY <1>1, <1>2, ArticlesStep
  <2>2. \E a : articles' = Append(articles, a)
    BY DEF EnqueueArticle
  <2>3. DOMAIN articles' = 1..(n + 1)
    BY <2>2, LogAppended DEF PartsInv
  <2> QED
    BY <2>1, <2>3
<1>4. part.file = file /\ part.piece = piece /\ file \in Nat /\ piece \in Nat
  BY DEF EnqueueArticle, PartsInv, TypeInv, MainInv
<1>5. Len(articles') = n + 1
  <2>1. IsLog(articles')
    BY <1>2, PartsStep DEF PartsInv
  <2>2. Len(articles') \in Nat /\ DOMAIN articles' = 1..Len(articles')
    BY <2>1, LogAppended
  <2> QED
    BY <1>3, <2>2
<1>6. file' = file /\ piece' = piece + 1 /\ files' = files
  BY DEF EnqueueArticle
<1>7. InPieces(f)
  BY DEF OrderInv
<1> HIDE DEF n
<1>8. InOrder(Of(f)', n) = Order(f)
  <2>1. Of(f)' \cap 1..n = Of(f) \cap 1..n
    BY <1>3 DEF Of
  <2> QED
    BY <1>3, <2>1, InOrderSame DEF Order, n
<1>9. n + 1 \in Of(f)' <=> f = file
  BY <1>3, <1>4 DEF Of
<1>10. Order(f)' = InOrder(Of(f)', n + 1)
  BY <1>5 DEF Order
<1>11. Order(f) \in Seq(Nat) /\ \A k \in DOMAIN Order(f) : Order(f)[k] \in 1..n
  BY <1>3, InOrderRange DEF Order, n
<1>12. CASE f = file
  <2>1. Order(f)' = Append(Order(f), n + 1)
    BY <1>3, <1>8, <1>9, <1>10, <1>12, InOrderStep
  <2>2. Count(f) = piece /\ Count(f)' = piece + 1
    BY <1>4, <1>6, <1>12 DEF Count
  <2>3. PICK s : s = Order(f)
    OBVIOUS
  <2>4. /\ Len(s) = piece /\ s \in Seq(Nat)
        /\ \A k \in DOMAIN s : s[k] \in 1..n /\ articles[s[k]].part.piece = k - 1
    BY <1>7, <1>11, <2>2, <2>3 DEF InPieces
  <2>5. PICK t : t = Append(s, n + 1)
    OBVIOUS
  <2>6. /\ Len(t) = piece + 1 /\ t[piece + 1] = n + 1
        /\ \A k \in DOMAIN t : k \in DOMAIN s \/ k = piece + 1
        /\ \A k \in DOMAIN s : t[k] = s[k]
    BY <1>3, <2>4, <2>5
  <2>7. \A k \in DOMAIN s : articles'[s[k]].part.piece = k - 1
    BY <1>3, <2>4
  <2>8. articles'[t[piece + 1]].part.piece = (piece + 1) - 1
    BY <1>3, <1>4, <2>6
  <2>9. \A k \in DOMAIN t : articles'[t[k]].part.piece = k - 1
    BY <2>6, <2>7, <2>8
  <2> QED
    BY <2>1, <2>2, <2>3, <2>5, <2>6, <2>9 DEF InPieces
<1>13. CASE f # file
  <2>1. Order(f)' = Order(f)
    BY <1>3, <1>8, <1>9, <1>10, <1>13, InOrderStep
  <2>2. Count(f)' = Count(f)
    BY <1>6, <1>13 DEF Count
  <2>3. \A k \in DOMAIN Order(f) : articles'[Order(f)[k]].part = articles[Order(f)[k]].part
    BY <1>3, <1>11
  <2>4. Len(Order(f)) = Count(f)' /\ \A k \in DOMAIN Order(f) : articles'[Order(f)[k]].part.piece = k - 1
    BY <1>7, <2>2, <2>3 DEF InPieces
  <2> QED
    BY <2>1, <2>4 DEF InPieces
<1> QED
  BY <1>12, <1>13

LEMMA OrderStep == ASSUME TypeInv, PartsInv, PostedSoFar, OrderInv, [Next]_vars PROVE OrderInv'
<1>1. CASE LoadConfig \/ Walk
  <2>1. articles' = <<>> /\ file' = 0 /\ piece' = 0
    BY <1>1, WalkMoves DEF LoadConfig, position, posted, PostedSoFar, PartsInv, Searching, Walking
  <2>2. \A f : Order(f)' = <<>>
    BY <2>1, InOrderOfNone DEF Order
  <2>3. \A f \in Nat : Count(f)' = 0
    BY <2>1 DEF Count
  <2> QED
    BY <2>2, <2>3 DEF OrderInv, InPieces
<1> SUFFICES ASSUME ~LoadConfig, ~Walk, NEW f \in Nat, f + 1 \in DOMAIN files PROVE InPieces(f)'
  <2>1. DOMAIN files' = DOMAIN files \/ LoadConfig \/ Walk
    BY PiecesStay
  <2> QED
    BY <1>1, <2>1 DEF OrderInv
<1>2. CASE EnqueueArticle
  BY <1>2, OrderGrows
<1>3. InPieces(f) /\ file \in Nat
  BY DEF OrderInv, TypeInv, MainInv
<1>4. files'[f + 1].parts = files[f + 1].parts
  BY PiecesStay
<1>5. CASE ~EnqueueArticle
  <2>1. /\ Len(articles) \in Nat /\ DOMAIN articles = 1..Len(articles) /\ DOMAIN articles' = DOMAIN articles
        /\ \A i \in DOMAIN articles : articles'[i].part = articles[i].part
    BY <1>5, ArticlesStep
  <2>2. Len(articles') = Len(articles)
    <3>1. IsLog(articles')
      BY PartsStep DEF PartsInv
    <3>2. Len(articles') \in Nat /\ DOMAIN articles' = 1..Len(articles')
      BY <3>1, LogAppended
    <3> QED
      BY <2>1, <3>2
  <2>3. Of(f)' = Of(f)
    BY <2>1 DEF Of
  <2>4. Order(f)' = Order(f)
    BY <2>2, <2>3 DEF Order
  <2>5. \A k \in DOMAIN Order(f) : Order(f)[k] \in DOMAIN articles
    BY <2>1, InOrderRange DEF Order
  <2>6. Count(f)' = Count(f)
    <3>1. CASE UNCHANGED <<file, piece>>
      BY <1>4, <3>1 DEF Count
    <3>2. CASE NextFile
      <4>1. piece = files[file + 1].parts /\ file' = file + 1 /\ piece' = 0
        BY <3>2 DEF NextFile
      <4> QED
        BY <1>3, <1>4, <4>1 DEF Count
    <3>3. NextFile \/ UNCHANGED <<file, piece>>
      BY <1>5 DEF Next, RemovePath, RemoveEntry, ChangeFile, StartPool, OutgrowMemory, ReadPart,
           EncodePart, Retry, End, Ended,
         vars, main,
                  position
    <3> QED
      BY <3>1, <3>2, <3>3
  <2>7. \A k \in DOMAIN Order(f) : articles'[Order(f)[k]].part.piece = k - 1
    BY <1>3, <2>1, <2>5 DEF InPieces
  <2> QED
    BY <1>3, <2>4, <2>6, <2>7 DEF InPieces
<1> QED
  BY <1>2, <1>5

LEMMA OrderInvariant == Spec => []OrderInv
<1>1. Init => OrderInv
  BY NothingInOrder DEF Init
<1> QED
  BY <1>1, TypeInvariant, PartsInvariant, PostedInvariant, OrderStep, PTL DEF Spec

\* The articles of a file, up to the last, once the loop is past it.
LEMMA ArticlesInOrder ==
  ASSUME TypeInv, PartsInv, OrderInv, NEW f \in DOMAIN files, f <= file
  PROVE  LET as == ArticlesOf(f - 1)
         IN /\ files[f].parts \in Nat /\ DOMAIN as = 1..files[f].parts /\ Len(as) = files[f].parts
            /\ \A k \in DOMAIN as : /\ \E i \in DOMAIN articles : as[k] = articles[i]
                                    /\ as[k].part.file = f - 1 /\ as[k].part.piece = k - 1
<1>1. f \in Nat \ {0} /\ files[f] \in FileRecord /\ file \in Nat
  BY DEF TypeInv, MainInv
<1>2. f - 1 \in Nat /\ (f - 1) + 1 = f /\ f - 1 < file
  BY <1>1
<1>3. Count(f - 1) = files[f].parts /\ files[f].parts \in Nat
  BY <1>1, <1>2 DEF Count, FileRecord
<1> PICK order : order = Order(f - 1)
  OBVIOUS
<1>4. /\ order \in Seq(Nat) /\ Len(order) = files[f].parts
      /\ \A k \in DOMAIN order : order[k] \in Of(f - 1) /\ articles[order[k]].part.piece = k - 1
  <2>1. InPieces(f - 1)
    BY <1>2 DEF OrderInv
  <2>2. Len(articles) \in Nat
    BY LogAppended DEF PartsInv
  <2>3. order \in Seq(Nat) /\ \A k \in DOMAIN order : order[k] \in Of(f - 1)
    BY <2>2, InOrderRange DEF Order
  <2> QED
    BY <1>3, <2>1, <2>3 DEF InPieces
<1> PICK as : as = ArticlesOf(f - 1)
  OBVIOUS
<1>5. as = [k \in DOMAIN order |-> articles[order[k]]]
  BY DEF ArticlesOf, Chosen, Order, Of
<1>6. DOMAIN order = 1..files[f].parts
  BY <1>4
<1>7. DOMAIN as = 1..files[f].parts /\ Len(as) = files[f].parts
  BY <1>3, <1>5, <1>6
<1>8. ASSUME NEW k \in DOMAIN as
      PROVE  /\ \E i \in DOMAIN articles : as[k] = articles[i]
             /\ as[k].part.file = f - 1 /\ as[k].part.piece = k - 1
  <2>1. k \in DOMAIN order /\ as[k] = articles[order[k]]
    BY <1>5
  <2>2. /\ order[k] \in DOMAIN articles /\ articles[order[k]].part.file = f - 1
        /\ articles[order[k]].part.piece = k - 1
    BY <1>4, <2>1 DEF Of
  <2> QED
    BY <2>1, <2>2
<1> QED
  BY <1>3, <1>7, <1>8

LEMMA ListFromInvariants ==
  ASSUME TypeInv, PartsInv, IdsInv, AllPosted, OrderInv PROVE NzbListsArticles
<1> SUFFICES ASSUME nzb # None, NEW f \in DOMAIN files
             PROVE  LET as == ArticlesOf(f - 1)
                    IN nzb[f] = [i \in DOMAIN as |->
                                   [bytes |-> Size(as[i].payload), number |-> i, msgid |-> Bare(as[i].msgid)]]
  BY DEF NzbListsArticles
<1>1. nzb = [g \in DOMAIN files |-> Segments(g)] /\ file = Len(files)
  BY DEF IdsInv, AllPosted
<1>2. f \in Nat /\ f <= file
  BY <1>1 DEF TypeInv, MainInv
<1> PICK as : as = ArticlesOf(f - 1)
  OBVIOUS
<1>3. /\ files[f].parts \in Nat /\ DOMAIN as = 1..files[f].parts
      /\ \A k \in DOMAIN as : /\ \E i \in DOMAIN articles : as[k] = articles[i]
                               /\ as[k].part.file = f - 1 /\ as[k].part.piece = k - 1
  BY <1>2, ArticlesInOrder
<1>4. ASSUME NEW k \in DOMAIN as
      PROVE  /\ piece_sizes[<<f - 1, k - 1>>] = Size(as[k].payload)
             /\ MessageId(NonceOf(<<f - 1, k - 1>>), cfg.msgiddomain, f - 1, k - 1) = as[k].msgid
  <2>1. Known(as[k])
    BY <1>3 DEF IdsInv
  <2>2. as[k].part.file = f - 1 /\ as[k].part.piece = k - 1
    BY <1>3
  <2> QED
    BY <2>1, <2>2 DEF Known, KeyOf
<1>5. Segments(f) = [k \in DOMAIN as |->
                       [bytes |-> Size(as[k].payload), number |-> k, msgid |-> Bare(as[k].msgid)]]
  BY <1>3, <1>4 DEF Segments
<1> QED
  BY <1>1, <1>5

\* The nzb file lists the articles of each file in order, under the ids they have after all
\* retries and with the size of their payload, for all files and domains and in whatever
\* order articles fail (main.cc:67-82 against 205-255).
THEOREM NzbIsInOrder == Spec => []NzbListsArticles
  BY TypeInvariant, PartsInvariant, IdsInvariant, AllPostedInvariant, OrderInvariant, ListFromInvariants, PTL

-----------------------------------------------------------------------------
(* The parts make up the file.                                              *)

\* Facts of arithmetic about the pieces of a file.
LEMMA Division ==
  ASSUME NEW n \in Nat, NEW a \in Nat \ {0}
  PROVE  n \div a \in Nat /\ n % a \in Nat /\ n % a < a /\ n = a * (n \div a) + (n % a)
<1>1. n \div a \in Nat
  OBVIOUS
<1>2. n % a \in Nat
  OBVIOUS
<1>3. n % a < a
  OBVIOUS
<1>4. n = a * (n \div a) + (n % a)
  OBVIOUS
<1> QED
  BY <1>1, <1>2, <1>3, <1>4

LEMMA Multiples ==
  ASSUME NEW k \in Nat, NEW n \in Nat, NEW a \in Nat \ {0}
  PROVE  /\ k * a \in Nat /\ (k + 1) * a = k * a + a
         /\ k <= n => k * a <= n * a
         /\ k < n => k * a < n * a
<1>1. k * a \in Nat /\ (k + 1) * a = k * a + a
  OBVIOUS
<1>2. k <= n => k * a <= n * a
  OBVIOUS
<1>3. k < n => k * a < n * a
  OBVIOUS
<1> QED
  BY <1>1, <1>2, <1>3

\* The parts of a file are as many as it takes to cover it.
LEMMA PartsCover ==
  ASSUME NEW a \in Nat \ {0}, a = cfg.article_size, NEW size \in Nat
  PROVE  /\ NumParts(size) \in Nat /\ size <= NumParts(size) * a
         /\ \A k \in Nat : k < NumParts(size) => k * a < size
<1> PICK q \in Nat : q = size \div a
  BY Division
<1> PICK r \in Nat : r = size % a
  BY Division
<1>1. r < a /\ size = a * q + r
  BY Division
<1>2. PICK qa \in Nat : qa = q * a /\ qa = a * q /\ (q + 1) * a = qa + a
  <2>1. q * a \in Nat /\ q * a = a * q /\ (q + 1) * a = q * a + a
    OBVIOUS
  <2> QED
    BY <2>1
<1>3. NumParts(size) = IF r = 0 THEN q ELSE q + 1
  BY DEF NumParts
<1>4. NumParts(size) \in Nat
  BY <1>3
<1>5. size <= NumParts(size) * a
  <2>1. CASE r = 0
    BY <1>1, <1>2, <1>3, <2>1
  <2>2. CASE r # 0
    <3>1. NumParts(size) * a = qa + a
      BY <1>2, <1>3, <2>2
    <3>2. size = qa + r
      BY <1>1, <1>2
    <3> QED
      BY <1>1, <3>1, <3>2
  <2> QED
    BY <2>1, <2>2
<1>6. ASSUME NEW k \in Nat, k < NumParts(size) PROVE k * a < size
  <2>1. size = qa + r
    BY <1>1, <1>2
  <2>2. PICK ka \in Nat : ka = k * a
    BY Multiples
  <2>3. CASE r = 0
    <3>1. k < q
      BY <1>3, <1>6, <2>3
    <3>2. k * a < q * a
      BY <3>1, Multiples
    <3> QED
      BY <1>2, <2>1, <2>2, <2>3, <3>2
  <2>4. CASE r # 0
    <3>1. k <= q
      BY <1>3, <1>6, <2>4
    <3>2. k * a <= q * a
      BY <3>1, Multiples
    <3>3. ka <= qa
      BY <1>2, <2>2, <3>2
    <3>4. ka < size
      BY <2>1, <2>4, <3>3
    <3> QED
      BY <2>2, <3>4
  <2> QED
    BY <2>3, <2>4
<1> QED
  BY <1>4, <1>5, <1>6

\* The k-th piece of a file.
Slice(s, a, k) == SubSeq(s, k * a + 1, Least((k + 1) * a, Len(s)))

\* Two pieces side by side are one piece.
LEMMA PiecesJoin ==
  ASSUME NEW S, NEW s \in Seq(S), NEW b \in Nat, NEW c \in Nat, b <= c, c <= Len(s)
  PROVE  SubSeq(s, 1, b) \o SubSeq(s, b + 1, c) = SubSeq(s, 1, c)
<1>1. PICK u : u = SubSeq(s, 1, b)
  OBVIOUS
<1>2. PICK v : v = SubSeq(s, b + 1, c)
  OBVIOUS
<1>3. PICK w : w = SubSeq(s, 1, c)
  OBVIOUS
<1>4. u \in Seq(S) /\ Len(u) = b /\ \A i \in 1..b : u[i] = s[i]
  BY <1>1
<1>5. v \in Seq(S) /\ Len(v) = c - b /\ \A i \in 1..(c - b) : v[i] = s[i + b]
  BY <1>2
<1>6. w \in Seq(S) /\ Len(w) = c /\ \A i \in 1..c : w[i] = s[i]
  BY <1>3
<1>7. /\ u \o v \in Seq(S) /\ Len(u \o v) = Len(w)
      /\ \A i \in 1..Len(w) : (u \o v)[i] = w[i]
  <2>1. u \o v \in Seq(S) /\ Len(u \o v) = Len(u) + Len(v)
    <3>1. u \in Seq(S) /\ v \in Seq(S)
      BY <1>4, <1>5
    <3> QED
      BY <3>1, ConcatProperties, Zenon
  <2>2. Len(u \o v) = Len(w)
    BY <1>4, <1>5, <1>6, <2>1
  <2>3. ASSUME NEW i \in 1..c PROVE (u \o v)[i] = w[i]
    <3>1. CASE i <= b
      <4>1. (u \o v)[i] = u[i]
        BY <1>4, <1>5, <3>1
      <4> QED
        BY <1>4, <1>6, <3>1, <4>1
    <3>2. CASE b < i
      <4>1. (u \o v)[i] = v[i - b]
        BY <1>4, <1>5, <3>2
      <4>2. i - b \in 1..(c - b) /\ (i - b) + b = i
        BY <3>2
      <4>3. v[i - b] = s[(i - b) + b]
        BY <1>5, <4>2, Zenon
      <4> QED
        BY <1>6, <4>1, <4>2, <4>3
    <3>3. i <= b \/ b < i
      OBVIOUS
    <3> QED
      BY <3>1, <3>2, <3>3, Zenon
  <2> QED
    BY <1>6, <2>1, <2>2, <2>3
<1>8. u \o v = w
  BY <1>6, <1>7, SeqEqual
<1> QED
  BY <1>1, <1>2, <1>3, <1>8

\* A sequence that is given by its elements is the shorter one with another element.
LEMMA TableGrows ==
  ASSUME NEW T, NEW n \in Nat, NEW g \in [1..n + 1 -> T]
  PROVE  /\ [k \in 1..n |-> g[k]] \in Seq(T)
         /\ g = Append([k \in 1..n |-> g[k]], g[n + 1])
<1>1. PICK h : h = [k \in 1..n |-> g[k]]
  OBVIOUS
<1>2. h \in Seq(T) /\ Len(h) = n /\ \A k \in 1..n : h[k] = g[k]
  BY <1>1
<1>3. g \in Seq(T) /\ Len(g) = n + 1 /\ g[n + 1] \in T
  OBVIOUS
<1>4. PICK w : w = Append(h, g[n + 1])
  OBVIOUS
<1>5. w \in Seq(T) /\ Len(w) = Len(g) /\ \A k \in 1..Len(g) : w[k] = g[k]
  BY <1>2, <1>3, <1>4
<1>6. w = g
  BY <1>3, <1>5, SeqEqual
<1> QED
  BY <1>1, <1>2, <1>4, <1>6

LEMMA SlicesMakeUp ==
  ASSUME NEW S, NEW s \in Seq(S), NEW a \in Nat \ {0}, NEW m \in Nat
  PROVE  FlattenSeq([k \in 1..m |-> Slice(s, a, k - 1)]) = SubSeq(s, 1, Least(m * a, Len(s)))
<1> DEFINE Parts(n) == [k \in 1..n |-> Slice(s, a, k - 1)]
           Upto(n) == SubSeq(s, 1, Least(n * a, Len(s)))
           T == {n \in Nat : FlattenSeq(Parts(n)) = Upto(n)}
<1>1. Len(s) \in Nat
  OBVIOUS
<1>2. \A n \in Nat : n * a \in Nat /\ (n + 1) * a = n * a + a
  OBVIOUS
<1>3. \A n \in Nat : Slice(s, a, n) \in Seq(S)
  <2> SUFFICES ASSUME NEW n \in Nat PROVE Slice(s, a, n) \in Seq(S)
    OBVIOUS
  <2>1. PICK b \in Nat : b = n * a
    BY <1>2
  <2>2. SubSeq(s, b + 1, Least(b + a, Len(s))) \in Seq(S)
    BY <1>1 DEF Least
  <2> QED
    BY <1>2, <2>1, <2>2 DEF Slice
<1>4. 0 \in T
  <2>1. Parts(0) = <<>>
    OBVIOUS
  <2>2. Upto(0) = <<>>
    BY <1>1 DEF Least
  <2> QED
    BY <2>1, <2>2, FlattenEmpty
<1>5. ASSUME NEW n \in Nat, n \in T PROVE n + 1 \in T
  <2>1. Parts(n) \in Seq(Seq(S)) /\ Parts(n + 1) = Append(Parts(n), Slice(s, a, n))
    <3>1. \A k \in 1..n + 1 : Slice(s, a, k - 1) \in Seq(S)
      BY <1>3
    <3>2. PICK g : g = Parts(n + 1)
      OBVIOUS
    <3>3. g \in [1..n + 1 -> Seq(S)]
      BY <3>1, <3>2
    <3>4. Parts(n) = [k \in 1..n |-> g[k]]
      BY <3>2
    <3>5. g[n + 1] = Slice(s, a, n)
      <4>1. (n + 1) - 1 = n /\ n + 1 \in 1..n + 1
        OBVIOUS
      <4> QED
        BY <3>2, <4>1, Zenon
    <3>6. [k \in 1..n |-> g[k]] \in Seq(Seq(S)) /\ g = Append([k \in 1..n |-> g[k]], g[n + 1])
      BY <3>3, TableGrows, Zenon
    <3> HIDE DEF Parts
    <3> QED
      BY <3>2, <3>4, <3>5, <3>6, Zenon
  <2>2. FlattenSeq(Parts(n + 1)) = FlattenSeq(Parts(n)) \o Slice(s, a, n)
    <3>1. PICK ps : ps = Parts(n)
      OBVIOUS
    <3>2. PICK sl : sl = Slice(s, a, n)
      OBVIOUS
    <3>3. ps \in Seq(Seq(S)) /\ sl \in Seq(S) /\ Parts(n + 1) = Append(ps, sl)
      BY <1>3, <2>1, <3>1, <3>2
    <3>4. FlattenSeq(Append(ps, sl)) = FlattenSeq(ps) \o sl
      BY <3>3, FlattenAppend
    <3> HIDE DEF Parts
    <3> QED
      BY <3>1, <3>2, <3>3, <3>4
  <2>3. FlattenSeq(Parts(n)) = Upto(n)
    BY <1>5
  <2>4. Upto(n) \o Slice(s, a, n) = Upto(n + 1)
    <3>1. PICK b \in Nat : b = n * a
      BY <1>2
    <3>2. (n + 1) * a = b + a
      BY <1>2, <3>1
    <3>3. SubSeq(s, 1, Least(b, Len(s))) \o SubSeq(s, b + 1, Least(b + a, Len(s)))
            = SubSeq(s, 1, Least(b + a, Len(s)))
      <4>1. PICK c \in Nat : c = Least(b + a, Len(s)) /\ c <= Len(s)
        BY <1>1 DEF Least
      <4>2. CASE b < Len(s)
        <5>1. Least(b, Len(s)) = b /\ b <= c
          BY <1>1, <4>1, <4>2 DEF Least
        <5>2. SubSeq(s, 1, b) \o SubSeq(s, b + 1, c) = SubSeq(s, 1, c)
          BY <4>1, <5>1, PiecesJoin
        <5> QED
          BY <4>1, <5>1, <5>2
      <4>3. CASE b >= Len(s)
        <5>1. Least(b, Len(s)) = Len(s) /\ c = Len(s)
          BY <1>1, <4>1, <4>3 DEF Least
        <5>2. SubSeq(s, b + 1, c) = <<>>
          BY <1>1, <4>3, <5>1
        <5>3. SubSeq(s, 1, c) \in Seq(S)
          BY <4>1
        <5>4. SubSeq(s, 1, c) \o <<>> = SubSeq(s, 1, c)
          BY <5>3
        <5> QED
          BY <4>1, <5>1, <5>2, <5>4
      <4>4. b < Len(s) \/ b >= Len(s)
        BY <1>1
      <4> QED
        BY <4>2, <4>3, <4>4, Zenon
    <3> QED
      BY <3>1, <3>2, <3>3 DEF Slice
  <2> HIDE DEF Parts, Upto
  <2> QED
    BY <2>2, <2>3, <2>4
<1> HIDE DEF T
<1>6. m \in T
  BY <1>4, <1>5, SetInduction
<1> QED
  BY <1>6 DEF T

\* The piece that is read next.
NextPiece == IF stage = "encode" THEN piece + 1 ELSE piece

\* What main knows of a file is true until it changes, and its stream is good as long as
\* there are pieces to be read.
IsOpen(f) ==
  /\ cfg.article_size \in Nat \ {0}
  /\ files[f].parts = NumParts(files[f].size)
  /\ files[f].id \notin changed =>
       /\ files[f].size = Len(disk[files[f].id])
       /\ stage # "crashed" /\ (file < f - 1 \/ (file = f - 1 /\ NextPiece < files[f].parts)) => files[f].good

FilesInv ==
  /\ stage = "start" => files = <<>>
  /\ file = 0 \/ file \in DOMAIN files
  /\ \A f \in DOMAIN files : IsOpen(f)

\* A part is a piece of its file.
FromFile(p) ==
  LET f == files[p.file + 1]
  IN /\ p.total = f.parts
     /\ f.id \notin changed => p.data = Slice(disk[f.id], cfg.article_size, p.piece)

DataInv ==
  /\ stage = "encode" => FromFile(part)
  /\ \A i \in DOMAIN articles : FromFile(articles[i].part)

\* A file that is not among the changed ones has not changed.
LEMMA DiskStays ==
  ASSUME [Next]_vars, NEW id, id \notin changed' PROVE id \notin changed /\ disk'[id] = disk[id]
<1>1. CASE UNCHANGED <<disk, changed>>
  BY <1>1
<1>2. CASE RemovePath \/ RemoveEntry
  BY <1>2 DEF RemovePath, RemoveEntry
<1>3. CASE ChangeFile
  BY <1>3 DEF ChangeFile
<1> QED
  BY <1>1, <1>2, <1>3, WalkMoves DEF Next, LoadConfig, StartPool, OutgrowMemory, NextFile, ReadPart,
       EncodePart,
     EnqueueArticle, Retry,
     End, Ended, vars, world

\* Reading changes the state of one stream.
LEMMA FilesStay ==
  ASSUME TypeInv, [Next]_vars, ~LoadConfig, ~Walk, NEW f \in DOMAIN files
  PROVE  /\ files'[f].id = files[f].id /\ files'[f].size = files[f].size /\ files'[f].parts = files[f].parts
         /\ files'[f].good = files[f].good
            \/ (/\ ReadPart /\ stage' = "encode" /\ f = file + 1
                /\ files'[f].good =
                     (files[f].good /\ BytesRead(files[f], piece * cfg.article_size) = cfg.article_size))
<1>1. files[f] \in FileRecord
  BY DEF TypeInv, MainInv
<1>2. UNCHANGED files \/ ReadPart
  BY DEF Next, RemovePath, RemoveEntry, ChangeFile, StartPool, OutgrowMemory, NextFile, EncodePart,
       EnqueueArticle, Retry, End,
         Ended, vars, main
<1>3. CASE ReadPart /\ ~UNCHANGED files
  <2>1. PICK b : /\ files' = [files EXCEPT ![file + 1].good = b]
                 /\ b = (files[file + 1].good
                         /\ BytesRead(files[file + 1], piece * cfg.article_size) = cfg.article_size)
                 /\ stage' = "encode"
    BY <1>3 DEF ReadPart
  <2>2. f # file + 1 => files'[f] = files[f]
    BY <2>1
  <2>3. f = file + 1 => files'[f] = [files[f] EXCEPT !.good = b]
    BY <2>1
  <2> QED
    BY <1>1, <1>3, <2>1, <2>2, <2>3 DEF FileRecord
<1> QED
  BY <1>2, <1>3

\* A read in the middle of a file gets a whole article.
LEMMA PieceIsRead ==
  ASSUME TypeInv, FilesInv, ReadPart, files[file + 1].id \notin changed, NEW f, f = files[file + 1],
         NEW bytes, bytes = disk[f.id], NEW a, a = cfg.article_size, NEW n, n = BytesRead(f, piece * a)
  PROVE  /\ n = Least((piece + 1) * a, Len(bytes)) - piece * a
         /\ piece + 1 < f.parts => n = a
<1>1. file + 1 \in DOMAIN files /\ file \in Nat /\ piece \in Nat /\ f \in FileRecord /\ piece < f.parts
      /\ stage = "post"
  BY DEF ReadPart, TypeInv, MainInv
<1>2. IsOpen(file + 1)
  BY <1>1 DEF FilesInv
<1>3. a \in Nat \ {0} /\ f.size = Len(bytes) /\ f.size \in Nat /\ f.parts = NumParts(f.size)
  BY <1>1, <1>2 DEF IsOpen, FileRecord
<1>4. f.good
  BY <1>1, <1>2 DEF IsOpen, NextPiece
<1>5. /\ piece * a < Len(bytes)
      /\ piece + 1 < f.parts => (piece + 1) * a < Len(bytes)
  <2>1. \A k \in Nat : k < f.parts => k * a < Len(bytes)
    BY <1>3, PartsCover, Zenon
  <2>2. piece \in Nat /\ piece + 1 \in Nat
    BY <1>1
  <2> QED
    BY <1>1, <2>1, <2>2
<1>6. (piece + 1) * a = piece * a + a /\ piece * a \in Nat
  BY <1>1, <1>3
<1> PICK b : b = piece * a
  OBVIOUS
<1>7. n = Least(a, Len(bytes) - b)
  BY <1>4, <1>5 DEF BytesRead
<1>8. b \in Nat /\ Len(bytes) \in Nat /\ b < Len(bytes)
  BY <1>3, <1>5, <1>6
<1>9. n = Least(b + a, Len(bytes)) - b
  BY <1>3, <1>7, <1>8 DEF Least
<1>10. b + a < Len(bytes) => n = a
  BY <1>3, <1>7, <1>8 DEF Least
<1> QED
  BY <1>5, <1>6, <1>9, <1>10

\* A file is opened as it is at that moment.
LEMMA WalkOpens ==
  ASSUME TypeInv, PostedSoFar, FilesInv, Walk PROVE FilesInv'
<1>1. /\ stage' # "start" /\ file' = 0 /\ file = 0 /\ piece' = piece
      /\ stage \notin {"encode", "crashed"} /\ stage' # "encode"
      /\ UNCHANGED <<cfg, disk, changed>>
  BY WalkMoves DEF position, world, PostedSoFar, Searching, Walking
<1>2. \A f : IsOpen(f) /\ files'[f] = files[f] => IsOpen(f)'
  BY <1>1 DEF IsOpen, NextPiece, NumParts
<1>3. CASE files' = files
  BY <1>1, <1>2, <1>3 DEF FilesInv
<1>4. CASE files' # files
  <2>1. AddPostitem /\ stage' = "list"
    BY <1>4, WalkMoves DEF AddPostitem
  <2> PICK new : new = Opened(found)
    OBVIOUS
  <2>2. new \in FileRecord /\ files' = Append(files, new) /\ cfg.article_size \in Nat \ {0}
    BY <2>1, OpenedIsARecord
  <2>3. files \in Seq(FileRecord)
    BY DEF TypeInv, MainInv
  <2>4. /\ \A f \in DOMAIN files : files'[f] = files[f]
        /\ \A f \in DOMAIN files' : f \in DOMAIN files \/ files'[f] = new
    BY <2>2, <2>3
  <2>5. new.parts = NumParts(new.size) /\ new.size = Len(disk[new.id]) /\ new.good
    BY DEF Opened
  <2>6. ASSUME NEW f \in DOMAIN files' PROVE IsOpen(f)'
    <3>1. CASE f \in DOMAIN files
      BY <1>2, <2>4, <3>1 DEF FilesInv
    <3>2. CASE files'[f] = new
      BY <1>1, <2>2, <2>5, <3>2 DEF IsOpen, NumParts
    <3> QED
      BY <2>4, <3>1, <3>2
  <2> QED
    BY <1>1, <2>6 DEF FilesInv
<1> QED
  BY <1>3, <1>4

LEMMA FilesStep == ASSUME TypeInv, PostedSoFar, FilesInv, [Next]_vars PROVE FilesInv'
<1>1. CASE LoadConfig
  <2>1. files' = <<>> /\ file' = 0
    BY <1>1 DEF LoadConfig, position, FilesInv, PostedSoFar
  <2> QED
    BY <2>1 DEF FilesInv
<1>2. CASE Walk
  BY <1>2, WalkOpens
<1> SUFFICES ASSUME ~LoadConfig, ~Walk PROVE FilesInv'
  BY <1>1, <1>2
<1>3. cfg' = cfg /\ DOMAIN files' = DOMAIN files
  BY PiecesStay
<1>4. file \in Nat /\ piece \in Nat /\ \A f \in DOMAIN files : f \in Nat \ {0}
  BY DEF TypeInv, MainInv
<1>5. stage' = "start" => files' = <<>>
  <2>1. stage' = "start" => stage = "start"
    BY DEF Next, RemovePath, RemoveEntry, ChangeFile, StartPool, OutgrowMemory, NextFile, ReadPart,
         EncodePart, EnqueueArticle,
       Retry, End,
         Ended, vars
  <2>2. stage' = "start" => files' = files
    BY <2>1 DEF Next, RemovePath, RemoveEntry, ChangeFile, StartPool, OutgrowMemory, NextFile, ReadPart,
         EncodePart,
       EnqueueArticle, Retry, End,
         Ended, vars, main
  <2> QED
    BY <2>1, <2>2 DEF FilesInv
<1>6. file' = 0 \/ file' \in DOMAIN files'
  <2>1. CASE NextFile
    BY <1>3, <1>4, <2>1 DEF NextFile, TypeInv, MainInv
  <2>2. CASE file' = file
    BY <1>3, <2>2 DEF FilesInv
  <2> QED
    BY <2>1, <2>2 DEF Next, RemovePath, RemoveEntry, ChangeFile, StartPool, OutgrowMemory, ReadPart,
         EncodePart,
       EnqueueArticle, Retry, End,
       Ended, vars, main, position
<1>7. \/ NextFile /\ file' = file + 1
      \/ ReadPart /\ stage' = "encode" /\ file' = file /\ NextPiece' = piece + 1 /\ NextPiece = piece
      \/ file' = file /\ NextPiece' = NextPiece
      \/ OutgrowMemory /\ stage' = "crashed"
  <2>1. CASE NextFile
    BY <2>1 DEF NextFile
  <2>2. CASE ReadPart
    <3>1. stage = "post" /\ stage' \in {"encode", "crashed"} /\ file' = file /\ piece' = piece
      BY <2>2 DEF ReadPart, position
    <3> QED
      BY <2>2, <3>1 DEF NextPiece
  <2>3. CASE EnqueueArticle
    BY <2>3 DEF EnqueueArticle, NextPiece
  <2>4. CASE EncodePart \/ Retry \/ RemovePath \/ RemoveEntry \/ ChangeFile \/ Ended \/ UNCHANGED vars
    BY <2>4 DEF EncodePart, Retry, RemovePath, RemoveEntry, ChangeFile, Ended, vars, main, position, NextPiece
  <2>5. CASE StartPool \/ OutgrowMemory \/ End
    BY <2>5 DEF StartPool, OutgrowMemory, End, main, position, NextPiece
  <2> QED
    BY <2>1, <2>2, <2>3, <2>4, <2>5 DEF Next
<1>8. stage = "crashed" => stage' = "crashed"
  BY DEF Next, RemovePath, RemoveEntry, Searching, ChangeFile, StartPool, OutgrowMemory, NextFile, ReadPart,
     EncodePart, EnqueueArticle, Retry, End, Ended, vars
<1>9. ASSUME NEW f \in DOMAIN files PROVE IsOpen(f)'
  <2>1. /\ files'[f].id = files[f].id /\ files'[f].size = files[f].size /\ files'[f].parts = files[f].parts
        /\ files'[f].good = files[f].good
           \/ (/\ ReadPart /\ stage' = "encode" /\ f = file + 1
               /\ files'[f].good =
                    (files[f].good /\ BytesRead(files[f], piece * cfg.article_size) = cfg.article_size))
    BY FilesStay
  <2>2. IsOpen(f)
    BY DEF FilesInv
  <2>3. cfg'.article_size \in Nat \ {0} /\ files'[f].parts = NumParts(files[f].size)'
    <3>1. cfg.article_size \in Nat \ {0} /\ files[f].parts = NumParts(files[f].size)
      BY <2>2 DEF IsOpen
    <3>2. NumParts(files[f].size)' = NumParts(files[f].size)
      BY <1>3, <2>1 DEF NumParts
    <3> QED
      BY <1>3, <2>1, <3>1, <3>2
  <2>4. ASSUME files'[f].id \notin changed'
        PROVE  /\ files'[f].size = Len(disk'[files'[f].id])
               /\ stage' # "crashed" /\ (file' < f - 1 \/ (file' = f - 1 /\ NextPiece' < files'[f].parts)) =>
                    files'[f].good
    <3>1. files[f].id \notin changed /\ disk'[files[f].id] = disk[files[f].id]
      BY <2>1, <2>4, DiskStays
    <3>2. files'[f].size = Len(disk'[files'[f].id])
      BY <2>1, <2>2, <3>1 DEF IsOpen
    <3>3. ASSUME stage' # "crashed", file' < f - 1 \/ (file' = f - 1 /\ NextPiece' < files'[f].parts)
          PROVE  files'[f].good
      <4>1. files[f].parts \in Nat
        <5>1. files[f] \in FileRecord
          BY DEF TypeInv, MainInv
        <5> QED
          BY <5>1 DEF FileRecord
      <4>2. file < f - 1 \/ (file = f - 1 /\ NextPiece < files[f].parts)
        BY <1>4, <1>7, <2>1, <3>3, <4>1
      <4>3. files[f].good
        <5>1. stage # "crashed"
          BY <1>8, <3>3
        <5> QED
          BY <2>2, <3>1, <4>2, <5>1 DEF IsOpen
      <4>4. CASE ReadPart /\ stage' = "encode" /\ f = file + 1
        <5>1. piece + 1 < files[f].parts
          BY <1>4, <2>1, <3>3, <4>1, <4>4 DEF ReadPart, position, NextPiece
        <5>2. BytesRead(files[f], piece * cfg.article_size) = cfg.article_size
          BY <3>1, <4>4, <5>1, PieceIsRead
        <5> QED
          BY <2>1, <4>3, <5>2
      <4> QED
        BY <2>1, <4>3, <4>4
    <3> QED
      BY <3>2, <3>3
  <2> QED
    BY <2>3, <2>4, Zenon DEF IsOpen
<1> QED
  BY <1>3, <1>5, <1>6, <1>9 DEF FilesInv

LEMMA FilesInvariant == Spec => []FilesInv
<1>1. Init => FilesInv
  BY DEF Init, FilesInv
<1> QED
  BY <1>1, TypeInvariant, PostedInvariant, FilesStep, PTL DEF Spec

LEMMA FromFileStays ==
  ASSUME TypeInv, [Next]_vars, ~LoadConfig, ~Walk, NEW p, p.file + 1 \in DOMAIN files, FromFile(p)
  PROVE  FromFile(p)'
<1> PICK f : f = p.file + 1
  OBVIOUS
<1>1. files'[f].id = files[f].id /\ files'[f].parts = files[f].parts
  BY FilesStay
<1>2. files'[f].id \notin changed' => files[f].id \notin changed /\ disk'[files[f].id] = disk[files[f].id]
  BY <1>1, DiskStays
<1>3. cfg' = cfg
  BY PiecesStay
<1> QED
  BY <1>1, <1>2, <1>3 DEF FromFile

LEMMA PartIsFromFile ==
  ASSUME TypeInv, FilesInv, ReadPart, stage' = "encode" PROVE FromFile(part')
<1> PICK f : f = files[file + 1]
  OBVIOUS
<1> PICK bytes : bytes = disk[f.id]
  OBVIOUS
<1> PICK a : a = cfg.article_size
  OBVIOUS
<1> PICK n : n = BytesRead(f, piece * a)
  OBVIOUS
<1>1. /\ part'.file = file /\ part'.piece = piece /\ part'.total = f.parts
      /\ part'.data = SubSeq(bytes, piece * a + 1, piece * a + n)
  BY DEF ReadPart
<1>2. ASSUME f.id \notin changed PROVE part'.data = Slice(bytes, a, piece)
  <2>1. n = Least((piece + 1) * a, Len(bytes)) - piece * a
    BY <1>2, PieceIsRead
  <2>2. file + 1 \in DOMAIN files /\ piece \in Nat /\ a \in Nat
    BY SizeAssumption DEF ReadPart, TypeInv, MainInv, Running
  <2>3. Len(bytes) \in Nat
    BY <2>2 DEF TypeInv, WorldInv, MainInv, FileRecord
  <2>4. piece * a \in Nat /\ (piece + 1) * a \in Nat
    BY <2>2
  <2>5. Least((piece + 1) * a, Len(bytes)) \in Nat
    BY <2>3, <2>4 DEF Least
  <2>6. piece * a + n = Least((piece + 1) * a, Len(bytes))
    BY <2>1, <2>4, <2>5
  <2> QED
    BY <1>1, <2>6 DEF Slice
<1> QED
  BY <1>1, <1>2 DEF FromFile

LEMMA DataStep ==
  ASSUME TypeInv, PartsInv, FilesInv, DataInv, [Next]_vars PROVE DataInv'
<1>1. CASE LoadConfig \/ Walk
  <2>1. articles' = <<>> /\ stage' # "encode"
    BY <1>1, WalkMoves DEF LoadConfig, PartsInv, posted, Searching, Walking
  <2> QED
    BY <2>1 DEF DataInv
<1> SUFFICES ASSUME ~LoadConfig, ~Walk PROVE DataInv'
  BY <1>1
<1>2. stage' = "encode" => FromFile(part)'
  <2> SUFFICES ASSUME stage' = "encode" PROVE FromFile(part)'
    OBVIOUS
  <2>1. CASE ReadPart
    <3>1. FromFile(part') /\ part'.file + 1 \in DOMAIN files
      BY <2>1, PartIsFromFile DEF ReadPart, TypeInv, MainInv
    <3>2. PICK p : p = part'
      OBVIOUS
    <3>3. FromFile(p)'
      BY <3>1, <3>2, FromFileStays
    <3> QED
      BY <3>2, <3>3 DEF FromFile
  <2>2. CASE ~ReadPart
    <3>1. stage = "encode" /\ part' = part
      BY <2>2 DEF Next, RemovePath, RemoveEntry, ChangeFile, StartPool, OutgrowMemory, NextFile,
           EncodePart, EnqueueArticle, Retry, End,
         Ended, vars, main
    <3>2. FromFile(part) /\ part.file + 1 \in DOMAIN files
      BY <3>1 DEF DataInv, PartsInv, IsPiece
    <3>3. PICK p : p = part
      OBVIOUS
    <3>4. FromFile(p)'
      BY <3>2, <3>3, FromFileStays
    <3> QED
      BY <3>1, <3>3, <3>4 DEF FromFile
  <2> QED
    BY <2>1, <2>2
<1>3. ASSUME NEW i \in DOMAIN articles' PROVE FromFile(articles[i].part)'
  <2>1. /\ Len(articles) \in Nat /\ DOMAIN articles = 1..Len(articles)
        /\ \/ EnqueueArticle /\ DOMAIN articles' = 1..(Len(articles) + 1)
           \/ DOMAIN articles' = DOMAIN articles
        /\ \A j \in DOMAIN articles : articles'[j].part = articles[j].part
        /\ EnqueueArticle => articles'[Len(articles) + 1].part = part
    BY ArticlesStep
  <2>2. PICK p : p = articles'[i].part
    OBVIOUS
  <2>3. FromFile(p) /\ p.file + 1 \in DOMAIN files
    <3>1. CASE i \in DOMAIN articles
      <4>1. p = articles[i].part
        BY <2>1, <2>2, <3>1
      <4>2. FromFile(articles[i].part) /\ IsPiece(articles[i].part)
        BY <3>1 DEF DataInv, PartsInv
      <4> QED
        BY <4>1, <4>2 DEF IsPiece
    <3>2. CASE i \notin DOMAIN articles
      <4>1. EnqueueArticle /\ i = Len(articles) + 1
        BY <2>1, <3>2
      <4>2. p = part /\ stage = "encode"
        BY <2>1, <2>2, <4>1 DEF EnqueueArticle
      <4> QED
        BY <4>2 DEF DataInv, PartsInv, IsPiece
    <3> QED
      BY <3>1, <3>2
  <2>4. FromFile(p)'
    BY <2>3, FromFileStays
  <2> QED
    BY <2>2, <2>4 DEF FromFile
<1> QED
  BY <1>2, <1>3 DEF DataInv

LEMMA DataInvariant == Spec => []DataInv
<1>1. Init => DataInv
  BY DEF Init, DataInv
<1> QED
  BY <1>1, TypeInvariant, PartsInvariant, FilesInvariant, DataStep, PTL DEF Spec

LEMMA RestoredFromInvariants ==
  ASSUME TypeInv, PartsInv, OrderInv, WholeInv, FilesInv, DataInv PROVE FilesAreRestored
<1> SUFFICES ASSUME NEW f \in 1..file, files[f].id \notin changed
             PROVE  LET as == ArticlesOf(f - 1)
                    IN /\ FlattenSeq([i \in DOMAIN as |-> Restored(as[i])]) = disk[files[f].id]
                       /\ \A i \in DOMAIN as : as[i].part.total = Len(as)
  BY DEF FilesAreRestored
<1>1. f \in DOMAIN files /\ f \in Nat /\ f <= file /\ (f - 1) + 1 = f
  BY DEF FilesInv, TypeInv, MainInv
<1> PICK bytes : bytes = disk[files[f].id]
  OBVIOUS
<1> PICK a : a = cfg.article_size
  OBVIOUS
<1>2. a \in Nat \ {0} /\ files[f].parts = NumParts(Len(bytes)) /\ bytes \in Seq(Byte) /\ Len(bytes) \in Nat
  <2>1. IsOpen(f) /\ files[f] \in FileRecord
    BY <1>1 DEF FilesInv, TypeInv, MainInv
  <2>2. bytes \in Seq(Byte)
    BY <2>1 DEF FileRecord, TypeInv, WorldInv
  <2> QED
    BY <2>1, <2>2 DEF IsOpen
<1> PICK m : m = NumParts(Len(bytes))
  OBVIOUS
<1> PICK as : as = ArticlesOf(f - 1)
  OBVIOUS
<1>3. /\ m \in Nat /\ DOMAIN as = 1..m /\ Len(as) = m
      /\ \A k \in DOMAIN as : /\ \E i \in DOMAIN articles : as[k] = articles[i]
                              /\ as[k].part.file = f - 1 /\ as[k].part.piece = k - 1
  BY <1>1, <1>2, ArticlesInOrder
<1>4. ASSUME NEW k \in 1..m PROVE Restored(as[k]) = Slice(bytes, a, k - 1) /\ as[k].part.total = m
  <2>1. PICK i \in DOMAIN articles : as[k] = articles[i]
    BY <1>3
  <2>2. FromFile(as[k].part) /\ IsWhole(as[k])
    BY <2>1 DEF DataInv, WholeInv
  <2>3. as[k].part.file + 1 = f /\ as[k].part.piece = k - 1
    BY <1>1, <1>3
  <2>4. as[k].part.data = Slice(bytes, a, k - 1) /\ as[k].part.total = m
    BY <1>2, <2>2, <2>3 DEF FromFile
  <2>5. PICK ls \in Seq(Seq(Byte)) : as[k].payload = Payload(ls) /\ Text(ls) = as[k].part.data
    BY <2>2 DEF IsWhole
  <2>6. DataLines(as[k]) = ls
    BY <2>5, PayloadIsTakenApart
  <2>7. Restored(as[k]) = Text(ls)
    BY <2>6 DEF Restored, Text, Texts
  <2> QED
    BY <2>4, <2>5, <2>7
<1>5. [k \in DOMAIN as |-> Restored(as[k])] = [k \in 1..m |-> Slice(bytes, a, k - 1)]
  BY <1>3, <1>4
<1>6. FlattenSeq([k \in 1..m |-> Slice(bytes, a, k - 1)]) = SubSeq(bytes, 1, Least(m * a, Len(bytes)))
  <2>1. bytes \in Seq(Byte) /\ a \in Nat \ {0} /\ m \in Nat
    BY <1>2, <1>3
  <2> QED
    BY <2>1, SlicesMakeUp, Zenon
<1>7. Least(m * a, Len(bytes)) = Len(bytes)
  <2>1. Len(bytes) <= m * a
    BY <1>2, PartsCover
  <2>2. m * a \in Nat
    BY <1>2, <1>3
  <2> QED
    BY <1>2, <2>1, <2>2 DEF Least
<1>8. SubSeq(bytes, 1, Len(bytes)) = bytes
  BY <1>2
<1> QED
  BY <1>3, <1>4, <1>5, <1>6, <1>7, <1>8

\* A reader who puts the parts of a file together gets the file, for every content, article
\* size and line length, if it did not change while it was posted, whatever happens to the
\* other files; and the parts are as many as =ybegin says (fileset.cc:59-68,
\* yencgenerator.cc:14-83).
THEOREM FilesComeBack == Spec => []FilesAreRestored
  BY TypeInvariant, PartsInvariant, OrderInvariant, WholeInvariant, FilesInvariant, DataInvariant,
     RestoredFromInvariants, PTL

-----------------------------------------------------------------------------
(* What is posted.                                                          *)

\* Every regular file that is still there under a path that main has looked at is in the
\* fileset; under the path that it is at, it may also be the one found, or be to come.
Posted(e) == \E f \in DOMAIN files : files[f].id = e.id

InSight(e) ==
  \/ Posted(e)
  \/ stage = "enter"
  \/ stage \in {"list", "add"} /\ e \in todo
  \/ stage = "add" /\ e = found

WalkInv ==
  /\ stage = "start" => walked = 0
  /\ stage \in Running => walked <= Len(cfg.files)
  /\ stage \in Running =>
       \A i \in 1..walked :
         \A e \in tree[cfg.files[i]].entries :
           e.kind = "file" => InSight(e) /\ (i < walked => Posted(e))
  /\ stage \in {"post", "encode", "done"} => walked = Len(cfg.files)

LEMMA PostedStays == ASSUME TypeInv, Walk, NEW e, Posted(e) PROVE Posted(e)'
<1>1. PICK f \in DOMAIN files : files[f].id = e.id
  BY DEF Posted
<1>2. files \in Seq(FileRecord)
  BY DEF TypeInv, MainInv
<1>3. files' = files \/ files' = Append(files, Opened(found))
  BY WalkMoves
<1>4. f \in DOMAIN files' /\ files'[f] = files[f]
  BY <1>2, <1>3
<1> QED
  BY <1>1, <1>4 DEF Posted

LEMMA WalkWalks == ASSUME TypeInv, WalkInv, Walk PROVE WalkInv'
<1>1. /\ stage \in Walking /\ stage' \in Walking \cup {"crashed"} /\ stage \in Running
      /\ UNCHANGED <<tree, cfg>> /\ walked \in Nat
  BY WalkMoves DEF world, TypeInv, MainInv, Running
<1>2. CASE stage' = "crashed"
  BY <1>2 DEF WalkInv, Running, Walking
<1>0. walked' <= Len(cfg.files)
  <2>1. cfg.files \in Seq(DOMAIN given.tree)
    BY <1>1, InputAssumption DEF TypeInv, WorldInv, MainInv
  <2>2. walked' = walked \/ (walked < Len(cfg.files) /\ walked' = walked + 1)
    BY WalkMoves DEF NextPath
  <2> QED
    BY <1>1, <2>1, <2>2 DEF WalkInv
<1> SUFFICES ASSUME stage' # "crashed", NEW i \in 1..walked', NEW e \in tree[cfg.files[i]].entries,
                    e.kind = "file"
             PROVE  InSight(e)' /\ (i < walked' => Posted(e)')
  BY <1>0, <1>1, <1>2 DEF WalkInv, Walking
<1>3. i \in 1..walked => InSight(e) /\ (i < walked => Posted(e))
  BY <1>1 DEF WalkInv
<1>4. i < walked => Posted(e)'
  BY <1>1, <1>3, PostedStays
<1>5. CASE NextPath
  <2>1. stage = "walk" /\ walked' = walked + 1 /\ walked < Len(cfg.files)
    BY <1>5 DEF NextPath
  <2>2. CASE i \in 1..walked
    <3>1. Posted(e)
      BY <1>3, <2>1, <2>2 DEF InSight
    <3> QED
      BY <3>1, PostedStays DEF InSight
  <2>3. CASE i = walked + 1
    <3> PICK p : p = cfg.files[walked + 1]
      OBVIOUS
    <3>1. p \in DOMAIN tree
      <4>1. cfg.files \in Seq(DOMAIN given.tree)
        BY <1>1, InputAssumption DEF TypeInv, WorldInv, MainInv
      <4>2. walked + 1 \in 1..Len(cfg.files)
        BY <1>1, <2>1, <4>1
      <4> QED
        BY <1>1, <4>2, PathUnderWay
    <3>2. tree[p].kind \in {"file", "directory"}
      BY <2>3, <3>1 DEF TypeInv, WorldInv
    <3>3. CASE tree[p].kind = "directory"
      BY <1>5, <2>1, <2>3, <3>3 DEF NextPath, InSight
    <3>4. CASE tree[p].kind = "file"
      <4>1. stage' = "add" /\ found' \in tree[p].entries /\ e \in tree[p].entries
        BY <1>5, <2>3, <3>4 DEF NextPath
      <4>2. found' = e
        BY <3>1, <3>4, <4>1 DEF TypeInv, WorldInv
      <4> QED
        BY <1>1, <2>1, <2>3, <4>1, <4>2 DEF InSight
    <3> QED
      BY <3>2, <3>3, <3>4
  <2> QED
    BY <1>1, <2>1, <2>2, <2>3
<1>6. CASE ~NextPath
  <2>1. walked' = walked
    BY <1>6, WalkMoves
  <2>2. CASE Posted(e)
    BY <1>4, <2>1, <2>2, PostedStays DEF InSight
  <2>3. CASE ~Posted(e)
    <3>1. i = walked /\ InSight(e)
      BY <1>1, <1>3, <2>1, <2>3
    <3>2. CASE EnterDirectory
      BY <3>1, <3>2 DEF EnterDirectory, UnderWay, InSight
    <3>3. CASE NextEntry
      <4>1. PICK d \in todo : /\ todo' = todo \ {d}
                              /\ \/ stage' = "add" /\ found' = d
                                 \/ /\ stage' = "list"
                                    /\ d \notin tree[cfg.files[walked]].entries \/ d.kind # "file"
        BY <1>1, <3>3 DEF NextEntry, LeftAfter, UnderWay
      <4>2. stage = "list" /\ e \in todo
        BY <2>3, <3>1, <3>3 DEF NextEntry, InSight
      <4> QED
        BY <3>1, <4>1, <4>2, <2>1 DEF InSight
    <3>4. CASE AddPostitem
      <4>1. stage = "add" /\ stage' = "list" /\ files' = Append(files, Opened(found)) /\ UNCHANGED todo
        BY <1>1, <3>4 DEF AddPostitem, setup
      <4>2. CASE e \in todo
        BY <2>1, <3>1, <4>1, <4>2 DEF InSight
      <4>3. CASE e = found
        <5>1. files \in Seq(FileRecord)
          BY DEF TypeInv, MainInv
        <5>2. Len(files) + 1 \in DOMAIN files' /\ files'[Len(files) + 1] = Opened(found)
          BY <4>1, <5>1
        <5>3. Posted(e)'
          BY <4>3, <5>2 DEF Posted, Opened
        <5> QED
          BY <5>3 DEF InSight
      <4> QED
        BY <2>3, <3>1, <4>1, <4>2, <4>3 DEF InSight
    <3>5. CASE PathDone
      BY <2>3, <3>1, <3>5 DEF PathDone, InSight
    <3> QED
      BY <1>6, <2>1, <3>1, <3>2, <3>3, <3>4, <3>5 DEF Walk
  <2> QED
    BY <2>2, <2>3
<1> QED
  BY <1>5, <1>6

LEMMA WalkStep == ASSUME TypeInv, WalkInv, [Next]_vars PROVE WalkInv'
<1>1. CASE Walk
  BY <1>1, WalkWalks
<1>2. CASE LoadConfig
  <2>1. stage = "start" /\ walked' = walked /\ stage' \notin {"start", "post", "encode", "done"}
    BY <1>2 DEF LoadConfig
  <2>2. walked' = 0 /\ 1..walked' = {}
    BY <2>1 DEF WalkInv
  <2>3. stage' \in Running => cfg'.files \in Seq(DOMAIN given'.tree)
    <3>1. TypeInv'
      BY TypeStep
    <3> QED
      BY <3>1, InputAssumption DEF TypeInv, WorldInv, MainInv
  <2>4. stage' \in Running => walked' <= Len(cfg'.files)
    BY <2>2, <2>3
  <2> QED
    BY <2>1, <2>2, <2>4 DEF WalkInv
<1>3. CASE ~LoadConfig /\ ~Walk
  <2>1. cfg' = cfg /\ DOMAIN files' = DOMAIN files /\ \A f \in DOMAIN files : files'[f].id = files[f].id
    BY <1>3, PiecesStay, FilesStay
  <2>2. UNCHANGED <<walked, todo, found>>
    BY <1>3 DEF Next, RemovePath, RemoveEntry, ChangeFile, StartPool, OutgrowMemory, NextFile, ReadPart,
         EncodePart,
       EnqueueArticle, Retry, End, Ended, vars, main, setup
  <2>3. /\ stage' = "start" => stage = "start"
        /\ stage' \in Running => stage \in Running
        /\ stage \in {"enter", "list", "add"} => stage' = stage
        /\ stage' \in {"post", "encode", "done"} =>
             stage \in {"post", "encode", "done"} \/ walked = Len(cfg.files)
    BY <1>3 DEF Next, RemovePath, RemoveEntry, ChangeFile, StartPool, OutgrowMemory, NextFile, ReadPart,
         EncodePart,
       EnqueueArticle, Retry, End, Ended, vars, Running, Walking
  <2>4. \A e : (Posted(e) => Posted(e)') /\ (InSight(e) => InSight(e)')
    BY <2>1, <2>2, <2>3 DEF Posted, InSight
  <2>5. ASSUME stage' \in Running, NEW i \in 1..walked, NEW e \in tree'[cfg.files[i]].entries
        PROVE  e \in tree[cfg.files[i]].entries
    <3>1. CASE tree' = tree
      BY <2>5, <3>1
    <3>2. CASE tree' # tree
      <4>1. RemovePath \/ RemoveEntry
        BY <1>3, <3>2 DEF Next, ChangeFile, StartPool, OutgrowMemory, NextFile, ReadPart, EncodePart,
           EnqueueArticle, Retry, End, Ended, vars, world
      <4>2. \A p \in DOMAIN tree : tree'[p].entries \subseteq tree[p].entries
        <5>1. CASE RemovePath
          BY <5>1 DEF RemovePath
        <5>2. CASE RemoveEntry
          BY <5>2 DEF RemoveEntry
        <5> QED
          BY <4>1, <5>1, <5>2
      <4>3. stage \in Walking /\ stage \in Running
        BY <2>3, <2>5, <4>1 DEF RemovePath, RemoveEntry, Searching, Running, Walking
      <4>4. i \in 1..Len(cfg.files)
        <5>1. cfg.files \in Seq(DOMAIN given.tree)
          BY <4>3, InputAssumption DEF TypeInv, WorldInv, MainInv
        <5> QED
          BY <4>3, <5>1 DEF WalkInv, TypeInv, MainInv
      <4> QED
        BY <2>5, <4>2, <4>3, <4>4, PathUnderWay
    <3> QED
      BY <3>1, <3>2
  <2> QED
    BY <2>1, <2>2, <2>3, <2>4, <2>5 DEF WalkInv
<1> QED
  BY <1>1, <1>2, <1>3

\* Every regular file under the named paths that nobody has removed is posted, in whatever
\* order directories are listed and whatever else is in them or goes meanwhile
\* (program_config.cc:245-253, main.cc:134-154, fileset.cc:11-19).
THEOREM NothingIsLeftOut == Spec => []NothingLeftOut
<1>1. Init => WalkInv
  BY DEF Init, WalkInv, Running, Walking
<1>2. Spec => []WalkInv
  BY <1>1, TypeInvariant, WalkStep, PTL DEF Spec
<1>3. TypeInv /\ WalkInv => NothingLeftOut
  <2> SUFFICES ASSUME TypeInv, WalkInv, stage = "done", NEW i \in DOMAIN cfg.files,
                      NEW e \in tree[cfg.files[i]].entries, e.kind = "file"
               PROVE  \E f \in DOMAIN files : files[f].id = e.id
    BY DEF NothingLeftOut
  <2>1. stage \in Running /\ walked = Len(cfg.files)
    BY DEF WalkInv, Running
  <2>2. cfg.files \in Seq(DOMAIN given.tree)
    BY <2>1, InputAssumption DEF TypeInv, WorldInv, MainInv
  <2>3. i \in 1..walked
    BY <2>1, <2>2
  <2>4. InSight(e)
    BY <2>1, <2>3 DEF WalkInv
  <2> QED
    BY <2>4 DEF InSight, Posted
<1> QED
  BY <1>2, <1>3, TypeInvariant, PTL
=============================================================================
