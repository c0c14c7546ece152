---------------------------- MODULE FlattenLemmas ----------------------------
(***************************************************************************)
(* Induction over the natural numbers, for sets, and the lemmas about      *)
(* FlattenSeq that the proofs about names rest on: what a sequence of      *)
(* pieces comes to when one more piece is put at its end.                  *)
(***************************************************************************)
EXTENDS SequencesExt, SequenceTheorems, WellFoundedInduction, TLAPS

-----------------------------------------------------------------------------
\* A non-empty set of natural numbers has a least element.
LEMMA LeastNat ==
  ASSUME NEW T, T \subseteq Nat, T # {}
  PROVE  \E x \in T : \A y \in T : x <= y
<1> DEFINE R == OpToRel(<, Nat)
<1>1. IsWellFoundedOn(R, Nat)
  BY NatLessThanWellFounded
<1>2. \A x, y \in Nat : <<y, x>> \in R <=> y < x
  BY DEF OpToRel
<1> HIDE DEF R
<1>3. PICK x \in T : \A y \in T : ~ (<<y, x>> \in R)
  BY <1>1, WFMin
<1>4. ASSUME NEW y \in T PROVE x <= y
  <2>1. x \in Nat /\ y \in Nat /\ ~(y < x)
    BY <1>2, <1>3
  <2> QED BY <2>1
<1> QED BY <1>4

\* Induction: a set with 0, and with n + 1 whenever it has n, has every number.
LEMMA SetInduction ==
  ASSUME NEW T, 0 \in T, \A n \in Nat : n \in T => n + 1 \in T
  PROVE  Nat \subseteq T
<1> DEFINE U == Nat \ T
<1>1. CASE U = {}
  BY <1>1
<1>2. CASE U # {}
  <2>1. PICK x \in U : \A y \in U : x <= y
    BY <1>2, LeastNat
  <2>2. x \in Nat /\ x # 0 /\ x - 1 \in Nat
    OBVIOUS
  <2>3. x - 1 \in T
    BY <2>1, <2>2
  <2>4. (x - 1) + 1 \in T
    BY <2>2, <2>3
  <2> QED BY <2>2, <2>4
<1> QED BY <1>1, <1>2

\* The same for the numbers up to m.
LEMMA UptoInduction ==
  ASSUME NEW m \in Nat, NEW T, 0 \in T,
         \A n \in 0 .. m - 1 : n \in T => n + 1 \in T
  PROVE  0 .. m \subseteq T
<1> DEFINE U == {n \in Nat : n <= m => n \in T}
<1>1. 0 \in U
  OBVIOUS
<1>2. ASSUME NEW n \in Nat, n \in U PROVE n + 1 \in U
  BY <1>2
<1> HIDE DEF U
<1>3. Nat \subseteq U
  BY <1>1, <1>2, SetInduction
<1> QED BY <1>3 DEF U

-----------------------------------------------------------------------------
\* A sequence of one element.
LEMMA SingleSeq ==
  ASSUME NEW S, NEW c \in S PROVE <<c>> \in Seq(S) /\ Len(<<c>>) = 1 /\ <<c>>[1] = c
OBVIOUS

\* A sequence of two, which is two of one.
LEMMA PairSeq ==
  ASSUME NEW S, NEW x \in S, NEW y \in S
  PROVE  <<x, y>> \in Seq(S) /\ Len(<<x, y>>) = 2 /\ <<x>> \o <<y>> = <<x, y>>
<1> DEFINE a == <<x>>
           b == <<y>>
           p == <<x, y>>
<1>1. p \in Seq(S) /\ Len(p) = 2 /\ p[1] = x /\ p[2] = y
  OBVIOUS
<1>2. a \in Seq(S) /\ Len(a) = 1 /\ a[1] = x /\ b \in Seq(S) /\ Len(b) = 1 /\ b[1] = y
  BY SingleSeq
<1> HIDE DEF a, b, p
<1>3. /\ a \o b \in Seq(S) /\ Len(a \o b) = Len(a) + Len(b)
      /\ \A i \in 1 .. Len(a) + Len(b) :
           (a \o b)[i] = IF i <= Len(a) THEN a[i] ELSE b[i - Len(a)]
  BY <1>2, ConcatProperties
<1>4. Len(a \o b) = 2 /\ (a \o b)[1] = x /\ (a \o b)[2] = y
  BY <1>2, <1>3
<1>5. \A i \in 1 .. Len(p) : p[i] = (a \o b)[i]
  BY <1>1, <1>4
<1>6. a \o b = p
  BY <1>1, <1>3, <1>4, <1>5, SeqEqual
<1> QED BY <1>1, <1>6 DEF a, b, p

\* Putting sequences together is associative.
LEMMA Assoc ==
  ASSUME NEW S, NEW a \in Seq(S), NEW b \in Seq(S), NEW c \in Seq(S)
  PROVE  (a \o b) \o c = a \o (b \o c) /\ a \o b \in Seq(S)
OBVIOUS

\* The function that FlattenSeq is defined by exists.
LEMMA FlattenFcn ==
  ASSUME NEW S, NEW p \in Seq(Seq(S)), Len(p) > 0
  PROVE  \E F : /\ FlattenSeq(p) = F[Len(p)]
                /\ F = [i \in 1 .. Len(p) |-> IF i = 1 THEN p[i] ELSE F[i - 1] \o p[i]]
<1> DEFINE n == Len(p)
           G(m) == CHOOSE f : f = [i \in 1 .. m |-> IF i = 1 THEN p[i] ELSE f[i - 1] \o p[i]]
           T == {m \in Nat : \E f : f = [i \in 1 .. m |-> IF i = 1 THEN p[i] ELSE f[i - 1] \o p[i]]}
<1>n. n \in Nat /\ n # 0
  BY LenProperties
<1>1. 0 \in T
  <2>1. [i \in 1 .. 0 |-> 0]
          = [i \in 1 .. 0 |-> IF i = 1 THEN p[i] ELSE [j \in 1 .. 0 |-> 0][i - 1] \o p[i]]
    OBVIOUS
  <2> QED BY <2>1
<1>2. ASSUME NEW m \in Nat, m \in T PROVE m + 1 \in T
  <2>1. PICK f : f = [i \in 1 .. m |-> IF i = 1 THEN p[i] ELSE f[i - 1] \o p[i]]
    BY <1>2
  <2> DEFINE g == [i \in 1 .. m + 1 |->
                     IF i <= m THEN f[i] ELSE IF i = 1 THEN p[i] ELSE f[i - 1] \o p[i]]
  <2>2. ASSUME NEW i \in 1 .. m + 1
        PROVE  g[i] = IF i = 1 THEN p[i] ELSE g[i - 1] \o p[i]
    <3>1. CASE i <= m
      <4>1. i \in 1 .. m /\ g[i] = f[i]
        BY <3>1
      <4>2. f[i] = IF i = 1 THEN p[i] ELSE f[i - 1] \o p[i]
        BY <2>1, <4>1
      <4>3. i # 1 => g[i - 1] = f[i - 1]
        BY <4>1
      <4> HIDE DEF g
      <4> QED BY <4>1, <4>2, <4>3
    <3>2. CASE ~(i <= m)
      <4>1. i # 1 => i - 1 \in 1 .. m
        BY <3>2
      <4>2. i # 1 => g[i - 1] = f[i - 1]
        BY <4>1
      <4> QED BY <3>2, <4>2
    <3> QED BY <3>1, <3>2
  <2>3. g = [i \in 1 .. m + 1 |-> IF i = 1 THEN p[i] ELSE g[i - 1] \o p[i]]
    <3>1. g = [i \in 1 .. m + 1 |-> g[i]]
      OBVIOUS
    <3> HIDE DEF g
    <3> QED BY <2>2, <3>1
  <2> HIDE DEF g
  <2>4. \E h : h = [i \in 1 .. m + 1 |-> IF i = 1 THEN p[i] ELSE h[i - 1] \o p[i]]
    BY <2>3
  <2>5. m + 1 \in Nat
    OBVIOUS
  <2> QED BY ONLY <2>4, <2>5 DEF T
<1> HIDE DEF T
<1>3. n \in T
  BY <1>1, <1>2, <1>n, SetInduction
<1>4. G(n) = [i \in 1 .. n |-> IF i = 1 THEN p[i] ELSE G(n)[i - 1] \o p[i]]
  BY <1>3 DEF T
<1>5. FlattenSeq(p) = G(n)[n]
  BY <1>n DEF FlattenSeq
<1> QED BY <1>4, <1>5

\* The pieces of a sequence put together are a sequence.
LEMMA FlattenType ==
  ASSUME NEW S, NEW p \in Seq(Seq(S)) PROVE FlattenSeq(p) \in Seq(S)
<1>n. Len(p) \in Nat /\ \A i \in 1 .. Len(p) : p[i] \in Seq(S)
  BY LenProperties, ElementOfSeq
<1>1. CASE Len(p) = 0
  <2>1. p = << >>
    BY <1>1, EmptySeq
  <2> QED BY <1>1, <2>1 DEF FlattenSeq
<1>2. CASE Len(p) > 0
  <2>1. PICK F : /\ FlattenSeq(p) = F[Len(p)]
                 /\ F = [i \in 1 .. Len(p) |-> IF i = 1 THEN p[i] ELSE F[i - 1] \o p[i]]
    BY <1>2, FlattenFcn
  <2> DEFINE T == {k \in Nat : k = 0 \/ F[k] \in Seq(S)}
  <2>2. 0 \in T
    OBVIOUS
  <2>3. ASSUME NEW k \in 0 .. Len(p) - 1, k \in T PROVE k + 1 \in T
    <3>1. k + 1 \in 1 .. Len(p) /\ p[k + 1] \in Seq(S)
      BY <1>n
    <3>2. F[k + 1] = IF k + 1 = 1 THEN p[k + 1] ELSE F[(k + 1) - 1] \o p[k + 1]
      BY <2>1, <3>1
    <3>3. CASE k = 0
      BY <3>1, <3>2, <3>3
    <3>4. CASE k # 0
      <4>1. (k + 1) - 1 = k /\ F[k] \in Seq(S)
        BY <2>3, <3>4
      <4>2. F[k] \o p[k + 1] \in Seq(S)
        BY <3>1, <4>1, ConcatProperties
      <4>3. F[k + 1] \in Seq(S)
        BY <3>2, <3>4, <4>1, <4>2
      <4> QED BY <4>3
    <3> QED BY <3>3, <3>4
  <2> HIDE DEF T
  <2>4. 0 .. Len(p) \subseteq T
    BY <1>n, <2>2, <2>3, UptoInduction
  <2>5. Len(p) \in T
    BY <1>n, <2>4
  <2> QED BY <1>2, <2>1, <2>5 DEF T
<1> QED BY <1>n, <1>1, <1>2

\* One more piece is put at the end.
LEMMA FlattenAppend ==
  ASSUME NEW S, NEW q \in Seq(Seq(S)), NEW x \in Seq(S)
  PROVE  FlattenSeq(Append(q, x)) = FlattenSeq(q) \o x
<1> DEFINE n == Len(q)
           p == Append(q, x)
<1>n. /\ n \in Nat /\ p \in Seq(Seq(S)) /\ Len(p) = n + 1
      /\ \A i \in 1 .. n : p[i] = q[i]
      /\ p[n + 1] = x
  BY LenProperties, AppendProperties
<1> HIDE DEF p, n
<1>0. Len(p) > 0 /\ (n + 1) - 1 = n /\ n + 1 \in 1 .. Len(p)
  BY <1>n
<1>1. PICK G : /\ FlattenSeq(p) = G[Len(p)]
               /\ G = [i \in 1 .. Len(p) |-> IF i = 1 THEN p[i] ELSE G[i - 1] \o p[i]]
  BY <1>n, <1>0, FlattenFcn
<1>2. /\ FlattenSeq(p) = G[n + 1]
      /\ G[n + 1] = IF n + 1 = 1 THEN x ELSE G[(n + 1) - 1] \o x
  BY <1>n, <1>0, <1>1
<1>3. CASE n = 0
  <2>1. q = << >>
    BY <1>3, EmptySeq DEF n
  <2>2. FlattenSeq(q) = << >>
    BY <1>3, <2>1 DEF FlattenSeq, n
  <2>3. << >> \o x = x
    BY ConcatEmptySeq
  <2>4. FlattenSeq(p) = x
    BY <1>2, <1>3
  <2> QED BY <2>2, <2>3, <2>4 DEF p
<1>4. CASE n # 0
  <2>1. PICK F : /\ FlattenSeq(q) = F[n]
                 /\ F = [i \in 1 .. n |-> IF i = 1 THEN q[i] ELSE F[i - 1] \o q[i]]
    <3>1. Len(q) > 0
      BY <1>n, <1>4 DEF n
    <3> QED BY <3>1, FlattenFcn DEF n
  <2> DEFINE T == {k \in Nat : k = 0 \/ G[k] = F[k]}
  <2>2. 0 \in T
    OBVIOUS
  <2>3. ASSUME NEW k \in 0 .. n - 1, k \in T PROVE k + 1 \in T
    <3>1. k + 1 \in 1 .. n /\ k + 1 \in 1 .. Len(p) /\ p[k + 1] = q[k + 1] /\ (k + 1) - 1 = k
      BY <1>n
    <3>2. F[k + 1] = IF k + 1 = 1 THEN q[k + 1] ELSE F[k] \o q[k + 1]
      BY <2>1, <3>1
    <3>3. G[k + 1] = IF k + 1 = 1 THEN q[k + 1] ELSE G[k] \o q[k + 1]
      BY <1>1, <3>1
    <3>4. G[k + 1] = F[k + 1]
      BY <2>3, <3>2, <3>3
    <3> QED BY <3>4
  <2> HIDE DEF T
  <2>4. 0 .. n \subseteq T
    BY <1>n, <2>2, <2>3, UptoInduction
  <2>5. G[n] = F[n]
    <3>1. n \in T
      BY <1>n, <2>4
    <3> QED BY <1>4, <3>1 DEF T
  <2>6. FlattenSeq(p) = G[n] \o x
    BY <1>n, <1>2, <1>4
  <2> QED BY <2>1, <2>5, <2>6 DEF p
<1> QED BY <1>3, <1>4

-----------------------------------------------------------------------------
\* The first k pieces put together.
Upto(p, k) == FlattenSeq(SubSeq(p, 1, k))

\* It starts empty, grows by one piece at a time and ends with all of them.
LEMMA UptoSteps ==
  ASSUME NEW S, NEW p \in Seq(Seq(S))
  PROVE  /\ Upto(p, 0) = << >>
         /\ Upto(p, Len(p)) = FlattenSeq(p)
         /\ \A k \in 0 .. Len(p) : Upto(p, k) \in Seq(S)
         /\ \A k \in 0 .. Len(p) - 1 : Upto(p, k + 1) = Upto(p, k) \o p[k + 1]
<1>n. Len(p) \in Nat /\ \A i \in 1 .. Len(p) : p[i] \in Seq(S)
  BY LenProperties, ElementOfSeq
<1>1. Upto(p, 0) = << >>
  <2>1. SubSeq(p, 1, 0) = << >>
    BY SubSeqEmpty
  <2> QED BY <2>1 DEF Upto, FlattenSeq
<1>2. Upto(p, Len(p)) = FlattenSeq(p)
  BY SubSeqFull DEF Upto
<1>3. ASSUME NEW k \in 0 .. Len(p) PROVE SubSeq(p, 1, k) \in Seq(Seq(S))
  <2>1. \A i \in 1 .. k : p[i] \in Seq(S)
    BY <1>n
  <2> QED BY <2>1, SubSeqProperties
<1>4. ASSUME NEW k \in 0 .. Len(p) PROVE Upto(p, k) \in Seq(S)
  BY <1>3, FlattenType DEF Upto
<1>5. ASSUME NEW k \in 0 .. Len(p) - 1 PROVE Upto(p, k + 1) = Upto(p, k) \o p[k + 1]
  <2>0. k \in 0 .. Len(p) /\ p[k + 1] \in Seq(S)
    BY <1>n
  <2>1. SubSeq(p, 1, k + 1) = Append(SubSeq(p, 1, k), p[k + 1])
    <3>1. 1 \in 1 .. Len(p) /\ k + 1 \in 1 .. Len(p) /\ (k + 1) - 1 = k
      BY <1>n
    <3>2. SubSeq(p, 1, k + 1) = SubSeq(p, 1, (k + 1) - 1) \o <<p[k + 1]>>
      BY <3>1, SubSeqRecursiveSecond
    <3>3. Append(SubSeq(p, 1, k), p[k + 1]) = SubSeq(p, 1, k) \o <<p[k + 1]>>
      BY <1>3, <2>0, AppendIsConcat
    <3> QED BY <3>1, <3>2, <3>3
  <2> QED BY <1>3, <2>0, <2>1, FlattenAppend DEF Upto
<1> QED BY <1>1, <1>2, <1>4, <1>5

\* What comes first stays first.
LEMMA ConcatKeeps ==
  ASSUME NEW S, NEW s \in Seq(S), NEW t \in Seq(S)
  PROVE  /\ Len(s) \in Nat /\ Len(t) \in Nat /\ Len(s \o t) = Len(s) + Len(t)
         /\ \A x \in 1 .. Len(s) : x \in 1 .. Len(s \o t) /\ (s \o t)[x] = s[x]
         /\ \A x \in 1 .. Len(t) : /\ Len(s) + x \in 1 .. Len(s \o t)
                                   /\ (s \o t)[Len(s) + x] = t[x]
<1>1. Len(s) \in Nat /\ Len(t) \in Nat
  BY LenProperties
<1>2. /\ Len(s \o t) = Len(s) + Len(t)
      /\ \A i \in 1 .. Len(s) + Len(t) :
           (s \o t)[i] = IF i <= Len(s) THEN s[i] ELSE t[i - Len(s)]
  BY ConcatProperties
<1>3. ASSUME NEW x \in 1 .. Len(s) PROVE x \in 1 .. Len(s \o t) /\ (s \o t)[x] = s[x]
  BY <1>1, <1>2
<1>4. ASSUME NEW x \in 1 .. Len(t)
      PROVE  Len(s) + x \in 1 .. Len(s \o t) /\ (s \o t)[Len(s) + x] = t[x]
  <2>1. Len(s) + x \in 1 .. Len(s) + Len(t) /\ ~(Len(s) + x <= Len(s)) /\ (Len(s) + x) - Len(s) = x
    BY <1>1
  <2> QED BY <1>2, <2>1
<1> QED BY <1>1, <1>2, <1>3, <1>4

\* What the first pieces make is how all of them begin.
LEMMA UptoIsPrefix ==
  ASSUME NEW S, NEW p \in Seq(Seq(S)), NEW k \in 0 .. Len(p)
  PROVE  \A x \in 1 .. Len(Upto(p, k)) :
           x \in 1 .. Len(FlattenSeq(p)) /\ FlattenSeq(p)[x] = Upto(p, k)[x]
<1> DEFINE m == Len(p) - k
           T == {d \in Nat : \A x \in 1 .. Len(Upto(p, k)) :
                   x \in 1 .. Len(Upto(p, k + d)) /\ Upto(p, k + d)[x] = Upto(p, k)[x]}
<1>n. m \in Nat /\ k \in Nat /\ Len(p) \in Nat /\ k + m = Len(p)
  BY LenProperties
<1> HIDE DEF m
<1>1. 0 \in T
  BY <1>n
<1>2. ASSUME NEW d \in 0 .. m - 1, d \in T PROVE d + 1 \in T
  <2>1. k + d \in 0 .. Len(p) - 1 /\ k + d \in 0 .. Len(p) /\ (k + d) + 1 = k + (d + 1)
        /\ (k + d) + 1 \in 1 .. Len(p)
    BY <1>n
  <2>2. Upto(p, k + (d + 1)) = Upto(p, k + d) \o p[(k + d) + 1]
    BY <2>1, UptoSteps
  <2>3. Upto(p, k + d) \in Seq(S) /\ p[(k + d) + 1] \in Seq(S)
    BY <2>1, UptoSteps, ElementOfSeq
  <2>4. \A x \in 1 .. Len(Upto(p, k + d)) :
          /\ x \in 1 .. Len(Upto(p, k + (d + 1)))
          /\ Upto(p, k + (d + 1))[x] = Upto(p, k + d)[x]
    <3> DEFINE a == Upto(p, k + d)
               b == p[(k + d) + 1]
    <3>1. a \in Seq(S) /\ b \in Seq(S) /\ Upto(p, k + (d + 1)) = a \o b
      BY <2>2, <2>3
    <3> HIDE DEF a, b
    <3>2. \A x \in 1 .. Len(a) : x \in 1 .. Len(a \o b) /\ (a \o b)[x] = a[x]
      BY <3>1, ConcatKeeps
    <3> QED BY <3>1, <3>2 DEF a
  <2>5. ASSUME NEW x \in 1 .. Len(Upto(p, k))
        PROVE  /\ x \in 1 .. Len(Upto(p, k + (d + 1)))
               /\ Upto(p, k + (d + 1))[x] = Upto(p, k)[x]
    <3>1. x \in 1 .. Len(Upto(p, k + d)) /\ Upto(p, k + d)[x] = Upto(p, k)[x]
      BY <1>2
    <3> QED BY <2>4, <3>1
  <2> QED BY <2>5
<1> HIDE DEF T
<1>3. 0 .. m \subseteq T
  BY <1>n, <1>1, <1>2, UptoInduction
<1>4. m \in T
  BY <1>n, <1>3
<1> QED BY <1>n, <1>4, UptoSteps DEF T

\* Pieces of one element each make the sequence of these elements.
LEMMA FlattenSingles ==
  ASSUME NEW S, NEW s \in Seq(S), NEW p \in Seq(Seq(S)), Len(p) = Len(s),
         \A i \in 1 .. Len(s) : p[i] = <<s[i]>>
  PROVE  FlattenSeq(p) = s
<1> DEFINE n == Len(s)
           T == {k \in Nat : Upto(p, k) = SubSeq(s, 1, k)}
<1>n. n \in Nat
  BY LenProperties
<1>1. 0 \in T
  BY UptoSteps, SubSeqEmpty
<1>2. ASSUME NEW k \in 0 .. n - 1, k \in T PROVE k + 1 \in T
  <2>1. /\ k + 1 \in 1 .. n /\ 1 \in 1 .. n /\ 1 \in 1 .. k + 1 /\ (k + 1) - 1 = k
        /\ k \in 0 .. Len(p) - 1
    BY <1>n
  <2>2. Upto(p, k + 1) = Upto(p, k) \o <<s[k + 1]>>
    BY <2>1, UptoSteps
  <2>3. SubSeq(s, 1, k + 1) = SubSeq(s, 1, k) \o <<s[k + 1]>>
    <3>1. SubSeq(s, 1, k + 1) = SubSeq(s, 1, (k + 1) - 1) \o <<s[k + 1]>>
      BY <2>1, SubSeqRecursiveSecond
    <3> QED BY <2>1, <3>1
  <2>4. Upto(p, k) = SubSeq(s, 1, k) /\ k + 1 \in Nat
    BY <1>n, <1>2
  <2> QED BY <2>2, <2>3, <2>4
<1> HIDE DEF T
<1>3. 0 .. n \subseteq T
  BY <1>n, <1>1, <1>2, UptoInduction
<1>4. n \in T
  BY <1>n, <1>3
<1> QED BY <1>n, <1>4, UptoSteps, SubSeqFull DEF T

\* A function on 1 .. n is a sequence of length n.
LEMMA FcnIsSeq ==
  ASSUME NEW S, NEW n \in Nat, NEW f \in [1 .. n -> S]
  PROVE  f \in Seq(S) /\ Len(f) = n /\ DOMAIN f = 1 .. n
<1>1. f \in Seq(S)
  BY SeqDef
<1>2. DOMAIN f = 1 .. n /\ DOMAIN f = 1 .. Len(f) /\ Len(f) \in Nat
  BY <1>1, LenProperties
<1>3. Len(f) = n
  <2>1. \A i \in Int : i \in 1 .. n <=> i \in 1 .. Len(f)
    BY <1>2
  <2>2. n \in 1 .. n => n <= Len(f)
    BY <1>2, <2>1
  <2>3. Len(f) \in 1 .. Len(f) => Len(f) <= n
    BY <1>2, <2>1
  <2> QED BY <1>2, <2>2, <2>3
<1> QED BY <1>1, <1>2, <1>3
=============================================================================
