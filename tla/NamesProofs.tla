----------------------------- MODULE NamesProofs -----------------------------
(***************************************************************************)
(* Proofs about Names, for words of any length over any letters.           *)
(***************************************************************************)
EXTENDS Names, FlattenLemmas

\* The underscore, by a name: the encoding for SMT takes the string for a wildcard.
Bar == "_"

Chars == Letters \cup Digits \cup Marks

-----------------------------------------------------------------------------
(* Characters. *)

\* Every character is of one kind.
LEMMA Kinds ==
  /\ Lower \subseteq Chars /\ Upper \subseteq Chars /\ Digits \subseteq Chars
  /\ Bar \in Chars /\ "." \in Chars /\ "-" \in Chars /\ "X" \in Upper
  /\ \A c \in Chars : c \in Lower \/ c \in Upper \/ c \in Digits
                      \/ c = Bar \/ c = "." \/ c = "-"
  /\ \A c \in Lower : c \notin Upper /\ c \notin Digits /\ c \notin Marks
  /\ \A c \in Upper : c \notin Digits /\ c \notin Marks
  /\ \A c \in Digits : c \notin Marks
  /\ Bar \in Marks /\ "." \in Marks /\ "-" \in Marks
  /\ Bar # "." /\ Bar # "-" /\ "." # "-"
BY LettersAssumption DEF Chars, Letters, Marks, Bar

\* Capitals and their letters.
LEMMA Cases ==
  /\ \A c \in Lower : Up[c] \in Upper /\ Raised(c) = Up[c] /\ Low(Up[c]) = c /\ Low(c) = c
  /\ \A c \in Upper : Low(c) \in Lower /\ Up[Low(c)] = c /\ Raised(c) = c
  /\ \A c : c \notin Upper => Low(c) = c
  /\ \A c : c \notin Lower => Raised(c) = c
<1>1. ASSUME NEW c \in Upper PROVE Low(c) \in Lower /\ Up[Low(c)] = c /\ Raised(c) = c
  <2>1. \E l \in Lower : Up[l] = c
    BY DEF Upper
  <2> QED BY <2>1, Kinds DEF Low, Raised
<1>2. ASSUME NEW c \in Lower
      PROVE  Up[c] \in Upper /\ Raised(c) = Up[c] /\ Low(Up[c]) = c /\ Low(c) = c
  <2>1. Up[c] \in Upper
    BY DEF Upper
  <2>2. Low(Up[c]) \in Lower /\ Up[Low(Up[c])] = Up[c]
    BY <1>1, <2>1
  <2> QED BY <2>1, <2>2, Kinds, LettersAssumption DEF Low, Raised
<1>3. \A c : (c \notin Upper => Low(c) = c) /\ (c \notin Lower => Raised(c) = c)
  BY DEF Low, Raised
<1> QED BY <1>1, <1>2, <1>3

\* Neither case leaves the characters.
LEMMA CharsStay ==
  \A c \in Chars : Low(c) \in Chars /\ Raised(c) \in Chars
<1> SUFFICES ASSUME NEW c \in Chars PROVE Low(c) \in Chars /\ Raised(c) \in Chars
  OBVIOUS
<1>1. Low(c) \in Chars
  <2>1. c \in Upper => Low(c) \in Lower
    BY Cases
  <2>2. c \notin Upper => Low(c) = c
    BY Cases
  <2> QED BY <2>1, <2>2, Kinds
<1>2. Raised(c) \in Chars
  <2>1. c \in Lower => Raised(c) \in Upper
    BY Cases
  <2>2. c \notin Lower => Raised(c) = c
    BY Cases
  <2> QED BY <2>1, <2>2, Kinds
<1> QED BY <1>1, <1>2

\* Two words put together.
LEMMA CharsConcat ==
  \A s, t \in Seq(Chars) :
    /\ s \o t \in Seq(Chars)
    /\ Len(s) \in Nat /\ Len(t) \in Nat /\ Len(s \o t) = Len(s) + Len(t)
    /\ \A x \in 1 .. Len(s) : x \in 1 .. Len(s \o t) /\ (s \o t)[x] = s[x]
    /\ \A x \in 1 .. Len(t) : /\ Len(s) + x \in 1 .. Len(s \o t)
                              /\ (s \o t)[Len(s) + x] = t[x]
<1> SUFFICES ASSUME NEW s \in Seq(Chars), NEW t \in Seq(Chars)
             PROVE /\ s \o t \in Seq(Chars)
                   /\ Len(s) \in Nat /\ Len(t) \in Nat /\ Len(s \o t) = Len(s) + Len(t)
                   /\ \A x \in 1 .. Len(s) : x \in 1 .. Len(s \o t) /\ (s \o t)[x] = s[x]
                   /\ \A x \in 1 .. Len(t) : /\ Len(s) + x \in 1 .. Len(s \o t)
                                             /\ (s \o t)[Len(s) + x] = t[x]
  OBVIOUS
<1>1. s \o t \in Seq(Chars)
  BY ConcatProperties
<1> QED BY <1>1, ConcatKeeps

\* One more character.
LEMMA CharsSnoc ==
  ASSUME NEW s \in Seq(Chars), NEW c \in Chars
  PROVE  /\ s \o <<c>> \in Seq(Chars) /\ Len(s) \in Nat /\ Len(s \o <<c>>) = Len(s) + 1
         /\ \A i \in 1 .. Len(s) : (s \o <<c>>)[i] = s[i]
         /\ (s \o <<c>>)[Len(s) + 1] = c
<1> DEFINE v == <<c>>
<1>1. v \in Seq(Chars) /\ Len(v) = 1 /\ v[1] = c
  BY SingleSeq
<1> HIDE DEF v
<1>2. /\ s \o v \in Seq(Chars)
      /\ Len(s) \in Nat /\ Len(v) \in Nat /\ Len(s \o v) = Len(s) + Len(v)
      /\ \A x \in 1 .. Len(s) : (s \o v)[x] = s[x]
      /\ \A x \in 1 .. Len(v) : (s \o v)[Len(s) + x] = v[x]
  BY <1>1, CharsConcat, Zenon
<1>3. 1 \in 1 .. Len(v)
  BY <1>1
<1>4. Len(s \o v) = Len(s) + 1 /\ (s \o v)[Len(s) + 1] = c
  BY <1>1, <1>2, <1>3
<1> QED BY <1>2, <1>4 DEF v

\* Three words put together.
LEMMA CharsAssoc ==
  \A a, b, c \in Seq(Chars) : (a \o b) \o c = a \o (b \o c)
BY Assoc

-----------------------------------------------------------------------------
(* GoCamelCase. *)

\* The lower-case letters that follow a position have an end.
LEMMA TailEnds ==
  ASSUME NEW s \in Seq(Chars), NEW i \in 1 .. Len(s)
  PROVE  /\ TailEnd(s, i) \in i .. Len(s)
         /\ \A k \in i + 1 .. TailEnd(s, i) : s[k] \in Lower
         /\ ~LowerAt(s, TailEnd(s, i) + 1)
<1> DEFINE n == Len(s)
           IsTail(j) == \A k \in i + 1 .. j : s[k] \in Lower
           D == {d \in Nat : d <= n - i /\ IsTail(n - d)}
<1>n. n \in Nat /\ DOMAIN s = 1 .. n
  BY LenProperties
<1>1. n - i \in D
  <2>1. n - i \in Nat /\ n - (n - i) = i
    BY <1>n
  <2> QED BY <2>1
<1>2. PICK d \in D : \A e \in D : d <= e
  <2>1. D \subseteq Nat /\ D # {}
    BY <1>1
  <2> HIDE DEF D
  <2> QED BY <2>1, LeastNat
<1> DEFINE j == n - d
<1>3. j \in i .. n /\ IsTail(j) /\ d \in Nat /\ d = n - j
  BY <1>n, <1>2
<1>4. ~LowerAt(s, j + 1)
  <2> SUFFICES ASSUME LowerAt(s, j + 1) PROVE FALSE
    OBVIOUS
  <2>1. j + 1 \in 1 .. n /\ s[j + 1] \in Lower
    BY <1>n DEF LowerAt
  <2>2. d - 1 \in Nat /\ d - 1 <= n - i /\ n - (d - 1) = j + 1
    BY <1>n, <1>3, <2>1
  <2>3. IsTail(j + 1)
    <3>1. \A k \in i + 1 .. j + 1 : k \in i + 1 .. j \/ k = j + 1
      BY <1>n, <1>3
    <3> QED BY <1>3, <2>1, <3>1
  <2>4. d - 1 \in D
    BY <2>2, <2>3
  <2>5. d <= d - 1
    BY <1>2, <2>4
  <2> QED BY <1>3, <2>5
<1>5. \E x \in i .. Len(s) : (\A k \in i + 1 .. x : s[k] \in Lower) /\ ~LowerAt(s, x + 1)
  BY <1>3, <1>4
<1> QED BY <1>5 DEF TailEnd

\* The body of the loop at position i, with what the rest comes to.
CamelBody(s, g, i) ==
  IF i > Len(s) THEN << >>
  ELSE IF s[i] = "." /\ LowerAt(s, i + 1) THEN g[i + 1]
  ELSE IF s[i] = "." THEN <<Bar>> \o g[i + 1]
  ELSE IF s[i] = Bar /\ (i = 1 \/ Is(s, i - 1, ".")) THEN <<"X">> \o g[i + 1]
  ELSE IF s[i] = Bar /\ LowerAt(s, i + 1) THEN g[i + 1]
  ELSE IF s[i] \in Digits THEN <<s[i]>> \o g[i + 1]
  ELSE <<Raised(s[i])>> \o SubSeq(s, i + 1, TailEnd(s, i)) \o g[TailEnd(s, i) + 1]

\* It only looks ahead.
LEMMA CamelLooksAhead ==
  ASSUME NEW s \in Seq(Chars), NEW i \in 1 .. Len(s) + 1, NEW g, NEW h,
         \A j \in i + 1 .. Len(s) + 1 : g[j] = h[j]
  PROVE  CamelBody(s, g, i) = CamelBody(s, h, i)
<1>n. Len(s) \in Nat
  BY LenProperties
<1>1. CASE i > Len(s)
  BY <1>1 DEF CamelBody
<1>2. CASE ~(i > Len(s))
  <2>1. i \in 1 .. Len(s)
    BY <1>n, <1>2
  <2>2. i + 1 \in i + 1 .. Len(s) + 1 /\ TailEnd(s, i) + 1 \in i + 1 .. Len(s) + 1
    BY <1>n, <2>1, TailEnds
  <2>3. g[i + 1] = h[i + 1] /\ g[TailEnd(s, i) + 1] = h[TailEnd(s, i) + 1]
    BY <2>2
  <2> QED BY <2>3 DEF CamelBody
<1> QED BY <1>1, <1>2

\* So there is a function that is what the loop yields from each position on.
LEMMA CamelFcn ==
  ASSUME NEW s \in Seq(Chars)
  PROVE  \E F : /\ GoCamelCase(s) = F[1]
                /\ F = [i \in 1 .. Len(s) + 1 |-> CamelBody(s, F, i)]
<1> DEFINE n == Len(s)
           T == {m \in Nat : \E g : \A i \in (n + 1) - m .. n + 1 :
                               i >= 1 => g[i] = CamelBody(s, g, i)}
<1>n. n \in Nat
  BY LenProperties
<1>1. 0 \in T
  <2> DEFINE g == [i \in {n + 1} |-> << >>]
  <2>1. g[n + 1] = << >>
    BY <1>n
  <2> HIDE DEF g
  <2>2. CamelBody(s, g, n + 1) = << >>
    <3>1. n + 1 > Len(s)
      BY <1>n
    <3> QED BY <3>1 DEF CamelBody
  <2>3. \A i \in (n + 1) - 0 .. n + 1 : i = n + 1
    BY <1>n
  <2> QED BY <2>1, <2>2, <2>3
<1>2. ASSUME NEW m \in Nat, m \in T PROVE m + 1 \in T
  <2>1. PICK g : \A i \in (n + 1) - m .. n + 1 : i >= 1 => g[i] = CamelBody(s, g, i)
    BY <1>2
  <2> DEFINE k == (n + 1) - (m + 1)
             h == [i \in Int |-> IF i = k THEN CamelBody(s, g, k) ELSE g[i]]
  <2>2. ASSUME NEW i \in k .. n + 1, i >= 1 PROVE h[i] = CamelBody(s, h, i)
    <3>1. i \in 1 .. Len(s) + 1 /\ k \in Int
      BY <1>n, <2>2
    <3>2. \A j \in i + 1 .. Len(s) + 1 : g[j] = h[j]
      BY <1>n, <2>2, <3>1
    <3>3. CamelBody(s, g, i) = CamelBody(s, h, i)
      <4> HIDE DEF h
      <4> QED BY <3>1, <3>2, CamelLooksAhead
    <3>4. CASE i = k
      <4>1. h[i] = CamelBody(s, g, i)
        BY <3>1, <3>4
      <4> QED BY <3>3, <4>1
    <3>5. CASE i # k
      <4>1. h[i] = g[i] /\ i \in (n + 1) - m .. n + 1
        BY <1>n, <2>2, <3>1, <3>5
      <4> HIDE DEF h
      <4> QED BY <2>1, <2>2, <3>3, <4>1
    <3> QED BY <3>4, <3>5
  <2> HIDE DEF h
  <2>3. \E f : \A i \in (n + 1) - (m + 1) .. n + 1 : i >= 1 => f[i] = CamelBody(s, f, i)
    BY <2>2
  <2>4. m + 1 \in Nat
    OBVIOUS
  <2> QED BY ONLY <2>3, <2>4 DEF T
<1> HIDE DEF T
<1>3. n \in T
  BY <1>1, <1>2, <1>n, SetInduction
<1>4. PICK g : \A i \in (n + 1) - n .. n + 1 : i >= 1 => g[i] = CamelBody(s, g, i)
  BY <1>3 DEF T
<1>5. \A i \in 1 .. n + 1 : g[i] = CamelBody(s, g, i)
  BY <1>4, <1>n
<1> DEFINE f == [i \in 1 .. n + 1 |-> g[i]]
<1>6. \A i \in 1 .. n + 1 : f[i] = CamelBody(s, f, i)
  <2> SUFFICES ASSUME NEW i \in 1 .. n + 1 PROVE f[i] = CamelBody(s, f, i)
    OBVIOUS
  <2>1. f[i] = g[i] /\ \A j \in i + 1 .. Len(s) + 1 : g[j] = f[j]
    BY <1>n
  <2> HIDE DEF f
  <2>2. CamelBody(s, g, i) = CamelBody(s, f, i)
    BY <2>1, CamelLooksAhead
  <2> QED BY <1>5, <2>1, <2>2
<1>7. f = [i \in 1 .. n + 1 |-> CamelBody(s, f, i)]
  <2>1. f = [i \in 1 .. n + 1 |-> f[i]]
    OBVIOUS
  <2> HIDE DEF f
  <2> QED BY <1>6, <2>1
<1> HIDE DEF f
<1> DEFINE F == CHOOSE F : F = [i \in 1 .. n + 1 |-> CamelBody(s, F, i)]
<1>8. F = [i \in 1 .. n + 1 |-> CamelBody(s, F, i)]
  BY <1>7
<1>9. GoCamelCase(s) = F[1]
  BY DEF GoCamelCase, CamelBody, Bar
<1> HIDE DEF F
<1> QED BY <1>8, <1>9

-----------------------------------------------------------------------------
(* The loop comes to what the rules say of each character. *)

Pieces(s) == [i \in DOMAIN s |-> CamelAt(s, i)]

\* What precedes a lower-case letter that is raised.
Breaks == Digits \cup {Bar, "."}

\* The rules, case by case.
LEMMA CamelAtCases ==
  ASSUME NEW s \in Seq(Chars), NEW i \in 1 .. Len(s)
  PROVE  /\ s[i] \in Lower => CamelAt(s, i) = IF i = 1 \/ s[i - 1] \in Breaks
                                              THEN <<Up[s[i]]>> ELSE <<s[i]>>
         /\ s[i] = Bar => CamelAt(s, i) = IF i = 1 \/ Is(s, i - 1, ".") THEN <<"X">>
                                          ELSE IF LowerAt(s, i + 1) THEN << >> ELSE <<Bar>>
         /\ s[i] = "." => CamelAt(s, i) = IF LowerAt(s, i + 1) THEN << >> ELSE <<Bar>>
         /\ s[i] \notin Lower \cup {Bar, "."} => CamelAt(s, i) = <<s[i]>>
<1>1. s[i] \in Lower => s[i] # Bar /\ s[i] # "."
  BY Kinds
<1>2. s[i] \in Lower => CamelAt(s, i) = IF i = 1 \/ s[i - 1] \in Breaks
                                        THEN <<Up[s[i]]>> ELSE <<s[i]>>
  BY <1>1 DEF CamelAt, Breaks, Bar
<1>3. s[i] = Bar => CamelAt(s, i) = IF i = 1 \/ Is(s, i - 1, ".") THEN <<"X">>
                                    ELSE IF LowerAt(s, i + 1) THEN << >> ELSE <<Bar>>
  BY <1>1 DEF CamelAt, Bar
<1>4. s[i] = "." => CamelAt(s, i) = IF LowerAt(s, i + 1) THEN << >> ELSE <<Bar>>
  BY <1>1 DEF CamelAt, Bar
<1>5. s[i] \notin Lower \cup {Bar, "."} => CamelAt(s, i) = <<s[i]>>
  BY DEF CamelAt, Bar
<1> QED BY <1>2, <1>3, <1>4, <1>5

\* What the rules make of the positions is a sequence of words.
LEMMA PiecesType ==
  ASSUME NEW s \in Seq(Chars)
  PROVE  /\ Pieces(s) \in Seq(Seq(Chars)) /\ Len(Pieces(s)) = Len(s)
         /\ \A i \in 1 .. Len(s) : Pieces(s)[i] = CamelAt(s, i)
<1>n. Len(s) \in Nat /\ DOMAIN s = 1 .. Len(s)
  BY LenProperties
<1>1. ASSUME NEW i \in 1 .. Len(s) PROVE CamelAt(s, i) \in Seq(Chars)
  <2>1. s[i] \in Chars
    BY ElementOfSeq
  <2>2. /\ << >> \in Seq(Chars)
        /\ <<"X">> \in Seq(Chars) /\ <<Bar>> \in Seq(Chars) /\ <<s[i]>> \in Seq(Chars)
        /\ s[i] \in Lower => <<Up[s[i]]>> \in Seq(Chars)
    <3>1. "X" \in Chars /\ Bar \in Chars /\ (s[i] \in Lower => Up[s[i]] \in Chars)
      BY Kinds, Cases
    <3>2. \A c \in Chars : <<c>> \in Seq(Chars)
      BY SingleSeq
    <3> QED BY <2>1, <3>1, <3>2, EmptySeq
  <2> QED BY <2>2, CamelAtCases
<1>2. Pieces(s) \in [1 .. Len(s) -> Seq(Chars)]
  BY <1>n, <1>1 DEF Pieces
<1> QED BY <1>n, <1>2, FcnIsSeq DEF Pieces

\* A tail of lower-case letters goes over as it is.
LEMMA TailKept ==
  ASSUME NEW s \in Seq(Chars), NEW i \in 1 .. Len(s), NEW e \in i .. Len(s),
         \A k \in i + 1 .. e : s[k] \in Lower,
         e > i => s[i] \notin Breaks
  PROVE  Upto(Pieces(s), e) = Upto(Pieces(s), i) \o SubSeq(s, i + 1, e)
<1> DEFINE p == Pieces(s)
           T == {d \in Nat : Upto(p, i + d) = Upto(p, i) \o SubSeq(s, i + 1, i + d)}
<1>n. /\ Len(s) \in Nat /\ i \in Nat /\ e \in Nat /\ e - i \in Nat /\ i + (e - i) = e
      /\ p \in Seq(Seq(Chars)) /\ Len(p) = Len(s)
  BY PiecesType, LenProperties
<1>i. Upto(p, i) \in Seq(Chars)
  BY <1>n, UptoSteps
<1>1. 0 \in T
  <2>1. SubSeq(s, i + 1, i + 0) = << >>
    BY <1>n, SubSeqEmpty
  <2>2. Upto(p, i) \o << >> = Upto(p, i) /\ i + 0 = i
    BY <1>n, <1>i, ConcatEmptySeq
  <2> QED BY <2>1, <2>2
<1>2. ASSUME NEW d \in 0 .. (e - i) - 1, d \in T PROVE d + 1 \in T
  <2> DEFINE k == i + d
  <2>1. /\ k \in 0 .. Len(p) - 1 /\ k + 1 = i + (d + 1) /\ k + 1 \in 1 .. Len(s)
        /\ k + 1 \in i + 1 .. e /\ (k + 1) - 1 = k /\ k + 1 # 1 /\ i + 1 \in 1 .. Len(s)
        /\ k + 1 \in i + 1 .. Len(s) /\ k \in i .. e /\ d + 1 \in Nat
        /\ i + 1 \in 1 .. Len(s) + 1
    BY <1>n, <1>2
  <2>2. s[k + 1] \in Lower /\ s[k] \notin Breaks
    <3>1. k > i => s[k] \in Lower
      BY <1>n, <2>1
    <3>2. k = i => s[k] \notin Breaks
      BY <1>n, <2>1
    <3>3. \A c \in Lower : c \notin Breaks
      BY Kinds DEF Breaks
    <3> QED BY <1>n, <2>1, <3>1, <3>2, <3>3
  <2>3. p[k + 1] = <<s[k + 1]>>
    BY <2>1, <2>2, CamelAtCases, PiecesType
  <2>4. Upto(p, k + 1) = Upto(p, k) \o <<s[k + 1]>>
    BY <1>n, <2>1, <2>3, UptoSteps
  <2>5. SubSeq(s, i + 1, k + 1) = SubSeq(s, i + 1, k) \o <<s[k + 1]>>
    BY <2>1, SubSeqRecursiveSecond
  <2>6. SubSeq(s, i + 1, k) \in Seq(Chars) /\ <<s[k + 1]>> \in Seq(Chars)
    <3>1. \A x \in i + 1 .. k : s[x] \in Chars
      BY <1>n, <2>1, ElementOfSeq
    <3>2. s[k + 1] \in Chars
      BY <2>1, ElementOfSeq
    <3> QED BY <1>n, <2>1, <3>1, <3>2, SubSeqProperties
  <2>7. (Upto(p, i) \o SubSeq(s, i + 1, k)) \o <<s[k + 1]>>
          = Upto(p, i) \o (SubSeq(s, i + 1, k) \o <<s[k + 1]>>)
    <3> DEFINE a == Upto(p, i)
               b == SubSeq(s, i + 1, k)
               c == <<s[k + 1]>>
    <3>1. a \in Seq(Chars) /\ b \in Seq(Chars) /\ c \in Seq(Chars)
      BY <1>i, <2>6
    <3> HIDE DEF a, b, c
    <3>2. (a \o b) \o c = a \o (b \o c)
      BY ONLY <3>1, CharsAssoc, Zenon
    <3> QED BY <3>2 DEF a, b, c
  <2>8. Upto(p, k) = Upto(p, i) \o SubSeq(s, i + 1, k)
    BY <1>2
  <2>9. Upto(p, i + (d + 1)) = Upto(p, i) \o SubSeq(s, i + 1, i + (d + 1))
    BY <2>1, <2>4, <2>5, <2>7, <2>8
  <2> QED BY <2>1, <2>9
<1> HIDE DEF T
<1>3. 0 .. (e - i) \subseteq T
  BY <1>n, <1>1, <1>2, UptoInduction
<1>4. (e - i) \in T
  BY <1>n, <1>3
<1> QED BY <1>n, <1>4 DEF T
\* Position i is where a turn of the loop may begin: a lower-case letter there is
\* one that the rules raise.
Sync(s, i) == LowerAt(s, i) => i = 1 \/ s[i - 1] \in Breaks

\* From i on the loop yields what is left of the pieces.
Follows(s, F, i) ==
  /\ F[i] \in Seq(Chars)
  /\ Sync(s, i) => FlattenSeq(Pieces(s)) = Upto(Pieces(s), i - 1) \o F[i]

\* A turn that yields x and goes on at j.
LEMMA TurnFollows ==
  ASSUME NEW s \in Seq(Chars), NEW F, NEW i \in 1 .. Len(s), NEW j \in i + 1 .. Len(s) + 1,
         NEW x \in Seq(Chars), Follows(s, F, j), F[i] = x \o F[j],
         Sync(s, i) => /\ Sync(s, j)
                       /\ Upto(Pieces(s), j - 1) = Upto(Pieces(s), i - 1) \o x
  PROVE  Follows(s, F, i)
<1> DEFINE a == Upto(Pieces(s), i - 1)
           b == F[j]
<1>1. a \in Seq(Chars) /\ b \in Seq(Chars)
  <2>1. Len(s) \in Nat /\ Len(Pieces(s)) = Len(s) /\ Pieces(s) \in Seq(Seq(Chars))
    BY PiecesType, LenProperties
  <2>2. i - 1 \in 0 .. Len(Pieces(s))
    BY <2>1
  <2> QED BY <2>1, <2>2, UptoSteps DEF Follows
<1>2. F[i] \in Seq(Chars)
  <2>1. F[i] = x \o b
    OBVIOUS
  <2> HIDE DEF b
  <2> QED BY <1>1, <2>1, ConcatProperties
<1>3. ASSUME Sync(s, i) PROVE FlattenSeq(Pieces(s)) = a \o F[i]
  <2>1. FlattenSeq(Pieces(s)) = (a \o x) \o b
    BY <1>3 DEF Follows
  <2>2. F[i] = x \o b
    OBVIOUS
  <2>3. x \in Seq(Chars)
    OBVIOUS
  <2> HIDE DEF a, b
  <2>4. (a \o x) \o b = a \o (x \o b)
    BY ONLY <1>1, <2>3, CharsAssoc, Zenon
  <2> QED BY <2>1, <2>2, <2>4
<1> QED BY <1>2, <1>3 DEF Follows

\* If the loop follows the rules from every later position, then from i.
LEMMA CamelStep ==
  ASSUME NEW s \in Seq(Chars), NEW F, NEW i \in 1 .. Len(s), F[i] = CamelBody(s, F, i),
         \A j \in i + 1 .. Len(s) + 1 : Follows(s, F, j)
  PROVE  Follows(s, F, i)
<1> DEFINE p == Pieces(s)
<1>n. /\ Len(s) \in Nat /\ i \in Nat /\ ~(i > Len(s)) /\ i \in DOMAIN s
      /\ i + 1 \in i + 1 .. Len(s) + 1 /\ (i + 1) - 1 = i /\ (i - 1) + 1 = i
      /\ p \in Seq(Seq(Chars)) /\ Len(p) = Len(s) /\ i - 1 \in 0 .. Len(p) - 1
  BY PiecesType, LenProperties
<1>c. s[i] \in Chars
  BY ElementOfSeq
<1>u. Upto(p, i) = Upto(p, i - 1) \o CamelAt(s, i)
  BY <1>n, UptoSteps, PiecesType
<1>t. CamelAt(s, i) \in Seq(Chars)
  BY <1>n, PiecesType, ElementOfSeq
<1>1. CASE s[i] \in Breaks /\ F[i] = CamelAt(s, i) \o F[i + 1]
  <2>1. Sync(s, i + 1) /\ Follows(s, F, i + 1)
    BY <1>1, <1>n DEF Sync
  <2>2. Upto(p, (i + 1) - 1) = Upto(p, i - 1) \o CamelAt(s, i)
    BY <1>n, <1>u
  <2> HIDE DEF p
  <2> QED BY <1>1, <1>n, <1>t, <2>1, <2>2, TurnFollows DEF p
<1>2. CASE /\ s[i] \notin Digits \cup {"."}
           /\ s[i] = Bar => i # 1 /\ ~Is(s, i - 1, ".") /\ ~LowerAt(s, i + 1)
  <2> DEFINE e == TailEnd(s, i)
             r == SubSeq(s, i + 1, e)
             b == <<Raised(s[i])>>
  <2>1. F[i] = (b \o r) \o F[e + 1]
    <3>1. F[i] = <<Raised(s[i])>> \o SubSeq(s, i + 1, TailEnd(s, i)) \o F[TailEnd(s, i) + 1]
      BY <1>2, <1>n DEF CamelBody
    <3> QED BY <3>1
  <2>2. /\ e \in i .. Len(s) /\ \A k \in i + 1 .. e : s[k] \in Lower
        /\ ~LowerAt(s, e + 1)
    BY TailEnds
  <2>3. b \in Seq(Chars) /\ r \in Seq(Chars)
    <3>1. \A x \in i + 1 .. e : s[x] \in Chars
      BY <1>n, <2>2, Kinds
    <3>2. r \in Seq(Chars)
      BY <1>n, <2>2, <3>1, SubSeqProperties
    <3> QED BY <1>c, <3>2, CharsStay, SingleSeq
  <2>4. e + 1 \in i + 1 .. Len(s) + 1 /\ (e + 1) - 1 = e
    BY <1>n, <2>2
  <2>5. Sync(s, e + 1)
    BY <2>2 DEF Sync
  <2>6. ASSUME Sync(s, i) PROVE Upto(p, e) = Upto(p, i - 1) \o (b \o r)
    <3>1. CamelAt(s, i) = b
      <4>1. CASE s[i] \in Lower
        <5>1. i = 1 \/ s[i - 1] \in Breaks
          BY <1>n, <2>6, <4>1 DEF Sync, LowerAt
        <5> QED BY <4>1, <5>1, CamelAtCases, Cases
      <4>2. CASE s[i] = Bar
        BY <1>2, <4>2, CamelAtCases, Cases, Kinds
      <4>3. CASE s[i] \notin Lower \cup {Bar, "."}
        <5>1. CamelAt(s, i) = <<s[i]>> /\ Raised(s[i]) = s[i]
          BY <4>3, CamelAtCases, Cases
        <5> QED BY <5>1
      <4> QED BY <1>2, <4>1, <4>2, <4>3
    <3>2. e > i => s[i] \notin Breaks
      <4>1. e > i => LowerAt(s, i + 1)
        <5>1. e > i => i + 1 \in i + 1 .. e /\ i + 1 \in DOMAIN s
          BY <1>n, <2>2, LenProperties
        <5> QED BY <2>2, <5>1 DEF LowerAt
      <4> QED BY <1>2, <4>1 DEF Breaks
    <3> HIDE DEF e
    <3>3. Upto(p, e) = Upto(p, i) \o SubSeq(s, i + 1, e)
      BY <2>2, <3>2, TailKept
    <3> DEFINE a == Upto(p, i - 1)
    <3>4. a \in Seq(Chars) /\ Upto(p, e) = (a \o b) \o r
      <4>1. i - 1 \in 0 .. Len(p)
        BY <1>n
      <4> QED BY <1>n, <1>u, <3>1, <3>3, <4>1, UptoSteps
    <3> HIDE DEF a, b, r
    <3>5. (a \o b) \o r = a \o (b \o r)
      BY <2>3, <3>4, CharsAssoc, Zenon
    <3> QED BY <3>4, <3>5 DEF a
  <2>7. b \o r \in Seq(Chars)
    <3> HIDE DEF b, r
    <3> QED BY <2>3, ConcatProperties
  <2>8. Follows(s, F, e + 1)
    BY <2>4
  <2> HIDE DEF e, b, r, p
  <2> QED BY <2>1, <2>4, <2>5, <2>6, <2>7, <2>8, TurnFollows DEF p
<1>3. CASE ~(/\ s[i] \notin Digits \cup {"."}
             /\ s[i] = Bar => i # 1 /\ ~Is(s, i - 1, ".") /\ ~LowerAt(s, i + 1))
  <2>1. s[i] \in Breaks
    BY <1>3 DEF Breaks
  <2>2. /\ s[i] \in Digits => s[i] # "." /\ s[i] # Bar /\ s[i] \notin Lower
        /\ F[i + 1] \in Seq(Chars)
    BY <1>n, Kinds DEF Follows
  <2>3. << >> \o F[i + 1] = F[i + 1]
    BY <2>2, ConcatEmptySeq
  <2>4. F[i] = CamelAt(s, i) \o F[i + 1]
    <3>1. CASE s[i] \in Digits
      <4>1. CamelAt(s, i) = <<s[i]>>
        BY <2>2, <3>1, CamelAtCases
      <4> QED BY <1>n, <2>2, <3>1, <4>1 DEF CamelBody
    <3>2. CASE s[i] = "."
      BY <1>n, <2>3, <3>2, CamelAtCases DEF CamelBody
    <3>3. CASE s[i] = Bar
      BY <1>3, <1>n, <2>2, <2>3, <3>3, CamelAtCases DEF CamelBody
    <3> QED BY <1>3, <3>1, <3>2, <3>3
  <2> QED BY <1>1, <2>1, <2>4
<1> QED BY <1>2, <1>3

\* What the loop yields is what the rules say.
LEMMA CamelFollows ==
  ASSUME NEW s \in Seq(Chars)
  PROVE  GoCamelCase(s) = FlattenSeq(Pieces(s)) /\ GoCamelCase(s) \in Seq(Chars)
<1> DEFINE n == Len(s)
<1>n. n \in Nat /\ Len(Pieces(s)) = n /\ Pieces(s) \in Seq(Seq(Chars))
  BY PiecesType, LenProperties
<1>f. FlattenSeq(Pieces(s)) \in Seq(Chars)
  BY <1>n, FlattenType
<1>0. PICK F : GoCamelCase(s) = F[1] /\ F = [i \in 1 .. n + 1 |-> CamelBody(s, F, i)]
  BY CamelFcn
<1>b. \A i \in 1 .. n + 1 : F[i] = CamelBody(s, F, i)
  BY <1>0
<1> DEFINE T == {m \in Nat : \A i \in 1 .. n + 1 : i >= (n + 1) - m => Follows(s, F, i)}
<1>1. 0 \in T
  <2>1. \A i \in 1 .. n + 1 : i >= (n + 1) - 0 => i = n + 1
    BY <1>n
  <2>2. F[n + 1] = << >>
    <3>1. n + 1 \in 1 .. n + 1 /\ n + 1 > Len(s)
      BY <1>n
    <3> QED BY <1>b, <3>1 DEF CamelBody
  <2>3. /\ << >> \in Seq(Chars) /\ (n + 1) - 1 = n
        /\ FlattenSeq(Pieces(s)) \o << >> = FlattenSeq(Pieces(s))
    BY <1>n, <1>f, ConcatEmptySeq, EmptySeq
  <2>4. Upto(Pieces(s), n) = FlattenSeq(Pieces(s))
    BY <1>n, UptoSteps
  <2>5. Follows(s, F, n + 1)
    BY <2>2, <2>3, <2>4 DEF Follows
  <2> QED BY <2>1, <2>5
<1>2. ASSUME NEW m \in 0 .. n - 1, m \in T PROVE m + 1 \in T
  <2>1. \A i \in 1 .. n + 1 : i >= (n + 1) - m => Follows(s, F, i)
    BY <1>2
  <2>2. ASSUME NEW i \in 1 .. n + 1, i >= (n + 1) - (m + 1) PROVE Follows(s, F, i)
    <3>1. CASE i >= (n + 1) - m
      BY <2>1, <3>1
    <3>2. CASE ~(i >= (n + 1) - m)
      <4>1. i \in 1 .. Len(s) /\ i = n - m
        BY <1>n, <2>2, <3>2
      <4>2. \A j \in i + 1 .. Len(s) + 1 : Follows(s, F, j)
        <5>1. \A j \in i + 1 .. n + 1 : j \in 1 .. n + 1 /\ j >= (n + 1) - m
          BY <1>n, <4>1
        <5> QED BY <2>1, <5>1
      <4> QED BY <1>b, <4>1, <4>2, CamelStep
    <3> QED BY <3>1, <3>2
  <2>3. m + 1 \in Nat
    OBVIOUS
  <2> QED BY ONLY <2>2, <2>3 DEF T
<1> HIDE DEF T
<1>3. 0 .. n \subseteq T
  BY <1>n, <1>1, <1>2, UptoInduction
<1>4. n \in T
  BY <1>n, <1>3
<1>5. Follows(s, F, 1)
  <2>1. 1 \in 1 .. n + 1 /\ 1 >= (n + 1) - n
    BY <1>n
  <2> QED BY <1>4, <2>1 DEF T
<1>6. FlattenSeq(Pieces(s)) = << >> \o F[1]
  <2>1. Sync(s, 1) /\ 1 - 1 = 0
    BY DEF Sync
  <2>2. Upto(Pieces(s), 0) = << >>
    BY <1>n, UptoSteps
  <2> QED BY <1>5, <2>1, <2>2 DEF Follows
<1>7. F[1] \in Seq(Chars)
  BY <1>5 DEF Follows
<1> QED BY <1>0, <1>6, <1>7, ConcatEmptySeq
-----------------------------------------------------------------------------
(* The specification: the word is one of characters, and the loop follows  *)
(* the rules on it.                                                        *)

\* The word is one of characters.
LEMMA WordTyped == Spec => [](word \in Seq(Chars))
<1>1. Init => word \in Seq(Chars)
  BY EmptySeq DEF Init
<1>2. word \in Seq(Chars) /\ [Next]_word => (word \in Seq(Chars))'
  <2> SUFFICES ASSUME word \in Seq(Chars), [Next]_word PROVE word' \in Seq(Chars)
    OBVIOUS
  <2>1. CASE Next
    <3>1. PICK c \in Letters \cup Digits \cup Marks : word' = Append(word, c)
      BY <2>1 DEF Next
    <3>2. c \in Chars
      BY DEF Chars
    <3> QED BY <3>1, <3>2, AppendProperties
  <2>2. CASE word' = word
    BY <2>2
  <2> QED BY <2>1, <2>2
<1> QED BY <1>1, <1>2, PTL DEF Spec

\* GoCamelCase, which takes several characters in one turn and skips others, gives
\* for every word what the rules say of each character by itself.
THEOREM CamelByRulesHolds == Spec => []CamelByRules
<1>1. word \in Seq(Chars) => CamelByRules
  <2> SUFFICES ASSUME word \in Seq(Chars) PROVE CamelByRules
    OBVIOUS
  <2>1. \A s \in Seq(Chars) : GoCamelCase(s) = FlattenSeq(Pieces(s))
    BY CamelFollows
  <2> QED BY <2>1 DEF CamelByRules, Pieces
<1> QED BY <1>1, WordTyped, PTL

-----------------------------------------------------------------------------
(* Words that GoCamelCase leaves alone.                                    *)

Plain == Letters \cup Digits \cup {Bar}

Stable(t) ==
  /\ t \in Seq(Chars)
  /\ \A i \in 1 .. Len(t) :
       /\ t[i] \in Plain
       /\ t[i] \in Lower => i > 1 /\ t[i - 1] \in Letters
       /\ t[i] = Bar => i > 1

\* GoCamelCase leaves a stable word alone.
LEMMA StableStays ==
  ASSUME NEW t, Stable(t) PROVE GoCamelCase(t) = t
<1>n. t \in Seq(Chars) /\ Len(t) \in Nat /\ DOMAIN t = 1 .. Len(t)
  BY LenProperties DEF Stable
<1>p. /\ \A c \in Plain : c # "."
      /\ \A c \in Letters : c \notin Breaks /\ c # Bar
  BY Kinds DEF Plain, Letters, Breaks
<1>1. ASSUME NEW i \in 1 .. Len(t) PROVE Pieces(t)[i] = <<t[i]>>
  <2>1. Pieces(t)[i] = CamelAt(t, i)
    BY <1>n, PiecesType
  <2>2. t[i] # "."
    BY <1>p DEF Stable
  <2>3. CASE t[i] \in Lower
    <3>1. i > 1 /\ t[i - 1] \in Letters
      BY <2>3 DEF Stable
    <3>2. i # 1 /\ t[i - 1] \notin Breaks
      BY <1>p, <3>1
    <3> QED BY <1>n, <2>1, <2>3, <3>2, CamelAtCases
  <2>4. CASE t[i] = Bar
    <3>0. i > 1 /\ Len(t) \in Nat
      BY <1>n, <2>4 DEF Stable
    <3>1. i # 1 /\ i - 1 \in 1 .. Len(t)
      BY ONLY <3>0, i \in 1 .. Len(t)
    <3>2. ~Is(t, i - 1, ".")
      BY <1>p, <3>1 DEF Stable, Is
    <3>3. ~LowerAt(t, i + 1)
      <4> SUFFICES ASSUME LowerAt(t, i + 1) PROVE FALSE
        OBVIOUS
      <4>1. i + 1 \in 1 .. Len(t) /\ t[i + 1] \in Lower /\ (i + 1) - 1 = i
        BY <1>n DEF LowerAt
      <4>2. t[(i + 1) - 1] \in Letters
        BY <4>1 DEF Stable
      <4> QED BY <1>p, <2>4, <4>1, <4>2
    <3> QED BY <1>n, <2>1, <2>4, <3>1, <3>2, <3>3, CamelAtCases
  <2>5. CASE t[i] \notin Lower \cup {Bar, "."}
    BY <1>n, <2>1, <2>5, CamelAtCases
  <2> QED BY <2>2, <2>3, <2>4, <2>5
<1>2. FlattenSeq(Pieces(t)) = t
  BY <1>n, <1>1, PiecesType, FlattenSingles
<1> QED BY <1>n, <1>2, CamelFollows

\* A stable word stays stable when it grows by a character that may follow.
LEMMA StableAppend ==
  ASSUME NEW u, Stable(u), NEW c \in Plain,
         c \in Lower => Len(u) > 0 /\ u[Len(u)] \in Letters,
         c = Bar => Len(u) > 0
  PROVE  /\ Stable(u \o <<c>>)
         /\ Len(u \o <<c>>) = Len(u) + 1 /\ (u \o <<c>>)[Len(u) + 1] = c
<1> DEFINE n == Len(u)
           w == u \o <<c>>
<1>1. u \in Seq(Chars) /\ n \in Nat /\ c \in Chars
  BY Kinds, LenProperties DEF Stable, Plain, Letters
<1>0. n \in Nat
  BY <1>1
<1>2. \A i \in 1 .. n : /\ u[i] \in Plain
                        /\ u[i] \in Lower => i > 1 /\ u[i - 1] \in Letters
                        /\ u[i] = Bar => i > 1
  BY DEF Stable
<1>h. (c \in Lower => n > 0 /\ u[n] \in Letters) /\ (c = Bar => n > 0)
  OBVIOUS
<1>3. /\ w \in Seq(Chars) /\ Len(w) = n + 1 /\ \A i \in 1 .. n : w[i] = u[i]
      /\ w[n + 1] = c
  BY <1>1, CharsSnoc
<1> HIDE DEF n
<1> HIDE DEF w
<1>5. ASSUME NEW i \in 1 .. n + 1
      PROVE  /\ w[i] \in Plain
             /\ w[i] \in Lower => i > 1 /\ w[i - 1] \in Letters
             /\ w[i] = Bar => i > 1
  <2>1. CASE i \in 1 .. n
    <3>1. i > 1 => i - 1 \in 1 .. n
      BY <1>0, <2>1
    <3> QED BY <1>2, <1>3, <2>1, <3>1
  <2>2. CASE i = n + 1
    <3>1. n > 0 => n \in 1 .. n /\ i > 1 /\ i - 1 = n
      BY <1>0, <2>2
    <3> QED BY <1>3, <1>h, <2>2, <3>1
  <2> QED BY <1>0, <2>1, <2>2
<1>6. Stable(w)
  BY <1>3, <1>5 DEF Stable
<1> QED BY <1>3, <1>6 DEF w, n
-----------------------------------------------------------------------------
(* Lower case, and what is left out.                                       *)

One(c, S) == IF c \in S THEN <<c>> ELSE << >>

Picks(s, S) == [i \in DOMAIN s |-> One(s[i], S)]

\* What Only picks, position by position.
LEMMA PicksType ==
  ASSUME NEW s \in Seq(Chars), NEW S
  PROVE  /\ Only(s, S) = FlattenSeq(Picks(s, S))
         /\ Picks(s, S) \in Seq(Seq(Chars)) /\ Len(Picks(s, S)) = Len(s)
         /\ \A i \in 1 .. Len(s) : Picks(s, S)[i] = One(s[i], S)
         /\ Only(s, S) \in Seq(Chars)
<1>n. Len(s) \in Nat /\ DOMAIN s = 1 .. Len(s)
  BY LenProperties
<1>1. ASSUME NEW i \in 1 .. Len(s) PROVE One(s[i], S) \in Seq(Chars)
  <2>1. s[i] \in Chars
    BY ElementOfSeq
  <2>2. <<s[i]>> \in Seq(Chars) /\ << >> \in Seq(Chars)
    BY <2>1, SingleSeq, EmptySeq
  <2> QED BY <2>2 DEF One
<1>2. Picks(s, S) \in [1 .. Len(s) -> Seq(Chars)]
  BY <1>n, <1>1 DEF Picks
<1>3. Picks(s, S) \in Seq(Seq(Chars)) /\ Len(Picks(s, S)) = Len(s)
  BY <1>n, <1>2, FcnIsSeq
<1>4. \A i \in 1 .. Len(s) : Picks(s, S)[i] = One(s[i], S)
  BY <1>n DEF Picks
<1>5. Only(s, S) = FlattenSeq(Picks(s, S))
  BY DEF Only, Picks, One
<1>6. FlattenSeq(Picks(s, S)) \in Seq(Chars)
  BY <1>3, FlattenType
<1> QED BY <1>3, <1>4, <1>5, <1>6

\* ToLower, position by position.
LEMMA LowType ==
  ASSUME NEW s \in Seq(Chars)
  PROVE  /\ ToLower(s) \in Seq(Chars) /\ Len(ToLower(s)) = Len(s)
         /\ \A i \in 1 .. Len(s) : ToLower(s)[i] = Low(s[i])
<1>n. Len(s) \in Nat /\ DOMAIN s = 1 .. Len(s)
  BY LenProperties
<1>1. \A i \in 1 .. Len(s) : Low(s[i]) \in Chars
  BY ElementOfSeq, CharsStay
<1>2. ToLower(s) \in [1 .. Len(s) -> Chars]
  BY <1>n, <1>1 DEF ToLower
<1>3. ToLower(s) \in Seq(Chars) /\ Len(ToLower(s)) = Len(s)
  BY <1>n, <1>2, FcnIsSeq
<1>4. \A i \in 1 .. Len(s) : ToLower(s)[i] = Low(s[i])
  BY <1>n DEF ToLower
<1> QED BY <1>3, <1>4

\* A word is longer by one character, so is what becomes of it, or not at all.
LEMMA OnlyAppend ==
  ASSUME NEW s \in Seq(Chars), NEW c \in Chars, NEW S
  PROVE  Only(s \o <<c>>, S) = Only(s, S) \o One(c, S)
<1> DEFINE t == s \o <<c>>
           x == One(c, S)
           p == Picks(s, S)
           q == Append(p, x)
<1>1. /\ t \in Seq(Chars) /\ Len(s) \in Nat /\ Len(t) = Len(s) + 1
      /\ \A i \in 1 .. Len(s) : t[i] = s[i]
      /\ t[Len(s) + 1] = c
  BY CharsSnoc
<1>2. x \in Seq(Chars)
  BY SingleSeq, EmptySeq DEF One
<1>3. /\ p \in Seq(Seq(Chars)) /\ Len(p) = Len(s)
      /\ \A i \in 1 .. Len(s) : p[i] = One(s[i], S)
  BY PicksType
<1>4. Picks(t, S) \in Seq(Seq(Chars)) /\ Len(Picks(t, S)) = Len(s) + 1
  BY <1>1, PicksType
<1>5. \A i \in 1 .. Len(s) + 1 : Picks(t, S)[i] = One(t[i], S)
  <2> HIDE DEF t
  <2>1. \A i \in 1 .. Len(t) : Picks(t, S)[i] = One(t[i], S)
    BY <1>1, PicksType
  <2> QED BY <1>1, <2>1
<1>6. q = Picks(t, S)
  <2>1. /\ q \in Seq(Seq(Chars)) /\ Len(q) = Len(s) + 1
        /\ \A i \in 1 .. Len(s) : q[i] = p[i]
        /\ q[Len(s) + 1] = x
    <3> HIDE DEF p, x
    <3> QED BY <1>1, <1>2, <1>3, AppendProperties
  <2>2. ASSUME NEW i \in 1 .. Len(s) + 1 PROVE q[i] = Picks(t, S)[i]
    <3>1. i \in 1 .. Len(s) \/ i = Len(s) + 1
      BY <1>1
    <3>2. ASSUME i \in 1 .. Len(s) PROVE q[i] = Picks(t, S)[i]
      <4> HIDE DEF q, p, t, x
      <4> QED BY <1>1, <1>3, <1>5, <2>1, <3>2
    <3>3. ASSUME i = Len(s) + 1 PROVE q[i] = Picks(t, S)[i]
      <4>1. Picks(t, S)[i] = One(t[i], S)
        BY <1>5
      <4>2. t[i] = c /\ q[i] = x
        BY <1>1, <2>1, <3>3
      <4> HIDE DEF q, t
      <4> QED BY <4>1, <4>2
    <3> QED BY <3>1, <3>2, <3>3
  <2> HIDE DEF q, t
  <2> QED BY <1>4, <2>1, <2>2, SeqEqual
<1>7. Only(t, S) = FlattenSeq(q)
  BY <1>1, <1>6, PicksType
<1>8. FlattenSeq(q) = FlattenSeq(p) \o x
  <2> HIDE DEF p, x
  <2> QED BY <1>2, <1>3, FlattenAppend
<1>9. Only(s, S) = FlattenSeq(p)
  BY PicksType
<1> QED BY <1>7, <1>8, <1>9

\* The same for ToLower.
LEMMA LowAppend ==
  ASSUME NEW s \in Seq(Chars), NEW c \in Chars
  PROVE  ToLower(s \o <<c>>) = ToLower(s) \o <<Low(c)>>
<1> DEFINE t == s \o <<c>>
           u == ToLower(s)
           l == u \o <<Low(c)>>
<1>1. u \in Seq(Chars) /\ Len(u) = Len(s) /\ Len(s) \in Nat /\ Low(c) \in Chars
  BY CharsStay, LowType, LenProperties
<1>2. \A i \in 1 .. Len(s) : u[i] = Low(s[i])
  BY LowType
<1>4. /\ t \in Seq(Chars) /\ Len(t) = Len(s) + 1
      /\ \A i \in 1 .. Len(s) : t[i] = s[i]
      /\ t[Len(s) + 1] = c
  BY CharsSnoc
<1> HIDE DEF u, t
<1>5. /\ l \in Seq(Chars) /\ Len(l) = Len(s) + 1
      /\ \A i \in 1 .. Len(s) : l[i] = u[i]
      /\ l[Len(s) + 1] = Low(c)
  <2>1. /\ l \in Seq(Chars) /\ Len(l) = Len(u) + 1
        /\ \A i \in 1 .. Len(u) : l[i] = u[i]
        /\ l[Len(u) + 1] = Low(c)
    BY <1>1, CharsSnoc
  <2> HIDE DEF l
  <2> QED BY <1>1, <2>1
<1> HIDE DEF l
<1>6. /\ ToLower(t) \in Seq(Chars) /\ Len(ToLower(t)) = Len(s) + 1
      /\ \A i \in 1 .. Len(s) + 1 : ToLower(t)[i] = Low(t[i])
  BY <1>4, LowType
<1>7. ASSUME NEW i \in 1 .. Len(s) + 1 PROVE ToLower(t)[i] = l[i]
  <2>1. i \in 1 .. Len(s) \/ i = Len(s) + 1
    BY <1>1
  <2> QED BY <1>2, <1>4, <1>5, <1>6, <2>1
<1>8. ToLower(t) = l
  BY <1>5, <1>6, <1>7, SeqEqual
<1> QED BY <1>8 DEF t, l, u

\* Both at once.
Bare(s, S) == Only(ToLower(s), S)

\* The same for both.
LEMMA BareAppend ==
  ASSUME NEW s \in Seq(Chars), NEW c \in Chars, NEW S
  PROVE  /\ Bare(s, S) \in Seq(Chars)
         /\ Bare(s \o <<c>>, S) = Bare(s, S) \o One(Low(c), S)
<1>1. ToLower(s) \in Seq(Chars) /\ Low(c) \in Chars
  BY LowType, CharsStay
<1>2. ToLower(s \o <<c>>) = ToLower(s) \o <<Low(c)>>
  BY LowAppend
<1>3. Only(ToLower(s), S) \in Seq(Chars)
  BY <1>1, PicksType
<1>4. Only(ToLower(s) \o <<Low(c)>>, S) = Only(ToLower(s), S) \o One(Low(c), S)
  BY <1>1, OnlyAppend
<1> QED BY <1>2, <1>3, <1>4 DEF Bare

\* Nothing comes of nothing.
LEMMA BareEmpty == \A S : Only(<< >>, S) = << >> /\ Bare(<< >>, S) = << >>
<1>1. ToLower(<< >>) = << >>
  <2>1. ToLower(<< >>) \in Seq(Chars) /\ Len(ToLower(<< >>)) = 0
    BY LowType, EmptySeq
  <2> QED BY <2>1, EmptySeq
<1>2. ASSUME NEW S PROVE Only(<< >>, S) = << >>
  <2>1. /\ Only(<< >>, S) = FlattenSeq(Picks(<< >>, S))
        /\ Picks(<< >>, S) \in Seq(Seq(Chars)) /\ Len(Picks(<< >>, S)) = 0
    BY PicksType, EmptySeq
  <2>2. Picks(<< >>, S) = << >>
    BY <2>1, EmptySeq
  <2>3. FlattenSeq(<< >>) = << >>
    BY DEF FlattenSeq
  <2> QED BY <2>1, <2>2, <2>3
<1> QED BY <1>1, <1>2 DEF Bare
-----------------------------------------------------------------------------
(* The names of a project.                                                 *)

LD == Lower \cup Digits

\* The name with underscores for its hyphens, as serviceName begins.
Barred(name) == [i \in DOMAIN name |-> IF name[i] = "-" THEN Bar ELSE name[i]]

\* A project's name: it is not empty, begins with a letter, and its hyphens become underscores.
LEMMA BarredType ==
  ASSUME NEW name \in Seq(Chars), IsAppName(name)
  PROVE  /\ Len(name) \in Nat \ {0}
         /\ \A i \in 1 .. Len(name) : name[i] \in LD \cup {"-"}
         /\ Barred(name) \in Seq(Chars) /\ Len(Barred(name)) = Len(name)
         /\ \A i \in 1 .. Len(name) :
              Barred(name)[i] = IF name[i] = "-" THEN Bar ELSE name[i]
         /\ Barred(name)[1] \in Lower
         /\ \A i \in 1 .. Len(name) : Barred(name)[i] \in LD \cup {Bar}
         /\ serviceName(name) = FlattenSeq(Pieces(Barred(name)))
<1>n. Len(name) \in Nat /\ DOMAIN name = 1 .. Len(name)
  BY LenProperties
<1>0. Len(name) # 0
  <2>1. name # << >>
    BY DEF IsAppName
  <2> QED BY <2>1, EmptySeq
<1>1. \A i \in 1 .. Len(name) : name[i] \in LD \cup {"-"}
  BY <1>n DEF IsAppName, LD
<1>2. \A i \in 1 .. Len(name) : Barred(name)[i] = IF name[i] = "-" THEN Bar ELSE name[i]
  BY <1>n DEF Barred
<1>3. \A i \in 1 .. Len(name) : Barred(name)[i] \in LD \cup {Bar}
  BY <1>1, <1>2
<1>4. LD \cup {Bar} \subseteq Chars
  BY Kinds DEF LD
<1>5. Barred(name) \in [1 .. Len(name) -> Chars]
  <2>1. Barred(name) = [i \in 1 .. Len(name) |-> Barred(name)[i]]
    BY <1>n DEF Barred
  <2>2. \A i \in 1 .. Len(name) : Barred(name)[i] \in Chars
    BY <1>3, <1>4
  <2> QED BY <2>1, <2>2
<1>6. Barred(name) \in Seq(Chars) /\ Len(Barred(name)) = Len(name)
  BY <1>n, <1>5, FcnIsSeq
<1>7. Barred(name)[1] \in Lower
  <2>1. name[1] \in Lower /\ 1 \in 1 .. Len(name)
    BY <1>n, <1>0 DEF IsAppName
  <2>2. name[1] # "-"
    BY <2>1, Kinds
  <2> QED BY <1>2, <2>1, <2>2
<1>8. serviceName(name) = GoCamelCase(Barred(name))
  BY DEF serviceName, Barred, Bar
<1> QED BY <1>n, <1>0, <1>1, <1>2, <1>3, <1>6, <1>7, <1>8, CamelFollows

\* What the first k characters have become.
Shaped(name, k) ==
  LET u == Upto(Pieces(Barred(name)), k) IN
  /\ Stable(u)
  /\ k >= 1 => Len(u) > 0
  /\ k >= 1 /\ Barred(name)[k] \in Lower => u[Len(u)] \in Letters
  /\ Bare(u, LD) = Upto(Picks(name, LD), k)

\* One more character of the name keeps the shape.
LEMMA ShapedStep ==
  ASSUME NEW name \in Seq(Chars), IsAppName(name), NEW k \in 0 .. Len(name) - 1,
         Shaped(name, k)
  PROVE  Shaped(name, k + 1)
<1> DEFINE s == Barred(name)
           c == s[k + 1]
           d == name[k + 1]
           p == Pieces(s)
           q == Picks(name, LD)
           u == Upto(p, k)
           v == Upto(p, k + 1)
<1>n. /\ Len(name) \in Nat /\ s \in Seq(Chars) /\ Len(s) = Len(name)
      /\ k + 1 \in 1 .. Len(s) /\ (k + 1) - 1 = k /\ k \in Nat
      /\ k + 1 # 1 => k \in 1 .. Len(s) /\ k >= 1
  <2>1. Len(name) \in Nat /\ s \in Seq(Chars) /\ Len(s) = Len(name)
    BY BarredType
  <2> HIDE DEF s
  <2> QED BY <2>1
<1>c. /\ c \in Lower \/ c = Bar \/ c \in Digits
      /\ c \in LD => d = c
      /\ c = Bar => d \notin LD
  <2>1. c = IF d = "-" THEN Bar ELSE d
    BY <1>n, BarredType
  <2>2. d \in LD \cup {"-"}
    BY <1>n, BarredType
  <2>3. Bar \notin LD /\ "-" \notin LD
    BY Kinds DEF LD
  <2> HIDE DEF c, d
  <2> QED BY <2>1, <2>2, <2>3 DEF LD
<1>u. /\ Stable(u) /\ u \in Seq(Chars)
      /\ k >= 1 => Len(u) > 0
      /\ k >= 1 /\ s[k] \in Lower => u[Len(u)] \in Letters
      /\ Bare(u, LD) = Upto(q, k)
  <2>1. Stable(u)
    BY DEF Shaped
  <2>2. u \in Seq(Chars)
    BY <2>1 DEF Stable
  <2> QED BY <2>1, <2>2 DEF Shaped
<1>v. v = u \o CamelAt(s, k + 1)
  <2>1. p \in Seq(Seq(Chars)) /\ Len(p) = Len(s) /\ p[k + 1] = CamelAt(s, k + 1)
    BY <1>n, PiecesType
  <2>2. k \in 0 .. Len(p) - 1
    BY <1>n, <2>1
  <2> HIDE DEF p, s
  <2> QED BY <2>1, <2>2, UptoSteps
<1>q. Upto(q, k + 1) = Upto(q, k) \o One(d, LD) /\ Upto(q, k) \in Seq(Chars)
  <2>1. q \in Seq(Seq(Chars)) /\ Len(q) = Len(name) /\ q[k + 1] = One(d, LD)
    BY <1>n, PicksType
  <2>2. k \in 0 .. Len(q) - 1 /\ k \in 0 .. Len(q)
    BY <1>n, <2>1
  <2> HIDE DEF q, d
  <2> QED BY <2>1, <2>2, UptoSteps
<1>o. Shaped(name, k + 1) <=>
        /\ Stable(v)
        /\ k + 1 >= 1 => Len(v) > 0
        /\ k + 1 >= 1 /\ c \in Lower => v[Len(v)] \in Letters
        /\ Bare(v, LD) = Upto(q, k + 1)
  BY DEF Shaped
<1>1. ASSUME NEW x \in Plain, CamelAt(s, k + 1) = <<x>>, Low(x) = c,
             x \in Lower => Len(u) > 0 /\ u[Len(u)] \in Letters,
             x = Bar => Len(u) > 0, c \in Lower => x \in Letters
      PROVE  Shaped(name, k + 1)
  <2>0. x \in Chars /\ Len(u) \in Nat
    BY <1>u, LenProperties, Kinds DEF Plain, Letters
  <2>1. v = u \o <<x>>
    BY <1>v, <1>1
  <2>2. One(c, LD) = One(d, LD)
    <3>1. Bar \notin LD
      BY Kinds DEF LD
    <3> HIDE DEF c, d
    <3> QED BY <1>c, <3>1 DEF One, LD
  <2>3. Bare(u \o <<x>>, LD) = Bare(u, LD) \o One(c, LD)
    BY <1>u, <1>1, <2>0, BareAppend
  <2> HIDE DEF u, v, c, d, s, q
  <2>4. Stable(v) /\ Len(v) = Len(u) + 1 /\ v[Len(u) + 1] = x
    BY <1>u, <1>1, <2>1, StableAppend
  <2>5. Bare(v, LD) = Upto(q, k + 1)
    BY <1>u, <1>q, <2>1, <2>2, <2>3
  <2>6. Len(v) > 0 /\ v[Len(v)] = x
    BY <2>0, <2>4
  <2> QED BY <1>1, <1>o, <2>4, <2>5, <2>6
<1>2. CASE c \in Lower
  <2>1. CASE k + 1 = 1 \/ s[k] \in Breaks
    <3>1. CamelAt(s, k + 1) = <<Up[c]>>
      BY <1>n, <1>2, <2>1, CamelAtCases
    <3>2. Up[c] \in Upper /\ Low(Up[c]) = c
      BY <1>2, Cases
    <3>3. Up[c] \in Plain /\ Up[c] \notin Lower /\ Up[c] # Bar /\ Up[c] \in Letters
      BY <3>2, Kinds DEF Plain, Letters
    <3> HIDE DEF c, s, u
    <3> QED BY <1>1, <3>1, <3>2, <3>3
  <2>2. CASE ~(k + 1 = 1 \/ s[k] \in Breaks)
    <3>1. CamelAt(s, k + 1) = <<c>>
      BY <1>n, <1>2, <2>2, CamelAtCases
    <3>2. c \in Plain /\ Low(c) = c /\ c # Bar /\ c \in Letters
      BY <1>2, Kinds, Cases DEF Plain, Letters
    <3>3. k >= 1 /\ s[k] \in Lower
      <4>1. s[k] \in LD \cup {Bar} /\ k >= 1
        BY <1>n, <2>2, BarredType
      <4> QED BY <2>2, <4>1 DEF LD, Breaks
    <3>4. Len(u) > 0 /\ u[Len(u)] \in Letters
      BY <1>u, <3>3
    <3> HIDE DEF c, s, u
    <3> QED BY <1>1, <3>1, <3>2, <3>4
  <2> QED BY <2>1, <2>2
<1>3. CASE c = Bar
  <2>1. k + 1 # 1
    <3>1. s[1] \in Lower
      BY BarredType
    <3>2. Bar \notin Lower
      BY Kinds
    <3> QED BY <1>3, <3>1, <3>2
  <2>2. ~Is(s, (k + 1) - 1, ".")
    <3>1. s[k] \in LD \cup {Bar}
      BY <1>n, <2>1, BarredType
    <3>2. "." \notin LD \cup {Bar}
      BY Kinds DEF LD
    <3> HIDE DEF s
    <3> QED BY <1>n, <3>1, <3>2 DEF Is
  <2>3. Len(u) > 0 /\ k >= 1
    BY <1>n, <1>u, <2>1
  <2>4. Bar \in Plain /\ Low(Bar) = Bar /\ Bar \notin Lower
    BY Kinds, Cases DEF Plain
  <2>5. CASE ~LowerAt(s, (k + 1) + 1)
    <3>1. CamelAt(s, k + 1) = <<Bar>>
      BY <1>n, <1>3, <2>1, <2>2, <2>5, CamelAtCases
    <3> HIDE DEF c, s, u
    <3> QED BY <1>1, <1>3, <2>3, <2>4, <3>1
  <2>6. CASE LowerAt(s, (k + 1) + 1)
    <3>1. CamelAt(s, k + 1) = << >>
      BY <1>n, <1>3, <2>1, <2>2, <2>6, CamelAtCases
    <3>2. v = u
      <4>1. v = u \o << >>
        BY <1>v, <3>1
      <4> HIDE DEF u, v
      <4> QED BY <1>u, <4>1, ConcatEmptySeq
    <3>3. Upto(q, k + 1) = Upto(q, k)
      <4>1. One(d, LD) = << >>
        BY <1>c, <1>3 DEF One
      <4> HIDE DEF q, d
      <4> QED BY <1>q, <4>1, ConcatEmptySeq
    <3> HIDE DEF c, s, u, v, q
    <3> QED BY <1>3, <1>o, <1>u, <2>3, <2>4, <3>2, <3>3
  <2> QED BY <2>5, <2>6
<1>4. CASE c \in Digits
  <2>1. /\ c \in Plain /\ c \notin Lower /\ c # Bar /\ c # "." /\ Low(c) = c
    BY <1>4, Kinds, Cases DEF Plain
  <2>2. CamelAt(s, k + 1) = <<c>>
    BY <1>n, <2>1, CamelAtCases
  <2> HIDE DEF c, s, u
  <2> QED BY <1>1, <2>1, <2>2
<1> QED BY <1>c, <1>2, <1>3, <1>4

\* The service's name is stable, and bare it is the package's.
LEMMA ServiceShaped ==
  ASSUME NEW name \in Seq(Chars), IsAppName(name)
  PROVE  Stable(serviceName(name)) /\ Bare(serviceName(name), LD) = Package(name)
<1> DEFINE n == Len(name)
           T == {k \in Nat : Shaped(name, k)}
<1>n. n \in Nat \ {0}
  BY BarredType
<1>p. /\ Pieces(Barred(name)) \in Seq(Seq(Chars)) /\ Len(Pieces(Barred(name))) = n
      /\ Picks(name, LD) \in Seq(Seq(Chars)) /\ Len(Picks(name, LD)) = n
  BY BarredType, PiecesType, PicksType
<1>1. 0 \in T
  <2>1. Upto(Pieces(Barred(name)), 0) = << >> /\ Upto(Picks(name, LD), 0) = << >>
    BY <1>p, UptoSteps
  <2>2. Stable(<< >>)
    BY EmptySeq DEF Stable
  <2>3. Bare(<< >>, LD) = << >>
    BY BareEmpty
  <2>4. Shaped(name, 0)
    BY <2>1, <2>2, <2>3 DEF Shaped
  <2> QED BY <2>4
<1>2. ASSUME NEW k \in 0 .. n - 1, k \in T PROVE k + 1 \in T
  <2>1. Shaped(name, k + 1) /\ k + 1 \in Nat
    BY <1>2, ShapedStep
  <2> QED BY <2>1
<1> HIDE DEF T
<1>3. 0 .. n \subseteq T
  BY <1>n, <1>1, <1>2, UptoInduction
<1>4. Shaped(name, n)
  <2>1. n \in T
    BY <1>n, <1>3
  <2> QED BY <2>1 DEF T
<1>5. /\ Upto(Pieces(Barred(name)), n) = serviceName(name)
      /\ Upto(Picks(name, LD), n) = Package(name)
  <2>1. /\ Upto(Pieces(Barred(name)), n) = FlattenSeq(Pieces(Barred(name)))
        /\ Upto(Picks(name, LD), n) = FlattenSeq(Picks(name, LD))
    BY <1>p, UptoSteps
  <2>2. serviceName(name) = FlattenSeq(Pieces(Barred(name)))
    BY BarredType
  <2>3. Only(name, LD) = FlattenSeq(Picks(name, LD))
    BY PicksType
  <2> QED BY <2>1, <2>2, <2>3 DEF Package, LD
<1> QED BY <1>4, <1>5 DEF Shaped
\* The suffix, and a stable name with it.
LEMMA SuffixAdds ==
  ASSUME NEW t, Stable(t)
  PROVE  /\ Stable(t \o Suffix)
         /\ Bare(t \o Suffix, LD) = Bare(t, LD) \o ToLower(Suffix)
<1> DEFINE c == CHOOSE c \in Lower : TRUE
           U == Up[c]
           a == <<U>>
           b == <<c>>
           v == t \o a
           w == v \o b
<1>c. c \in Lower
  <2>1. \E l \in Lower : Up[l] = "X"
    BY Kinds DEF Upper
  <2> QED BY <2>1
<1>s. Suffix = <<U, c>>
  BY DEF Suffix
<1> HIDE DEF c
<1>U. U \in Upper /\ Low(U) = c /\ Low(c) = c
  BY <1>c, Cases
<1> HIDE DEF U
<1>1. /\ U \in Plain /\ U \notin Lower /\ U # Bar /\ U \in Letters /\ U \in Chars
      /\ c \in Plain /\ c # Bar /\ c \in Chars /\ c \in LD
  BY <1>c, <1>U, Kinds DEF Plain, Letters, LD
<1>2. t \in Seq(Chars) /\ Len(t) \in Nat /\ a \in Seq(Chars) /\ b \in Seq(Chars)
  BY <1>1, SingleSeq, LenProperties DEF Stable
<1>3. Stable(v) /\ Len(v) = Len(t) + 1 /\ v[Len(t) + 1] = U /\ v \in Seq(Chars)
  BY <1>1, StableAppend DEF Stable
<1>4. Bare(v, LD) = Bare(t, LD) \o <<c>> /\ Bare(t, LD) \in Seq(Chars)
  <2>1. Bare(v, LD) = Bare(t, LD) \o One(Low(U), LD)
    BY <1>1, <1>2, BareAppend
  <2> QED BY <1>1, <1>2, <1>U, <2>1, BareAppend DEF One
<1>w. w = t \o Suffix
  <2>1. a \o b = <<U, c>>
    BY <1>1, PairSeq
  <2> HIDE DEF a, b
  <2>2. (t \o a) \o b = t \o (a \o b)
    BY <1>2, CharsAssoc, Zenon
  <2> QED BY <1>s, <2>1, <2>2
<1>5. Stable(w)
  <2>1. Len(v) > 0 /\ v[Len(v)] \in Letters
    BY <1>1, <1>2, <1>3
  <2> HIDE DEF v
  <2> QED BY <1>1, <1>3, <2>1, StableAppend
<1>6. Bare(w, LD) = (Bare(t, LD) \o b) \o b
  <2> HIDE DEF v
  <2>1. Bare(w, LD) = Bare(v, LD) \o One(Low(c), LD)
    BY <1>1, <1>3, BareAppend
  <2> QED BY <1>1, <1>4, <1>U, <2>1 DEF One
<1>7. ToLower(Suffix) = b \o b
  <2>1. DOMAIN <<U, c>> = 1 .. 2 /\ <<U, c>>[1] = U /\ <<U, c>>[2] = c
    OBVIOUS
  <2>2. ToLower(Suffix) = [i \in 1 .. 2 |-> c]
    BY <1>s, <1>U, <2>1 DEF ToLower
  <2>3. [i \in 1 .. 2 |-> c] = <<c, c>>
    OBVIOUS
  <2> QED BY <1>1, <2>2, <2>3, PairSeq
<1>8. (Bare(t, LD) \o b) \o b = Bare(t, LD) \o (b \o b)
  <2> HIDE DEF b
  <2> QED BY <1>2, <1>4, CharsAssoc, Zenon
<1> QED BY <1>w, <1>5, <1>6, <1>7, <1>8

\* The names of one project agree: the service has one name in the contract and in
\* the Go code, also with its suffix; the package that handlers derives from the
\* contract is the one new has made; and the name in the manifest yields itself.
THEOREM NamesAgreeHolds == Spec => []NamesAgree
<1>1. ASSUME word \in Seq(Chars) PROVE NamesAgree
  <2> DEFINE name == AppName(word)
  <2> SUFFICES ASSUME IsAppName(name)
               PROVE  /\ GoCamelCase(serviceName(name)) = serviceName(name)
                      /\ GoCamelCase(ProtoService(name)) = ProtoService(name)
                      /\ ServerPkg(name) = Package(name) \o ToLower(Suffix)
                      /\ AppName(name) = name
    BY DEF NamesAgree
  <2>0. name \in Seq(Chars)
    BY <1>1, LowType DEF AppName
  <2> HIDE DEF name
  <2> DEFINE t == serviceName(name)
  <2>1. Stable(t) /\ Bare(t, LD) = Package(name)
    BY <2>0, ServiceShaped
  <2>2. GoCamelCase(t) = t
    BY <2>1, StableStays
  <2>3. Stable(t \o Suffix) /\ Bare(t \o Suffix, LD) = Package(name) \o ToLower(Suffix)
    <3> HIDE DEF t
    <3> QED BY <2>1, SuffixAdds
  <2>4. GoCamelCase(t \o Suffix) = t \o Suffix
    BY <2>3, StableStays
  <2>5. ProtoService(name) = t \o Suffix
    BY DEF ProtoService
  <2>6. ServerPkg(name) = Bare(t \o Suffix, LD)
    BY <2>5 DEF ServerPkg, ServerPackage, Bare, LD
  <2>7. AppName(name) = name
    <3>1. \A i \in 1 .. Len(name) : name[i] \notin Upper
      <4>1. \A i \in 1 .. Len(name) : name[i] \in LD \cup {"-"}
        BY <2>0, BarredType
      <4> QED BY <4>1, Kinds DEF LD
    <3>2. /\ ToLower(name) \in Seq(Chars) /\ Len(ToLower(name)) = Len(name)
          /\ \A i \in 1 .. Len(name) : ToLower(name)[i] = Low(name[i])
      BY <2>0, LowType
    <3>3. \A i \in 1 .. Len(name) : ToLower(name)[i] = name[i]
      BY <3>1, <3>2, Cases
    <3> QED BY <2>0, <3>2, <3>3, SeqEqual DEF AppName
  <2> QED BY <2>2, <2>3, <2>4, <2>5, <2>6, <2>7
<1> QED BY <1>1, WordTyped, PTL
-----------------------------------------------------------------------------
(* The files of the stubs.                                                 *)

Snakes(m) ==
  [i \in DOMAIN m |->
    IF m[i] \notin Upper THEN <<m[i]>>
    ELSE IF i > 1 /\ (m[i - 1] \notin Upper \/ LowerAt(m, i + 1)) THEN <<Bar, Low(m[i])>>
    ELSE <<Low(m[i])>>]

\* The pieces of a file name: the character in lower case, a capital's perhaps after an underscore.
LEMMA SnakesType ==
  ASSUME NEW m \in Seq(Chars)
  PROVE  /\ Snakes(m) \in Seq(Seq(Chars)) /\ Len(Snakes(m)) = Len(m)
         /\ snake(m) = FlattenSeq(Snakes(m)) /\ snake(m) \in Seq(Chars)
         /\ \A i \in 1 .. Len(m) :
              \/ Snakes(m)[i] = <<Low(m[i])>>
              \/ i > 1 /\ m[i] \in Upper /\ Snakes(m)[i] = <<Bar, Low(m[i])>>
<1>n. Len(m) \in Nat /\ DOMAIN m = 1 .. Len(m)
  BY LenProperties
<1>1. ASSUME NEW i \in 1 .. Len(m)
      PROVE  \/ Snakes(m)[i] = <<Low(m[i])>>
             \/ i > 1 /\ m[i] \in Upper /\ Snakes(m)[i] = <<Bar, Low(m[i])>>
  <2>1. m[i] \notin Upper => Low(m[i]) = m[i]
    BY Cases
  <2> QED BY <1>n, <2>1 DEF Snakes
<1>2. ASSUME NEW i \in 1 .. Len(m) PROVE Snakes(m)[i] \in Seq(Chars)
  <2>1. Low(m[i]) \in Chars /\ Bar \in Chars
    BY ElementOfSeq, CharsStay, Kinds
  <2>2. <<Low(m[i])>> \in Seq(Chars) /\ <<Bar, Low(m[i])>> \in Seq(Chars)
    BY <2>1, SingleSeq, PairSeq
  <2> QED BY <1>1, <2>2
<1>3. Snakes(m) \in [1 .. Len(m) -> Seq(Chars)]
  <2>1. Snakes(m) = [i \in 1 .. Len(m) |-> Snakes(m)[i]]
    BY <1>n DEF Snakes
  <2> QED BY <1>2, <2>1
<1>4. Snakes(m) \in Seq(Seq(Chars)) /\ Len(Snakes(m)) = Len(m)
  BY <1>n, <1>3, FcnIsSeq
<1>5. snake(m) = FlattenSeq(Snakes(m))
  BY DEF snake, Snakes, Bar
<1> QED BY <1>1, <1>4, <1>5, FlattenType

\* Without its underscores and in lower case, the file's name is the method's.
LEMMA SnakeBare ==
  ASSUME NEW m \in Seq(Chars), NEW S, Bar \notin S
  PROVE  Only(snake(m), S) = Only(ToLower(m), S)
<1> DEFINE n == Len(m)
           p == Snakes(m)
           l == ToLower(m)
           q == Picks(l, S)
           T == {k \in Nat : Only(Upto(p, k), S) = Upto(q, k)}
<1>n. n \in Nat
  BY LenProperties
<1>p. /\ p \in Seq(Seq(Chars)) /\ Len(p) = n
      /\ \A i \in 1 .. n : p[i] = <<Low(m[i])>> \/ p[i] = <<Bar, Low(m[i])>>
      /\ \A i \in 1 .. n : Low(m[i]) \in Chars
  BY SnakesType, ElementOfSeq, CharsStay
<1>l. l \in Seq(Chars) /\ Len(l) = n /\ \A i \in 1 .. n : l[i] = Low(m[i])
  BY LowType
<1> HIDE DEF l
<1>q. /\ q \in Seq(Seq(Chars)) /\ Len(q) = n
      /\ \A i \in 1 .. n : q[i] = One(l[i], S)
      /\ Only(l, S) = FlattenSeq(q)
  BY <1>l, PicksType
<1> HIDE DEF n, p, q
<1>1. 0 \in T
  <2>1. Upto(p, 0) = << >> /\ Upto(q, 0) = << >>
    BY <1>p, <1>q, UptoSteps
  <2>2. Only(<< >>, S) = << >>
    BY BareEmpty
  <2> QED BY <2>1, <2>2
<1>2. ASSUME NEW k \in 0 .. n - 1, k \in T PROVE k + 1 \in T
  <2> DEFINE u == Upto(p, k)
             x == Low(m[k + 1])
  <2>1. k + 1 \in 1 .. n /\ k \in 0 .. Len(p) - 1 /\ k \in 0 .. Len(p)
        /\ k \in 0 .. Len(q) - 1 /\ k + 1 \in Nat
    BY <1>n, <1>p, <1>q
  <2>2. /\ u \in Seq(Chars) /\ Upto(p, k + 1) = u \o p[k + 1]
        /\ Upto(q, k + 1) = Upto(q, k) \o One(x, S)
        /\ x \in Chars
    BY <1>p, <1>q, <1>l, <2>1, UptoSteps
  <2>3. Only(u, S) = Upto(q, k) /\ Only(u, S) \in Seq(Chars)
    BY <1>2, <2>2, PicksType
  <2>4. p[k + 1] = <<x>> \/ p[k + 1] = <<Bar, x>>
    BY <1>p, <2>1
  <2> HIDE DEF u, x
  <2>5. ASSUME p[k + 1] = <<x>> PROVE Only(Upto(p, k + 1), S) = Upto(q, k + 1)
    <3>1. Only(u \o <<x>>, S) = Only(u, S) \o One(x, S)
      BY <2>2, OnlyAppend
    <3> QED BY <2>2, <2>3, <2>5, <3>1
  <2>6. ASSUME p[k + 1] = <<Bar, x>> PROVE Only(Upto(p, k + 1), S) = Upto(q, k + 1)
    <3> DEFINE a == <<Bar>>
               b == <<x>>
               v == u \o a
    <3>1. /\ Bar \in Chars /\ a \in Seq(Chars) /\ b \in Seq(Chars) /\ v \in Seq(Chars)
          /\ a \o b = <<Bar, x>>
      BY <2>2, Kinds, SingleSeq, PairSeq, CharsSnoc
    <3>2. Only(v, S) = Only(u, S)
      <4>1. Only(v, S) = Only(u, S) \o One(Bar, S)
        BY <2>2, <3>1, OnlyAppend
      <4>2. Only(v, S) = Only(u, S) \o << >>
        BY <4>1 DEF One
      <4> HIDE DEF v
      <4> QED BY <2>3, <4>2, ConcatEmptySeq
    <3>3. Only(v \o <<x>>, S) = Only(v, S) \o One(x, S)
      <4> HIDE DEF v
      <4> QED BY <2>2, <3>1, OnlyAppend
    <3>4. Upto(p, k + 1) = v \o b
      <4>1. Upto(p, k + 1) = u \o (a \o b)
        BY <2>2, <2>6, <3>1
      <4> HIDE DEF a, b
      <4>2. (u \o a) \o b = u \o (a \o b)
        BY <2>2, <3>1, CharsAssoc, Zenon
      <4> QED BY <4>1, <4>2
    <3> QED BY <2>2, <2>3, <3>2, <3>3, <3>4
  <2>7. Only(Upto(p, k + 1), S) = Upto(q, k + 1)
    BY <2>4, <2>5, <2>6
  <2> QED BY <2>1, <2>7
<1> HIDE DEF T
<1>3. 0 .. n \subseteq T
  BY <1>n, <1>1, <1>2, UptoInduction
<1>4. Only(Upto(p, n), S) = Upto(q, n)
  <2>1. n \in T
    BY <1>n, <1>3
  <2> QED BY <2>1 DEF T
<1>5. Upto(p, n) = snake(m) /\ Upto(q, n) = Only(l, S)
  <2>1. Upto(p, n) = FlattenSeq(p) /\ Upto(q, n) = FlattenSeq(q)
    BY <1>p, <1>q, UptoSteps
  <2> QED BY <1>q, <2>1, SnakesType DEF p
<1> QED BY <1>4, <1>5 DEF l

\* A method's name begins with a capital and has letters, digits and underscores.
LEMMA MethodShaped ==
  ASSUME NEW s \in Seq(Chars), IsIdent(s)
  PROVE  /\ GoCamelCase(s) \in Seq(Chars) /\ Len(GoCamelCase(s)) > 0
         /\ GoCamelCase(s)[1] \in Upper
<1> DEFINE p == Pieces(s)
<1>n. /\ Len(s) \in Nat /\ DOMAIN s = 1 .. Len(s)
      /\ p \in Seq(Seq(Chars)) /\ Len(p) = Len(s) /\ p[1] = CamelAt(s, 1)
      /\ 1 \in 1 .. Len(s)
  <2>1. s # << >>
    BY DEF IsIdent
  <2>2. Len(s) \in Nat /\ DOMAIN s = 1 .. Len(s) /\ Len(s) # 0
    BY <2>1, EmptySeq, LenProperties
  <2>3. 1 \in 1 .. Len(s)
    BY <2>2
  <2> QED BY <2>2, <2>3, PiecesType
<1>1. \E c \in Upper : CamelAt(s, 1) = <<c>>
  <2>1. s[1] \in Lower \/ s[1] \in Upper \/ s[1] = Bar
    BY DEF IsIdent, Letters, Bar
  <2>2. CASE s[1] \in Lower
    <3>1. CamelAt(s, 1) = <<Up[s[1]]>>
      BY <1>n, <2>2, CamelAtCases
    <3> QED BY <2>2, <3>1, Cases
  <2>3. CASE s[1] = Bar
    <3>1. CamelAt(s, 1) = <<"X">>
      BY <1>n, <2>3, CamelAtCases
    <3> QED BY <3>1, Kinds
  <2>4. CASE s[1] \in Upper
    <3>1. s[1] \notin Lower \cup {Bar, "."}
      BY <2>4, Kinds
    <3>2. CamelAt(s, 1) = <<s[1]>>
      BY <1>n, <3>1, CamelAtCases
    <3> QED BY <2>4, <3>2
  <2> QED BY <2>1, <2>2, <2>3, <2>4
<1>2. PICK c \in Upper : CamelAt(s, 1) = <<c>>
  BY <1>1
<1>3. c \in Chars
  BY <1>2, Kinds
<1>4. Upto(p, 1) = <<c>>
  <2>1. 0 \in 0 .. Len(p) - 1 /\ 0 + 1 = 1
    BY <1>n
  <2>2. Upto(p, 0 + 1) = Upto(p, 0) \o p[0 + 1] /\ Upto(p, 0) = << >>
    BY <1>n, <2>1, UptoSteps
  <2>3. <<c>> \in Seq(Chars)
    BY <1>3, SingleSeq
  <2>4. << >> \o <<c>> = <<c>>
    BY <2>3, ConcatEmptySeq
  <2> QED BY <1>n, <1>2, <2>1, <2>2, <2>4
<1> HIDE DEF p
<1>5. 1 \in 1 .. Len(FlattenSeq(p)) /\ FlattenSeq(p)[1] = c
  <2>1. 1 \in 0 .. Len(p) /\ 1 \in 1 .. Len(Upto(p, 1)) /\ Upto(p, 1)[1] = c
    BY <1>n, <1>3, <1>4, SingleSeq
  <2> QED BY <1>n, <2>1, UptoIsPrefix
<1>6. FlattenSeq(p) = GoCamelCase(s) /\ GoCamelCase(s) \in Seq(Chars)
  BY CamelFollows DEF p
<1>7. Len(GoCamelCase(s)) > 0
  <2>1. Len(GoCamelCase(s)) \in Nat
    BY <1>6, LenProperties
  <2> QED BY <1>5, <1>6, <2>1
<1> QED BY <1>5, <1>6, <1>7
\* Where the piece of the method's k-th character ends in the file's name.
EndOf(m, k) == Len(Upto(Snakes(m), k))

\* A piece ends in its character, which an underscore may precede if it was a capital.
LEMMA PieceEnds ==
  ASSUME NEW m \in Seq(Chars), NEW k \in 1 .. Len(m)
  PROVE  /\ EndOf(m, k) \in 1 .. Len(snake(m)) /\ snake(m)[EndOf(m, k)] = Low(m[k])
         /\ EndOf(m, k - 1) \in Nat
         /\ \/ EndOf(m, k - 1) = EndOf(m, k) - 1
            \/ /\ EndOf(m, k - 1) = EndOf(m, k) - 2
               /\ EndOf(m, k) - 1 \in 1 .. Len(snake(m))
               /\ snake(m)[EndOf(m, k) - 1] = Bar
               /\ m[k] \in Upper
<1> DEFINE p == Snakes(m)
           f == snake(m)
           u == Upto(p, k - 1)
           v == Upto(p, k)
           x == Low(m[k])
           c == p[k]
<1>n. Len(m) \in Nat /\ k \in Nat /\ (k - 1) + 1 = k /\ k - 1 \in 0 .. Len(m) - 1
      /\ k \in 0 .. Len(m) /\ k - 1 \in 0 .. Len(m)
  BY LenProperties
<1>p. /\ p \in Seq(Seq(Chars)) /\ Len(p) = Len(m) /\ f = FlattenSeq(p)
      /\ c = <<x>> \/ (m[k] \in Upper /\ c = <<Bar, x>>)
      /\ x \in Chars
  BY SnakesType, ElementOfSeq, CharsStay
<1> HIDE DEF p, f, x
<1>u. u \in Seq(Chars) /\ Len(u) \in Nat /\ v = u \o c
  <2>1. u \in Seq(Chars)
    BY <1>n, <1>p, UptoSteps
  <2>2. Upto(p, (k - 1) + 1) = Upto(p, k - 1) \o p[(k - 1) + 1]
    BY <1>n, <1>p, UptoSteps
  <2> QED BY <1>n, <2>1, <2>2, LenProperties
<1>f. \A i \in 1 .. Len(v) : i \in 1 .. Len(f) /\ f[i] = v[i]
  BY <1>n, <1>p, UptoIsPrefix
<1> HIDE DEF u, v, c
<1>1. ASSUME c = <<x>>
      PROVE  /\ Len(v) \in 1 .. Len(f) /\ f[Len(v)] = x
             /\ Len(u) = Len(v) - 1
  <2>1. Len(v) = Len(u) + 1 /\ v[Len(u) + 1] = x
    BY <1>p, <1>u, <1>1, CharsSnoc
  <2>2. Len(v) \in 1 .. Len(v) /\ Len(u) = Len(v) - 1
    BY <1>u, <2>1
  <2> QED BY <1>f, <2>1, <2>2
<1>2. ASSUME c = <<Bar, x>>
      PROVE  /\ Len(v) \in 1 .. Len(f) /\ f[Len(v)] = x
             /\ Len(u) = Len(v) - 2
             /\ Len(v) - 1 \in 1 .. Len(f) /\ f[Len(v) - 1] = Bar
  <2> DEFINE a == <<Bar>>
             b == <<x>>
             w == u \o a
  <2>1. /\ a \in Seq(Chars) /\ b \in Seq(Chars) /\ a \o b = c
        /\ w \in Seq(Chars) /\ Len(w) = Len(u) + 1 /\ w[Len(u) + 1] = Bar
    BY <1>p, <1>u, <1>2, Kinds, SingleSeq, PairSeq, CharsSnoc
  <2>2. v = w \o b
    <3> HIDE DEF a, b
    <3>1. (u \o a) \o b = u \o (a \o b)
      BY <1>u, <2>1, CharsAssoc, Zenon
    <3> QED BY <1>u, <2>1, <3>1
  <2> HIDE DEF w
  <2>3. /\ Len(v) = Len(w) + 1 /\ v[Len(w) + 1] = x
        /\ \A i \in 1 .. Len(w) : v[i] = w[i]
    BY <1>p, <2>1, <2>2, CharsSnoc
  <2>4. /\ Len(v) = Len(u) + 2 /\ Len(v) - 1 = Len(u) + 1
        /\ Len(u) + 1 \in 1 .. Len(w)
        /\ Len(v) \in 1 .. Len(v) /\ Len(v) - 1 \in 1 .. Len(v) /\ Len(u) = Len(v) - 2
    BY <1>u, <2>1, <2>3
  <2>5. v[Len(v)] = x /\ v[Len(v) - 1] = Bar
    BY <2>1, <2>3, <2>4
  <2> QED BY <1>f, <2>4, <2>5
<1>3. EndOf(m, k) = Len(v) /\ EndOf(m, k - 1) = Len(u)
  BY DEF EndOf, u, v, p
<1>4. f = snake(m) /\ x = Low(m[k])
  BY DEF f, x
<1> QED BY <1>p, <1>u, <1>1, <1>2, <1>3, <1>4

\* When a file's name ends in an underscore and a word, the method's name ends in the
\* word, which is one of its own: it begins with a capital or follows an underscore.
LEMMA WordApart ==
  ASSUME NEW m \in Seq(Chars), NEW r \in Seq(Lower), Len(snake(m)) > Len(r),
         SubSeq(snake(m), Len(snake(m)) - Len(r), Len(snake(m))) = <<Bar>> \o r
  PROVE  LET k == Len(m) - Len(r) + 1 IN
         /\ SubSeq(ToLower(m), k, Len(m)) = r
         /\ m[k] \in Upper \/ m[k - 1] = Bar
<1> DEFINE f == snake(m)
           N == Len(f)
           n == Len(m)
           L == Len(r)
           E(k) == EndOf(m, k)
           T == {j \in Nat : j <= n /\ E(n - j) = N - j}
<1>n. N \in Nat /\ n \in Nat /\ L \in Nat /\ N > L
  <2>1. f \in Seq(Chars) /\ N > L
    BY SnakesType
  <2> HIDE DEF f
  <2> QED BY <2>1, LenProperties
<1>r. /\ f[N - L] = Bar
      /\ \A i \in 1 .. L : f[(N - L) + i] = r[i] /\ r[i] \in Lower
  <2> DEFINE a == <<Bar>>
             t == a \o r
             g == SubSeq(f, N - L, N)
  <2>0. f \in Seq(Chars)
    BY SnakesType
  <2>1. a \in Seq(Chars) /\ Len(a) = 1 /\ a[1] = Bar /\ r \in Seq(Chars)
    <3>1. Seq(Lower) \subseteq Seq(Chars)
      <4> SUFFICES ASSUME NEW y \in Seq(Lower) PROVE y \in Seq(Chars)
        OBVIOUS
      <4>1. y \in [1 .. Len(y) -> Chars] /\ Len(y) \in Nat
        <5>1. y \in [1 .. Len(y) -> Lower] /\ Len(y) \in Nat
          BY LenProperties
        <5>2. \A i \in 1 .. Len(y) : y[i] \in Chars
          BY <5>1, Kinds
        <5> QED BY <5>1, <5>2
      <4> QED BY <4>1, FcnIsSeq
    <3> QED BY <3>1, Kinds, SingleSeq
  <2>2. g = t
    OBVIOUS
  <2>3. \A i \in 1 .. L + 1 : g[i] = f[(N - L) + i - 1]
    <3> HIDE DEF f
    <3>1. /\ N - L \in 1 .. N /\ N \in 1 .. N
          /\ \A i \in N - L .. N : f[i] \in Chars
      BY <1>n, <2>0, ElementOfSeq
    <3>2. \A i \in 1 .. N - (N - L) + 1 : SubSeq(f, N - L, N)[i] = f[(N - L) + i - 1]
      BY <2>0, <1>n, <3>1, SubSeqProperties
    <3>3. N - (N - L) + 1 = L + 1
      BY <1>n
    <3> QED BY <3>2, <3>3
  <2> HIDE DEF a
  <2>4. /\ \A x \in 1 .. Len(a) : (a \o r)[x] = a[x]
        /\ \A x \in 1 .. Len(r) : (a \o r)[Len(a) + x] = r[x]
    BY <2>1, CharsConcat, Zenon
  <2> HIDE DEF f, N, L, g, t
  <2>5. f[N - L] = Bar
    <3>1. 1 \in 1 .. L + 1 /\ (N - L) + 1 - 1 = N - L /\ 1 \in 1 .. Len(a)
      BY <1>n, <2>1
    <3>2. t[1] = Bar
      BY <2>1, <2>4, <3>1 DEF t
    <3> QED BY <2>2, <2>3, <3>1, <3>2
  <2>6. ASSUME NEW i \in 1 .. L PROVE f[(N - L) + i] = r[i]
    <3>1. 1 + i \in 1 .. L + 1 /\ (N - L) + (1 + i) - 1 = (N - L) + i
      BY <1>n
    <3>2. t[1 + i] = r[i]
      BY <2>1, <2>4 DEF t, L
    <3> QED BY <2>2, <2>3, <3>1, <3>2
  <2>7. \A i \in 1 .. L : r[i] \in Lower
    BY ElementOfSeq DEF L
  <2> QED BY <2>5, <2>6, <2>7
<1>e. \A k \in 1 .. n :
        /\ E(k) \in 1 .. N /\ f[E(k)] = Low(m[k]) /\ E(k - 1) \in Nat
        /\ \/ E(k - 1) = E(k) - 1
           \/ E(k - 1) = E(k) - 2 /\ f[E(k) - 1] = Bar /\ m[k] \in Upper
  BY PieceEnds
<1>z. E(0) = 0 /\ E(n) = N
  <2>1. /\ Snakes(m) \in Seq(Seq(Chars)) /\ Len(Snakes(m)) = n
        /\ f = FlattenSeq(Snakes(m))
    BY SnakesType
  <2>2. Upto(Snakes(m), 0) = << >> /\ Upto(Snakes(m), n) = f
    BY <2>1, UptoSteps
  <2> QED BY <2>2, EmptySeq DEF EndOf
<1>k. Bar \notin Lower
  BY Kinds
<1> HIDE DEF f, N, n, L, E
<1>1. 0 \in T
  BY <1>n, <1>z
\* Each letter of the word is a piece of its own, but for the first one.
<1>2. ASSUME NEW j \in 0 .. L - 1, j \in T
      PROVE  /\ n - j \in 1 .. n /\ f[N - j] = Low(m[n - j])
             /\ \/ j + 1 \in T
                \/ j = L - 1 /\ m[n - j] \in Upper
  <2>0. j \in Nat /\ j < L /\ j <= n /\ E(n - j) = N - j
    BY <1>n, <1>2
  <2>1. n - j \in 1 .. n
    <3>1. n - j # 0
      <4> SUFFICES ASSUME n - j = 0 PROVE FALSE
        OBVIOUS
      <4> QED BY <1>n, <1>z, <2>0
    <3> QED BY <1>n, <2>0, <3>1
  <2>2. f[N - j] = Low(m[n - j])
    BY <1>e, <2>0, <2>1
  <2>3. CASE E((n - j) - 1) = E(n - j) - 1
    <3>1. (n - j) - 1 = n - (j + 1) /\ (N - j) - 1 = N - (j + 1) /\ j + 1 \in Nat /\ j + 1 <= n
      BY <1>n, <2>0, <2>1
    <3>2. E(n - (j + 1)) = N - (j + 1)
      BY <2>0, <2>3, <3>1
    <3> QED BY <2>1, <2>2, <3>1, <3>2
  <2>4. CASE E((n - j) - 1) = E(n - j) - 2 /\ f[E(n - j) - 1] = Bar /\ m[n - j] \in Upper
    <3>1. f[(N - j) - 1] = Bar
      BY <2>0, <2>4
    <3>2. j = L - 1
      <4> SUFFICES ASSUME j # L - 1 PROVE FALSE
        OBVIOUS
      <4>1. (L - j) - 1 \in 1 .. L /\ (N - L) + ((L - j) - 1) = (N - j) - 1
        BY <1>n, <2>0
      <4>2. f[(N - j) - 1] \in Lower
        BY <1>r, <4>1
      <4> QED BY <1>k, <3>1, <4>2
    <3> QED BY <2>1, <2>2, <2>4, <3>2
  <2> QED BY <1>e, <2>1, <2>2, <2>3, <2>4
\* So there are the letters of the word at the end of the method's name.
<1>3. ASSUME NEW j \in 0 .. L - 1 PROVE j \in T
  <2> DEFINE U == {i \in Nat : i < L => i \in T}
  <2>1. 0 \in U
    BY <1>1
  <2>2. ASSUME NEW i \in Nat, i \in U PROVE i + 1 \in U
    <3> SUFFICES ASSUME i + 1 < L PROVE i + 1 \in T
      OBVIOUS
    <3>1. i \in 0 .. L - 1 /\ i \in T /\ i # L - 1
      BY <1>n, <2>2
    <3> QED BY <1>2, <3>1
  <2> HIDE DEF U
  <2>3. Nat \subseteq U
    BY <2>1, <2>2, SetInduction
  <2>4. j \in Nat /\ j < L
    BY <1>n
  <2>5. j \in U
    BY <2>3, <2>4
  <2> QED BY <2>4, <2>5 DEF U
<1> DEFINE k == n - L + 1
<1>4. L <= n
  <2>1. CASE L = 0
    BY <1>n, <2>1
  <2>2. CASE L # 0
    <3>1. L - 1 \in 0 .. L - 1
      BY <1>n, <2>2
    <3>2. n - (L - 1) \in 1 .. n
      BY <1>2, <1>3, <3>1
    <3> QED BY <1>n, <3>2
  <2> QED BY <2>1, <2>2
<1>5. \A i \in 1 .. L : k + i - 1 \in 1 .. n /\ Low(m[k + i - 1]) = r[i]
  <2> SUFFICES ASSUME NEW i \in 1 .. L
               PROVE  k + i - 1 \in 1 .. n /\ Low(m[k + i - 1]) = r[i]
    OBVIOUS
  <2>1. L - i \in 0 .. L - 1 /\ n - (L - i) = k + i - 1 /\ N - (L - i) = (N - L) + i
    BY <1>n
  <2>2. n - (L - i) \in 1 .. n /\ f[N - (L - i)] = Low(m[n - (L - i)])
    BY <1>2, <1>3, <2>1
  <2> QED BY <1>r, <2>1, <2>2
<1>6. SubSeq(ToLower(m), k, n) = r
  <2> DEFINE l == ToLower(m)
             g == SubSeq(l, k, n)
  <2>1. l \in Seq(Chars) /\ Len(l) = n /\ \A i \in 1 .. n : l[i] = Low(m[i])
    BY LowType DEF n
  <2>2. CASE L = 0
    <3>1. r = << >> /\ k = n + 1
      BY <1>n, <2>2, EmptySeq DEF L
    <3>2. SubSeq(l, n + 1, n) = << >>
      <4> HIDE DEF l
      <4> QED BY <1>n, <2>1, SubSeqEmpty
    <3> QED BY <3>1, <3>2
  <2>3. CASE L # 0
    <3> HIDE DEF l
    <3>0. k \in 1 .. n /\ n \in 1 .. n /\ n - k + 1 = L
      BY <1>n, <1>4, <2>3
    <3>1. \A i \in k .. n : l[i] \in Lower
      <4> SUFFICES ASSUME NEW i \in k .. n PROVE l[i] \in Lower
        OBVIOUS
      <4>1. (i - k) + 1 \in 1 .. L /\ k + ((i - k) + 1) - 1 = i /\ i \in 1 .. n
        BY <1>n, <3>0
      <4>2. Low(m[i]) = r[(i - k) + 1]
        BY <1>5, <4>1
      <4> QED BY <1>r, <2>1, <4>1, <4>2
    <3>2. /\ g \in Seq(Lower) /\ Len(g) = L
          /\ \A i \in 1 .. L : g[i] = l[k + i - 1]
      <4>1. /\ SubSeq(l, k, n) \in Seq(Lower)
            /\ Len(SubSeq(l, k, n)) = n - k + 1
            /\ \A i \in 1 .. n - k + 1 : SubSeq(l, k, n)[i] = l[k + i - 1]
        BY <2>1, <1>n, <3>0, <3>1, SubSeqProperties
      <4> QED BY <3>0, <4>1
    <3>3. \A i \in 1 .. L : g[i] = r[i]
      BY <1>5, <2>1, <3>2
    <3> HIDE DEF g
    <3>4. g = r
      BY <3>2, <3>3, SeqEqual DEF L
    <3> QED BY <3>4 DEF g, l
  <2> QED BY <2>2, <2>3
\* Before the word there is a capital's underscore, or one of the method's name.
<1>7. m[k] \in Upper \/ L \in T
  <2>1. CASE L = 0
    BY <1>1, <2>1
  <2>2. CASE L # 0
    <3>1. L - 1 \in 0 .. L - 1 /\ (L - 1) + 1 = L /\ n - (L - 1) = k
      BY <1>n, <2>2
    <3> QED BY <1>2, <1>3, <3>1
  <2> QED BY <2>1, <2>2
<1>8. ASSUME L \in T PROVE m[k - 1] = Bar
  <2>1. L <= n /\ E(n - L) = N - L /\ k - 1 = n - L
    BY <1>n, <1>8
  <2>2. n - L # 0
    BY <1>n, <1>z, <2>1
  <2>3. n - L \in 1 .. n
    BY <1>n, <2>1, <2>2
  <2>4. Low(m[n - L]) = Bar
    BY <1>e, <1>r, <2>1, <2>3
  <2>5. m[n - L] \notin Upper
    BY <1>k, <2>4, Cases
  <2>6. m[n - L] = Bar
    BY <2>4, <2>5, Cases
  <2> QED BY <2>1, <2>6
<1> QED BY <1>6, <1>7, <1>8 DEF n, L

\* The stub of an rpc is a Go file that every build takes in, unless the method's name
\* ends in a word of its own that the go command reserves; and the file names the
\* method, up to case and underscores.
THEOREM StubsAreBuiltHolds == Spec => []StubsAreBuilt
<1>1. ASSUME word \in Seq(Chars) PROVE StubsAreBuilt
  <2> DEFINE m == GoCamelCase(word)
             f == snake(m)
             S == Letters \cup Digits
  <2> SUFFICES ASSUME IsIdent(word)
               PROVE  /\ ~Ignored(f)
                      /\ Only(f, S) = Only(ToLower(m), S)
                      /\ Conditional(f) => \E r \in Reserved :
                           LET k == Len(m) - Len(r) + 1 IN
                           /\ SubSeq(ToLower(m), k, Len(m)) = r
                           /\ m[k] \in Upper \/ m[k - 1] = "_"
    BY DEF StubsAreBuilt
  <2>1. m \in Seq(Chars) /\ Len(m) > 0 /\ m[1] \in Upper
    BY <1>1, MethodShaped
  <2> HIDE DEF m
  <2>2. ~Ignored(f)
    <3>1. Len(m) \in Nat /\ 1 \in 1 .. Len(m)
      BY <2>1, LenProperties
    <3>3. Snakes(m)[1] = <<Low(m[1])>>
      BY <2>1, <3>1, SnakesType
    <3>4. f[1] \in Lower
      <4>1. EndOf(m, 1) = 1
        <5>1. /\ Snakes(m) \in Seq(Seq(Chars)) /\ 0 \in 0 .. Len(Snakes(m)) - 1
              /\ 0 + 1 = 1 /\ Upto(Snakes(m), 0) = << >>
          BY <2>1, <3>1, SnakesType, UptoSteps
        <5>2. Upto(Snakes(m), 0 + 1) = << >> \o <<Low(m[1])>>
          BY <3>3, <5>1, UptoSteps
        <5>3. <<Low(m[1])>> \in Seq(Chars) /\ Len(<<Low(m[1])>>) = 1
          BY <2>1, Kinds, CharsStay, SingleSeq
        <5>4. << >> \o <<Low(m[1])>> = <<Low(m[1])>>
          BY <5>3, ConcatEmptySeq
        <5> QED BY <5>1, <5>2, <5>3, <5>4 DEF EndOf
      <4>2. f[EndOf(m, 1)] = Low(m[1])
        BY <2>1, <3>1, PieceEnds
      <4> QED BY <2>1, <4>1, <4>2, Cases
    <3> QED BY <3>4, Kinds DEF Ignored, Bar
  <2>3. Only(f, S) = Only(ToLower(m), S)
    <3>1. Bar \notin S
      BY Kinds DEF Letters
    <3> QED BY <2>1, <3>1, SnakeBare
  <2>4. ASSUME Conditional(f)
        PROVE  \E r \in Reserved :
                 LET k == Len(m) - Len(r) + 1 IN
                 /\ SubSeq(ToLower(m), k, Len(m)) = r
                 /\ m[k] \in Upper \/ m[k - 1] = "_"
    <3>1. PICK r \in Reserved :
            Len(f) > Len(r) /\ SubSeq(f, Len(f) - Len(r), Len(f)) = <<Bar>> \o r
      BY <2>4 DEF Conditional, Bar
    <3>2. r \in Seq(Lower)
      BY ReservedAssumption
    <3>3. LET k == Len(m) - Len(r) + 1 IN
          /\ SubSeq(ToLower(m), k, Len(m)) = r
          /\ m[k] \in Upper \/ m[k - 1] = Bar
      BY <2>1, <3>1, <3>2, WordApart
    <3> QED BY <3>3 DEF Bar
  <2> QED BY <2>2, <2>3, <2>4
<1> QED BY <1>1, WordTyped, PTL
=============================================================================
