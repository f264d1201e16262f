-------------------------- MODULE LabelPoliciesProofs --------------------------
(***************************************************************************)
(* Theorems about LabelPolicies and Labeler for any words, texts, limits,   *)
(* formats and files.                                                       *)
(***************************************************************************)
EXTENDS LabelPolicies, ProfilesProofs

-------------------------------------------------------------------------------
(* The size of a text, which is a fold, adds up.                            *)

Measures == {"chars", "cells"}

(* The fold of Total, over the positions in any set.                        *)
Sums(size, text) ==
    CHOOSE f : f = [s \in SUBSET DOMAIN text |->
                      IF s = {} THEN 0 ELSE f[s \ {Max(s)}] + text[Max(s)][size]]

LEMMA TotalIsSum == \A size, text : Total(size, text) = Sums(size, text)[DOMAIN text]
  BY DEF Total, FoldLeft, MapThenFoldSet, Sums

LEMMA MaxFacts ==
    ASSUME NEW n \in Nat, NEW s \in SUBSET (1..n), n \in s
    PROVE  Max(s) = n
  <1>1. \A y \in s : n >= y /\ y \in Nat
    OBVIOUS
  <1>2. \A x \in s : (\A y \in s : x >= y) => x = n
    BY <1>1
  <1> QED
    BY <1>1, <1>2 DEF Max

(* That f solves the equation of Sums over the first n positions.           *)
Solves(f, size, text, n) ==
    f = [s \in SUBSET (1..n) |->
           IF s = {} THEN 0 ELSE f[s \ {Max(s)}] + text[Max(s)][size]]

LEMMA SumsExist ==
    ASSUME NEW text, NEW size, NEW length \in Nat
    PROVE  \E f : Solves(f, size, text, length)
  <1> DEFINE S == {n \in Nat : \E f : Solves(f, size, text, n)}
  <1>1. 0 \in S
    <2> DEFINE f == [s \in SUBSET (1..0) |-> 0]
    <2>1. 1..0 = {}
      OBVIOUS
    <2>2. \A s \in SUBSET (1..0) : s = {}
      BY <2>1
    <2>3. Solves(f, size, text, 0)
      BY <2>2 DEF Solves
    <2> HIDE DEF f
    <2> QED
      BY <2>3
  <1>2. ASSUME NEW n \in Nat, n \in S PROVE n + 1 \in S
    <2>1. PICK f : Solves(f, size, text, n)
      BY <1>2
    <2> DEFINE g == [s \in SUBSET (1..(n + 1)) |->
                       IF n + 1 \in s THEN f[s \ {n + 1}] + text[n + 1][size] ELSE f[s]]
    <2>2. ASSUME NEW s \in SUBSET (1..(n + 1))
          PROVE  g[s] = IF s = {} THEN 0 ELSE g[s \ {Max(s)}] + text[Max(s)][size]
      <3>1. CASE n + 1 \in s
        <4>1. Max(s) = n + 1 /\ s # {}
          BY <3>1, MaxFacts
        <4>2. s \ {n + 1} \in SUBSET (1..(n + 1)) /\ n + 1 \notin s \ {n + 1}
          OBVIOUS
        <4>3. g[s \ {n + 1}] = f[s \ {n + 1}]
          BY <4>2
        <4> QED
          BY <3>1, <4>1, <4>3
      <3>2. CASE n + 1 \notin s
        <4>a. \A x \in s : x \in 1..(n + 1) /\ x # n + 1
          BY <3>2
        <4>b. s \in SUBSET (1..n)
          BY <4>a
        <4>1. s \in SUBSET (1..n) /\ s \ {Max(s)} \in SUBSET (1..(n + 1)) /\ n + 1 \notin s \ {Max(s)}
          BY <3>2, <4>b
        <4>2. g[s] = f[s] /\ g[s \ {Max(s)}] = f[s \ {Max(s)}]
          BY <3>2, <4>1
        <4>3. f[s] = IF s = {} THEN 0 ELSE f[s \ {Max(s)}] + text[Max(s)][size]
          BY <2>1, <4>1 DEF Solves
        <4> QED
          BY <4>2, <4>3
      <3> QED
        BY <3>1, <3>2
    <2>3. Solves(g, size, text, n + 1)
      <3> DEFINE h == [s \in SUBSET (1..(n + 1)) |->
                         IF s = {} THEN 0 ELSE g[s \ {Max(s)}] + text[Max(s)][size]]
      <3>1. g = [s \in SUBSET (1..(n + 1)) |-> g[s]]
        OBVIOUS
      <3>2. \A s \in SUBSET (1..(n + 1)) : h[s] = g[s]
        BY <2>2
      <3>3. h = [s \in SUBSET (1..(n + 1)) |-> h[s]]
        OBVIOUS
      <3>4. h = g
        <4> HIDE DEF g, h
        <4>1. [s \in SUBSET (1..(n + 1)) |-> h[s]] = [s \in SUBSET (1..(n + 1)) |-> g[s]]
          BY <3>2
        <4> QED
          BY <3>1, <3>3, <4>1
      <3> QED
        BY <3>4 DEF Solves
    <2> HIDE DEF g
    <2> QED
      BY <2>3
  <1> HIDE DEF S
  <1>3. length \in S
    BY <1>1, <1>2, Induction
  <1> QED
    BY <1>3 DEF S

LEMMA SumsEquation ==
    ASSUME NEW size, NEW text, NEW length \in Nat, DOMAIN text = 1..length
    PROVE  Sums(size, text) =
             [s \in SUBSET (1..length) |->
                IF s = {} THEN 0 ELSE Sums(size, text)[s \ {Max(s)}] + text[Max(s)][size]]
  <1>1. \E f : Solves(f, size, text, length)
    BY SumsExist
  <1>2. Sums(size, text) = CHOOSE f : Solves(f, size, text, length)
    BY DEF Sums, Solves
  <1>3. Solves(Sums(size, text), size, text, length)
    BY <1>1, <1>2
  <1> QED
    BY <1>3 DEF Solves

(* The size of the first k graphemes.                                       *)
Upto(size, text, k) == Sums(size, text)[1..k]

LEMMA UptoEquation ==
    ASSUME NEW size, NEW text \in Text
    PROVE  /\ Upto(size, text, 0) = 0
           /\ \A k \in 1..Len(text) : Upto(size, text, k) = Upto(size, text, k - 1) + text[k][size]
  <1> DEFINE F == Sums(size, text)
             Rhs(s) == IF s = {} THEN 0 ELSE F[s \ {Max(s)}] + text[Max(s)][size]
  <1>1. Len(text) \in Nat /\ DOMAIN text = 1..Len(text)
    BY LenProperties DEF Text
  <1>2. F = [s \in SUBSET (1..Len(text)) |-> Rhs(s)]
    BY <1>1, SumsEquation
  <1>3. ASSUME NEW s \in SUBSET (1..Len(text)) PROVE F[s] = Rhs(s)
    <2> HIDE DEF F
    <2> QED
      BY <1>2
  <1>4. Upto(size, text, 0) = 0
    <2>1. 1..0 = {} /\ {} \in SUBSET (1..Len(text))
      OBVIOUS
    <2>2. F[{}] = 0
      BY <1>3, <2>1
    <2> QED
      BY <2>1, <2>2 DEF Upto
  <1>5. ASSUME NEW k \in 1..Len(text)
        PROVE  Upto(size, text, k) = Upto(size, text, k - 1) + text[k][size]
    <2>1. k \in Nat /\ k \in 1..k /\ 1..k \in SUBSET (1..Len(text)) /\ 1..k # {}
      BY <1>1
    <2>2. Max(1..k) = k
      BY <2>1, MaxFacts
    <2>3. (1..k) \ {k} = 1..(k - 1)
      BY <2>1
    <2>4. F[1..k] = Rhs(1..k)
      BY <1>3, <2>1
    <2>5. F[1..k] = F[1..(k - 1)] + text[k][size]
      <3> HIDE DEF F
      <3> QED
        BY <2>1, <2>2, <2>3, <2>4
    <2> QED
      BY <2>5 DEF Upto
  <1> QED
    BY <1>4, <1>5

LEMMA SizesOfGraphemes ==
    ASSUME NEW size \in Measures, NEW text \in Text
    PROVE  \A k \in 1..Len(text) : text[k][size] \in Nat
  <1>1. \A g \in Grapheme : g[size] \in Nat
    BY DEF Grapheme, Measures
  <1>2. \A k \in 1..Len(text) : text[k] \in Grapheme
    BY ElementOfSeq DEF Text
  <1> QED
    BY <1>1, <1>2

LEMMA UptoNat ==
    ASSUME NEW size \in Measures, NEW text \in Text
    PROVE  \A k \in 0..Len(text) : Upto(size, text, k) \in Nat
  <1> DEFINE S == {k \in Nat : k <= Len(text) => Upto(size, text, k) \in Nat}
  <1>0. Len(text) \in Nat
    BY LenProperties DEF Text
  <1>1. 0 \in S
    BY UptoEquation
  <1>2. ASSUME NEW k \in Nat, k \in S PROVE k + 1 \in S
    <2>1. CASE k + 1 > Len(text)
      BY <1>0, <2>1
    <2>2. CASE k + 1 <= Len(text)
      <3>1. k + 1 \in 1..Len(text) /\ (k + 1) - 1 = k
        BY <1>0, <2>2
      <3>2. Upto(size, text, k + 1) = Upto(size, text, k) + text[k + 1][size]
        BY <3>1, UptoEquation
      <3>3. Upto(size, text, k) \in Nat /\ text[k + 1][size] \in Nat
        BY <1>0, <1>2, <2>2, <3>1, SizesOfGraphemes
      <3> QED
        BY <3>2, <3>3
    <2> QED
      BY <1>0, <2>1, <2>2
  <1> HIDE DEF S
  <1>3. \A k \in Nat : k \in S
    BY <1>1, <1>2, Induction
  <1> QED
    BY <1>0, <1>3 DEF S

LEMMA TotalIsUpto ==
    ASSUME NEW size \in Measures, NEW text \in Text
    PROVE  Total(size, text) = Upto(size, text, Len(text)) /\ Total(size, text) \in Nat
  <1>1. Len(text) \in Nat /\ DOMAIN text = 1..Len(text)
    BY LenProperties DEF Text
  <1>2. Total(size, text) = Upto(size, text, Len(text))
    BY <1>1, TotalIsSum DEF Upto
  <1> QED
    BY <1>1, <1>2, UptoNat

(* Texts that agree on their first n graphemes measure the same so far.     *)
LEMMA UptoSame ==
    ASSUME NEW size \in Measures, NEW s \in Text, NEW t \in Text, NEW n \in Nat,
           n <= Len(s), n <= Len(t), \A k \in 1..n : s[k] = t[k]
    PROVE  Upto(size, s, n) = Upto(size, t, n)
  <1> DEFINE S == {k \in Nat : k <= n => Upto(size, s, k) = Upto(size, t, k)}
  <1>0. Len(s) \in Nat /\ Len(t) \in Nat
    BY LenProperties DEF Text
  <1>1. 0 \in S
    BY UptoEquation
  <1>2. ASSUME NEW k \in Nat, k \in S PROVE k + 1 \in S
    <2>1. CASE k + 1 > n
      BY <2>1
    <2>2. CASE k + 1 <= n
      <3>1. k + 1 \in 1..Len(s) /\ k + 1 \in 1..Len(t) /\ (k + 1) - 1 = k
        BY <1>0, <2>2
      <3>2. /\ Upto(size, s, k + 1) = Upto(size, s, k) + s[k + 1][size]
            /\ Upto(size, t, k + 1) = Upto(size, t, k) + t[k + 1][size]
        BY <3>1, UptoEquation
      <3>3. Upto(size, s, k) = Upto(size, t, k) /\ s[k + 1] = t[k + 1]
        BY <1>2, <2>2
      <3> QED
        BY <3>2, <3>3
    <2> QED
      BY <2>1, <2>2
  <1> HIDE DEF S
  <1>3. n \in S
    BY <1>1, <1>2, Induction
  <1> QED
    BY <1>3 DEF S

(* The size of a text is that of its parts.                                 *)
LEMMA TotalConcat ==
    ASSUME NEW size \in Measures, NEW s \in Text, NEW t \in Text
    PROVE  s \o t \in Text /\ Total(size, s \o t) = Total(size, s) + Total(size, t)
  <1> DEFINE u == s \o t
             S == {k \in Nat : k <= Len(t) =>
                     Upto(size, u, Len(s) + k) = Upto(size, s, Len(s)) + Upto(size, t, k)}
  <1>0. Len(s) \in Nat /\ Len(t) \in Nat
    BY LenProperties DEF Text
  <1>1. /\ u \in Text /\ Len(u) = Len(s) + Len(t)
        /\ \A i \in 1..(Len(s) + Len(t)) : u[i] = IF i <= Len(s) THEN s[i] ELSE t[i - Len(s)]
    BY ConcatProperties DEF Text
  <1> HIDE DEF u
  <1>2. 0 \in S
    <2>1. \A i \in 1..Len(s) : u[i] = s[i]
      BY <1>0, <1>1
    <2>2. Upto(size, u, Len(s)) = Upto(size, s, Len(s))
      BY <1>0, <1>1, <2>1, UptoSame
    <2>3. Upto(size, t, 0) = 0 /\ Upto(size, s, Len(s)) \in Nat
      BY <1>0, UptoEquation, UptoNat
    <2> QED
      BY <1>0, <2>2, <2>3
  <1>3. ASSUME NEW k \in Nat, k \in S PROVE k + 1 \in S
    <2>1. CASE k + 1 > Len(t)
      BY <1>0, <2>1
    <2>2. CASE k + 1 <= Len(t)
      <3>1. /\ k + 1 \in 1..Len(t) /\ (k + 1) - 1 = k
            /\ Len(s) + (k + 1) \in 1..Len(u) /\ (Len(s) + (k + 1)) - 1 = Len(s) + k
        BY <1>0, <1>1, <2>2
      <3>2. u[Len(s) + (k + 1)] = t[k + 1]
        BY <1>0, <1>1, <3>1
      <3>3. /\ Upto(size, u, Len(s) + (k + 1)) = Upto(size, u, Len(s) + k) + t[k + 1][size]
            /\ Upto(size, t, k + 1) = Upto(size, t, k) + t[k + 1][size]
        BY <1>1, <3>1, <3>2, UptoEquation
      <3>4. Upto(size, u, Len(s) + k) = Upto(size, s, Len(s)) + Upto(size, t, k)
        BY <1>0, <1>3, <2>2
      <3>5. t[k + 1][size] \in Nat /\ Upto(size, t, k) \in Nat /\ Upto(size, s, Len(s)) \in Nat
        BY <1>0, <3>1, SizesOfGraphemes, UptoNat
      <3> QED
        BY <3>3, <3>4, <3>5
    <2> QED
      BY <1>0, <2>1, <2>2
  <1> HIDE DEF S
  <1>4. Len(t) \in S
    BY <1>0, <1>2, <1>3, Induction
  <1>5. Upto(size, u, Len(s) + Len(t)) = Upto(size, s, Len(s)) + Upto(size, t, Len(t))
    BY <1>0, <1>4 DEF S
  <1>6. Total(size, u) = Total(size, s) + Total(size, t)
    BY <1>1, <1>5, TotalIsUpto
  <1> QED
    BY <1>1, <1>6 DEF u

(* A part of a text is a text.                                              *)
LEMMA PartIsText ==
    ASSUME NEW text \in Text, NEW m \in 1..(Len(text) + 1), NEW n \in 0..Len(text)
    PROVE  /\ SubSeq(text, m, n) \in Text
           /\ Len(SubSeq(text, m, n)) = IF m <= n THEN n - m + 1 ELSE 0
           /\ \A i \in 1..(n - m + 1) : SubSeq(text, m, n)[i] = text[m + i - 1]
           /\ Range(SubSeq(text, m, n)) \subseteq Range(text)
  <1>1. Len(text) \in Nat /\ DOMAIN text = 1..Len(text)
    BY LenProperties DEF Text
  <1>2. \A i \in m..n : i \in 1..Len(text)
    BY <1>1
  <1>3. \A i \in m..n : text[i] \in Grapheme
    BY <1>2, ElementOfSeq DEF Text
  <1>4. m \in Int /\ n \in Int
    BY <1>1
  <1> DEFINE part == SubSeq(text, m, n)
  <1>5. /\ part \in Text
        /\ Len(part) = IF m <= n THEN n - m + 1 ELSE 0
        /\ \A i \in 1..(n - m + 1) : part[i] = text[m + i - 1]
    BY <1>3, <1>4, SubSeqProperties DEF Text
  <1> HIDE DEF part
  <1>6. ASSUME NEW g \in Range(part) PROVE g \in Range(text)
    <2>1. PICK i \in 1..Len(part) : g = part[i]
      BY <1>5, RangeEquality DEF Text
    <2>2. i \in 1..(n - m + 1) /\ m + i - 1 \in 1..Len(text)
      BY <1>1, <1>4, <1>5, <2>1
    <2>3. g = text[m + i - 1]
      BY <1>5, <2>1, <2>2
    <2> QED
      BY <2>2, <2>3, RangeEquality DEF Text
  <1> QED
    BY <1>5, <1>6 DEF part

LEMMA PrefixIsText ==
    ASSUME NEW text \in Text, NEW n \in Nat, n <= Len(text)
    PROVE  /\ SubSeq(text, 1, n) \in Text /\ Len(SubSeq(text, 1, n)) = n
           /\ \A i \in 1..n : SubSeq(text, 1, n)[i] = text[i]
           /\ Range(SubSeq(text, 1, n)) \subseteq Range(text)
  <1>1. Len(text) \in Nat
    BY LenProperties DEF Text
  <1>2. 1 \in 1..(Len(text) + 1) /\ n \in 0..Len(text) /\ n - 1 + 1 = n
    BY <1>1
  <1>3. \A i \in 1..n : 1 + i - 1 = i
    OBVIOUS
  <1>4. /\ SubSeq(text, 1, n) \in Text
        /\ Len(SubSeq(text, 1, n)) = IF 1 <= n THEN n - 1 + 1 ELSE 0
        /\ \A i \in 1..(n - 1 + 1) : SubSeq(text, 1, n)[i] = text[1 + i - 1]
        /\ Range(SubSeq(text, 1, n)) \subseteq Range(text)
    BY <1>2, PartIsText
  <1> QED
    BY <1>2, <1>3, <1>4

LEMMA SuffixIsText ==
    ASSUME NEW text \in Text, NEW n \in Nat, n <= Len(text)
    PROVE  /\ SubSeq(text, Len(text) + 1 - n, Len(text)) \in Text
           /\ Len(SubSeq(text, Len(text) + 1 - n, Len(text))) = n
           /\ \A i \in 1..n :
                SubSeq(text, Len(text) + 1 - n, Len(text))[i] = text[Len(text) + i - n]
           /\ Range(SubSeq(text, Len(text) + 1 - n, Len(text))) \subseteq Range(text)
  <1>1. Len(text) \in Nat
    BY LenProperties DEF Text
  <1> DEFINE m == Len(text) + 1 - n
             s == SubSeq(text, m, Len(text))
  <1>2. /\ m \in 1..(Len(text) + 1) /\ Len(text) \in 0..Len(text)
        /\ Len(text) - m + 1 = n /\ (m <= Len(text) <=> 1 <= n)
        /\ \A i \in 1..n : m + i - 1 = Len(text) + i - n
    BY <1>1
  <1> HIDE DEF m
  <1>3. /\ s \in Text
        /\ Len(s) = IF m <= Len(text) THEN Len(text) - m + 1 ELSE 0
        /\ \A i \in 1..(Len(text) - m + 1) : s[i] = text[m + i - 1]
        /\ Range(s) \subseteq Range(text)
    BY <1>2, PartIsText
  <1> HIDE DEF s
  <1>4. /\ s \in Text /\ Len(s) = n
        /\ \A i \in 1..n : s[i] = text[Len(text) + i - n]
        /\ Range(s) \subseteq Range(text)
    <2>1. \A i \in 1..n : s[i] = text[m + i - 1]
      BY <1>2, <1>3
    <2>2. \A i \in 1..n : s[i] = text[Len(text) + i - n]
      BY <1>2, <2>1
    <2>3. Len(s) = n
      <3>1. CASE n = 0
        BY <1>2, <1>3, <3>1
      <3>2. CASE n # 0
        BY <1>2, <1>3, <3>2
      <3> QED
        BY <3>1, <3>2
    <2> QED
      BY <1>3, <2>2, <2>3
  <1> QED
    BY <1>4 DEF s, m

LEMMA EmptyText == <<>> \in Text /\ \A size \in Measures : Total(size, <<>>) = 0
  <1>1. <<>> \in Text /\ Len(<<>>) = 0
    BY EmptySeq DEF Text
  <1> QED
    BY <1>1, TotalIsUpto, UptoEquation

(* A part of a text is no larger than the text.                             *)
LEMMA PartIsSmaller ==
    ASSUME NEW size \in Measures, NEW text \in Text, NEW k \in Nat, k <= Len(text)
    PROVE  /\ Total(size, SubSeq(text, 1, k)) <= Total(size, text)
           /\ Total(size, SubSeq(text, k + 1, Len(text))) <= Total(size, text)
  <1>1. Len(text) \in Nat
    BY LenProperties DEF Text
  <1> DEFINE s == SubSeq(text, 1, k)
             t == SubSeq(text, k + 1, Len(text))
  <1>2. s \in Text
    BY PrefixIsText
  <1>3. t \in Text
    <2>1. k + 1 \in 1..(Len(text) + 1) /\ Len(text) \in 0..Len(text)
      BY <1>1
    <2> QED
      BY <2>1, PartIsText
  <1>4. text = s \o t
    <2>1. /\ 1 \in 1..(Len(text) + 1) /\ k \in (1 - 1)..Len(text)
          /\ Len(text) \in k..Len(text)
      BY <1>1
    <2>2. s \o t = SubSeq(text, 1, Len(text))
      BY <2>1, ConcatAdjacentSubSeq DEF Text
    <2>3. SubSeq(text, 1, Len(text)) = text
      BY SubSeqFull DEF Text
    <2> QED
      BY <2>2, <2>3
  <1> HIDE DEF s, t
  <1>5. Total(size, s \o t) = Total(size, s) + Total(size, t)
    BY <1>2, <1>3, TotalConcat
  <1>6. Total(size, s) \in Nat /\ Total(size, t) \in Nat
    BY <1>2, <1>3, TotalIsUpto
  <1>7. Total(size, s) <= Total(size, text) /\ Total(size, t) <= Total(size, text)
    <2>1. Total(size, text) = Total(size, s) + Total(size, t)
      BY <1>4, <1>5
    <2> QED
      BY <1>6, <2>1
  <1> QED
    BY <1>7 DEF s, t

LEMMA PrefixesGrow ==
    ASSUME NEW size \in Measures, NEW text \in Text,
           NEW m \in Nat, NEW n \in Nat, m <= n, n <= Len(text)
    PROVE  Total(size, SubSeq(text, 1, m)) <= Total(size, SubSeq(text, 1, n))
  <1>1. Len(text) \in Nat
    BY LenProperties DEF Text
  <1> DEFINE s == SubSeq(text, 1, n)
             t == SubSeq(text, 1, m)
             u == SubSeq(s, 1, m)
  <1>2. s \in Text /\ Len(s) = n /\ \A i \in 1..n : s[i] = text[i]
    BY PrefixIsText
  <1>3. t \in Text /\ Len(t) = m /\ \A i \in 1..m : t[i] = text[i]
    BY <1>1, PrefixIsText
  <1> HIDE DEF s, t
  <1>4. u \in Text /\ Len(u) = m /\ \A i \in 1..m : u[i] = s[i]
    BY <1>2, PrefixIsText
  <1>5. Total(size, u) <= Total(size, s)
    BY <1>2, PartIsSmaller
  <1> HIDE DEF u
  <1>6. \A i \in 1..m : u[i] = t[i]
    BY <1>2, <1>3, <1>4
  <1>7. u = t
    BY <1>3, <1>4, <1>6, SeqEqual DEF Text
  <1> QED
    BY <1>5, <1>7 DEF s, t

LEMMA SuffixesGrow ==
    ASSUME NEW size \in Measures, NEW text \in Text,
           NEW m \in Nat, NEW n \in Nat, m <= n, n <= Len(text)
    PROVE  Total(size, SubSeq(text, Len(text) + 1 - m, Len(text)))
             <= Total(size, SubSeq(text, Len(text) + 1 - n, Len(text)))
  <1> DEFINE L == Len(text)
             s == SubSeq(text, L + 1 - n, L)
             t == SubSeq(text, L + 1 - m, L)
             u == SubSeq(s, Len(s) + 1 - m, Len(s))
  <1>1. L \in Nat
    BY LenProperties DEF Text
  <1>2. s \in Text /\ Len(s) = n /\ \A i \in 1..n : s[i] = text[L + i - n]
    BY SuffixIsText
  <1>3. t \in Text /\ Len(t) = m /\ \A i \in 1..m : t[i] = text[L + i - m]
    <2>1. m <= Len(text)
      BY <1>1
    <2> QED
      BY <2>1, SuffixIsText
  <1> HIDE DEF s, t
  <1>4. u \in Text /\ Len(u) = m /\ \A i \in 1..m : u[i] = s[Len(s) + i - m]
    BY <1>2, SuffixIsText
  <1>5. Total(size, u) <= Total(size, s)
    <2>1. /\ n - m \in Nat /\ n - m <= Len(s) /\ (n - m) + 1 = Len(s) + 1 - m
      BY <1>2
    <2> QED
      BY <1>2, <2>1, PartIsSmaller
  <1> HIDE DEF u
  <1>6. ASSUME NEW i \in 1..m PROVE u[i] = t[i]
    <2>1. Len(s) + i - m \in 1..n /\ L + (Len(s) + i - m) - n = L + i - m
      BY <1>1, <1>2
    <2> QED
      BY <1>2, <1>3, <1>4, <2>1
  <1>7. u = t
    BY <1>3, <1>4, <1>6, SeqEqual DEF Text
  <1> QED
    BY <1>5, <1>7 DEF s, t

-------------------------------------------------------------------------------
(* The parts of a label are texts.                                          *)

LEMMA CandidateType ==
    ASSUME policy \in Policy, NEW p \in Process
    PROVE  CandidateOf(p) \in Candidates \cup {None}
  <1>1. /\ policy.significant \subseteq Words
        /\ p.argv \in Seq(Words) /\ p.name \in Words \cup {None}
    BY DEF Policy, Process
  <1>2. CASE CandidateOf(p) = None
    BY <1>2
  <1>3. CASE CommandOf(p) \in policy.significant /\ CandidateOf(p) = <<CommandOf(p)>>
    BY <1>1, <1>3 DEF Candidates
  <1>4. CASE SubSeq(p.argv, 1, 2) \in Runners /\ CandidateOf(p) = SubSeq(p.argv, 1, 2)
    BY <1>4 DEF Candidates
  <1>5. CASE Shim(p.argv) /\ CandidateOf(p) = <<NodeRunner[p.argv[2]], p.argv[3]>>
    BY <1>5 DEF Candidates, Shim
  <1> QED
    BY <1>2, <1>3, <1>4, <1>5 DEF CandidateOf

LEMMA SelectedProcess ==
    ASSUME pane \in Pane, SignificantProcess # 0
    PROVE  /\ SignificantProcess \in 1..Len(pane.processes)
           /\ pane.processes[SignificantProcess] \in Process
           /\ CandidateOf(pane.processes[SignificantProcess]) # None
  <1> DEFINE I == {i \in 1..Len(pane.processes) : CandidateOf(pane.processes[i]) # None}
  <1>1. pane.processes \in Seq(Process)
    BY DEF Pane
  <1>2. SignificantProcess = IF I # {} THEN Min(I) ELSE 0
    BY DEF SignificantProcess, SelectInSeq
  <1>3. I # {} /\ SignificantProcess = Min(I) /\ I \subseteq Nat
    BY <1>1, <1>2
  <1>4. Min(I) \in I
    <2> HIDE DEF I
    <2>1. \E n \in I : \A m \in I : n <= m
      BY <1>3, LeastNatural
    <2> QED
      BY <2>1 DEF Min
  <1>5. SignificantProcess \in I
    <2> HIDE DEF I
    <2> QED
      BY <1>3, <1>4
  <1> QED
    BY <1>1, <1>5, ElementOfSeq

LEMMA CommandType ==
    ASSUME policy \in Policy, pane \in Pane, SignificantCommand # None
    PROVE  SignificantCommand \in Candidates /\ Command \in Text /\ Len(Command) \in Nat \ {0}
  <1>1. SignificantProcess # 0
    BY DEF SignificantCommand
  <1>2. SignificantCommand = CandidateOf(pane.processes[SignificantProcess])
    BY <1>1 DEF SignificantCommand
  <1>3. SignificantCommand \in Candidates
    BY <1>1, <1>2, SelectedProcess, CandidateType
  <1> DEFINE p == policy.prefix[SignificantCommand]
             n == Name[SignificantCommand]
  <1>4. p \in Text /\ n \in Text /\ n # <<>>
    BY <1>3, LabelerConstants DEF Policy
  <1> HIDE DEF p, n
  <1>5. Len(p) \in Nat /\ Len(n) \in Nat \ {0}
    BY <1>4, EmptySeq, LenProperties DEF Text
  <1>6. p \o n \in Text /\ Len(p \o n) = Len(p) + Len(n)
    BY <1>4, ConcatProperties DEF Text
  <1>7. Command = p \o n
    BY DEF Command, p, n
  <1> QED
    BY <1>3, <1>5, <1>6, <1>7

LEMMA DirectoryType ==
    ASSUME pane \in Pane, pane.directory # <<>>, Directory # None
    PROVE  Directory \in Text /\ Len(Directory) \in Nat \ {0}
  <1>1. Directory \in Text /\ Directory # <<>>
    BY DEF Directory, Pane
  <1> QED
    BY <1>1, EmptySeq DEF Text

LEMMA ComposeType ==
    ASSUME policy \in Policy, NEW c \in Text, NEW d \in Text
    PROVE  /\ Compose(c, d) \in Text
           /\ \A size \in Measures :
                Total(size, Compose(c, d))
                  = Total(size, c) + Total(size, policy.separator) + Total(size, d)
           /\ Range(Compose(c, d)) \subseteq Range(c) \cup Range(policy.separator) \cup Range(d)
  <1> DEFINE s == policy.separator
  <1>1. s \in Text
    BY DEF Policy
  <1> HIDE DEF s
  <1>2. \A t, u \in Text : /\ t \o u \in Text
                           /\ \A size \in Measures :
                                Total(size, t \o u) = Total(size, t) + Total(size, u)
                           /\ Range(t \o u) = Range(t) \cup Range(u)
    BY TotalConcat, RangeConcatenation DEF Text
  <1>3. \A size \in Measures : /\ Total(size, c) \in Nat /\ Total(size, d) \in Nat
                               /\ Total(size, s) \in Nat
    BY <1>1, TotalIsUpto
  <1>4. CASE DirectoryFirst
    <2>1. Compose(c, d) = (d \o s) \o c
      BY <1>4 DEF Compose, s
    <2>2. d \o s \in Text /\ (d \o s) \o c \in Text
      BY <1>1, <1>2
    <2>3. \A size \in Measures :
             Total(size, (d \o s) \o c) = Total(size, c) + Total(size, s) + Total(size, d)
      BY <1>1, <1>2, <1>3, <2>2
    <2>4. Range((d \o s) \o c) = Range(d) \cup Range(s) \cup Range(c)
      BY <1>1, <1>2, <2>2
    <2> QED
      BY <2>1, <2>2, <2>3, <2>4 DEF s
  <1>5. CASE ~DirectoryFirst
    <2>1. Compose(c, d) = (c \o s) \o d
      BY <1>5 DEF Compose, s
    <2>2. c \o s \in Text /\ (c \o s) \o d \in Text
      BY <1>1, <1>2
    <2>3. \A size \in Measures :
             Total(size, (c \o s) \o d) = Total(size, c) + Total(size, s) + Total(size, d)
      BY <1>1, <1>2, <1>3, <2>2
    <2>4. Range((c \o s) \o d) = Range(c) \cup Range(s) \cup Range(d)
      BY <1>1, <1>2, <2>2
    <2> QED
      BY <2>1, <2>2, <2>3, <2>4 DEF s
  <1> QED
    BY <1>4, <1>5

-------------------------------------------------------------------------------
(* What fits, and the longest part that does.                               *)

LEMMA SizeTypes ==
    ASSUME NEW t \in Text
    PROVE  Chars(t) \in Nat /\ Cells(t) \in Nat
  BY TotalIsUpto DEF Chars, Cells, Measures

LEMMA SmallerFits ==
    ASSUME policy \in Policy, NEW s \in Text, NEW t \in Text, Fits(t),
           \A size \in Measures : Total(size, s) <= Total(size, t)
    PROVE  Fits(s)
  <1>1. Chars(s) <= Chars(t) /\ Cells(s) <= Cells(t)
    BY DEF Chars, Cells, Measures
  <1>2. policy.maxLength \in Nat /\ policy.maxWidth \in Nat \cup {None}
    BY DEF Policy
  <1>3. Chars(s) \in Nat /\ Cells(s) \in Nat /\ Chars(t) \in Nat /\ Cells(t) \in Nat
    BY SizeTypes
  <1> QED
    BY <1>1, <1>2, <1>3 DEF Fits

LEMMA EmptyFits ==
    ASSUME policy \in Policy
    PROVE  /\ Chars(<<>>) <= policy.maxLength
           /\ policy.maxWidth # None => Cells(<<>>) <= policy.maxWidth
  <1>1. policy.maxLength \in Nat /\ policy.maxWidth \in Nat \cup {None}
    BY DEF Policy
  <1> QED
    BY <1>1, EmptyText DEF Chars, Cells, Measures

(* A prefix for each thing LongestPrefix is asked for.                      *)
LEMMA LongestWhole ==
    ASSUME policy \in Policy, NEW text \in Text
    PROVE  \E n \in 0..Len(text) :
             /\ TruncateGraphemePrefix(text) = SubSeq(text, 1, n)
             /\ Fits(SubSeq(text, 1, n))
  <1> DEFINE L == Len(text)
             R == {n \in 0..L : Fits(SubSeq(text, 1, n))}
             Right(n) == /\ Fits(SubSeq(text, 1, n))
                         /\ n < L => ~Fits(SubSeq(text, 1, n + 1))
             last == CHOOSE n \in 0..L : Right(n)
  <1>1. L \in Nat
    BY LenProperties DEF Text
  <1>2. SubSeq(text, 1, 0) = <<>>
    BY SubSeqEmpty
  <1>3. 0 \in R
    <2>1. Fits(<<>>)
      BY EmptyFits DEF Fits
    <2>2. Fits(SubSeq(text, 1, 0))
      BY <1>2, <2>1
    <2> QED
      BY <1>1, <2>2
  <1>4. \E n \in 0..L : n \in R /\ (n < L => n + 1 \notin R)
    <2> HIDE DEF R
    <2> QED
      BY <1>1, <1>3, LastOfRun
  <1>5. \E n \in 0..L : Right(n)
    BY <1>1, <1>4
  <1>6. last \in 0..L /\ Right(last)
    <2> HIDE DEF Right
    <2> QED
      BY <1>5
  <1>7. TruncateGraphemePrefix(text) = SubSeq(text, 1, last)
    BY DEF TruncateGraphemePrefix, LongestPrefix
  <1> HIDE DEF last
  <1> QED
    BY <1>6, <1>7

LEMMA LongestByLength ==
    ASSUME policy \in Policy, NEW text \in Text
    PROVE  \E n \in 0..Len(text) :
             /\ LongestPrefix(text, FitsByLength) = SubSeq(text, 1, n)
             /\ Chars(SubSeq(text, 1, n)) <= policy.maxLength
  <1> DEFINE L == Len(text)
             R == {n \in 0..L : FitsByLength(SubSeq(text, 1, n))}
             Right(n) == /\ FitsByLength(SubSeq(text, 1, n))
                         /\ n < L => ~FitsByLength(SubSeq(text, 1, n + 1))
             last == CHOOSE n \in 0..L : Right(n)
  <1>1. L \in Nat
    BY LenProperties DEF Text
  <1>2. SubSeq(text, 1, 0) = <<>>
    BY SubSeqEmpty
  <1>3. 0 \in R
    <2>1. FitsByLength(<<>>)
      BY EmptyFits DEF FitsByLength
    <2>2. FitsByLength(SubSeq(text, 1, 0))
      BY <1>2, <2>1
    <2> QED
      BY <1>1, <2>2
  <1>4. \E n \in 0..L : n \in R /\ (n < L => n + 1 \notin R)
    <2> HIDE DEF R
    <2> QED
      BY <1>1, <1>3, LastOfRun
  <1>5. \E n \in 0..L : Right(n)
    BY <1>1, <1>4
  <1>6. last \in 0..L /\ Right(last)
    <2> HIDE DEF Right
    <2> QED
      BY <1>5
  <1>7. LongestPrefix(text, FitsByLength) = SubSeq(text, 1, last)
    BY DEF LongestPrefix
  <1> HIDE DEF last
  <1> QED
    BY <1>6, <1>7 DEF FitsByLength

LEMMA LongestByWidth ==
    ASSUME policy \in Policy, policy.maxWidth # None, NEW text \in Text
    PROVE  \E n \in 0..Len(text) :
             /\ LongestPrefix(text, LAMBDA t : Cells(t) <= policy.maxWidth) = SubSeq(text, 1, n)
             /\ Cells(SubSeq(text, 1, n)) <= policy.maxWidth
  <1> DEFINE L == Len(text)
             Narrow(n) == Cells(SubSeq(text, 1, n)) <= policy.maxWidth
             R == {n \in 0..L : Narrow(n)}
             Right(n) == Narrow(n) /\ (n < L => ~Narrow(n + 1))
             last == CHOOSE n \in 0..L : Right(n)
  <1>1. L \in Nat
    BY LenProperties DEF Text
  <1>2. SubSeq(text, 1, 0) = <<>>
    BY SubSeqEmpty
  <1>3. 0 \in R
    <2>1. Cells(<<>>) <= policy.maxWidth
      BY EmptyFits
    <2>2. Narrow(0)
      BY <1>2, <2>1
    <2> HIDE DEF Narrow
    <2> QED
      BY <1>1, <2>2
  <1>4. \E n \in 0..L : n \in R /\ (n < L => n + 1 \notin R)
    <2> HIDE DEF R
    <2> QED
      BY <1>1, <1>3, LastOfRun
  <1>5. \E n \in 0..L : Right(n)
    BY <1>1, <1>4
  <1>6. last \in 0..L /\ Right(last)
    <2> HIDE DEF Right
    <2> QED
      BY <1>5
  <1>7. LongestPrefix(text, LAMBDA t : Cells(t) <= policy.maxWidth) = SubSeq(text, 1, last)
    BY DEF LongestPrefix
  <1> HIDE DEF last
  <1> QED
    BY <1>6, <1>7

LEMMA ScalarPrefixFits ==
    ASSUME policy \in Policy, NEW text \in Text
    PROVE  ScalarPrefix(text) \in Text /\ Chars(ScalarPrefix(text)) <= policy.maxLength
  <1> DEFINE whole == LongestPrefix(text, FitsByLength)
             room  == policy.maxLength - Chars(whole)
             next  == text[Len(whole) + 1]
             cut   == [next EXCEPT !.chars = room, !.cells = next.cut]
  <1>1. Len(text) \in Nat /\ policy.maxLength \in Nat
    BY LenProperties DEF Text, Policy
  <1>2. PICK n \in 0..Len(text) : whole = SubSeq(text, 1, n)
                                  /\ Chars(SubSeq(text, 1, n)) <= policy.maxLength
    BY LongestByLength
  <1> HIDE DEF whole
  <1>3. /\ whole \in Text /\ Len(whole) = n /\ Chars(whole) <= policy.maxLength
        /\ (n = Len(text) => whole = text)
    <2>1. /\ SubSeq(text, 1, n) \in Text /\ Len(SubSeq(text, 1, n)) = n
      BY <1>1, PrefixIsText
    <2>2. n = Len(text) => SubSeq(text, 1, n) = text
      BY SubSeqFull DEF Text
    <2> QED
      BY <1>2, <2>1, <2>2
  <1>4. Chars(whole) \in Nat
    BY <1>3, SizeTypes
  <1>5. CASE whole = text \/ room = 0
    <2>1. ScalarPrefix(text) = whole
      BY <1>5 DEF ScalarPrefix, whole
    <2> QED
      BY <1>3, <2>1
  <1>6. CASE ~(whole = text \/ room = 0)
    <2>1. n + 1 \in 1..Len(text) /\ room \in Nat \ {0}
      BY <1>1, <1>3, <1>4, <1>6
    <2>2. next \in Grapheme
      BY <1>3, <2>1, ElementOfSeq DEF Text
    <2>3. cut \in Grapheme /\ cut.chars = room
      <3> HIDE DEF next, room
      <3> QED
        BY <2>1, <2>2 DEF Grapheme
    <2>4. ScalarPrefix(text) = Append(whole, cut)
      BY <1>6 DEF ScalarPrefix, whole
    <2> HIDE DEF cut, room
    <2>5. <<cut>> \in Text /\ Len(<<cut>>) = 1 /\ <<cut>>[1] = cut
      BY <2>3 DEF Text
    <2>6. Append(whole, cut) = whole \o <<cut>>
      BY <1>3, <2>3, AppendIsConcat DEF Text
    <2>7. Chars(<<cut>>) = room
      <3>1. "chars" \in Measures
        BY DEF Measures
      <3>2. Chars(<<cut>>) = Upto("chars", <<cut>>, 1)
        BY <2>5, <3>1, TotalIsUpto DEF Chars
      <3>3. Upto("chars", <<cut>>, 1) = Upto("chars", <<cut>>, 0) + <<cut>>[1]["chars"]
        BY <2>5, UptoEquation
      <3>4. Upto("chars", <<cut>>, 0) = 0
        BY <2>5, UptoEquation
      <3> QED
        BY <2>1, <2>3, <2>5, <3>2, <3>3, <3>4
    <2>8. /\ whole \o <<cut>> \in Text
          /\ Chars(whole \o <<cut>>) = Chars(whole) + room
      BY <1>3, <2>5, <2>7, TotalConcat DEF Chars, Measures
    <2>9. Chars(whole) + room = policy.maxLength
      BY <1>1, <1>4 DEF room
    <2> QED
      BY <1>1, <2>4, <2>6, <2>8, <2>9
  <1> QED
    BY <1>5, <1>6

LEMMA TruncateFinalFits ==
    ASSUME policy \in Policy, NEW text \in Text
    PROVE  TruncateFinal(text) \in Text /\ Fits(TruncateFinal(text))
  <1> DEFINE scalar == ScalarPrefix(text)
  <1>1. scalar \in Text /\ Chars(scalar) <= policy.maxLength
    BY ScalarPrefixFits
  <1> HIDE DEF scalar
  <1>2. CASE policy.maxWidth = None
    BY <1>1, <1>2 DEF TruncateFinal, Fits, scalar
  <1>3. CASE policy.maxWidth # None
    <2>1. PICK n \in 0..Len(scalar) :
            /\ LongestPrefix(scalar, LAMBDA t : Cells(t) <= policy.maxWidth) = SubSeq(scalar, 1, n)
            /\ Cells(SubSeq(scalar, 1, n)) <= policy.maxWidth
      BY <1>1, <1>3, LongestByWidth
    <2>2. TruncateFinal(text) = SubSeq(scalar, 1, n)
      BY <1>3, <2>1 DEF TruncateFinal, scalar
    <2>3. n \in Nat /\ n <= Len(scalar)
      BY <1>1, LenProperties DEF Text
    <2>4. SubSeq(scalar, 1, n) \in Text
      BY <1>1, <2>3, PrefixIsText
    <2>5. Chars(SubSeq(scalar, 1, n)) <= Chars(scalar)
      BY <1>1, <2>3, PartIsSmaller DEF Chars, Measures
    <2>6. /\ Chars(SubSeq(scalar, 1, n)) \in Nat /\ Chars(scalar) \in Nat
          /\ policy.maxLength \in Nat
      BY <1>1, <2>4, SizeTypes DEF Policy
    <2>7. Chars(SubSeq(scalar, 1, n)) <= policy.maxLength
      BY <1>1, <2>5, <2>6
    <2> QED
      BY <2>1, <2>2, <2>4, <2>7 DEF Fits
  <1> QED
    BY <1>2, <1>3

-------------------------------------------------------------------------------
(* The inductive invariant.                                                 *)

(* The graphemes of the directory shown.                                    *)
Width(g) == Len(Directory) + 1 - g.start

(* A policy comes into force before it is presented.                        *)
LoadsFirst == outcome = "loading" => phase = "present"

(* What the loop of present_context keeps true.                             *)
GrowthOK ==
    phase = "grow" =>
      /\ policy # None /\ BothParts
      /\ Fits(Parts(growth.commands, Width(growth)))
      /\ growth.prefer = "command" <=> growth.commands <= Width(growth)
      /\ growth.commands > Width(growth) + 1 /\ Width(growth) < Len(Directory)
           => ~Fits(Parts(Width(growth) + 1, Width(growth) + 1))
      /\ Width(growth) > growth.commands /\ growth.commands < Len(Command)
           => ~Fits(Parts(growth.commands + 1, growth.commands))

LabelsOK == LabelFits /\ WholeGraphemes /\ ShowsBothEnds /\ NothingToSpare /\ SidesGrowInTurn

PoliciesInv == TypeOK /\ LoadsFirst /\ LoaderOK /\ GrowthOK /\ LabelsOK

LEMMA SameView ==
    ASSUME policy' = policy, pane' = pane
    PROVE  /\ SignificantCommand' = SignificantCommand /\ Command' = Command
           /\ Directory' = Directory /\ DirectoryFirst' = DirectoryFirst
           /\ Contextual' = Contextual /\ BothParts' = BothParts
           /\ \A text : Fits(text)' = Fits(text)
           /\ \A c, d : Parts(c, d)' = Parts(c, d)
           /\ \A c, d : Fits(Parts(c, d))' = Fits(Parts(c, d))
  <1>1. SignificantProcess' = SignificantProcess
    BY DEF SignificantProcess, SelectInSeq, CandidateOf, Shim
  <1>2. SignificantCommand' = SignificantCommand
    BY <1>1 DEF SignificantCommand, CandidateOf, Shim
  <1>3. Command' = Command
    BY <1>2 DEF Command
  <1>4. /\ Directory' = Directory /\ DirectoryFirst' = DirectoryFirst
        /\ Contextual' = Contextual
    BY DEF Directory, DirectoryFirst, Contextual
  <1>5. BothParts' = BothParts
    BY <1>2, <1>4 DEF BothParts
  <1>6. \A text : Fits(text)' = Fits(text)
    BY DEF Fits
  <1>7. \A c, d : Parts(c, d)' = Parts(c, d)
    BY <1>3, <1>4 DEF Parts, Compose
  <1>8. \A c, d : Fits(Parts(c, d))' = Fits(Parts(c, d))
    BY <1>7 DEF Fits
  <1> QED
    BY <1>2, <1>3, <1>4, <1>5, <1>6, <1>7, <1>8

LEMMA SameLabels ==
    ASSUME policy' = policy, pane' = pane, phase' = phase, label' = label, LabelsOK
    PROVE  LabelsOK'
  <1>1. Fits(Parts(1, 1))' = Fits(Parts(1, 1))
    BY SameView
  <1>2. Sizes' = Sizes
    BY SameView DEF Sizes
  <1>3. Splits' = Splits
    BY <1>2, SameView DEF Splits
  <1>4. Done' = Done /\ BothParts' = BothParts
    BY SameView DEF Done
  <1>5. /\ (\E s \in Sizes : label = Parts(s[1], s[2]))'
             = (\E s \in Sizes : label = Parts(s[1], s[2]))
        /\ IsPrefix(label, IF DirectoryFirst THEN Directory ELSE Command)'
             = IsPrefix(label, IF DirectoryFirst THEN Directory ELSE Command)
    BY <1>2, SameView DEF IsPrefix
  <1>6. LabelFits'
    BY DEF LabelsOK, LabelFits, Done
  <1>7. WholeGraphemes'
    BY SameView DEF LabelsOK, WholeGraphemes, Done
  <1>8. ShowsBothEnds'
    BY <1>1, <1>4, <1>5 DEF LabelsOK, ShowsBothEnds
  <1>9. NothingToSpare'
    <2> SUFFICES ASSUME Done, BothParts, Fits(Parts(1, 1))
                 PROVE  (\E s \in Splits : \A t \in Sizes :
                           t # s /\ t[1] >= s[1] /\ t[2] >= s[2] => ~Fits(Parts(t[1], t[2])))'
      BY <1>1, <1>4 DEF NothingToSpare
    <2>1. PICK s \in Splits : \A t \in Sizes :
            t # s /\ t[1] >= s[1] /\ t[2] >= s[2] => ~Fits(Parts(t[1], t[2]))
      BY DEF LabelsOK, NothingToSpare
    <2>2. (\A t \in Sizes :
             t # s /\ t[1] >= s[1] /\ t[2] >= s[2] => ~Fits(Parts(t[1], t[2])))'
      BY <1>2, <2>1, SameView
    <2> QED
      BY <1>3, <2>2
  <1>10. SidesGrowInTurn'
    <2> SUFFICES ASSUME Done, BothParts, Fits(Parts(1, 1))
                 PROVE  (\E s \in Splits :
                           /\ s[1] > s[2] + 1 /\ s[2] < Len(Directory)
                                => ~Fits(Parts(s[2] + 1, s[2] + 1))
                           /\ s[2] > s[1] /\ s[1] < Len(Command)
                                => ~Fits(Parts(s[1] + 1, s[1])))'
      BY <1>1, <1>4 DEF SidesGrowInTurn
    <2>1. PICK s \in Splits :
            /\ s[1] > s[2] + 1 /\ s[2] < Len(Directory) => ~Fits(Parts(s[2] + 1, s[2] + 1))
            /\ s[2] > s[1] /\ s[1] < Len(Command) => ~Fits(Parts(s[1] + 1, s[1]))
      BY DEF LabelsOK, SidesGrowInTurn
    <2>2. (/\ s[1] > s[2] + 1 /\ s[2] < Len(Directory) => ~Fits(Parts(s[2] + 1, s[2] + 1))
           /\ s[2] > s[1] /\ s[1] < Len(Command) => ~Fits(Parts(s[1] + 1, s[1])))'
      BY <2>1, SameView
    <2> QED
      BY <1>3, <2>2
  <1> QED
    BY <1>6, <1>7, <1>8, <1>9, <1>10 DEF LabelsOK

-------------------------------------------------------------------------------
(* The labels of two parts.                                                 *)

LEMMA PartsType ==
    ASSUME policy \in Policy, pane \in Pane, pane.directory # <<>>, BothParts,
           NEW c \in 1..Len(Command), NEW d \in 1..Len(Directory)
    PROVE  /\ Parts(c, d) \in Text
           /\ Range(Parts(c, d)) \subseteq
                Range(Command) \cup Range(policy.separator) \cup Range(Directory)
           /\ \A size \in Measures :
                Total(size, Parts(c, d))
                  = Total(size, SubSeq(Command, 1, c)) + Total(size, policy.separator)
                      + Total(size, SubSeq(Directory, Len(Directory) + 1 - d, Len(Directory)))
  <1> DEFINE C == SubSeq(Command, 1, c)
             D == SubSeq(Directory, Len(Directory) + 1 - d, Len(Directory))
  <1>1. /\ Command \in Text /\ Len(Command) \in Nat
        /\ Directory \in Text /\ Len(Directory) \in Nat
    BY CommandType, DirectoryType DEF BothParts
  <1>2. /\ c \in Nat /\ c <= Len(Command) /\ d \in Nat /\ d <= Len(Directory)
    BY <1>1
  <1>3. C \in Text /\ Range(C) \subseteq Range(Command)
    BY <1>1, <1>2, PrefixIsText
  <1>4. D \in Text /\ Range(D) \subseteq Range(Directory)
    BY <1>1, <1>2, SuffixIsText
  <1>5. Parts(c, d) = Compose(C, D)
    BY DEF Parts
  <1> HIDE DEF C, D
  <1>6. /\ Compose(C, D) \in Text
        /\ \A size \in Measures :
             Total(size, Compose(C, D))
               = Total(size, C) + Total(size, policy.separator) + Total(size, D)
        /\ Range(Compose(C, D)) \subseteq Range(C) \cup Range(policy.separator) \cup Range(D)
    BY <1>3, <1>4, ComposeType
  <1>7. Range(Compose(C, D)) \subseteq
          Range(Command) \cup Range(policy.separator) \cup Range(Directory)
    BY <1>3, <1>4, <1>6
  <1> QED
    BY <1>5, <1>6, <1>7 DEF C, D

LEMMA FewerFit ==
    ASSUME policy \in Policy, pane \in Pane, pane.directory # <<>>, BothParts,
           NEW c \in 1..Len(Command), NEW d \in 1..Len(Directory),
           NEW m \in 1..c, NEW n \in 1..d, Fits(Parts(c, d))
    PROVE  Fits(Parts(m, n))
  <1>1. /\ Command \in Text /\ Len(Command) \in Nat
        /\ Directory \in Text /\ Len(Directory) \in Nat
    BY CommandType, DirectoryType DEF BothParts
  <1>2. /\ m \in 1..Len(Command) /\ n \in 1..Len(Directory)
        /\ m \in Nat /\ c \in Nat /\ m <= c /\ c <= Len(Command)
        /\ n \in Nat /\ d \in Nat /\ n <= d /\ d <= Len(Directory)
    BY <1>1
  <1>3. Parts(c, d) \in Text /\ Parts(m, n) \in Text
    BY <1>2, PartsType
  <1>4. ASSUME NEW size \in Measures
        PROVE  Total(size, Parts(m, n)) <= Total(size, Parts(c, d))
    <2> DEFINE S(k) == SubSeq(Command, 1, k)
               E(k) == SubSeq(Directory, Len(Directory) + 1 - k, Len(Directory))
    <2>1. Total(size, S(m)) <= Total(size, S(c))
      BY <1>1, <1>2, PrefixesGrow
    <2>2. Total(size, E(n)) <= Total(size, E(d))
      BY <1>1, <1>2, SuffixesGrow
    <2>3. S(m) \in Text /\ S(c) \in Text
      <3>1. m <= Len(Command)
        BY <1>2
      <3> QED
        BY <1>1, <1>2, <3>1, PrefixIsText
    <2>4. E(n) \in Text /\ E(d) \in Text
      <3>1. n <= Len(Directory)
        BY <1>2
      <3> QED
        BY <1>1, <1>2, <3>1, SuffixIsText
    <2>5. policy.separator \in Text
      BY DEF Policy
    <2>6. Total(size, Parts(c, d))
            = Total(size, S(c)) + Total(size, policy.separator) + Total(size, E(d))
      BY PartsType
    <2>7. Total(size, Parts(m, n))
            = Total(size, S(m)) + Total(size, policy.separator) + Total(size, E(n))
      BY <1>2, PartsType
    <2> HIDE DEF S, E
    <2>8. /\ Total(size, S(m)) \in Nat /\ Total(size, S(c)) \in Nat
          /\ Total(size, E(n)) \in Nat /\ Total(size, E(d)) \in Nat
          /\ Total(size, policy.separator) \in Nat
      BY <2>3, <2>4, <2>5, TotalIsUpto
    <2> QED
      BY <2>1, <2>2, <2>6, <2>7, <2>8
  <1> QED
    BY <1>3, <1>4, SmallerFits

LEMMA ShownIsParts ==
    ASSUME policy \in Policy, pane \in Pane, pane.directory # <<>>, BothParts
    PROVE  /\ \A g : g.start \in 1..Len(Directory) =>
                       Width(g) \in 1..Len(Directory) /\ Shown(g) = Parts(g.commands, Width(g))
           /\ Compose(Command, Directory) = Parts(Len(Command), Len(Directory))
  <1>1. /\ Command \in Text /\ Len(Command) \in Nat \ {0}
        /\ Directory \in Text /\ Len(Directory) \in Nat \ {0}
    BY CommandType, DirectoryType DEF BothParts
  <1>2. ASSUME NEW g, g.start \in 1..Len(Directory)
        PROVE  Width(g) \in 1..Len(Directory) /\ Shown(g) = Parts(g.commands, Width(g))
    <2>1. Width(g) \in 1..Len(Directory) /\ Len(Directory) + 1 - Width(g) = g.start
      BY <1>1, <1>2 DEF Width
    <2> QED
      BY <2>1 DEF Shown, Parts, DirectoryEnd
  <1>3. Compose(Command, Directory) = Parts(Len(Command), Len(Directory))
    <2>1. Len(Directory) + 1 - Len(Directory) = 1
      BY <1>1
    <2>2. SubSeq(Command, 1, Len(Command)) = Command
      BY <1>1, SubSeqFull DEF Text
    <2>3. SubSeq(Directory, 1, Len(Directory)) = Directory
      BY <1>1, SubSeqFull DEF Text
    <2> QED
      BY <2>1, <2>2, <2>3 DEF Parts
  <1> QED
    BY <1>2, <1>3

-------------------------------------------------------------------------------
(* Each step that decides a label decides a right one.                      *)

(* A size of a label of two parts that is as large as it gets, and fair.    *)
BestSize(s) ==
    /\ \A t \in Sizes : t # s /\ t[1] >= s[1] /\ t[2] >= s[2] => ~Fits(Parts(t[1], t[2]))
    /\ s[1] > s[2] + 1 /\ s[2] < Len(Directory) => ~Fits(Parts(s[2] + 1, s[2] + 1))
    /\ s[2] > s[1] /\ s[1] < Len(Command) => ~Fits(Parts(s[1] + 1, s[1]))

GoodLabel(text) ==
    /\ text \in Text /\ Fits(text)
    /\ Contextual /\ SignificantCommand # None =>
         Range(text) \subseteq Range(Command) \cup Range(policy.separator)
                                \cup (IF Directory = None THEN {} ELSE Range(Directory))
    /\ BothParts =>
         IF Fits(Parts(1, 1)) THEN \E s \in Sizes : text = Parts(s[1], s[2]) /\ BestSize(s)
         ELSE IsPrefix(text, IF DirectoryFirst THEN Directory ELSE Command)

LEMMA Decided ==
    ASSUME NEW text, Decide(text), text = None \/ GoodLabel(text)
    PROVE  LabelsOK'
  <1>1. policy' = policy /\ pane' = pane /\ phase' = "done" /\ label' = text
    BY DEF Decide
  <1>2. Sizes' = Sizes /\ Fits(Parts(1, 1))' = Fits(Parts(1, 1)) /\ BothParts' = BothParts
    BY <1>1, SameView DEF Sizes
  <1>3. CASE text = None
    BY <1>1, <1>3 DEF LabelsOK, LabelFits, WholeGraphemes, ShowsBothEnds, NothingToSpare,
                      SidesGrowInTurn, Done
  <1>4. CASE GoodLabel(text)
    <2>1. LabelFits'
      BY <1>1, <1>4 DEF GoodLabel, LabelFits, Fits
    <2>2. WholeGraphemes'
      BY <1>1, <1>4, SameView DEF GoodLabel, WholeGraphemes
    <2>3. CASE ~BothParts
      BY <1>2, <2>1, <2>2, <2>3 DEF LabelsOK, ShowsBothEnds, NothingToSpare, SidesGrowInTurn
    <2>4. CASE BothParts /\ ~Fits(Parts(1, 1))
      <3>1. IsPrefix(text, IF DirectoryFirst THEN Directory ELSE Command)
        BY <1>4, <2>4 DEF GoodLabel
      <3>2. IsPrefix(label, IF DirectoryFirst THEN Directory ELSE Command)'
        BY <1>1, <3>1, SameView DEF IsPrefix
      <3>3. ShowsBothEnds'
        BY <1>2, <2>4, <3>2 DEF ShowsBothEnds
      <3> QED
        BY <1>2, <2>1, <2>2, <2>4, <3>3 DEF LabelsOK, NothingToSpare, SidesGrowInTurn
    <2>5. CASE BothParts /\ Fits(Parts(1, 1))
      <3>1. PICK s \in Sizes : text = Parts(s[1], s[2]) /\ BestSize(s)
        BY <1>4, <2>5 DEF GoodLabel
      <3>2. /\ (label = Parts(s[1], s[2]))' /\ s \in Sizes'
            /\ s \in Splits'
        BY <1>1, <1>2, <3>1, SameView DEF Splits
      <3>3. ShowsBothEnds'
        BY <1>2, <2>5, <3>2 DEF ShowsBothEnds
      <3>4. (\A t \in Sizes : t # s /\ t[1] >= s[1] /\ t[2] >= s[2] => ~Fits(Parts(t[1], t[2])))'
        BY <1>1, <1>2, <3>1, SameView DEF BestSize
      <3>5. NothingToSpare'
        BY <3>2, <3>4 DEF NothingToSpare
      <3>6. (/\ s[1] > s[2] + 1 /\ s[2] < Len(Directory) => ~Fits(Parts(s[2] + 1, s[2] + 1))
             /\ s[2] > s[1] /\ s[1] < Len(Command) => ~Fits(Parts(s[1] + 1, s[1])))'
        BY <1>1, <3>1, SameView DEF BestSize
      <3>7. SidesGrowInTurn'
        BY <3>2, <3>6 DEF SidesGrowInTurn
      <3> QED
        BY <2>1, <2>2, <3>3, <3>5, <3>7 DEF LabelsOK
    <2> QED
      BY <2>3, <2>4, <2>5
  <1> QED
    BY <1>3, <1>4

LEMMA DecidedType ==
    ASSUME LabelerTypeOK, NEW text, Decide(text), text = None \/ GoodLabel(text)
    PROVE  LabelerTypeOK' /\ GrowthOK'
  BY DEF LabelerTypeOK, Decide, GoodLabel, GrowthOK

LEMMA DirectoryLabel ==
    ASSUME LabelerTypeOK, PresentDirectory
    PROVE  LabelerTypeOK' /\ GrowthOK' /\ LabelsOK'
  <1>1. policy \in Policy /\ pane \in Pane /\ pane.directory # <<>> /\ SignificantCommand = None
    BY DEF LabelerTypeOK, PresentDirectory, Presents
  <1> DEFINE text == IF Directory = None THEN None ELSE TruncateFinal(Directory)
  <1>2. Decide(text)
    BY DEF PresentDirectory
  <1>3. text = None \/ GoodLabel(text)
    <2>1. CASE Directory # None
      <3>1. Directory \in Text
        BY <1>1, <2>1, DirectoryType
      <3>2. TruncateFinal(Directory) \in Text /\ Fits(TruncateFinal(Directory))
        BY <1>1, <3>1, TruncateFinalFits
      <3> QED
        BY <1>1, <2>1, <3>2 DEF GoodLabel, BothParts
    <2> QED
      BY <2>1
  <1> HIDE DEF text
  <1> QED
    BY <1>2, <1>3, Decided, DecidedType

LEMMA PrefixLabel ==
    ASSUME policy \in Policy, NEW text \in Text
    PROVE  /\ TruncateGraphemePrefix(text) \in Text /\ Fits(TruncateGraphemePrefix(text))
           /\ Range(TruncateGraphemePrefix(text)) \subseteq Range(text)
           /\ IsPrefix(TruncateGraphemePrefix(text), text)
  <1>1. PICK n \in 0..Len(text) : TruncateGraphemePrefix(text) = SubSeq(text, 1, n)
                                  /\ Fits(SubSeq(text, 1, n))
    BY LongestWhole
  <1>2. n \in Nat /\ n <= Len(text) /\ Len(text) \in Nat
    BY LenProperties DEF Text
  <1> DEFINE s == SubSeq(text, 1, n)
  <1>3. s \in Text /\ Len(s) = n /\ Range(s) \subseteq Range(text)
    BY <1>2, PrefixIsText
  <1>4. IsPrefix(s, text)
    <2> HIDE DEF s
    <2>1. SubSeq(s, 1, Len(s)) = s
      BY <1>3, SubSeqFull DEF Text
    <2>2. SubSeq(text, 1, Len(s)) = s
      BY <1>3 DEF s
    <2> QED
      BY <1>2, <1>3, <2>1, <2>2 DEF IsPrefix
  <1> QED
    BY <1>1, <1>3, <1>4

LEMMA CommandLabel ==
    ASSUME LabelerTypeOK, PresentCommand
    PROVE  LabelerTypeOK' /\ GrowthOK' /\ LabelsOK'
  <1>1. /\ policy \in Policy /\ pane \in Pane /\ pane.directory # <<>>
        /\ SignificantCommand # None
    BY DEF LabelerTypeOK, PresentCommand, Presents
  <1>2. Command \in Text
    BY <1>1, CommandType
  <1>3. CASE ~Contextual /\ Decide(TruncateFinal(Command))
    <2>1. TruncateFinal(Command) \in Text /\ Fits(TruncateFinal(Command))
      BY <1>1, <1>2, TruncateFinalFits
    <2>2. GoodLabel(TruncateFinal(Command))
      BY <1>3, <2>1 DEF GoodLabel, BothParts
    <2> QED
      BY <1>3, <2>2, Decided, DecidedType
  <1>4. CASE Directory = None /\ Decide(TruncateGraphemePrefix(Command))
    <2> DEFINE t == TruncateGraphemePrefix(Command)
    <2>1. t \in Text /\ Fits(t) /\ Range(t) \subseteq Range(Command)
      BY <1>1, <1>2, PrefixLabel
    <2>2. GoodLabel(t)
      BY <1>4, <2>1 DEF GoodLabel, BothParts
    <2> QED
      BY <1>4, <2>2, Decided, DecidedType
  <1> QED
    BY <1>3, <1>4 DEF PresentCommand

(* Both parts whole, the start of a growth, or a part of the first one.     *)
LEMMA ContextLabel ==
    ASSUME LabelerTypeOK, PresentContext
    PROVE  LabelerTypeOK' /\ GrowthOK' /\ LabelsOK'
  <1>1. /\ policy \in Policy /\ pane \in Pane /\ pane.directory # <<>> /\ phase = "present"
        /\ BothParts /\ policy # None /\ label \in Text \cup {None}
    BY DEF LabelerTypeOK, PresentContext, Presents, BothParts
  <1>2. /\ Command \in Text /\ Len(Command) \in Nat \ {0}
        /\ Directory \in Text /\ Len(Directory) \in Nat \ {0}
    BY <1>1, CommandType, DirectoryType DEF BothParts
  <1>3. Minimum.start \in 1..Len(Directory) /\ Minimum.commands = 1 /\ Width(Minimum) = 1
    BY <1>2 DEF Minimum, Width
  <1>4. Shown(Minimum) = Parts(1, 1)
    BY <1>1, <1>3, ShownIsParts
  <1> DEFINE whole == Compose(Command, Directory)
  <1>5. whole = Parts(Len(Command), Len(Directory))
    BY <1>1, ShownIsParts
  <1>6. CASE Fits(whole) /\ Decide(whole)
    <2>1. Fits(Parts(1, 1))
      BY <1>1, <1>2, <1>5, <1>6, FewerFit
    <2>2. /\ whole \in Text
          /\ Range(whole) \subseteq Range(Command) \cup Range(policy.separator) \cup Range(Directory)
      <3>1. Len(Command) \in 1..Len(Command) /\ Len(Directory) \in 1..Len(Directory)
        BY <1>2
      <3> HIDE DEF whole
      <3> QED
        BY <1>1, <1>5, <3>1, PartsType
    <2> DEFINE s == <<Len(Command), Len(Directory)>>
    <2>3. s \in Sizes /\ whole = Parts(s[1], s[2])
      BY <1>2, <1>5 DEF Sizes
    <2>4. BestSize(s)
      BY <1>2 DEF BestSize, Sizes
    <2>5. GoodLabel(whole)
      <3> HIDE DEF whole, s
      <3> QED
        BY <1>1, <1>6, <2>1, <2>2, <2>3, <2>4 DEF GoodLabel, BothParts
    <2> HIDE DEF whole
    <2> QED
      BY <1>6, <2>5, Decided, DecidedType
  <1>7. CASE /\ ~Fits(Shown(Minimum))
             /\ Decide(TruncateGraphemePrefix(IF DirectoryFirst THEN Directory ELSE Command))
    <2> DEFINE first == IF DirectoryFirst THEN Directory ELSE Command
               t     == TruncateGraphemePrefix(first)
    <2>1. first \in Text /\ Range(first) \subseteq Range(Command) \cup Range(Directory)
      BY <1>2
    <2>2. t \in Text /\ Fits(t) /\ Range(t) \subseteq Range(first) /\ IsPrefix(t, first)
      <3> HIDE DEF first
      <3> QED
        BY <1>1, <2>1, PrefixLabel
    <2>3. GoodLabel(t)
      <3>1. ~Fits(Parts(1, 1))
        BY <1>4, <1>7
      <3>2. Range(t) \subseteq Range(Command) \cup Range(policy.separator) \cup Range(Directory)
        BY <2>1, <2>2
      <3> HIDE DEF t
      <3> QED
        BY <1>1, <2>2, <3>1, <3>2 DEF GoodLabel, BothParts
    <2> QED
      BY <1>7, <2>3, Decided, DecidedType
  <1>8. CASE /\ Fits(Shown(Minimum)) /\ phase' = "grow" /\ growth' = Minimum
             /\ UNCHANGED <<policy, pane, label>>
    <2>1. /\ Command' = Command /\ Directory' = Directory /\ BothParts'
          /\ Fits(Parts(1, 1))'
      BY <1>1, <1>4, <1>8, SameView
    <2>2. LabelerTypeOK'
      BY <1>1, <1>2, <1>8, <2>1 DEF LabelerTypeOK, Minimum, Directory
    <2>3. Width(growth)' = 1 /\ growth'.commands = 1 /\ growth'.prefer = "command"
      BY <1>2, <1>8, <2>1 DEF Width, Minimum
    <2>4. GrowthOK'
      BY <1>1, <1>2, <1>8, <2>1, <2>3 DEF GrowthOK
    <2>5. LabelsOK'
      BY <1>8 DEF LabelsOK, LabelFits, WholeGraphemes, ShowsBothEnds, NothingToSpare,
                  SidesGrowInTurn, Done
    <2> QED
      BY <2>2, <2>4, <2>5
  <1> QED
    BY <1>6, <1>7, <1>8 DEF PresentContext

-------------------------------------------------------------------------------
(* The loop.                                                                *)

(* What the guards of a round mean, in graphemes.                           *)
LEMMA GrowthView ==
    ASSUME LabelerTypeOK, GrowthOK, phase = "grow"
    PROVE  /\ policy \in Policy /\ pane \in Pane /\ pane.directory # <<>> /\ BothParts
           /\ Len(Command) \in Nat \ {0} /\ Len(Directory) \in Nat \ {0}
           /\ growth \in [commands: 1..Len(Command), start: 1..Len(Directory),
                          prefer: {"command", "directory"}]
           /\ growth.commands \in 1..Len(Command)
           /\ Width(growth) \in 1..Len(Directory)
           /\ Shown(growth) = Parts(growth.commands, Width(growth))
           /\ CanGrow("command") <=>
                /\ growth.commands < Len(Command)
                /\ Fits(Parts(growth.commands + 1, Width(growth)))
           /\ CanGrow("directory") <=>
                /\ Width(growth) < Len(Directory)
                /\ Fits(Parts(growth.commands, Width(growth) + 1))
  <1>1. /\ policy \in Policy /\ pane \in Pane /\ pane.directory # <<>> /\ BothParts
        /\ growth \in [commands: 1..Len(Command), start: 1..Len(Directory),
                       prefer: {"command", "directory"}]
    BY DEF LabelerTypeOK, GrowthOK, Directory
  <1>2. Len(Command) \in Nat \ {0} /\ Len(Directory) \in Nat \ {0}
    BY <1>1, CommandType, DirectoryType DEF BothParts
  <1>3. growth.commands \in 1..Len(Command) /\ growth.start \in 1..Len(Directory)
    BY <1>1
  <1>4. /\ Width(growth) \in 1..Len(Directory)
        /\ Shown(growth) = Parts(growth.commands, Width(growth))
    BY <1>1, <1>3, ShownIsParts
  <1>5. CanGrow("command") <=> /\ growth.commands < Len(Command)
                               /\ Fits(Parts(growth.commands + 1, Width(growth)))
    <2> DEFINE g == Grown("command")
    <2>1. g.start = growth.start /\ g.commands = growth.commands + 1
      BY <1>1 DEF Grown
    <2> HIDE DEF g
    <2>2. Shown(g) = Parts(growth.commands + 1, Width(growth))
      BY <1>1, <1>3, <2>1, ShownIsParts DEF Width
    <2> QED
      BY <2>2 DEF CanGrow, g
  <1>6. CanGrow("directory") <=> /\ Width(growth) < Len(Directory)
                                 /\ Fits(Parts(growth.commands, Width(growth) + 1))
    <2> DEFINE g == Grown("directory")
    <2>1. g.start = growth.start - 1 /\ g.commands = growth.commands
      BY <1>1 DEF Grown
    <2>2. Width(growth) < Len(Directory) <=> growth.start > 1
      BY <1>2, <1>3 DEF Width
    <2> HIDE DEF g
    <2>3. growth.start > 1 => Shown(g) = Parts(growth.commands, Width(growth) + 1)
      <3> SUFFICES ASSUME growth.start > 1
                   PROVE  Shown(g) = Parts(growth.commands, Width(growth) + 1)
        OBVIOUS
      <3>1. g.start \in 1..Len(Directory) /\ Width(g) = Width(growth) + 1
        BY <1>2, <1>3, <2>1 DEF Width
      <3> QED
        BY <1>1, <2>1, <3>1, ShownIsParts
    <2> QED
      BY <2>2, <2>3 DEF CanGrow, g
  <1> QED
    BY <1>1, <1>2, <1>3, <1>4, <1>5, <1>6

LEMMA RoundKeeps ==
    ASSUME LabelerTypeOK, GrowthOK, Grow
    PROVE  LabelerTypeOK' /\ GrowthOK' /\ LabelsOK'
  <1> DEFINE c == growth.commands
             d == Width(growth)
  <1>1. /\ phase = "grow" /\ phase' = "grow"
        /\ policy' = policy /\ pane' = pane /\ label' = label
    BY DEF Grow
  <1>2. /\ policy \in Policy /\ pane \in Pane /\ pane.directory # <<>> /\ BothParts
        /\ Len(Command) \in Nat \ {0} /\ Len(Directory) \in Nat \ {0}
        /\ growth \in [commands: 1..Len(Command), start: 1..Len(Directory),
                       prefer: {"command", "directory"}]
        /\ c \in 1..Len(Command) /\ d \in 1..Len(Directory)
    BY <1>1, GrowthView
  <1>3. /\ Command' = Command /\ Directory' = Directory /\ BothParts' = BothParts
        /\ \A m, n : Fits(Parts(m, n))' = Fits(Parts(m, n))
    BY <1>1, SameView
  <1>4. /\ policy # None
        /\ growth.prefer = "command" <=> c <= d
        /\ c > d + 1 /\ d < Len(Directory) => ~Fits(Parts(d + 1, d + 1))
        /\ d > c /\ c < Len(Command) => ~Fits(Parts(c + 1, c))
    BY <1>1 DEF GrowthOK
  <1>5. LabelsOK'
    BY <1>1 DEF LabelsOK, LabelFits, WholeGraphemes, ShowsBothEnds, NothingToSpare,
                SidesGrowInTurn, Done
  <1>6. CASE Grows("command") /\ growth' = Grown("command")
    <2>1. growth' = [growth EXCEPT !.commands = @ + 1, !.prefer = "directory"]
      BY <1>6 DEF Grown
    <2>2. /\ c < Len(Command) /\ Fits(Parts(c + 1, d))
          /\ growth.prefer = "command" \/ ~(d < Len(Directory) /\ Fits(Parts(c, d + 1)))
      BY <1>1, <1>6, GrowthView DEF Grows, Other
    <2>3. /\ growth' \in [commands: 1..Len(Command), start: 1..Len(Directory),
                          prefer: {"command", "directory"}]
          /\ growth'.commands = c + 1 /\ growth'.start = growth.start
          /\ growth'.prefer = "directory"
      <3>1. growth' = [commands |-> c + 1, start |-> growth.start, prefer |-> "directory"]
        BY <1>2, <2>1
      <3>2. c + 1 \in 1..Len(Command) /\ growth.start \in 1..Len(Directory)
        BY <1>2, <2>2
      <3> QED
        BY <3>1, <3>2
    <2>4. Width(growth)' = d
      BY <1>3, <2>3 DEF Width
    <2>5. LabelerTypeOK'
      BY <1>1, <1>3, <2>3 DEF LabelerTypeOK, Directory
    <2> HIDE DEF d
    <2>6. c + 1 > d
      <3>1. CASE c <= d /\ c + 1 <= d
        (* Then the command would have had no room. *)
        <4>1. ~Fits(Parts(c + 1, c))
          BY <1>2, <1>4, <2>2, <3>1
        <4>2. Fits(Parts(c + 1, c))
          <5>1. c + 1 \in 1..Len(Command) /\ c + 1 \in 1..(c + 1) /\ c \in 1..d
            BY <1>2, <2>2, <3>1
          <5> QED
            BY <1>2, <2>2, <5>1, FewerFit
        <4> QED
          BY <4>1, <4>2
      <3>2. CASE c > d
        BY <1>2, <3>2
      <3> QED
        BY <1>2, <3>1, <3>2
    <2>7. c + 1 > d + 1 /\ d < Len(Directory) => ~Fits(Parts(d + 1, d + 1))
      <3> SUFFICES ASSUME c + 1 > d + 1, d < Len(Directory)
                   PROVE  ~Fits(Parts(d + 1, d + 1))
        OBVIOUS
      <3>1. growth.prefer # "command" /\ ~Fits(Parts(c, d + 1))
        BY <1>2, <1>4, <2>2
      <3>2. CASE c > d + 1
        BY <1>4, <3>2
      <3>3. CASE c = d + 1
        BY <3>1, <3>3
      <3> QED
        BY <1>2, <3>2, <3>3
    <2>8. ~(d > c + 1)
      BY <1>2, <2>6
    <2>9. GrowthOK'
      BY <1>1, <1>2, <1>3, <1>4, <2>2, <2>3, <2>4, <2>6, <2>7, <2>8 DEF GrowthOK
    <2> QED
      BY <1>5, <2>5, <2>9
  <1>7. CASE Grows("directory") /\ growth' = Grown("directory")
    <2>1. growth' = [growth EXCEPT !.start = @ - 1, !.prefer = "command"]
      BY <1>7 DEF Grown
    <2>2. /\ d < Len(Directory) /\ Fits(Parts(c, d + 1))
          /\ growth.prefer = "directory" \/ ~(c < Len(Command) /\ Fits(Parts(c + 1, d)))
      BY <1>1, <1>7, GrowthView DEF Grows, Other
    <2>3. growth.start > 1
      BY <1>2, <2>2 DEF Width
    <2>4. /\ growth' \in [commands: 1..Len(Command), start: 1..Len(Directory),
                          prefer: {"command", "directory"}]
          /\ growth'.commands = c /\ growth'.start = growth.start - 1
          /\ growth'.prefer = "command"
      <3>1. growth' = [commands |-> c, start |-> growth.start - 1, prefer |-> "command"]
        BY <1>2, <2>1
      <3>2. growth.start - 1 \in 1..Len(Directory)
        BY <1>2, <2>3
      <3> QED
        BY <1>2, <3>1, <3>2
    <2>5. Width(growth)' = d + 1
      BY <1>2, <1>3, <2>4 DEF Width
    <2>6. LabelerTypeOK'
      BY <1>1, <1>3, <2>4 DEF LabelerTypeOK, Directory
    <2> HIDE DEF d
    <2>7. c <= d + 1
      <3>1. CASE c > d + 1
        <4>1. ~Fits(Parts(d + 1, d + 1))
          BY <1>4, <2>2, <3>1
        <4>2. Fits(Parts(d + 1, d + 1))
          <5>1. d + 1 \in 1..Len(Directory) /\ d + 1 \in 1..(d + 1) /\ d + 1 \in 1..c
            BY <1>2, <2>2, <3>1
          <5> QED
            BY <1>2, <2>2, <5>1, FewerFit
        <4> QED
          BY <4>1, <4>2
      <3> QED
        BY <1>2, <3>1
    <2>8. ~(c > (d + 1) + 1)
      BY <1>2, <2>7
    <2>9. d + 1 > c /\ c < Len(Command) => ~Fits(Parts(c + 1, c))
      <3> SUFFICES ASSUME d + 1 > c, c < Len(Command)
                   PROVE  ~Fits(Parts(c + 1, c))
        OBVIOUS
      <3>1. growth.prefer = "command" /\ ~Fits(Parts(c + 1, d))
        BY <1>2, <1>4, <2>2
      <3>2. CASE d > c
        BY <1>4, <3>2
      <3>3. CASE d = c
        BY <3>1, <3>3
      <3> QED
        BY <1>2, <3>2, <3>3
    <2>10. GrowthOK'
      BY <1>1, <1>2, <1>3, <1>4, <2>2, <2>4, <2>5, <2>7, <2>8, <2>9 DEF GrowthOK
    <2> QED
      BY <1>5, <2>6, <2>10
  <1> QED
    BY <1>6, <1>7 DEF Grow

LEMMA StopLabel ==
    ASSUME LabelerTypeOK, GrowthOK, Stop
    PROVE  LabelerTypeOK' /\ GrowthOK' /\ LabelsOK'
  <1> DEFINE c == growth.commands
             d == Width(growth)
             s == <<c, d>>
  <1>1. phase = "grow" /\ Decide(Shown(growth))
    BY DEF Stop
  <1>2. /\ policy \in Policy /\ pane \in Pane /\ pane.directory # <<>> /\ BothParts
        /\ Len(Command) \in Nat \ {0} /\ Len(Directory) \in Nat \ {0}
        /\ growth.prefer \in {"command", "directory"}
        /\ c \in 1..Len(Command) /\ d \in 1..Len(Directory)
        /\ Shown(growth) = Parts(c, d)
    BY <1>1, GrowthView
  <1>3. ~CanGrow("command") /\ ~CanGrow("directory")
    <2>1. ~Grows("command") /\ ~Grows("directory")
      BY DEF Stop
    <2> QED
      BY <1>2, <2>1 DEF Grows, Other
  <1>4. /\ c < Len(Command) => ~Fits(Parts(c + 1, d))
        /\ d < Len(Directory) => ~Fits(Parts(c, d + 1))
    BY <1>1, <1>3, GrowthView
  <1>5. /\ Fits(Parts(c, d))
        /\ c > d + 1 /\ d < Len(Directory) => ~Fits(Parts(d + 1, d + 1))
        /\ d > c /\ c < Len(Command) => ~Fits(Parts(c + 1, c))
    BY <1>1 DEF GrowthOK
  <1> HIDE DEF c, d
  <1>6. ASSUME NEW t \in Sizes, t # s, t[1] >= s[1], t[2] >= s[2]
        PROVE  ~Fits(Parts(t[1], t[2]))
    <2>1. PICK m \in 1..Len(Command), n \in 1..Len(Directory) : t = <<m, n>>
      BY DEF Sizes
    <2>2. m >= c /\ n >= d /\ (m # c \/ n # d)
      BY <1>6, <2>1
    <2>3. CASE m > c
      <3>1. c < Len(Command) /\ c + 1 \in 1..m /\ d \in 1..n
        BY <1>2, <2>2, <2>3
      <3> QED
        BY <1>2, <1>4, <2>1, <3>1, FewerFit
    <2>4. CASE n > d
      <3>1. d < Len(Directory) /\ d + 1 \in 1..n /\ c \in 1..m
        BY <1>2, <2>2, <2>4
      <3> QED
        BY <1>2, <1>4, <2>1, <3>1, FewerFit
    <2> QED
      BY <1>2, <2>2, <2>3, <2>4
  <1>7. s \in Sizes /\ s[1] = c /\ s[2] = d
    BY <1>2 DEF Sizes
  <1> HIDE DEF s
  <1>8. BestSize(s)
    BY <1>5, <1>6, <1>7 DEF BestSize
  <1>9. Fits(Parts(1, 1))
    <2>1. 1 \in 1..c /\ 1 \in 1..d
      BY <1>2
    <2> QED
      BY <1>2, <1>5, <2>1, FewerFit
  <1>10. GoodLabel(Shown(growth))
    <2>1. /\ Parts(c, d) \in Text
          /\ Range(Parts(c, d)) \subseteq
               Range(Command) \cup Range(policy.separator) \cup Range(Directory)
      BY <1>2, PartsType
    <2> QED
      BY <1>2, <1>5, <1>7, <1>8, <1>9, <2>1 DEF GoodLabel, BothParts
  <1> QED
    BY <1>1, <1>10, Decided, DecidedType

LEMMA ConfiguredType ==
    ASSUME NEW r \in Resolved, r.labels.maxLength # None => r.labels.maxLength \in 1..MaxMaxLength
    PROVE  Configured(r) \in Policy
  <1> DEFINE l == r.labels
             format == Or(l.format, "directory_and_command")
             separator == Or(l.separator, DefaultSeparator[format])
             length == Or(l.maxLength, DefaultLength)
             prefix == [c \in Candidates |->
                          IF r.prefixes[c] = None THEN <<>> ELSE PrefixOf[r.prefixes[c]]]
  <1>1. /\ l.maxLength \in Nat \cup {None} /\ l.maxWidth \in Nat \cup {None}
        /\ l.format \in Formats \cup {None} /\ l.separator \in Text \cup {None}
        /\ r.prefixes \in [Candidates -> 0..N \cup {None}]
    BY DEF Resolved, Labels
  <1>2. format \in Formats
    BY <1>1 DEF Or, Formats
  <1>3. separator \in Text
    <2> HIDE DEF format
    <2> QED
      BY <1>1, <1>2, PoliciesConstants DEF Or
  <1>4. length \in Nat \ {0}
    BY <1>1, PoliciesConstants, ProfilesConstants DEF Or
  <1>5. prefix \in [Candidates -> Text]
    BY <1>1, EmptyText, PoliciesConstants
  <1>6. BuiltinSignificant \cup Listed(r.significant) \in SUBSET Words
        /\ Listed(r.ignored) \in SUBSET Words
    BY PolicyConstants DEF Listed
  <1>7. Configured(r) = [significant |-> BuiltinSignificant \cup Listed(r.significant),
                         ignored |-> Listed(r.ignored), prefix |-> prefix,
                         maxLength |-> length, maxWidth |-> l.maxWidth,
                         format |-> format, separator |-> separator]
    BY DEF Configured
  <1> HIDE DEF prefix, length, format, separator
  <1> QED
    BY <1>1, <1>2, <1>3, <1>4, <1>5, <1>6, <1>7 DEF Policy

-------------------------------------------------------------------------------
(* Every step of a runtime.                                                 *)

LEMMA InitOK == Init => PoliciesInv
  <1> SUFFICES ASSUME Init PROVE PoliciesInv
    OBVIOUS
  <1>1. ProfilesTypeOK
    <2>1. <<>> \in Seq(0..N) /\ DOMAIN <<>> = {}
      BY EmptySeq
    <2> QED
      BY <2>1 DEF Init, ProfilesInit, StartLoading, ProfilesTypeOK, IsInjective
  <1>2. LabelerTypeOK
    BY DEF Init, LabelerInit, LabelerTypeOK
  <1>3. LoadsFirst /\ LoaderOK /\ GrowthOK
    BY DEF Init, ProfilesInit, StartLoading, LabelerInit, LoadsFirst, LoaderOK, GrowthOK
  <1>4. LabelsOK
    BY DEF Init, LabelerInit, LabelsOK, LabelFits, WholeGraphemes, ShowsBothEnds, NothingToSpare,
           SidesGrowInTurn, Done
  <1> QED
    BY <1>1, <1>2, <1>3, <1>4 DEF PoliciesInv, TypeOK

LEMMA LoadKeeps ==
    ASSUME PoliciesInv, Load
    PROVE  PoliciesInv'
  <1>1. outcome = "loading"
    BY DEF Load, LoadStep, ReadFile, Resolve, Descend, Return, Compile
  <1>2. /\ LabelerTypeOK /\ phase = "present" /\ phase' = "present"
        /\ pane' = pane /\ growth' = growth /\ label' = label /\ growth = None
    BY <1>1 DEF PoliciesInv, TypeOK, LoadsFirst, Load, LabelerTypeOK
  <1>3. /\ ProfilesTypeOK' /\ LoaderOK'
        /\ outcome' = "valid" =>
             /\ resolved' \in Resolved
             /\ resolved'.labels.maxLength # None => resolved'.labels.maxLength \in 1..MaxMaxLength
    BY LoaderStep DEF PoliciesInv, TypeOK, Load
  <1>4. policy' = None \/ policy' \in Policy
    <2>1. CASE outcome' = "valid"
      <3>1. PICK r \in Resolved :
              /\ r = resolved'
              /\ r.labels.maxLength # None => r.labels.maxLength \in 1..MaxMaxLength
        BY <1>3, <2>1
      <3>2. Configured(r) \in Policy
        BY <3>1, ConfiguredType
      <3>3. policy' = Configured(r)
        BY <2>1, <3>1 DEF Load, Activate
      <3> QED
        BY <3>2, <3>3
    <2>2. CASE outcome' # "valid"
      BY <1>2, <2>2 DEF Load, Activate, LabelerTypeOK
    <2> QED
      BY <2>1, <2>2
  <1>5. LabelerTypeOK'
    BY <1>2, <1>4 DEF LabelerTypeOK
  <1>6. LoadsFirst' /\ GrowthOK'
    BY <1>2 DEF LoadsFirst, GrowthOK
  <1>7. LabelsOK'
    BY <1>2 DEF LabelsOK, LabelFits, WholeGraphemes, ShowsBothEnds, NothingToSpare,
                SidesGrowInTurn, Done
  <1> QED
    BY <1>3, <1>5, <1>6, <1>7 DEF PoliciesInv, TypeOK

LEMMA PresentKeeps ==
    ASSUME PoliciesInv, Present
    PROVE  PoliciesInv'
  <1>1. LabelerTypeOK /\ GrowthOK /\ ProfilesTypeOK /\ LoaderOK
    BY DEF PoliciesInv, TypeOK
  <1>2. outcome # "loading" /\ UNCHANGED profilesVars
    BY DEF Present
  <1>3. ProfilesTypeOK' /\ LoaderOK' /\ LoadsFirst'
    BY <1>1, <1>2 DEF profilesVars, ProfilesTypeOK, LoaderOK, LoadsFirst
  <1>4. LabelerTypeOK' /\ GrowthOK' /\ LabelsOK'
    BY <1>1, DirectoryLabel, CommandLabel, ContextLabel, RoundKeeps, StopLabel
       DEF Present, PresentStep
  <1> QED
    BY <1>3, <1>4 DEF PoliciesInv, TypeOK

LEMMA ReloadKeeps ==
    ASSUME PoliciesInv, Reload
    PROVE  PoliciesInv'
  <1>1. /\ ProfilesTypeOK /\ LabelerTypeOK
        /\ todo' = None /\ call' = None /\ chain' = <<>> /\ resolved' = None
        /\ outcome' = "loading" /\ phase' = "present"
        /\ file' = file /\ policy' = policy /\ pane' = pane /\ growth' = growth /\ label' = label
    BY DEF PoliciesInv, TypeOK, Reload
  <1>2. growth = None
    <2>1. CASE policy = None
      BY <1>1, <2>1 DEF PoliciesInv, GrowthOK, LabelerTypeOK
    <2>2. CASE phase = "done"
      BY <1>1, <2>2 DEF LabelerTypeOK
    <2> QED
      BY <2>1, <2>2 DEF Reload
  <1>3. ProfilesTypeOK'
    <2>1. <<>> \in Seq(0..N) /\ DOMAIN <<>> = {}
      BY EmptySeq
    <2> QED
      BY <1>1, <2>1 DEF ProfilesTypeOK, IsInjective
  <1>4. LabelerTypeOK'
    BY <1>1, <1>2 DEF LabelerTypeOK
  <1>5. LoadsFirst' /\ LoaderOK' /\ GrowthOK'
    BY <1>1 DEF LoadsFirst, LoaderOK, GrowthOK
  <1>6. LabelsOK'
    BY <1>1 DEF LabelsOK, LabelFits, WholeGraphemes, ShowsBothEnds, NothingToSpare,
                SidesGrowInTurn, Done
  <1> QED
    BY <1>3, <1>4, <1>5, <1>6 DEF PoliciesInv, TypeOK

LEMMA StutterKeeps ==
    ASSUME PoliciesInv, UNCHANGED vars
    PROVE  PoliciesInv'
  <1>1. /\ UNCHANGED profilesVars /\ policy' = policy /\ pane' = pane /\ phase' = phase
        /\ growth' = growth /\ label' = label
    BY DEF vars, labelerVars
  <1>2. ProfilesTypeOK' /\ LoaderOK' /\ LoadsFirst'
    BY <1>1 DEF profilesVars, PoliciesInv, TypeOK, ProfilesTypeOK, LoaderOK, LoadsFirst
  <1>3. LabelsOK'
    BY <1>1, SameLabels DEF PoliciesInv
  <1>4. Command' = Command /\ Directory' = Directory /\ BothParts' = BothParts
    BY <1>1, SameView
  <1>5. LabelerTypeOK'
    BY <1>1, <1>4 DEF PoliciesInv, TypeOK, LabelerTypeOK
  <1>6. GrowthOK'
    <2> SUFFICES ASSUME phase = "grow" PROVE GrowthOK'
      BY <1>1 DEF GrowthOK
    <2>1. Width(growth)' = Width(growth)
      BY <1>1, <1>4 DEF Width
    <2>2. \A c, d : Fits(Parts(c, d))' = Fits(Parts(c, d))
      BY <1>1, SameView
    <2> QED
      BY <1>1, <1>4, <2>1, <2>2 DEF PoliciesInv, GrowthOK
  <1> QED
    BY <1>2, <1>3, <1>5, <1>6 DEF PoliciesInv, TypeOK

LEMMA NextKeeps == PoliciesInv /\ [Next]_vars => PoliciesInv'
  BY LoadKeeps, PresentKeeps, ReloadKeeps, StutterKeeps DEF Next

(* The invariant holds of every run from any file, policy and pane.         *)
THEOREM PoliciesInvariant == Spec => []PoliciesInv
  BY InitOK, NextKeeps, PTL DEF Spec

(* Every table, chain, policy and label has its type: no profile is met     *)
(* twice on the way up its extends chain, and what is in force is a policy  *)
(* (resolve_profile, compile_policy, LabelPolicy::configured).              *)
THEOREM TypeCorrect == Spec => []TypeOK
  BY PoliciesInvariant, PTL DEF PoliciesInv

(* A label fits in both limits, for any widths of graphemes and prefixes    *)
(* (truncate_final, truncate_grapheme_prefix, present_context).             *)
THEOREM EveryLabelFits == Spec => []LabelFits
  BY PoliciesInvariant, PTL DEF PoliciesInv, LabelsOK

(* A contextual label never cuts a grapheme.                                *)
THEOREM GraphemesStayWhole == Spec => []WholeGraphemes
  BY PoliciesInvariant, PTL DEF PoliciesInv, LabelsOK

(* The two ends are shown whenever they fit, or one part without separator. *)
THEOREM BothEndsAreShown == Spec => []ShowsBothEnds
  BY PoliciesInvariant, PTL DEF PoliciesInv, LabelsOK

(* The loop of present_context stops only where neither side, nor both      *)
(* together, can show more.                                                 *)
THEOREM LabelsAreLargest == Spec => []NothingToSpare
  BY PoliciesInvariant, PTL DEF PoliciesInv, LabelsOK

(* The alternation of present_context is fair to both sides.                *)
THEOREM LabelsAreFair == Spec => []SidesGrowInTurn
  BY PoliciesInvariant, PTL DEF PoliciesInv, LabelsOK

-------------------------------------------------------------------------------
(* What is loaded, and how it comes into force.                             *)

InForceOK == outcome = "valid" => resolved \in Resolved /\ policy = Configured(resolved)

LoadedInv == PoliciesInv /\ JudgedOK /\ InForceOK

LEMMA PresentPolicy == PresentStep => policy' = policy
  BY DEF PresentStep, PresentDirectory, PresentCommand, PresentContext, Grow, Stop, Decide

LEMMA SameForce ==
    ASSUME InForceOK, UNCHANGED <<outcome, resolved, policy>>
    PROVE  InForceOK'
  BY DEF InForceOK, Configured

LEMMA LoadForce ==
    ASSUME LoadedInv, Load
    PROVE  JudgedOK' /\ InForceOK'
  <1>1. ProfilesTypeOK /\ LoaderOK /\ JudgedOK /\ LoadStep
    BY DEF LoadedInv, PoliciesInv, TypeOK, Load
  <1>2. JudgedOK'
    BY <1>1, LoadJudged
  <1>3. outcome' = "valid" => resolved' \in Resolved
    BY <1>1, LoaderStep
  <1>4. outcome' = "valid" => policy' = Configured(resolved')
    BY DEF Load, Activate
  <1> QED
    BY <1>2, <1>3, <1>4 DEF InForceOK

LEMMA NextForce == LoadedInv /\ [Next]_vars => JudgedOK' /\ InForceOK'
  <1> SUFFICES ASSUME LoadedInv, [Next]_vars PROVE JudgedOK' /\ InForceOK'
    OBVIOUS
  <1>1. JudgedOK /\ InForceOK
    BY DEF LoadedInv
  <1>2. CASE Present
    <2>1. policy' = policy /\ UNCHANGED profilesVars
      BY <1>2, PresentPolicy DEF Present
    <2> QED
      BY <1>1, <2>1, SameJudged, SameForce DEF profilesVars
  <1>3. CASE Reload
    BY <1>3 DEF Reload, JudgedOK, InForceOK
  <1>4. CASE UNCHANGED vars
    BY <1>1, <1>4, SameJudged, SameForce DEF vars, profilesVars, labelerVars
  <1> QED
    BY <1>2, <1>3, <1>4, LoadForce DEF Next

LEMMA InitForce == Init => JudgedOK /\ InForceOK
  BY DEF Init, ProfilesInit, StartLoading, JudgedOK, InForceOK

(* The invariant holds whatever the file says and whenever it is loaded.    *)
THEOREM LoadedInvariant == Spec => []LoadedInv
  <1>1. Init => LoadedInv
    BY InitOK, InitForce DEF LoadedInv
  <1>2. LoadedInv /\ [Next]_vars => LoadedInv'
    BY NextKeeps, NextForce DEF LoadedInv
  <1> QED
    BY <1>1, <1>2, PTL DEF Spec

(* A file loads exactly if it is sound, for chains of any length, cycles    *)
(* included (LoadsWhatIsSound; parse_with_home, resolve_profile,            *)
(* merge_profiles, compile_policy).                                         *)
THEOREM SoundFilesLoad == Spec => []LoadsWhatIsSound
  <1>1. LoadedInv => LoadsWhatIsSound
    BY SoundnessJudged DEF LoadedInv
  <1> QED
    BY <1>1, LoadedInvariant, PTL

(* What is loaded is what the chain of the selected profile says, the       *)
(* nearest first (NearestWins; merge_profiles, selected_profile_name).      *)
THEOREM NearestIsLoaded == Spec => []NearestWins
  <1>1. LoadedInv => NearestWins
    BY NearestJudged DEF LoadedInv, PoliciesInv, TypeOK, InForceOK
  <1> QED
    BY <1>1, LoadedInvariant, PTL

LEMMA IgnoredFacts ==
    ASSUME LoadedInv, InForce, SignificantCommand # None
    PROVE  /\ SignificantCommand[1] \notin Ignoreds(Selected)
           /\ CommandOf(pane.processes[SignificantProcess]) \notin Ignoreds(Selected)
  <1>1. /\ ProfilesTypeOK /\ JudgedOK /\ outcome = "valid" /\ file # Absent
        /\ resolved \in Resolved /\ policy = Configured(resolved) /\ pane \in Pane
    BY DEF LoadedInv, PoliciesInv, TypeOK, LabelerTypeOK, InForceOK, InForce
  <1>2. policy.ignored = Ignoreds(Selected)
    <2>1. PICK p \in 0..N : p = Selected
      BY <1>1, LoadedFacts
    <2>2. Listed(resolved.ignored) = Ignoreds(p)
      BY <1>1, <2>1, LoadedFacts, GatheredAll
    <2> QED
      BY <1>1, <2>1, <2>2 DEF Configured
  <1>3. SignificantProcess # 0
    BY DEF SignificantCommand
  <1> DEFINE process == pane.processes[SignificantProcess]
  <1>4. /\ process \in Process /\ CandidateOf(process) # None
        /\ SignificantCommand = CandidateOf(process)
    BY <1>1, <1>3, SelectedProcess DEF SignificantCommand
  <1> HIDE DEF process
  <1>5. process.argv \in Seq(Words) /\ Len(process.argv) \in Nat
    BY <1>4, LenProperties DEF Process
  <1>6. CommandOf(process) \notin policy.ignored
    BY <1>4 DEF CandidateOf
  <1>7. CASE CandidateOf(process) = <<CommandOf(process)>>
    BY <1>2, <1>4, <1>6, <1>7 DEF process
  <1>8. CASE Len(process.argv) >= 2 /\ CandidateOf(process) = SubSeq(process.argv, 1, 2)
    <2>1. process.argv # <<>>
      BY <1>5, <1>8, EmptySeq
    <2>2. CommandOf(process) = process.argv[1]
      BY <2>1 DEF CommandOf
    <2>3. SubSeq(process.argv, 1, 2)[1] = process.argv[1]
      BY <1>5, <1>8
    <2> QED
      BY <1>2, <1>4, <1>6, <1>8, <2>2, <2>3 DEF process
  <1>9. CASE /\ Shim(process.argv)
             /\ CandidateOf(process) = <<NodeRunner[process.argv[2]], process.argv[3]>>
    BY <1>2, <1>4, <1>6, <1>9 DEF Shim, process
  <1> QED
    BY <1>4, <1>7, <1>8, <1>9 DEF CandidateOf

(* No command the selected chain ignores names a pane, whichever way it is  *)
(* run (IgnoredNeverNames; significant_process_label).                      *)
THEOREM IgnoredNames == Spec => []IgnoredNeverNames
  <1>1. LoadedInv => IgnoredNeverNames
    BY IgnoredFacts DEF IgnoredNeverNames
  <1> QED
    BY <1>1, LoadedInvariant, PTL

(* The policy in force changes to that of a sound file or not at all        *)
(* (PolicyIsSound; reload_config).                                          *)
THEOREM PolicyStaysSound == Spec => PolicyIsSound
  <1>1. LoadedInv /\ [Next]_vars => [policy' # policy => outcome' = "valid" /\ Sound]_vars
    <2> SUFFICES ASSUME LoadedInv, Next, policy' # policy
                 PROVE  outcome' = "valid" /\ Sound
      OBVIOUS
    <2>1. Load
      BY PresentPolicy DEF Next, Present, Reload
    <2>2. outcome' = "valid"
      BY <2>1 DEF Load, Activate
    <2>3. file' = file
      BY <2>1 DEF Load, LoadStep, ReadFile, Reject, Resolve, Descend, Return, Compile
    <2>4. Sound'
      BY <2>1, <2>2, LoadForce DEF JudgedOK
    <2> QED
      BY <2>2, <2>3, <2>4, SameFile
  <1> QED
    BY <1>1, LoadedInvariant, PTL DEF PolicyIsSound, Spec
===============================================================================
