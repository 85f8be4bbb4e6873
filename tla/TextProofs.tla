----------------------------- MODULE TextProofs -----------------------------
(***************************************************************************)
(* What the scanners take out of the texts that the builders make, for     *)
(* queries, answers, commands and model files of any length.               *)
(*                                                                         *)
(* A text is described token by token by a predicate (QueryOf, BlockOf,    *)
(* AnswerOf, ...) that its builder is shown to satisfy; what a scanner     *)
(* returns follows from the predicate.  A recursive function is known by   *)
(* its steps (KeptSteps, FlatSteps, ParseSteps), and SetInduction says     *)
(* what it returns for every length.                                       *)
(***************************************************************************)
EXTENDS CollectionText, CommandText, ModelText, Integers, FiniteSetTheorems, SequenceTheorems,
        WellFoundedInduction, TLAPS

-----------------------------------------------------------------------------
(* Numbers and induction                                                   *)

(* The minimum of a set is the element below the others.                   *)
LEMMA MinIs ==
    ASSUME NEW S, S \subseteq Nat, NEW k \in S, \A i \in S : k <= i
    PROVE  Min(S) = k
<1> DEFINE P(x) == x \in S /\ \A y \in S : x <= y
<1>1. P(k)
  OBVIOUS
<1>2. Min(S) = CHOOSE x : P(x)
  BY DEF Min
<1>3. P(CHOOSE x : P(x))
  <2> HIDE DEF P
  <2> QED BY <1>1
<1>4. P(Min(S))
  <2> HIDE DEF P
  <2> QED BY <1>2, <1>3
<1>5. ASSUME NEW m, P(m) PROVE m = k
  <2>1. m \in Nat /\ k \in Nat /\ m <= k /\ k <= m
    BY <1>5
  <2> QED BY <2>1
<1> QED
  BY <1>4, <1>5

(* Every set of numbers that is not empty has one.                         *)
LEMMA MinExists ==
    ASSUME NEW S \in SUBSET Nat, S # {}
    PROVE  \E k \in S : \A i \in S : k <= i
<1> DEFINE R == {p \in Nat \X Nat : p[1] < p[2]}
<1>1. IsWellFoundedOn(R, Nat)
  BY NatLessThanWellFounded DEF OpToRel
<1>2. PICK m \in S : \A k \in S : <<k, m>> \notin R
  BY <1>1, WFMin
<1>3. ASSUME NEW k \in S PROVE m <= k
  <2>1. m \in Nat /\ k \in Nat /\ <<k, m>> \in Nat \X Nat
    OBVIOUS
  <2>2. ~ (k < m)
    BY <1>2, <2>1
  <2> QED
    BY <2>1, <2>2
<1> QED
  BY <1>2, <1>3

(* Induction, over a set: the library states it for a predicate, which no  *)
(* prover here can be given.                                               *)
LEMMA SetInduction ==
    ASSUME NEW S, S \subseteq Nat, 0 \in S, \A n \in S : n + 1 \in S
    PROVE  S = Nat
<1> DEFINE R == {p \in Nat \X Nat : p[1] < p[2]}
<1> DEFINE T == Nat \ S
<1>1. IsWellFoundedOn(R, Nat)
  BY NatLessThanWellFounded DEF OpToRel
<1> SUFFICES ASSUME T # {} PROVE FALSE
  OBVIOUS
<1>2. PICK m \in T : \A k \in T : <<k, m>> \notin R
  BY <1>1, WFMin
<1>3. m # 0 /\ m - 1 \in Nat /\ <<m - 1, m>> \in R
  OBVIOUS
<1> QED
  BY <1>2, <1>3

-----------------------------------------------------------------------------
(* Sequences                                                               *)

(* s is a sequence of n elements.                                          *)
IsSeq(s, n) == n \in Nat /\ s = [i \in 1..n |-> s[i]]

(* The length, domain and elements of a sequence                           *)
LEMMA SeqLen ==
    ASSUME NEW s, NEW n, IsSeq(s, n)
    PROVE  n \in Nat /\ Len(s) = n /\ DOMAIN s = 1..n /\ s \in Seq({s[i] : i \in 1..n})
<1>1. DOMAIN s = 1..n /\ n \in Nat
  BY DEF IsSeq
<1>2. Len(s) = n
  BY DEF IsSeq
<1>3. s \in Seq({s[i] : i \in 1..n})
  <2> DEFINE E == {s[i] : i \in 1..n}
  <2>1. s \in [1..n -> E]
    BY DEF IsSeq
  <2> HIDE DEF E
  <2>2. s \in Seq(E)
    BY <1>1, <2>1
  <2> QED BY <2>2 DEF E
<1> QED BY <1>1, <1>2, <1>3

(* Sequences of the same length and elements are the same.                 *)
LEMMA SameSeq ==
    ASSUME NEW n, NEW x, NEW y, IsSeq(x, n), IsSeq(y, n), \A i \in 1..n : x[i] = y[i]
    PROVE  x = y
<1>1. DOMAIN x = DOMAIN y /\ x = [i \in DOMAIN x |-> x[i]] /\ y = [i \in DOMAIN y |-> y[i]]
  BY DEF IsSeq
<1>2. \A i \in DOMAIN x : x[i] = y[i]
  BY DEF IsSeq
<1> QED BY <1>1, <1>2

(* Append, not unfolded                                                    *)
Appended(s, e) == Append(s, e)

(* What appending an element makes of a sequence                           *)
LEMMA AppendedIs ==
    ASSUME NEW s, NEW n, IsSeq(s, n), NEW e
    PROVE  /\ IsSeq(Appended(s, e), n + 1)
           /\ \A i \in 1..n : Appended(s, e)[i] = s[i]
           /\ Appended(s, e)[n + 1] = e
<1> DEFINE E == {s[i] : i \in 1..n} \cup {e}
<1>1. n \in Nat /\ Len(s) = n /\ DOMAIN s = 1..n /\ s \in Seq(E) /\ e \in E
  <2>1. n \in Nat /\ Len(s) = n /\ DOMAIN s = 1..n
    BY SeqLen
  <2>2. \A i \in 1..n : s[i] \in E
    OBVIOUS
  <2>3. e \in E
    OBVIOUS
  <2> HIDE DEF E
  <2>4. s \in [1..n -> E]
    BY <2>2 DEF IsSeq
  <2>5. s \in Seq(E)
    BY <2>1, <2>4
  <2> QED BY <2>1, <2>3, <2>5
<1> HIDE DEF E
<1>2. /\ Append(s, e) \in Seq(E) /\ Len(Append(s, e)) = n + 1
      /\ \A i \in 1..n : Append(s, e)[i] = s[i]
      /\ Append(s, e)[n + 1] = e
  BY <1>1, AppendProperties
<1>3. IsSeq(Append(s, e), n + 1)
  BY <1>1, <1>2 DEF IsSeq
<1> QED BY <1>2, <1>3 DEF Appended

(* u is the part of s with m elements from a on.                           *)
SubSeqOf(u, s, a, m) == IsSeq(u, m) /\ \A i \in 1..m : u[i] = s[a + i - 1]

(* SubSeq takes such a part.                                               *)
LEMMA SubSeqIs ==
    ASSUME NEW n, NEW s, IsSeq(s, n), NEW a \in Nat \ {0}, NEW m \in Nat, a + m <= n + 1,
           NEW e \in Int, e = a + m - 1
    PROVE  SubSeqOf(SubSeq(s, a, e), s, a, m)
<1> DEFINE E == {s[i] : i \in 1..n}
<1>1. n \in Nat /\ Len(s) = n /\ DOMAIN s = 1..n /\ s \in Seq(E)
  BY SeqLen
<1> DEFINE u == SubSeq(s, a, e)
<1>2. u = [i \in 1..(1 + e - a) |-> s[i + a - 1]]
  BY <1>1
<1>3. 1 + e - a = m
  OBVIOUS
<1> HIDE DEF u
<1>4. u = [i \in 1..m |-> s[i + a - 1]]
  BY <1>2, <1>3
<1>5. \A i \in 1..m : u[i] = s[a + i - 1]
  <2> TAKE i \in 1..m
  <2>1. i + a - 1 = a + i - 1
    OBVIOUS
  <2> QED BY <1>4, <2>1
<1>6. IsSeq(u, m)
  BY <1>4 DEF IsSeq
<1> QED BY <1>5, <1>6 DEF SubSeqOf, u

(* Concatenation, not unfolded                                             *)
Joined(s, t) == s \o t

(* What joining two sequences makes                                        *)
LEMMA JoinedIs ==
    ASSUME NEW s, NEW m, IsSeq(s, m), NEW t, NEW n, IsSeq(t, n)
    PROVE  /\ IsSeq(Joined(s, t), m + n)
           /\ \A i \in 1..m : Joined(s, t)[i] = s[i]
           /\ \A i \in 1..n : Joined(s, t)[m + i] = t[i]
<1> DEFINE E == {s[i] : i \in 1..m} \cup {t[i] : i \in 1..n}
<1>1. m \in Nat /\ n \in Nat /\ Len(s) = m /\ Len(t) = n /\ s \in Seq(E) /\ t \in Seq(E)
  <2>1. m \in Nat /\ Len(s) = m /\ n \in Nat /\ Len(t) = n
    BY SeqLen
  <2>2. (\A i \in 1..m : s[i] \in E) /\ (\A i \in 1..n : t[i] \in E)
    OBVIOUS
  <2> HIDE DEF E
  <2>3. s \in [1..m -> E] /\ t \in [1..n -> E]
    BY <2>2 DEF IsSeq
  <2>4. s \in Seq(E) /\ t \in Seq(E)
    BY <2>1, <2>3
  <2> QED BY <2>1, <2>4
<1> HIDE DEF E
<1>2. /\ s \o t \in Seq(E) /\ Len(s \o t) = m + n
      /\ \A i \in 1..(m + n) : (s \o t)[i] = IF i <= m THEN s[i] ELSE t[i - m]
  BY <1>1, ConcatProperties
<1> DEFINE j == s \o t
<1> HIDE DEF j
<1>3. j \in Seq(E) /\ Len(j) = m + n
      /\ \A i \in 1..(m + n) : j[i] = IF i <= m THEN s[i] ELSE t[i - m]
  BY <1>2 DEF j
<1>4. IsSeq(j, m + n)
  BY <1>1, <1>3 DEF IsSeq
<1>5. \A i \in 1..m : j[i] = s[i]
  <2> TAKE i \in 1..m
  <2>1. i \in 1..(m + n) /\ i <= m
    BY <1>1
  <2> QED BY <1>3, <2>1
<1>6. \A i \in 1..n : j[m + i] = t[i]
  <2> TAKE i \in 1..n
  <2>1. m + i \in 1..(m + n) /\ ~(m + i <= m) /\ (m + i) - m = i
    BY <1>1
  <2> QED BY <1>3, <2>1
<1> QED BY <1>4, <1>5, <1>6 DEF Joined, j

(* j is s followed by t.                                                   *)
JoinOf(j, s, m, t, n) ==
    IsSeq(j, m + n) /\ (\A i \in 1..m : j[i] = s[i]) /\ (\A i \in 1..n : j[m + i] = t[i])

(* The same, as one predicate                                              *)
LEMMA JoinIs ==
    ASSUME NEW s, NEW m, IsSeq(s, m), NEW t, NEW n, IsSeq(t, n)
    PROVE  JoinOf(Joined(s, t), s, m, t, n)
<1>1. m \in Nat /\ n \in Nat
  BY DEF IsSeq
<1>2. IsSeq(Joined(s, t), m + n)
  BY JoinedIs
<1>3. \A i \in 1..m : Joined(s, t)[i] = s[i]
  BY <1>1, JoinedIs
<1>4. \A i \in 1..n : Joined(s, t)[m + i] = t[i]
  BY <1>1, JoinedIs
<1> QED BY <1>2, <1>3, <1>4 DEF JoinOf

(* Sequences of one and of two elements                                    *)
LEMMA OneIs == ASSUME NEW a PROVE IsSeq(<<a>>, 1) /\ <<a>>[1] = a
  BY DEF IsSeq

LEMMA TwoIs == ASSUME NEW a, NEW b PROVE IsSeq(<<a, b>>, 2) /\ <<a, b>>[1] = a /\ <<a, b>>[2] = b
  BY DEF IsSeq

-----------------------------------------------------------------------------
(* Kept, for sequences of any length                                       *)

(* f[i] has those of the first i elements of s whose places are in P.      *)
KeptSteps(f, s, P, n) ==
    f = [i \in 0..n |-> IF i = 0 THEN <<>>
                        ELSE IF i \in P THEN Appended(f[i - 1], s[i]) ELSE f[i - 1]]

(* There is such a function, for sequences of any length.                  *)
LEMMA KeptExists ==
    ASSUME NEW n \in Nat, NEW s, NEW P
    PROVE  \E f : KeptSteps(f, s, P, n)
<1> DEFINE Step(f, i) == IF i = 0 THEN <<>>
                         ELSE IF i \in P THEN Appended(f[i - 1], s[i]) ELSE f[i - 1]
<1> DEFINE S == {m \in Nat : \E f : f = [i \in 0..m |-> Step(f, i)]}
<1>1. 0 \in S
  <2> DEFINE f == [i \in 0..0 |-> <<>>]
  <2>1. f = [i \in 0..0 |-> Step(f, i)]
    OBVIOUS
  <2> QED BY <2>1
<1>2. ASSUME NEW m \in S PROVE m + 1 \in S
  <2>1. PICK f : f = [i \in 0..m |-> Step(f, i)]
    OBVIOUS
  <2> DEFINE g == [i \in 0..(m + 1) |-> IF i = m + 1 THEN Step(f, i) ELSE f[i]]
  <2>2. ASSUME NEW i \in 0..(m + 1) PROVE g[i] = Step(g, i)
    <3>1. CASE i = 0
      BY <3>1, <2>1
    <3>2. CASE i # 0
      <4>1. i - 1 \in 0..m /\ i - 1 \in 0..(m + 1) /\ i - 1 # m + 1
        BY <3>2
      <4>2. g[i - 1] = f[i - 1]
        BY <4>1
      <4>3. Step(g, i) = Step(f, i)
        BY <4>2
      <4>4. ASSUME i # m + 1 PROVE f[i] = Step(f, i)
        <5>1. i \in 0..m
          BY <4>4
        <5> HIDE DEF Step
        <5> QED BY <5>1, <2>1
      <4>5. g[i] = IF i = m + 1 THEN Step(f, i) ELSE f[i]
        OBVIOUS
      <4> HIDE DEF g, Step
      <4> QED BY <4>3, <4>4, <4>5
    <3> QED BY <3>1, <3>2
  <2>3. g = [i \in 0..(m + 1) |-> g[i]]
    OBVIOUS
  <2>4. m + 1 \in Nat
    OBVIOUS
  <2> HIDE DEF Step, g
  <2>5. g = [i \in 0..(m + 1) |-> Step(g, i)]
    BY <2>2, <2>3
  <2> QED BY <2>4, <2>5
<1>3. S = Nat
  <2>1. S \subseteq Nat
    OBVIOUS
  <2> HIDE DEF S
  <2> QED BY <1>1, <1>2, <2>1, SetInduction
<1> QED
  BY <1>3 DEF KeptSteps

(* What is kept are the elements in P, all of them and no others.          *)
LEMMA KeptRange ==
    ASSUME NEW n \in Nat, NEW s, NEW P, NEW f, KeptSteps(f, s, P, n)
    PROVE  \E l \in Nat :
              /\ IsSeq(f[n], l)
              /\ \A k \in 1..l : \E i \in 1..n : i \in P /\ f[n][k] = s[i]
              /\ \A i \in 1..n : i \in P => \E k \in 1..l : f[n][k] = s[i]
<1> DEFINE Good(j) == \E l \in Nat :
              /\ IsSeq(f[j], l)
              /\ \A k \in 1..l : \E i \in 1..j : i \in P /\ f[j][k] = s[i]
              /\ \A i \in 1..j : i \in P => \E k \in 1..l : f[j][k] = s[i]
<1> DEFINE S == {j \in Nat : j <= n => Good(j)}
<1>1. 0 \in S
  <2>1. f[0] = <<>>
    BY DEF KeptSteps
  <2>2. IsSeq(<<>>, 0)
    BY DEF IsSeq
  <2> QED BY <2>1, <2>2
<1>2. ASSUME NEW j \in S PROVE j + 1 \in S
  <2> SUFFICES ASSUME j + 1 <= n PROVE Good(j + 1)
    OBVIOUS
  <2>0. j \in Nat /\ j <= n
    OBVIOUS
  <2>1. PICK l \in Nat :
              /\ IsSeq(f[j], l)
              /\ \A k \in 1..l : \E i \in 1..j : i \in P /\ f[j][k] = s[i]
              /\ \A i \in 1..j : i \in P => \E k \in 1..l : f[j][k] = s[i]
    OBVIOUS
  <2>2. f[j + 1] = IF j + 1 \in P THEN Appended(f[j], s[j + 1]) ELSE f[j]
    <3>1. j + 1 \in 0..n /\ j + 1 # 0 /\ (j + 1) - 1 = j
      BY <2>0
    <3>2. \A i \in 0..n : f[i] = IF i = 0 THEN <<>>
                        ELSE IF i \in P THEN Appended(f[i - 1], s[i]) ELSE f[i - 1]
      BY DEF KeptSteps
    <3> QED BY <3>1, <3>2
  <2>3. CASE j + 1 \notin P
    <3>1. f[j + 1] = f[j] /\ \A i \in 1..(j + 1) : i \in P => i \in 1..j
      BY <2>0, <2>2, <2>3
    <3>2. \A i \in 1..j : i \in 1..(j + 1)
      BY <2>0
    <3> QED BY <2>1, <3>1, <3>2
  <2>4. CASE j + 1 \in P
    <3>1. /\ IsSeq(f[j + 1], l + 1)
          /\ \A k \in 1..l : f[j + 1][k] = f[j][k]
          /\ f[j + 1][l + 1] = s[j + 1]
      <4>1. IsSeq(f[j], l)
        BY <2>1
      <4>2. f[j + 1] = Appended(f[j], s[j + 1])
        BY <2>2, <2>4
      <4> QED BY <4>1, <4>2, AppendedIs
    <3>2. \A k \in 1..(l + 1) : \E i \in 1..(j + 1) : i \in P /\ f[j + 1][k] = s[i]
      <4> TAKE k \in 1..(l + 1)
      <4>1. CASE k \in 1..l
        <5>1. PICK i \in 1..j : i \in P /\ f[j][k] = s[i]
          BY <2>1, <4>1
        <5>2. i \in 1..(j + 1)
          BY <2>0
        <5> QED BY <3>1, <4>1, <5>1, <5>2
      <4>2. CASE k = l + 1
        <5>1. j + 1 \in 1..(j + 1)
          BY <2>0
        <5> QED BY <3>1, <4>2, <2>4, <5>1
      <4> QED BY <4>1, <4>2
    <3>3. \A i \in 1..(j + 1) : i \in P => \E k \in 1..(l + 1) : f[j + 1][k] = s[i]
      <4> SUFFICES ASSUME NEW i \in 1..(j + 1), i \in P
                   PROVE  \E k \in 1..(l + 1) : f[j + 1][k] = s[i]
        OBVIOUS
      <4>1. CASE i \in 1..j
        <5>1. PICK k \in 1..l : f[j][k] = s[i]
          BY <2>1, <4>1
        <5>2. k \in 1..(l + 1)
          OBVIOUS
        <5> QED BY <3>1, <5>1, <5>2
      <4>2. CASE i = j + 1
        <5>1. l + 1 \in 1..(l + 1)
          OBVIOUS
        <5> QED BY <3>1, <4>2, <5>1
      <4> QED BY <4>1, <4>2
    <3>4. l + 1 \in Nat
      OBVIOUS
    <3> QED BY <3>1, <3>2, <3>3, <3>4
  <2> QED BY <2>3, <2>4
<1>3. S = Nat
  <2>1. S \subseteq Nat
    OBVIOUS
  <2> HIDE DEF S
  <2> QED BY <1>1, <1>2, <2>1, SetInduction
<1>4. Good(n)
  <2>1. n \in Nat /\ n <= n
    OBVIOUS
  <2> HIDE DEF Good
  <2> QED BY <1>3, <2>1
<1> QED
  BY <1>4

(* Nothing is left out if every place is in P.                             *)
LEMMA KeptAll ==
    ASSUME NEW n \in Nat, NEW s, NEW P, 1..n \subseteq P, NEW f, KeptSteps(f, s, P, n)
    PROVE  IsSeq(f[n], n) /\ \A k \in 1..n : f[n][k] = s[k]
<1> DEFINE Good(j) == IsSeq(f[j], j) /\ \A k \in 1..j : f[j][k] = s[k]
<1> DEFINE S == {j \in Nat : j <= n => Good(j)}
<1>1. 0 \in S
  <2>1. f[0] = <<>>
    BY DEF KeptSteps
  <2>2. IsSeq(<<>>, 0)
    BY DEF IsSeq
  <2> QED BY <2>1, <2>2
<1>2. ASSUME NEW j \in S PROVE j + 1 \in S
  <2> SUFFICES ASSUME j + 1 <= n PROVE Good(j + 1)
    OBVIOUS
  <2>0. j \in Nat /\ j <= n /\ Good(j)
    OBVIOUS
  <2>2. f[j + 1] = Appended(f[j], s[j + 1])
    <3>1. j + 1 \in 0..n /\ j + 1 # 0 /\ (j + 1) - 1 = j /\ j + 1 \in P
      BY <2>0
    <3>2. \A i \in 0..n : f[i] = IF i = 0 THEN <<>>
                        ELSE IF i \in P THEN Appended(f[i - 1], s[i]) ELSE f[i - 1]
      BY DEF KeptSteps
    <3> QED BY <3>1, <3>2
  <2>3. /\ IsSeq(f[j + 1], j + 1)
        /\ \A k \in 1..j : f[j + 1][k] = f[j][k]
        /\ f[j + 1][j + 1] = s[j + 1]
    <3>1. IsSeq(f[j], j)
      BY <2>0
    <3> QED BY <2>2, <3>1, AppendedIs
  <2>4. ASSUME NEW k \in 1..(j + 1) PROVE f[j + 1][k] = s[k]
    <3>1. k \in 1..j \/ k = j + 1
      BY <2>0
    <3> QED BY <2>0, <2>3, <3>1
  <2> QED BY <2>3, <2>4
<1>3. S = Nat
  <2>1. S \subseteq Nat
    OBVIOUS
  <2> HIDE DEF S
  <2> QED BY <1>1, <1>2, <2>1, SetInduction
<1>4. Good(n)
  <2>1. n \in Nat /\ n <= n
    OBVIOUS
  <2> HIDE DEF Good
  <2> QED BY <1>3, <2>1
<1> QED
  BY <1>4

(* Kept, as the scanner of the query uses it, takes these steps.           *)
LEMMA WordsKept ==
    ASSUME NEW n, NEW s, IsSeq(s, n)
    PROVE  \E f : /\ KeptSteps(f, s, {i \in 1..n : s[i].kind = "word"}, n)
                  /\ Kept(s, LAMBDA t : t.kind = "word") = f[n]
<1> DEFINE P == {i \in 1..n : s[i].kind = "word"}
<1> DEFINE Step(f, i) == IF i = 0 THEN <<>>
                         ELSE IF s[i].kind = "word" THEN Append(f[i - 1], s[i]) ELSE f[i - 1]
<1> DEFINE kept == CHOOSE f : f = [i \in 0..n |-> Step(f, i)]
<1>1. Len(s) = n /\ n \in Nat
  BY SeqLen
<1>2. Kept(s, LAMBDA t : t.kind = "word") = kept[n]
  BY <1>1 DEF Kept
<1>3. ASSUME NEW f PROVE f = [i \in 0..n |-> Step(f, i)] <=> KeptSteps(f, s, P, n)
  <2> DEFINE Other(i) == IF i = 0 THEN <<>>
                         ELSE IF i \in P THEN Appended(f[i - 1], s[i]) ELSE f[i - 1]
  <2>1. ASSUME NEW i \in 0..n PROVE Step(f, i) = Other(i)
    <3>1. i # 0 => (i \in P <=> s[i].kind = "word")
      OBVIOUS
    <3> QED BY <3>1 DEF Appended
  <2> HIDE DEF Step, Other
  <2>2. [i \in 0..n |-> Step(f, i)] = [i \in 0..n |-> Other(i)]
    BY <2>1
  <2> QED BY <2>2 DEF KeptSteps, Other
<1>4. KeptSteps(kept, s, P, n)
  <2>1. \E f : f = [i \in 0..n |-> Step(f, i)]
    BY <1>1, <1>3, KeptExists
  <2> HIDE DEF Step
  <2>2. kept = [i \in 0..n |-> Step(kept, i)]
    BY <2>1
  <2> HIDE DEF kept
  <2> QED BY <2>2, <1>3
<1> HIDE DEF kept
<1> QED BY <1>2, <1>4

(* A list of words is kept as it is.                                       *)
LEMMA WordsAreKept ==
    ASSUME NEW n, NEW s, IsSeq(s, n), \A i \in 1..n : s[i].kind = "word"
    PROVE  Kept(s, LAMBDA t : t.kind = "word") = s
<1> DEFINE P == {i \in 1..n : s[i].kind = "word"}
<1>1. PICK f : /\ KeptSteps(f, s, P, n)
               /\ Kept(s, LAMBDA t : t.kind = "word") = f[n]
  BY WordsKept
<1>2. n \in Nat /\ 1..n \subseteq P /\ KeptSteps(f, s, P, n)
  BY <1>1 DEF IsSeq
<1> HIDE DEF P
<1>3. IsSeq(f[n], n) /\ \A k \in 1..n : f[n][k] = s[k]
  BY <1>2, KeptAll
<1>4. f[n] = s
  BY <1>3, SameSeq
<1> QED BY <1>1, <1>4

(* The records with data                                                   *)
WithData(s) == Kept(s, LAMBDA r : r.data # <<>>)

(* K has the records of s with data, and no others.                        *)
DataOf(K, s, n, l) ==
    /\ l \in Nat /\ IsSeq(K, l)
    /\ \A k \in 1..l : \E i \in 1..n : s[i].data # <<>> /\ K[k] = s[i]
    /\ \A i \in 1..n : s[i].data # <<>> => \E k \in 1..l : K[k] = s[i]

(* Kept, as processResponse uses it, takes these steps.                    *)
LEMMA DataKept ==
    ASSUME NEW n, NEW s, IsSeq(s, n)
    PROVE  \E f : /\ KeptSteps(f, s, {i \in 1..n : s[i].data # <<>>}, n)
                  /\ Kept(s, LAMBDA r : r.data # <<>>) = f[n]
<1> DEFINE P == {i \in 1..n : s[i].data # <<>>}
<1> DEFINE Step(f, i) == IF i = 0 THEN <<>>
                         ELSE IF s[i].data # <<>> THEN Append(f[i - 1], s[i]) ELSE f[i - 1]
<1> DEFINE kept == CHOOSE f : f = [i \in 0..n |-> Step(f, i)]
<1>1. Len(s) = n /\ n \in Nat
  BY SeqLen
<1>2. Kept(s, LAMBDA r : r.data # <<>>) = kept[n]
  BY <1>1 DEF Kept
<1>3. ASSUME NEW f PROVE f = [i \in 0..n |-> Step(f, i)] <=> KeptSteps(f, s, P, n)
  <2> DEFINE Other(i) == IF i = 0 THEN <<>>
                         ELSE IF i \in P THEN Appended(f[i - 1], s[i]) ELSE f[i - 1]
  <2>1. ASSUME NEW i \in 0..n PROVE Step(f, i) = Other(i)
    <3>1. i # 0 => (i \in P <=> s[i].data # <<>>)
      OBVIOUS
    <3> QED BY <3>1 DEF Appended
  <2> HIDE DEF Step, Other
  <2>2. [i \in 0..n |-> Step(f, i)] = [i \in 0..n |-> Other(i)]
    BY <2>1
  <2> QED BY <2>2 DEF KeptSteps, Other
<1>4. KeptSteps(kept, s, P, n)
  <2>1. \E f : f = [i \in 0..n |-> Step(f, i)]
    BY <1>1, <1>3, KeptExists
  <2> HIDE DEF Step
  <2>2. kept = [i \in 0..n |-> Step(kept, i)]
    BY <2>1
  <2> HIDE DEF kept
  <2> QED BY <2>2, <1>3
<1> HIDE DEF kept
<1> QED BY <1>2, <1>4

(* processResponse keeps the records with data, all of them and no others. *)
LEMMA DataAreKept ==
    ASSUME NEW n, NEW s, IsSeq(s, n)
    PROVE  \E l : DataOf(WithData(s), s, n, l)
<1> DEFINE K == WithData(s)
<1> DEFINE P == {i \in 1..n : s[i].data # <<>>}
<1>1. PICK f : KeptSteps(f, s, P, n) /\ K = f[n]
  BY DataKept DEF WithData
<1>2. n \in Nat /\ KeptSteps(f, s, P, n)
  BY <1>1 DEF IsSeq
<1>3. \A i \in 1..n : i \in P <=> s[i].data # <<>>
  OBVIOUS
<1> HIDE DEF P
<1>4. \E l \in Nat :
         /\ IsSeq(f[n], l)
         /\ \A k \in 1..l : \E i \in 1..n : i \in P /\ f[n][k] = s[i]
         /\ \A i \in 1..n : i \in P => \E k \in 1..l : f[n][k] = s[i]
  BY <1>2, KeptRange
<1>5. PICK l \in Nat :
         /\ IsSeq(K, l)
         /\ \A k \in 1..l : \E i \in 1..n : i \in P /\ K[k] = s[i]
         /\ \A i \in 1..n : i \in P => \E k \in 1..l : K[k] = s[i]
  BY <1>1, <1>4
<1> HIDE DEF K
<1>6. DataOf(K, s, n, l)
  BY <1>3, <1>5 DEF DataOf
<1> QED BY <1>6 DEF K

-----------------------------------------------------------------------------
(* FlattenSeq, and blocks of the same length                               *)

(* f[i] joins the first i of the sequences in b.                           *)
FlatSteps(f, b, n) ==
    f = [i \in 1..n |-> IF i = 1 THEN b[i] ELSE Joined(f[i - 1], b[i])]

(* There is such a function.                                               *)
LEMMA FlatExists ==
    ASSUME NEW n \in Nat, NEW b
    PROVE  \E f : FlatSteps(f, b, n)
<1> DEFINE Step(f, i) == IF i = 1 THEN b[i] ELSE Joined(f[i - 1], b[i])
<1> DEFINE S == {m \in Nat : \E f : f = [i \in 1..m |-> Step(f, i)]}
<1>1. 0 \in S
  <2> DEFINE f == [i \in 1..0 |-> <<>>]
  <2>1. f = [i \in 1..0 |-> Step(f, i)]
    OBVIOUS
  <2> QED BY <2>1
<1>2. ASSUME NEW m \in S PROVE m + 1 \in S
  <2>1. PICK f : f = [i \in 1..m |-> Step(f, i)]
    OBVIOUS
  <2> DEFINE g == [i \in 1..(m + 1) |-> IF i = m + 1 THEN Step(f, i) ELSE f[i]]
  <2>2. ASSUME NEW i \in 1..(m + 1) PROVE g[i] = Step(g, i)
    <3>1. Step(g, i) = Step(f, i)
      <4>1. CASE i = 1
        BY <4>1
      <4>2. CASE i # 1
        <5>1. i - 1 \in 1..m /\ i - 1 \in 1..(m + 1) /\ i - 1 # m + 1
          BY <4>2
        <5>2. g[i - 1] = f[i - 1]
          BY <5>1
        <5> QED BY <5>2
      <4> QED BY <4>1, <4>2
    <3>2. ASSUME i # m + 1 PROVE f[i] = Step(f, i)
      <4>1. i \in 1..m
        BY <3>2
      <4> HIDE DEF Step
      <4> QED BY <4>1, <2>1
    <3>3. g[i] = IF i = m + 1 THEN Step(f, i) ELSE f[i]
      OBVIOUS
    <3> HIDE DEF g, Step
    <3> QED BY <3>1, <3>2, <3>3
  <2>3. g = [i \in 1..(m + 1) |-> g[i]]
    OBVIOUS
  <2>4. m + 1 \in Nat
    OBVIOUS
  <2> HIDE DEF Step, g
  <2>5. g = [i \in 1..(m + 1) |-> Step(g, i)]
    BY <2>2, <2>3
  <2> QED BY <2>4, <2>5
<1>3. S = Nat
  <2>1. S \subseteq Nat
    OBVIOUS
  <2> HIDE DEF S
  <2> QED BY <1>1, <1>2, <2>1, SetInduction
<1> QED
  BY <1>3 DEF FlatSteps

(* FlattenSeq joins its blocks one by one.                                 *)
LEMMA FlattenSteps ==
    ASSUME NEW n, NEW b, IsSeq(b, n), n # 0
    PROVE  \E f : FlatSteps(f, b, n) /\ FlattenSeq(b) = f[n]
<1>1. Len(b) = n /\ n \in Nat
  BY SeqLen
<1> DEFINE Step(f, i) == IF i = 1 THEN b[i] ELSE f[i - 1] \o b[i]
<1> DEFINE flatten == CHOOSE f : f = [i \in 1..n |-> Step(f, i)]
<1>2. FlattenSeq(b) = flatten[n]
  BY <1>1 DEF FlattenSeq
<1>3. ASSUME NEW f PROVE f = [i \in 1..n |-> Step(f, i)] <=> FlatSteps(f, b, n)
  BY DEF FlatSteps, Joined
<1>4. FlatSteps(flatten, b, n)
  <2>1. \E f : f = [i \in 1..n |-> Step(f, i)]
    BY <1>1, <1>3, FlatExists
  <2> HIDE DEF Step
  <2>2. flatten = [i \in 1..n |-> Step(flatten, i)]
    BY <2>1
  <2> HIDE DEF flatten
  <2> QED BY <1>3, <2>2
<1> HIDE DEF flatten, Step
<1> QED BY <1>2, <1>4

(* t is made of the n blocks, each of w elements, that b holds.            *)
Blocks(t, b, n, w) ==
    /\ IsSeq(t, w * n)
    /\ \A i \in 1..n : \A k \in 1..w : t[w * (i - 1) + k] = b[i][k]

(* Numbers of elements in blocks                                           *)
LEMMA InBlocks ==
    ASSUME NEW w \in Nat, NEW h \in Nat
    PROVE  /\ w * h \in Nat /\ w * (h + 1) = w * h + w
           /\ \A i \in 1..h : \A k \in 1..w : w * (i - 1) + k \in 1..(w * h)
<1>1. w * h \in Nat /\ w * (h + 1) = w * h + w
  OBVIOUS
<1>2. ASSUME NEW i \in 1..h, NEW k \in 1..w PROVE w * (i - 1) + k \in 1..(w * h)
  <2> DEFINE r == h - i
  <2>1. r \in Nat /\ i - 1 \in Nat /\ h = (i - 1) + 1 + r
    OBVIOUS
  <2> DEFINE j == i - 1
  <2> HIDE DEF r, j
  <2>2. w * h = w * j + w + w * r
    BY <2>1 DEF j
  <2>3. w * r \in Nat /\ w * j \in Nat
    BY <2>1 DEF j
  <2> QED BY <2>2, <2>3 DEF j
<1> QED BY <1>1, <1>2

(* Joining blocks of w puts block i behind the w * (i - 1) elements        *)
(* before it.                                                              *)
LEMMA FlatBlocks ==
    ASSUME NEW n \in Nat, n # 0, NEW w \in Nat, NEW b, NEW f, FlatSteps(f, b, n),
           \A i \in 1..n : IsSeq(b[i], w)
    PROVE  Blocks(f[n], b, n, w)
<1> DEFINE S == {j \in Nat : j + 1 <= n => Blocks(f[j + 1], b, j + 1, w)}
<1>0. \A i \in 1..n : f[i] = IF i = 1 THEN b[i] ELSE Joined(f[i - 1], b[i])
  BY DEF FlatSteps
<1>1. 0 \in S
  <2>1. f[1] = b[1] /\ IsSeq(b[1], w)
    BY <1>0
  <2>2. w * 1 = w /\ \A i \in 1..1 : \A k \in 1..w : i = 1 /\ w * (i - 1) + k = k
    OBVIOUS
  <2>3. Blocks(f[1], b, 1, w)
    BY <2>1, <2>2 DEF Blocks
  <2> QED BY <2>3
<1>2. ASSUME NEW j \in S PROVE j + 1 \in S
  <2> SUFFICES ASSUME (j + 1) + 1 <= n PROVE Blocks(f[(j + 1) + 1], b, (j + 1) + 1, w)
    OBVIOUS
  <2> DEFINE h == j + 1
  <2> DEFINE m == w * h
  <2> DEFINE new == b[h + 1]
  <2> DEFINE old == f[h]
  <2> DEFINE both == f[h + 1]
  <2>1. h \in Nat /\ Blocks(old, b, h, w) /\ h + 1 \in 1..n /\ h + 1 # 1 /\ (h + 1) - 1 = h
    OBVIOUS
  <2> HIDE DEF h, S
  <2>2. IsSeq(new, w) /\ both = Joined(old, new)
    BY <1>0, <2>1
  <2>3. /\ IsSeq(old, m)
        /\ \A i \in 1..h : \A k \in 1..w : old[w * (i - 1) + k] = b[i][k]
    BY <2>1 DEF Blocks
  <2>4. m \in Nat /\ w * (h + 1) = m + w
        /\ \A i \in 1..h : \A k \in 1..w : w * (i - 1) + k \in 1..m
    BY <2>1, InBlocks
  <2>5. JoinOf(Joined(old, new), old, m, new, w)
    <3> HIDE DEF m, old, new
    <3> QED BY <2>2, <2>3, JoinIs
  <2>6. /\ IsSeq(both, m + w)
        /\ \A i \in 1..m : both[i] = old[i]
        /\ \A k \in 1..w : both[m + k] = new[k]
    BY <2>2, <2>5 DEF JoinOf
  <2>7. ASSUME NEW i \in 1..(h + 1), NEW k \in 1..w
        PROVE  both[w * (i - 1) + k] = b[i][k]
    <3>1. CASE i = h + 1
      <4>1. i - 1 = h
        BY <2>1, <3>1
      <4> QED BY <2>6, <3>1, <4>1
    <3>2. CASE i # h + 1
      <4>1. i \in 1..h
        BY <2>1, <3>2
      <4> HIDE DEF m, both, old
      <4> QED BY <2>3, <2>4, <2>6, <4>1
    <3> QED BY <3>1, <3>2
  <2>8. IsSeq(both, w * (h + 1))
    BY <2>4, <2>6
  <2>9. Blocks(both, b, h + 1, w)
    <3> HIDE DEF m, both, old, new
    <3> QED BY <2>7, <2>8 DEF Blocks
  <2> QED BY <2>9 DEF h
<1>3. S = Nat
  <2>1. S \subseteq Nat
    OBVIOUS
  <2> HIDE DEF S
  <2> QED BY <1>1, <1>2, <2>1, SetInduction
<1>4. n - 1 \in Nat /\ (n - 1) + 1 = n
  OBVIOUS
<1>5. (n - 1) + 1 <= n => Blocks(f[(n - 1) + 1], b, (n - 1) + 1, w)
  BY <1>3, <1>4
<1> QED
  BY <1>4, <1>5

(* So does FlattenSeq, which texts are built with.                         *)
LEMMA FlattenIs ==
    ASSUME NEW n, NEW b, IsSeq(b, n), NEW w \in Nat, \A i \in 1..n : IsSeq(b[i], w)
    PROVE  Blocks(FlattenSeq(b), b, n, w)
<1>1. Len(b) = n /\ n \in Nat
  BY SeqLen
<1>2. CASE n = 0
  <2>1. FlattenSeq(b) = b
    BY <1>1, <1>2 DEF FlattenSeq
  <2>2. w * n = 0 /\ IsSeq(b, 0)
    BY <1>2
  <2> QED BY <1>2, <2>1, <2>2 DEF Blocks
<1>3. CASE n # 0
  <2>1. PICK f : FlatSteps(f, b, n) /\ FlattenSeq(b) = f[n]
    BY <1>3, FlattenSteps
  <2>2. Blocks(f[n], b, n, w)
    BY <1>1, <1>3, <2>1, FlatBlocks
  <2> QED BY <2>1, <2>2
<1> QED BY <1>2, <1>3

-----------------------------------------------------------------------------
(* Tokens and scanners                                                     *)

(* Words, marks and numbers are told apart.                                *)
LEMMA Marks ==
    ASSUME NEW s, NEW c
    PROVE  /\ Word(s) # Mark(c) /\ Word(s).kind = "word" /\ Word(s).text = s
           /\ Mark(c).kind # "word" /\ Number(s).kind # "word" /\ Number(s) # Mark(c)
  BY DEF Word, Mark, Number

(* Marks differ if their characters do.                                    *)
LEMMA MarksDiffer ==
    ASSUME NEW c, NEW d, c # d PROVE Mark(c) # Mark(d)
  BY DEF Mark

(* Words differ if their texts do.                                         *)
LEMMA WordsDiffer ==
    ASSUME NEW c, NEW d, c # d PROVE Word(c) # Word(d)
  BY DEF Word

(* FindMark returns the first place of the mark.                           *)
LEMMA FindMarkIs ==
    ASSUME NEW text, NEW n \in Nat, Len(text) = n, NEW from \in Nat, NEW c,
           NEW k \in from..n, text[k] = Mark(c),
           \A i \in from..n : i < k => text[i] # Mark(c)
    PROVE  FindMark(text, from, c) = k
<1> DEFINE I == {i \in from..n : text[i] = Mark(c)}
<1>1. I \subseteq Nat /\ k \in I /\ \A i \in I : k <= i
  OBVIOUS
<1>2. FindMark(text, from, c) = IF I # {} THEN Min(I) ELSE 0
  BY DEF FindMark, SelectInSubSeq
<1> HIDE DEF I
<1> QED
  BY <1>1, <1>2, MinIs

(* KeyAt returns the first place of the word.                              *)
LEMMA KeyAtIs ==
    ASSUME NEW text, NEW n \in Nat, Len(text) = n, NEW name,
           NEW k \in 1..n, text[k] = Word(name),
           \A i \in 1..n : i < k => text[i] # Word(name)
    PROVE  KeyAt(text, name) = k /\ HasField(text, name)
<1> DEFINE I == {i \in 1..n : text[i] = Word(name)}
<1>1. I \subseteq Nat /\ k \in I /\ \A i \in I : k <= i
  OBVIOUS
<1>2. KeyAt(text, name) = IF I # {} THEN Min(I) ELSE 0
  BY DEF KeyAt, SelectInSeq
<1>3. k # 0
  OBVIOUS
<1> HIDE DEF I
<1> QED
  BY <1>1, <1>2, <1>3, MinIs DEF HasField

(* A field that stands nowhere is not there.                               *)
LEMMA KeyAtNone ==
    ASSUME NEW text, NEW n \in Nat, Len(text) = n, NEW name,
           \A i \in 1..n : text[i] # Word(name)
    PROVE  ~HasField(text, name)
  BY DEF KeyAt, SelectInSeq, HasField

(* A field that is there has a first place.                                *)
LEMMA KeyAtFirst ==
    ASSUME NEW text, NEW n \in Nat, Len(text) = n, NEW name, HasField(text, name)
    PROVE  \E k \in 1..n : /\ KeyAt(text, name) = k /\ text[k] = Word(name)
                           /\ \A i \in 1..n : i < k => text[i] # Word(name)
<1>1. PICK i \in 1..n : text[i] = Word(name)
  BY KeyAtNone
<1> DEFINE S == {j \in 1..n : text[j] = Word(name)}
<1>2. S \subseteq Nat /\ S # {}
  BY <1>1
<1>3. PICK k \in S : \A j \in S : k <= j
  <2> HIDE DEF S
  <2> QED BY <1>2, MinExists
<1>4. k \in 1..n /\ text[k] = Word(name) /\ \A j \in 1..n : j < k => text[j] # Word(name)
  BY <1>3
<1> QED BY <1>4, KeyAtIs

(* What FindBracket stops at: a bracket, or a word with one inside         *)
Closing(t) == t = Mark("]") \/ (t.kind = "word" /\ t.text \in Bracketed)

(* FindBracket returns the first of these.                                 *)
LEMMA FindBracketIs ==
    ASSUME NEW text, NEW n \in Nat, Len(text) = n, NEW from \in Nat,
           NEW k \in from..n, Closing(text[k]),
           \A i \in from..n : i < k => ~Closing(text[i])
    PROVE  FindBracket(text, from) = k
<1> DEFINE I == {i \in from..n : Closing(text[i])}
<1>1. I \subseteq Nat /\ k \in I /\ \A i \in I : k <= i
  OBVIOUS
<1>2. FindBracket(text, from) = IF I # {} THEN Min(I) ELSE 0
  BY DEF FindBracket, SelectInSubSeq, Closing
<1> HIDE DEF I
<1> QED
  BY <1>1, <1>2, MinIs

(* StringField returns the first word behind the first colon behind the    *)
(* name.                                                                   *)
LEMMA StringFieldIs ==
    ASSUME NEW text, NEW n \in Nat, Len(text) = n, NEW name,
           NEW k \in 1..n, text[k] = Word(name),
           \A i \in 1..n : i < k => text[i] # Word(name),
           NEW c \in (k + 1)..n, text[c] = Mark(":"),
           \A i \in (k + 1)..n : i < c => text[i] # Mark(":"),
           NEW v \in (c + 1)..n, text[v].kind = "word",
           \A i \in (c + 1)..n : i < v => text[i].kind # "word"
    PROVE  StringField(text, name) = Unescape(text[v].text)
<1> DEFINE I == {i \in (c + 1)..n : text[i].kind = "word"}
<1>1. KeyAt(text, name) = k /\ HasField(text, name)
  BY KeyAtIs
<1>2. FindMark(text, k + 1, ":") = c
  <2> DEFINE a == k + 1
  <2>1. a \in Nat /\ c \in a..n /\ \A i \in a..n : i < c => text[i] # Mark(":")
    OBVIOUS
  <2> HIDE DEF a
  <2>2. FindMark(text, a, ":") = c
    BY <2>1, FindMarkIs
  <2> QED BY <2>2 DEF a
<1>3. I \subseteq Nat /\ v \in I /\ \A i \in I : v <= i
  OBVIOUS
<1>4. SelectInSubSeq(text, c + 1, Len(text), LAMBDA t : t.kind = "word")
        = IF I # {} THEN Min(I) ELSE 0
  BY DEF SelectInSubSeq
<1>5. SelectInSubSeq(text, c + 1, Len(text), LAMBDA t : t.kind = "word") = v
  <2> HIDE DEF I
  <2> QED BY <1>3, <1>4, MinIs
<1>6. c # 0 /\ v # 0
  OBVIOUS
<1> QED
  BY <1>1, <1>2, <1>5, <1>6 DEF StringField

-----------------------------------------------------------------------------
(* The texts that are built                                                *)

(* The braces under names, because the solver cannot read them             *)
LBrace == Mark("{")
RBrace == Mark("}")
Braced(s) == Enclosed("{", s, "}")

(* A brace is no word.                                                     *)
LEMMA NoBraceIsAWord == ASSUME NEW s PROVE LBrace # Word(s)
  BY Marks, Zenon DEF LBrace

(* t is s between two tokens.                                              *)
EnclosedOf(t, open, s, n, close) ==
    /\ IsSeq(t, n + 2) /\ t[1] = open /\ t[n + 2] = close
    /\ \A i \in 1..n : t[i + 1] = s[i]

(* Enclosed makes such a text.                                             *)
LEMMA EnclosedIs ==
    ASSUME NEW open, NEW close, NEW n, NEW s, IsSeq(s, n)
    PROVE  EnclosedOf(Enclosed(open, s, close), Mark(open), s, n, Mark(close))
<1> DEFINE a == <<Mark(open)>>
<1> DEFINE c == <<Mark(close)>>
<1> DEFINE b == Joined(a, s)
<1> DEFINE t == Joined(b, c)
<1>1. Enclosed(open, s, close) = t /\ n \in Nat
  BY DEF Enclosed, Joined, IsSeq
<1>2. IsSeq(a, 1) /\ a[1] = Mark(open) /\ IsSeq(c, 1) /\ c[1] = Mark(close)
  BY OneIs
<1> HIDE DEF a, c
<1>3. JoinOf(b, a, 1, s, n)
  BY <1>2, JoinIs
<1>4. IsSeq(b, 1 + n)
  BY <1>3 DEF JoinOf
<1>5. JoinOf(t, b, 1 + n, c, 1)
  BY <1>2, <1>4, JoinIs
<1> HIDE DEF b, t
<1> QED BY <1>1, <1>2, <1>3, <1>5 DEF JoinOf, EnclosedOf

(* The same for braces                                                     *)
LEMMA BracedIs ==
    ASSUME NEW n, NEW s, IsSeq(s, n)
    PROVE  EnclosedOf(Braced(s), LBrace, s, n, RBrace)
  BY EnclosedIs, Zenon DEF Braced, LBrace, RBrace

(* t is the field of this name with the value s.                           *)
FieldOf(t, name, s, n) ==
    IsSeq(t, n + 2) /\ t[1] = Word(name) /\ t[2] = Mark(":") /\ \A i \in 1..n : t[i + 2] = s[i]

(* Field makes such a text.                                                *)
LEMMA FieldIs ==
    ASSUME NEW name, NEW n, NEW s, IsSeq(s, n)
    PROVE  FieldOf(Field(name, s), name, s, n)
<1> DEFINE a == <<Word(name), Mark(":")>>
<1> DEFINE t == Joined(a, s)
<1>1. Field(name, s) = t /\ n \in Nat
  BY DEF Field, Joined, IsSeq
<1>2. IsSeq(a, 2) /\ a[1] = Word(name) /\ a[2] = Mark(":")
  BY TwoIs
<1> HIDE DEF a
<1>3. JoinOf(t, a, 2, s, n)
  BY <1>2, JoinIs
<1> HIDE DEF t
<1> QED BY <1>1, <1>2, <1>3 DEF JoinOf, FieldOf

(* A field whose value is one token has three.                             *)
LEMMA OneField ==
    ASSUME NEW name, NEW value, NEW t, t = Field(name, <<value>>)
    PROVE  IsSeq(t, 3) /\ t[1] = Word(name) /\ t[2] = Mark(":") /\ t[3] = value
<1> DEFINE v == <<value>>
<1>1. IsSeq(v, 1) /\ v[1] = value
  BY OneIs
<1> HIDE DEF v
<1>2. FieldOf(Field(name, v), name, v, 1)
  BY <1>1, FieldIs
<1> QED BY <1>1, <1>2 DEF FieldOf, v

(* t is the query of a device for its points, token by token.              *)
QueryOf(t, cid, points, n) ==
   /\ IsSeq(t, n + 9)
   /\ t[1] = LBrace /\ t[2] = Word("cid") /\ t[3] = Mark(":") /\ t[4] = Written(cid)
   /\ t[5] = Word("query") /\ t[6] = Mark(":") /\ t[7] = Mark("[")
   /\ \A i \in 1..n : t[7 + i] = Written(points[i].namePath)
   /\ t[8 + n] = Mark("]") /\ t[9 + n] = RBrace

(* BuildQuery makes such a text.                                           *)
LEMMA QueryShape ==
    ASSUME NEW cid, NEW n, NEW points, IsSeq(points, n)
    PROVE  QueryOf(BuildQuery(cid, points), cid, points, n)
<1> DEFINE mid == [i \in DOMAIN points |-> Written(points[i].namePath)]
<1> DEFINE id == <<Written(cid)>>
<1> DEFINE list == Enclosed("[", mid, "]")
<1> DEFINE query == Field("query", list)
<1> DEFINE first == Field("cid", id)
<1> DEFINE fields == Joined(first, query)
<1> DEFINE t == Braced(fields)
<1>1. n \in Nat /\ DOMAIN points = 1..n
  BY SeqLen
<1>2. IsSeq(mid, n) /\ \A i \in 1..n : mid[i] = Written(points[i].namePath)
  BY <1>1 DEF IsSeq
<1>3. BuildQuery(cid, points) = t
  BY Zenon DEF BuildQuery, Joined, Braced
<1>4. IsSeq(id, 1) /\ id[1] = Written(cid)
  BY OneIs
<1> HIDE DEF mid, id
<1>5. EnclosedOf(list, Mark("["), mid, n, Mark("]"))
  BY <1>2, EnclosedIs
<1> HIDE DEF list
<1>6. FieldOf(query, "query", list, n + 2)
  BY <1>5, FieldIs DEF EnclosedOf
<1>7. FieldOf(first, "cid", id, 1)
  BY <1>4, FieldIs
<1> HIDE DEF query, first
<1>8. JoinOf(fields, first, 3, query, n + 4)
  <2>1. IsSeq(first, 3) /\ IsSeq(query, n + 4)
    BY <1>1, <1>6, <1>7 DEF FieldOf
  <2> QED BY <2>1, JoinIs
<1> HIDE DEF fields
<1>9. EnclosedOf(t, LBrace, fields, n + 7, RBrace)
  <2>1. IsSeq(fields, n + 7)
    BY <1>1, <1>8 DEF JoinOf
  <2> QED BY <2>1, BracedIs
<1> HIDE DEF t
<1>10. /\ list[1] = Mark("[") /\ list[n + 2] = Mark("]")
       /\ \A i \in 1..n : list[i + 1] = Written(points[i].namePath)
  BY <1>2, <1>5 DEF EnclosedOf
<1>11. /\ query[1] = Word("query") /\ query[2] = Mark(":") /\ query[3] = Mark("[")
       /\ query[n + 4] = Mark("]")
       /\ \A i \in 1..n : query[i + 3] = Written(points[i].namePath)
  BY <1>1, <1>6, <1>10 DEF FieldOf
<1>12. first[1] = Word("cid") /\ first[2] = Mark(":") /\ first[3] = Written(cid)
  BY <1>4, <1>7 DEF FieldOf
<1>13. /\ fields[1] = Word("cid") /\ fields[2] = Mark(":") /\ fields[3] = Written(cid)
       /\ fields[4] = Word("query") /\ fields[5] = Mark(":") /\ fields[6] = Mark("[")
       /\ fields[n + 7] = Mark("]")
       /\ \A i \in 1..n : fields[i + 6] = Written(points[i].namePath)
  BY <1>1, <1>8, <1>11, <1>12 DEF JoinOf
<1>14. QueryOf(t, cid, points, n)
  <2>1. IsSeq(t, n + 9) /\ t[1] = LBrace /\ t[9 + n] = RBrace
    <3>1. (n + 7) + 2 = n + 9 /\ n + 9 = 9 + n
      BY <1>1
    <3>2. IsSeq(t, (n + 7) + 2) /\ t[1] = LBrace /\ t[(n + 7) + 2] = RBrace
      BY <1>9 DEF EnclosedOf
    <3> QED BY <3>1, <3>2
  <2>2. \A i \in 1..(n + 7) : t[i + 1] = fields[i]
    BY <1>9 DEF EnclosedOf
  <2>3. /\ t[2] = Word("cid") /\ t[3] = Mark(":") /\ t[4] = Written(cid)
        /\ t[5] = Word("query") /\ t[6] = Mark(":") /\ t[7] = Mark("[")
    <3>1. \A i \in {1, 2, 3, 4, 5, 6} : i \in 1..(n + 7)
      BY <1>1
    <3>2. /\ t[1 + 1] = fields[1] /\ t[2 + 1] = fields[2] /\ t[3 + 1] = fields[3]
          /\ t[4 + 1] = fields[4] /\ t[5 + 1] = fields[5] /\ t[6 + 1] = fields[6]
      BY <2>2, <3>1
    <3>3. /\ t[2] = fields[1] /\ t[3] = fields[2] /\ t[4] = fields[3]
          /\ t[5] = fields[4] /\ t[6] = fields[5] /\ t[7] = fields[6]
      BY <3>2
    <3> QED BY <1>13, <3>3
  <2>4. t[8 + n] = Mark("]")
    <3>1. n + 7 \in 1..(n + 7) /\ (n + 7) + 1 = 8 + n
      BY <1>1
    <3>2. fields[n + 7] = Mark("]")
      BY <1>13
    <3> QED BY <2>2, <3>1, <3>2
  <2>5. ASSUME NEW i \in 1..n PROVE t[7 + i] = Written(points[i].namePath)
    <3>1. i + 6 \in 1..(n + 7) /\ (i + 6) + 1 = 7 + i
      BY <1>1
    <3> QED BY <1>13, <2>2, <3>1
  <2> QED BY <2>1, <2>3, <2>4, <2>5 DEF QueryOf
<1> QED BY <1>3, <1>14

(* t is what an answer says of one path, token by token.                   *)
BlockOf(t, path) ==
    LET name == ItemNameFromPath(path)
    IN  /\ IsSeq(t, 24)
        /\ t[1] = Word(Escape(path)) /\ t[2] = Mark(":") /\ t[3] = LBrace
        /\ t[4] = Word("value") /\ t[5] = Mark(":")
        /\ t[6] = Mark("[") /\ t[7] = Number(path) /\ t[8] = Mark("]")
        /\ t[9] = Word("dev_time") /\ t[10] = Mark(":") /\ t[11] = Number("now")
        /\ t[12] = Word("svr_time") /\ t[13] = Mark(":") /\ t[14] = Number("now")
        /\ t[15] = Word("item_path") /\ t[16] = Mark(":")
        /\ t[17] = Word("/DV:mock/CP:mock/DT:" \o Escape(name))
        /\ t[18] = Word("item_description") /\ t[19] = Mark(":") /\ t[20] = Written(name)
        /\ t[21] = Word("item_name") /\ t[22] = Mark(":") /\ t[23] = Written(name)
        /\ t[24] = RBrace

(* AnswerFor makes such a text.                                            *)
LEMMA BlockShape ==
    ASSUME NEW path
    PROVE  BlockOf(AnswerFor(path), path)
<1> DEFINE name == ItemNameFromPath(path)
<1> DEFINE one == <<Number(path)>>
<1> DEFINE array == Enclosed("[", one, "]")
<1> DEFINE f1 == Field("value", array)
<1> DEFINE f2 == Field("dev_time", <<Number("now")>>)
<1> DEFINE f3 == Field("svr_time", <<Number("now")>>)
<1> DEFINE f4 == Field("item_path", <<Word("/DV:mock/CP:mock/DT:" \o Escape(name))>>)
<1> DEFINE f5 == Field("item_description", <<Written(name)>>)
<1> DEFINE f6 == Field("item_name", <<Written(name)>>)
<1> DEFINE j2 == Joined(f1, f2)
<1> DEFINE j3 == Joined(j2, f3)
<1> DEFINE j4 == Joined(j3, f4)
<1> DEFINE j5 == Joined(j4, f5)
<1> DEFINE j6 == Joined(j5, f6)
<1> DEFINE object == Braced(j6)
<1> DEFINE t == Field(Escape(path), object)
<1>1. AnswerFor(path) = t
  BY Zenon DEF AnswerFor, Joined, ValueForPath, Braced
<1>2. IsSeq(one, 1) /\ one[1] = Number(path)
  BY OneIs
<1> HIDE DEF one
<1>3. EnclosedOf(array, Mark("["), one, 1, Mark("]"))
  BY <1>2, EnclosedIs
<1>4. IsSeq(array, 3) /\ array[1] = Mark("[") /\ array[2] = Number(path) /\ array[3] = Mark("]")
  BY <1>2, <1>3 DEF EnclosedOf
<1> HIDE DEF array
<1>5. FieldOf(f1, "value", array, 3)
  BY <1>4, FieldIs
<1>6. /\ IsSeq(f1, 5) /\ f1[1] = Word("value") /\ f1[2] = Mark(":")
      /\ f1[3] = Mark("[") /\ f1[4] = Number(path) /\ f1[5] = Mark("]")
  BY <1>4, <1>5 DEF FieldOf
<1>7. IsSeq(f2, 3) /\ f2[1] = Word("dev_time") /\ f2[2] = Mark(":") /\ f2[3] = Number("now")
  BY OneField
<1>8. IsSeq(f3, 3) /\ f3[1] = Word("svr_time") /\ f3[2] = Mark(":") /\ f3[3] = Number("now")
  BY OneField
<1>9. /\ IsSeq(f4, 3) /\ f4[1] = Word("item_path") /\ f4[2] = Mark(":")
      /\ f4[3] = Word("/DV:mock/CP:mock/DT:" \o Escape(name))
  BY OneField
<1>10. /\ IsSeq(f5, 3) /\ f5[1] = Word("item_description") /\ f5[2] = Mark(":")
       /\ f5[3] = Written(name)
  BY OneField
<1>11. IsSeq(f6, 3) /\ f6[1] = Word("item_name") /\ f6[2] = Mark(":") /\ f6[3] = Written(name)
  BY OneField
<1> HIDE DEF f1, f2, f3, f4, f5, f6, name
<1>12. JoinOf(j2, f1, 5, f2, 3) /\ IsSeq(j2, 8)
  <2>1. JoinOf(j2, f1, 5, f2, 3)
    BY <1>6, <1>7, JoinIs
  <2> QED BY <2>1 DEF JoinOf
<1> HIDE DEF j2
<1>13. JoinOf(j3, j2, 8, f3, 3) /\ IsSeq(j3, 11)
  <2>1. JoinOf(j3, j2, 8, f3, 3)
    BY <1>8, <1>12, JoinIs
  <2> QED BY <2>1 DEF JoinOf
<1> HIDE DEF j3
<1>14. JoinOf(j4, j3, 11, f4, 3) /\ IsSeq(j4, 14)
  <2>1. JoinOf(j4, j3, 11, f4, 3)
    BY <1>9, <1>13, JoinIs
  <2> QED BY <2>1 DEF JoinOf
<1> HIDE DEF j4
<1>15. JoinOf(j5, j4, 14, f5, 3) /\ IsSeq(j5, 17)
  <2>1. JoinOf(j5, j4, 14, f5, 3)
    BY <1>10, <1>14, JoinIs
  <2> QED BY <2>1 DEF JoinOf
<1> HIDE DEF j5
<1>16. JoinOf(j6, j5, 17, f6, 3) /\ IsSeq(j6, 20)
  <2>1. JoinOf(j6, j5, 17, f6, 3)
    BY <1>11, <1>15, JoinIs
  <2> QED BY <2>1 DEF JoinOf
<1> HIDE DEF j6
<1>17. EnclosedOf(object, LBrace, j6, 20, RBrace) /\ IsSeq(object, 22)
  <2>1. EnclosedOf(object, LBrace, j6, 20, RBrace)
    BY <1>16, BracedIs
  <2> QED BY <2>1 DEF EnclosedOf
<1> HIDE DEF object
<1>18. FieldOf(t, Escape(path), object, 22)
  BY <1>17, FieldIs
<1> HIDE DEF t
<1>19. \A i \in 1..20 : t[i + 3] = j6[i]
  <2>1. \A i \in 1..20 : object[i + 1] = j6[i]
    BY <1>17 DEF EnclosedOf
  <2>2. \A i \in 1..22 : t[i + 2] = object[i]
    BY <1>18 DEF FieldOf
  <2> QED BY <2>1, <2>2
<1>20. (\A i \in 1..5 : j6[i] = f1[i]) /\ (\A i \in 1..3 : j6[5 + i] = f2[i])
  <2>1. \A i \in 1..8 : j6[i] = j2[i]
    BY <1>13, <1>14, <1>15, <1>16 DEF JoinOf
  <2> QED BY <1>12, <2>1 DEF JoinOf
<1>21. \A i \in 1..3 : j6[8 + i] = f3[i]
  <2>1. \A i \in 1..11 : j6[i] = j3[i]
    BY <1>14, <1>15, <1>16 DEF JoinOf
  <2> QED BY <1>13, <2>1 DEF JoinOf
<1>22. \A i \in 1..3 : j6[11 + i] = f4[i]
  <2>1. \A i \in 1..14 : j6[i] = j4[i]
    BY <1>15, <1>16 DEF JoinOf
  <2> QED BY <1>14, <2>1 DEF JoinOf
<1>23. (\A i \in 1..3 : j6[14 + i] = f5[i]) /\ (\A i \in 1..3 : j6[17 + i] = f6[i])
  <2>1. \A i \in 1..17 : j6[i] = j5[i]
    BY <1>16 DEF JoinOf
  <2> QED BY <1>15, <1>16, <2>1 DEF JoinOf
<1>24. /\ IsSeq(t, 24) /\ t[1] = Word(Escape(path)) /\ t[2] = Mark(":") /\ t[3] = LBrace
       /\ t[24] = RBrace
  <2>1. object[1] = LBrace /\ object[22] = RBrace
    BY <1>17 DEF EnclosedOf
  <2> QED BY <1>18, <2>1 DEF FieldOf
<1>25. /\ t[4] = Word("value") /\ t[5] = Mark(":")
       /\ t[6] = Mark("[") /\ t[7] = Number(path) /\ t[8] = Mark("]")
       /\ t[9] = Word("dev_time") /\ t[10] = Mark(":") /\ t[11] = Number("now")
  BY <1>6, <1>7, <1>19, <1>20
<1>26. /\ t[12] = Word("svr_time") /\ t[13] = Mark(":") /\ t[14] = Number("now")
       /\ t[15] = Word("item_path") /\ t[16] = Mark(":")
       /\ t[17] = Word("/DV:mock/CP:mock/DT:" \o Escape(name))
  BY <1>8, <1>9, <1>19, <1>21, <1>22
<1>27. /\ t[18] = Word("item_description") /\ t[19] = Mark(":") /\ t[20] = Written(name)
       /\ t[21] = Word("item_name") /\ t[22] = Mark(":") /\ t[23] = Written(name)
  BY <1>10, <1>11, <1>19, <1>23
<1>28. BlockOf(t, path)
  BY <1>24, <1>25, <1>26, <1>27 DEF BlockOf, name
<1> QED BY <1>1, <1>28

-----------------------------------------------------------------------------
(* What the driver takes out of a query                                    *)

(* The first b paths are sent without a bracket; the next one has one.     *)
Unbracketed(points, n, b) ==
    /\ b \in 0..n
    /\ \A i \in 1..b : Escape(points[i].namePath) \notin Bracketed
    /\ b # n => Escape(points[b + 1].namePath) \in Bracketed

(* There is such a b: all points, or those before the first bracket.       *)
LEMMA UnbracketedExists ==
    ASSUME NEW points, NEW n \in Nat
    PROVE  \E b : Unbracketed(points, n, b)
<1> DEFINE S == {j \in 0..n : j = n \/ Escape(points[j + 1].namePath) \in Bracketed}
<1>1. n \in S /\ S \subseteq Nat
  OBVIOUS
<1> HIDE DEF S
<1>2. PICK b \in S : \A i \in S : b <= i
  BY <1>1, MinExists
<1>3. b \in 0..n /\ (b # n => Escape(points[b + 1].namePath) \in Bracketed)
  BY DEF S
<1>4. ASSUME NEW i \in 1..b PROVE Escape(points[i].namePath) \notin Bracketed
  <2>1. i - 1 \in 0..n /\ i - 1 < b /\ (i - 1) + 1 = i
    BY <1>3
  <2>2. i - 1 \notin S
    BY <1>1, <1>2, <1>3, <2>1
  <2> QED BY <2>1, <2>2 DEF S
<1> QED BY <1>3, <1>4 DEF Unbracketed

(* The driver takes these b paths out of the query, in their order: the    *)
(* scanner stops at the first closing bracket, which may stand inside a    *)
(* path.                                                                   *)
LEMMA QueryPaths ==
    ASSUME NEW cid, NEW n, NEW points, IsSeq(points, n), NEW b, Unbracketed(points, n, b)
    PROVE  ExtractQueryPaths(BuildQuery(cid, points))
               = [i \in 1..b |-> Trim(Unescape(Escape(points[i].namePath)))]
<1> DEFINE t == BuildQuery(cid, points)
<1>1. QueryOf(t, cid, points, n)
  BY QueryShape
<1> HIDE DEF t
<1>2. /\ n \in Nat /\ b \in 0..n /\ b \in Nat /\ Len(t) = n + 9 /\ n + 9 \in Nat
      /\ IsSeq(t, n + 9)
  <2>1. n \in Nat /\ b \in 0..n
    BY DEF IsSeq, Unbracketed
  <2>2. IsSeq(t, n + 9)
    BY <1>1 DEF QueryOf
  <2>3. Len(t) = n + 9
    BY <2>2, SeqLen
  <2> QED BY <2>1, <2>2, <2>3
<1>3. HasField(t, "query") /\ KeyAt(t, "query") \in {4, 5}
  <2>1. t[1] # Word("query") /\ t[2] # Word("query") /\ t[3] # Word("query")
    <3>1. t[1] = LBrace /\ t[2] = Word("cid") /\ t[3] = Mark(":")
      BY <1>1 DEF QueryOf
    <3>2. LBrace # Word("query")
      BY Marks, Zenon DEF LBrace
    <3>3. Word("cid") # Word("query") /\ Mark(":") # Word("query")
      BY Marks, WordsDiffer
    <3> QED BY <3>1, <3>2, <3>3
  <2>2. t[5] = Word("query")
    BY <1>1 DEF QueryOf
  <2>3. CASE t[4] = Word("query")
    <3>1. 4 \in 1..(n + 9) /\ \A i \in 1..(n + 9) : i < 4 => t[i] # Word("query")
      BY <1>2, <2>1
    <3> QED BY <1>2, <2>3, <3>1, KeyAtIs
  <2>4. CASE t[4] # Word("query")
    <3>1. 5 \in 1..(n + 9) /\ \A i \in 1..(n + 9) : i < 5 => t[i] # Word("query")
      BY <1>2, <2>1, <2>4
    <3> QED BY <1>2, <2>2, <3>1, KeyAtIs
  <2> QED BY <2>3, <2>4
<1> DEFINE from == KeyAt(t, "query") + 1
<1>4. FindMark(t, from, "[") = 7
  <2>1. t[5] = Word("query") /\ t[6] = Mark(":") /\ t[7] = Mark("[")
    BY <1>1 DEF QueryOf
  <2>2. t[5] # Mark("[") /\ t[6] # Mark("[")
    BY <2>1, Marks, MarksDiffer
  <2>3. from \in {5, 6}
    BY <1>3
  <2> HIDE DEF from
  <2>4. from \in Nat /\ 7 \in from..(n + 9) /\ \A i \in from..(n + 9) : i < 7 => t[i] # Mark("[")
    BY <1>2, <2>2, <2>3
  <2> QED BY <1>2, <2>1, <2>4, FindMarkIs
<1> HIDE DEF from
<1>5. FindBracket(t, 8) = 8 + b
  <2>1. Closing(t[8 + b])
    <3>1. CASE b = n
      <4>1. t[8 + n] = Mark("]")
        BY <1>1 DEF QueryOf
      <4> QED BY <3>1, <4>1 DEF Closing
    <3>2. CASE b # n
      <4>1. b + 1 \in 1..n /\ 7 + (b + 1) = 8 + b
        BY <1>2, <3>2
      <4>2. t[8 + b] = Written(points[b + 1].namePath)
        BY <1>1, <4>1 DEF QueryOf
      <4>3. Escape(points[b + 1].namePath) \in Bracketed
        BY <3>2 DEF Unbracketed
      <4> QED BY <4>2, <4>3, Marks DEF Closing, Written
    <3> QED BY <3>1, <3>2
  <2>2. ASSUME NEW i \in 8..(n + 9), i < 8 + b PROVE ~Closing(t[i])
    <3>1. i - 7 \in 1..b /\ i - 7 \in 1..n /\ 7 + (i - 7) = i
      BY <1>2, <2>2
    <3>2. t[i] = Written(points[i - 7].namePath)
      BY <1>1, <3>1 DEF QueryOf
    <3>3. Escape(points[i - 7].namePath) \notin Bracketed
      BY <3>1 DEF Unbracketed
    <3>4. t[i] # Mark("]") /\ t[i].text = Escape(points[i - 7].namePath)
      BY <3>2, Marks DEF Written
    <3> QED BY <3>3, <3>4 DEF Closing
  <2>3. 8 + b \in 8..(n + 9) /\ 8 \in Nat
    BY <1>2
  <2> QED BY <1>2, <2>1, <2>2, <2>3, FindBracketIs
<1> DEFINE words == SubSeq(t, 8, 7 + b)
<1>6. SubSeqOf(words, t, 8, b)
  <2>1. 8 + b <= (n + 9) + 1 /\ 7 + b \in Int /\ 7 + b = 8 + b - 1 /\ 8 \in Nat \ {0}
    BY <1>2
  <2> QED BY <1>2, <2>1, SubSeqIs
<1> HIDE DEF words
<1>7. IsSeq(words, b) /\ \A i \in 1..b : words[i] = Written(points[i].namePath)
  <2>1. ASSUME NEW i \in 1..b PROVE words[i] = Written(points[i].namePath)
    <3>1. 8 + i - 1 = 7 + i /\ i \in 1..n
      BY <1>2
    <3>2. words[i] = t[7 + i]
      BY <1>6, <3>1 DEF SubSeqOf
    <3> QED BY <1>1, <3>1, <3>2 DEF QueryOf
  <2> QED BY <1>6, <2>1 DEF SubSeqOf
<1>8. Kept(words, LAMBDA w : w.kind = "word") = words
  <2>1. \A i \in 1..b : words[i].kind = "word"
    BY <1>7, Marks DEF Written
  <2> QED BY <1>7, <2>1, WordsAreKept
<1>9. ExtractQueryPaths(t) = [i \in DOMAIN words |-> Trim(Unescape(words[i].text))]
  <2> DEFINE K(s) == Kept(s, LAMBDA w : w.kind = "word")
  <2> DEFINE Between(start, end) ==
          LET inner == K(SubSeq(t, start + 1, end - 1))
          IN  IF ~HasField(t, "query") \/ start = 0 \/ end = 0 THEN <<>>
              ELSE [i \in DOMAIN inner |-> Trim(Unescape(inner[i].text))]
  <2>1. ExtractQueryPaths(t)
          = Between(FindMark(t, from, "["), FindBracket(t, FindMark(t, from, "[") + 1))
    BY DEF ExtractQueryPaths, from
  <2>2. K(words) = words
    BY <1>8
  <2> HIDE DEF K
  <2>3. 7 + 1 = 8 /\ (8 + b) - 1 = 7 + b /\ 8 + b # 0
    BY <1>2
  <2>4. ExtractQueryPaths(t) = Between(7, 8 + b)
    BY <1>4, <1>5, <2>1, <2>3
  <2>5. K(SubSeq(t, 7 + 1, (8 + b) - 1)) = words
    BY <2>2, <2>3 DEF words
  <2> QED BY <1>3, <2>3, <2>4, <2>5
<1>10. DOMAIN words = 1..b /\ \A i \in 1..b : words[i].text = Escape(points[i].namePath)
  <2>1. DOMAIN words = 1..b
    BY <1>7 DEF IsSeq
  <2> QED BY <2>1, <1>7, Marks DEF Written
<1>11. ExtractQueryPaths(t) = [i \in 1..b |-> Trim(Unescape(Escape(points[i].namePath)))]
  BY <1>9, <1>10
<1> QED BY <1>11 DEF t

(* The driver finds the id in the query, whatever the id and the paths     *)
(* are.                                                                    *)
LEMMA QueryId ==
    ASSUME NEW cid, NEW n, NEW points, IsSeq(points, n)
    PROVE  StringField(BuildQuery(cid, points), "cid") = Unescape(Escape(cid))
<1> DEFINE t == BuildQuery(cid, points)
<1>1. QueryOf(t, cid, points, n)
  BY QueryShape
<1> HIDE DEF t
<1>2. n \in Nat /\ n + 9 \in Nat /\ Len(t) = n + 9
  <2>1. n \in Nat /\ IsSeq(t, n + 9)
    BY <1>1 DEF QueryOf, IsSeq
  <2>2. Len(t) = n + 9
    BY <2>1, SeqLen
  <2> QED BY <2>1, <2>2
<1>3. t[1] = LBrace /\ t[2] = Word("cid") /\ t[3] = Mark(":") /\ t[4] = Written(cid)
  BY <1>1 DEF QueryOf
<1>4. t[1] # Word("cid")
  BY <1>3, Marks, Zenon DEF LBrace
<1>5. t[4].kind = "word" /\ t[4].text = Escape(cid)
  BY <1>3, Marks DEF Written
<1>6. 2 \in 1..(n + 9) /\ \A i \in 1..(n + 9) : i < 2 => t[i] # Word("cid")
  BY <1>2, <1>4
<1>7. 3 \in (2 + 1)..(n + 9) /\ \A i \in (2 + 1)..(n + 9) : i < 3 => t[i] # Mark(":")
  BY <1>2
<1>8. 4 \in (3 + 1)..(n + 9) /\ \A i \in (3 + 1)..(n + 9) : i < 4 => t[i].kind # "word"
  BY <1>2
<1>9. StringField(t, "cid") = Unescape(t[4].text)
  BY <1>2, <1>3, <1>5, <1>6, <1>7, <1>8, StringFieldIs
<1> QED BY <1>5, <1>9 DEF t

-----------------------------------------------------------------------------
(* The answer, and where a word of it can stand                            *)

(* The id that an answer carries                                           *)
AnswerId(text) == LET sent == StringField(text, "cid") IN IF sent = "" THEN "mock-cid" ELSE sent

(* t answers with the blocks of the n paths q.                             *)
AnswerOf(t, id, q, n) ==
    /\ n \in Nat /\ IsSeq(t, 24 * n + 12)
    /\ t[1] = LBrace /\ t[2] = Word("cid") /\ t[3] = Mark(":") /\ t[4] = Written(id)
    /\ t[5] = Word("machineConnected") /\ t[6] = Mark(":") /\ t[7] = Mark("true")
    /\ t[8] = Word("data") /\ t[9] = Mark(":") /\ t[10] = LBrace
    /\ \A i \in 1..n : \A k \in 1..24 : t[10 + 24 * (i - 1) + k] = AnswerFor(q[i])[k]
    /\ t[24 * n + 11] = RBrace /\ t[24 * n + 12] = RBrace

(* HandleQuery answers with the blocks of the paths it took.               *)
LEMMA AnswerShape ==
    ASSUME NEW text, NEW n, NEW q, IsSeq(q, n), ExtractQueryPaths(text) = q
    PROVE  AnswerOf(HandleQuery(text), AnswerId(text), q, n)
<1> DEFINE blocks == [i \in DOMAIN q |-> AnswerFor(q[i])]
<1> DEFINE id == AnswerId(text)
<1> DEFINE flat == FlattenSeq(blocks)
<1> DEFINE m == 24 * n
<1> DEFINE object == Braced(flat)
<1> DEFINE f1 == Field("cid", <<Written(id)>>)
<1> DEFINE f2 == Field("machineConnected", <<Mark("true")>>)
<1> DEFINE f3 == Field("data", object)
<1> DEFINE j2 == Joined(f1, f2)
<1> DEFINE j3 == Joined(j2, f3)
<1> DEFINE t == Braced(j3)
<1>1. HandleQuery(text) = t
  BY Zenon DEF HandleQuery, AnswerId, Joined, Braced
<1>2. n \in Nat /\ DOMAIN q = 1..n /\ m \in Nat /\ m = 24 * n
  <2>1. n \in Nat /\ DOMAIN q = 1..n
    BY SeqLen
  <2> QED BY <2>1
<1>3. IsSeq(blocks, n) /\ \A i \in 1..n : blocks[i] = AnswerFor(q[i])
  BY <1>2 DEF IsSeq
<1>4. \A i \in 1..n : IsSeq(blocks[i], 24)
  BY <1>3, BlockShape DEF BlockOf
<1> HIDE DEF blocks
<1>5. Blocks(flat, blocks, n, 24)
  BY <1>3, <1>4, FlattenIs
<1>6. IsSeq(flat, m)
  BY <1>5 DEF Blocks
<1> HIDE DEF flat, m, id
<1>7. EnclosedOf(object, LBrace, flat, m, RBrace)
  BY <1>6, BracedIs
<1>8. /\ IsSeq(object, m + 2) /\ object[1] = LBrace /\ object[m + 2] = RBrace
      /\ \A i \in 1..m : object[i + 1] = flat[i]
  BY <1>7 DEF EnclosedOf
<1> HIDE DEF object
<1>9. FieldOf(f3, "data", object, m + 2)
  BY <1>8, FieldIs
<1>10. IsSeq(f1, 3) /\ f1[1] = Word("cid") /\ f1[2] = Mark(":") /\ f1[3] = Written(id)
  BY OneField
<1>11. /\ IsSeq(f2, 3) /\ f2[1] = Word("machineConnected") /\ f2[2] = Mark(":")
       /\ f2[3] = Mark("true")
  BY OneField
<1> HIDE DEF f1, f2, f3
<1>12. JoinOf(j2, f1, 3, f2, 3)
  BY <1>10, <1>11, JoinIs
<1>13. /\ IsSeq(j2, 6)
       /\ j2[1] = Word("cid") /\ j2[2] = Mark(":") /\ j2[3] = Written(id)
       /\ j2[4] = Word("machineConnected") /\ j2[5] = Mark(":") /\ j2[6] = Mark("true")
  <2> HIDE DEF j2
  <2> QED BY <1>10, <1>11, <1>12 DEF JoinOf
<1>14. IsSeq(f3, m + 4)
  <2>1. (m + 2) + 2 = m + 4
    BY <1>2
  <2>2. IsSeq(f3, (m + 2) + 2)
    BY <1>9 DEF FieldOf
  <2> QED BY <2>1, <2>2
<1> HIDE DEF j2
<1>15. JoinOf(j3, j2, 6, f3, m + 4)
  BY <1>13, <1>14, JoinIs
<1>16. IsSeq(j3, m + 10)
  <2> HIDE DEF j3
  <2>1. 6 + (m + 4) = m + 10
    BY <1>2
  <2>2. IsSeq(j3, 6 + (m + 4))
    BY <1>15 DEF JoinOf
  <2> QED BY <2>1, <2>2
<1> HIDE DEF j3
<1>17. EnclosedOf(t, LBrace, j3, m + 10, RBrace)
  BY <1>16, BracedIs
<1> HIDE DEF t
<1>18. /\ IsSeq(t, m + 12) /\ t[1] = LBrace /\ t[m + 12] = RBrace
       /\ \A i \in 1..(m + 10) : t[i + 1] = j3[i]
  <2>1. (m + 10) + 2 = m + 12
    BY <1>2
  <2>2. /\ IsSeq(t, (m + 10) + 2) /\ t[1] = LBrace /\ t[(m + 10) + 2] = RBrace
        /\ \A i \in 1..(m + 10) : t[i + 1] = j3[i]
    BY <1>17 DEF EnclosedOf
  <2> QED BY <2>1, <2>2
<1>19. /\ \A i \in 1..6 : t[i + 1] = j2[i]
       /\ \A i \in 1..(m + 4) : t[i + 7] = f3[i]
  <2>1. (\A i \in 1..6 : j3[i] = j2[i]) /\ \A i \in 1..(m + 4) : j3[6 + i] = f3[i]
    BY <1>15 DEF JoinOf
  <2>2. ASSUME NEW i \in 1..6 PROVE t[i + 1] = j2[i]
    <3>1. i \in 1..(m + 10)
      BY <1>2
    <3> QED BY <1>18, <2>1, <3>1
  <2>3. ASSUME NEW i \in 1..(m + 4) PROVE t[i + 7] = f3[i]
    <3>1. 6 + i \in 1..(m + 10) /\ (6 + i) + 1 = i + 7
      BY <1>2
    <3> QED BY <1>18, <2>1, <3>1
  <2> QED BY <2>2, <2>3
<1>20. /\ f3[1] = Word("data") /\ f3[2] = Mark(":")
       /\ \A i \in 1..(m + 2) : f3[i + 2] = object[i]
  BY <1>9 DEF FieldOf
<1>21. /\ t[8] = Word("data") /\ t[9] = Mark(":") /\ t[10] = LBrace /\ t[m + 11] = RBrace
  <2>1. 1 \in 1..(m + 4) /\ 2 \in 1..(m + 4) /\ 1 + 7 = 8 /\ 2 + 7 = 9
    BY <1>2
  <2>2. t[8] = Word("data") /\ t[9] = Mark(":")
    BY <1>19, <1>20, <2>1
  <2>3. ASSUME NEW i \in 1..(m + 2) PROVE t[i + 9] = object[i]
    <3>1. i + 2 \in 1..(m + 4) /\ (i + 2) + 7 = i + 9
      BY <1>2
    <3> QED BY <1>19, <1>20, <3>1
  <2>4. 1 \in 1..(m + 2) /\ m + 2 \in 1..(m + 2) /\ 1 + 9 = 10 /\ (m + 2) + 9 = m + 11
    BY <1>2
  <2>5. t[1 + 9] = object[1] /\ t[(m + 2) + 9] = object[m + 2]
    BY <2>3, <2>4
  <2> QED BY <1>8, <2>2, <2>4, <2>5
<1>22. ASSUME NEW i \in 1..n, NEW k \in 1..24
       PROVE  t[10 + 24 * (i - 1) + k] = AnswerFor(q[i])[k]
  <2> DEFINE x == 24 * (i - 1) + k
  <2>1. x \in 1..m /\ x + 1 \in 1..(m + 2) /\ (x + 1) + 2 \in 1..(m + 4)
        /\ ((x + 1) + 2) + 7 = 10 + 24 * (i - 1) + k
    BY <1>2
  <2>2. flat[x] = AnswerFor(q[i])[k]
    BY <1>3, <1>5 DEF Blocks
  <2> HIDE DEF x
  <2>3. t[((x + 1) + 2) + 7] = flat[x]
    BY <1>8, <1>19, <1>20, <2>1
  <2> QED BY <2>1, <2>2, <2>3
<1>23. /\ t[2] = Word("cid") /\ t[3] = Mark(":") /\ t[4] = Written(id)
       /\ t[5] = Word("machineConnected") /\ t[6] = Mark(":") /\ t[7] = Mark("true")
  BY <1>13, <1>19
<1>24. AnswerOf(t, id, q, n)
  BY <1>2, <1>18, <1>21, <1>22, <1>23 DEF AnswerOf
<1> QED BY <1>1, <1>24 DEF id

(* The words of an answer that are not the name of a block                 *)
FieldWords ==
    {"cid", "machineConnected", "data", "value", "dev_time", "svr_time", "item_path",
     "item_description", "item_name"}

(* Every word of an answer that is no name of a block                      *)
OtherWords(id, q) ==
    LET names == {Escape(ItemNameFromPath(q[i])) : i \in DOMAIN q}
    IN  FieldWords \cup {Escape(id)} \cup names \cup {"/DV:mock/CP:mock/DT:" \o a : a \in names}

(* In a block only the first word can be something else.                   *)
LEMMA WordOfBlock ==
    ASSUME NEW path, NEW other, NEW k \in 1..24, AnswerFor(path)[k] = Word(other),
           other \notin FieldWords, other # Escape(ItemNameFromPath(path)),
           other # "/DV:mock/CP:mock/DT:" \o Escape(ItemNameFromPath(path))
    PROVE  k = 1 /\ other = Escape(path)
<1> DEFINE t == AnswerFor(path)
<1> DEFINE name == Escape(ItemNameFromPath(path))
<1> DEFINE full == "/DV:mock/CP:mock/DT:" \o name
<1>1. BlockOf(t, path)
  BY BlockShape
<1>2. other # name /\ other # full
  OBVIOUS
<1>3. /\ t[1] = Word(Escape(path)) /\ t[17] = Word(full)
      /\ t[20] = Word(name) /\ t[23] = Word(name)
      /\ t[3] = LBrace /\ t[24] = RBrace
  BY <1>1, Zenon DEF BlockOf, Written
<1>4. /\ t[2] = Mark(":") /\ t[5] = Mark(":") /\ t[10] = Mark(":") /\ t[13] = Mark(":")
      /\ t[16] = Mark(":") /\ t[19] = Mark(":") /\ t[22] = Mark(":")
      /\ t[6] = Mark("[") /\ t[8] = Mark("]")
  BY <1>1, Zenon DEF BlockOf
<1>5. /\ t[4] = Word("value") /\ t[9] = Word("dev_time") /\ t[12] = Word("svr_time")
      /\ t[15] = Word("item_path") /\ t[18] = Word("item_description")
      /\ t[21] = Word("item_name")
  BY <1>1, Zenon DEF BlockOf
<1>6. t[7] = Number(path) /\ t[11] = Number("now") /\ t[14] = Number("now")
  BY <1>1, Zenon DEF BlockOf
<1>7. t[k] = Word(other) /\ Word(other).kind = "word"
  BY Marks
<1> HIDE DEF t, name, full
<1>8. k \notin {17, 20, 23}
  BY <1>2, <1>3, <1>7, WordsDiffer
<1>9. k \notin {2, 5, 10, 13, 16, 19, 22, 6, 8}
  BY <1>4, <1>7, Marks
<1>10. k \notin {4, 9, 12, 15, 18, 21}
  BY <1>5, <1>7, WordsDiffer DEF FieldWords
<1>11. k \notin {7, 11, 14}
  <2>1. Number(path).kind # "word" /\ Number("now").kind # "word"
    BY DEF Number
  <2> QED BY <1>6, <1>7, <2>1
<1>12. k \notin {3, 24}
  <2>1. LBrace # Word(other) /\ RBrace # Word(other)
    BY Marks, Zenon DEF LBrace, RBrace
  <2> QED BY <1>3, <1>7, <2>1
<1>13. k = 1
  BY <1>8, <1>9, <1>10, <1>11, <1>12
<1> QED BY <1>3, <1>7, <1>13, WordsDiffer

(* A place behind the head of the answer is in one of its blocks.          *)
LEMMA Position ==
    ASSUME NEW n \in Nat, NEW j \in 1..(24 * n)
    PROVE  \E i \in 1..n : \E k \in 1..24 : j = 24 * (i - 1) + k
<1> DEFINE i == ((j - 1) \div 24) + 1
<1> DEFINE k == ((j - 1) % 24) + 1
<1>1. i \in 1..n /\ k \in 1..24 /\ j = 24 * (i - 1) + k
  OBVIOUS
<1> QED BY <1>1

(* A word of the answer that is none of these is the name of a block.      *)
LEMMA WordOfAnswer ==
    ASSUME NEW id, NEW q, NEW n, IsSeq(q, n), NEW t, AnswerOf(t, id, q, n),
           NEW other, other \notin OtherWords(id, q),
           NEW j \in 1..(24 * n + 12), t[j] = Word(other)
    PROVE  \E i \in 1..n : j = 11 + 24 * (i - 1) /\ Escape(q[i]) = other
<1>1. n \in Nat /\ DOMAIN q = 1..n
  BY SeqLen
<1>2. t[j].kind = "word"
  BY Marks
<1>3. j \notin {1, 10}
  <2>1. t[1] = LBrace /\ t[10] = LBrace
    BY DEF AnswerOf
  <2>2. LBrace # Word(other)
    BY Marks, Zenon DEF LBrace
  <2> QED BY <2>1, <2>2
<1>4. j \notin {3, 6, 7, 9}
  <2>1. t[3] = Mark(":") /\ t[6] = Mark(":") /\ t[7] = Mark("true") /\ t[9] = Mark(":")
    BY DEF AnswerOf
  <2> QED BY <2>1, Marks
<1>5. j \notin {2, 5, 8}
  <2>1. t[2] = Word("cid") /\ t[5] = Word("machineConnected") /\ t[8] = Word("data")
    BY DEF AnswerOf
  <2>2. other \notin FieldWords
    BY DEF OtherWords
  <2> QED BY <2>1, <2>2, WordsDiffer DEF FieldWords
<1>6. j # 4
  <2>1. t[4] = Word(Escape(id))
    BY DEF AnswerOf, Written
  <2>2. other # Escape(id)
    BY DEF OtherWords
  <2> QED BY <2>1, <2>2, WordsDiffer
<1>7. j \notin {24 * n + 11, 24 * n + 12}
  <2>1. t[24 * n + 11] = RBrace /\ t[24 * n + 12] = RBrace
    BY DEF AnswerOf
  <2>2. RBrace # Word(other)
    BY Marks, Zenon DEF RBrace
  <2> QED BY <2>1, <2>2
<1>8. j - 10 \in 1..(24 * n)
  BY <1>1, <1>3, <1>4, <1>5, <1>6, <1>7
<1>9. PICK i \in 1..n : \E k \in 1..24 : j - 10 = 24 * (i - 1) + k
  BY <1>1, <1>8, Position
<1>10. PICK k \in 1..24 : j - 10 = 24 * (i - 1) + k
  BY <1>9
<1>11. AnswerFor(q[i])[k] = Word(other)
  <2>1. j = 10 + 24 * (i - 1) + k
    BY <1>1, <1>10
  <2> QED BY <2>1 DEF AnswerOf
<1>12. /\ other \notin FieldWords
       /\ other # Escape(ItemNameFromPath(q[i]))
       /\ other # "/DV:mock/CP:mock/DT:" \o Escape(ItemNameFromPath(q[i]))
  <2>1. Escape(ItemNameFromPath(q[i])) \in {Escape(ItemNameFromPath(q[x])) : x \in DOMAIN q}
    BY <1>1
  <2> QED BY <2>1, Zenon DEF OtherWords
<1>13. k = 1 /\ other = Escape(q[i])
  BY <1>11, <1>12, WordOfBlock
<1>14. j = 11 + 24 * (i - 1)
  BY <1>1, <1>10, <1>13
<1> QED BY <1>13, <1>14

(* Every path that the driver took is the name of a block.                 *)
LEMMA EveryPathHasAField ==
    ASSUME NEW id, NEW q, NEW n, NEW t, AnswerOf(t, id, q, n), NEW i \in 1..n
    PROVE  HasField(t, Escape(q[i]))
<1> DEFINE l == 24 * n + 12
<1> DEFINE x == 10 + 24 * (i - 1) + 1
<1>1. n \in Nat /\ IsSeq(t, l)
  BY DEF AnswerOf
<1>2. l \in Nat /\ x \in 1..l
  BY <1>1
<1>3. t[x] = AnswerFor(q[i])[1]
  BY DEF AnswerOf
<1>4. AnswerFor(q[i])[1] = Word(Escape(q[i]))
  BY BlockShape, Zenon DEF BlockOf
<1> HIDE DEF l, x
<1>5. Len(t) = l
  BY <1>1, SeqLen
<1> QED
  <2> DEFINE name == Escape(q[i])
  <2> DEFINE S == {j \in 1..l : t[j] = Word(name)}
  <2>1. x \in S /\ S \subseteq Nat
    BY <1>2, <1>3, <1>4
  <2>2. KeyAt(t, name) = IF S # {} THEN Min(S) ELSE 0
    BY <1>5 DEF KeyAt, SelectInSeq
  <2>3. \A j \in S : j # 0
    OBVIOUS
  <2> HIDE DEF S
  <2>4. PICK m \in S : \A j \in S : m <= j
    BY <2>1, MinExists
  <2>5. Min(S) = m
    BY <2>1, <2>4, MinIs
  <2> HIDE DEF name
  <2>6. HasField(t, name)
    BY <2>2, <2>3, <2>4, <2>5 DEF HasField
  <2> QED BY <2>6 DEF name

-----------------------------------------------------------------------------
(* What the collector takes out of an answer                               *)

(* Searching for a brace, and comparing the numbers of braces              *)
FindBrace(text, from) == FindMark(text, from, "{")
Balanced(text, a, i) == Count(text, a, i, "{") = Count(text, a, i, "}")

(* From h to e stands one pair of braces, with none between them.          *)
Braces(t, h, e) ==
    /\ h \in Nat /\ e \in Nat /\ h < e /\ t[h] = LBrace /\ t[e] = RBrace
    /\ \A i \in (h + 1)..e : t[i] # LBrace
    /\ \A i \in h..(e - 1) : t[i] # RBrace

(* Between such braces the counts agree at the closing one only.           *)
LEMMA CountsOfObject ==
    ASSUME NEW t, NEW h, NEW e, Braces(t, h, e), NEW i \in h..e
    PROVE  Balanced(t, h, i) <=> i = e
<1> DEFINE opens == {j \in h..i : t[j] = LBrace}
<1> DEFINE closes == {j \in h..i : t[j] = RBrace}
<1>1. Count(t, h, i, "{") = Cardinality(opens) /\ Count(t, h, i, "}") = Cardinality(closes)
  BY Zenon DEF Count, LBrace, RBrace
<1>2. opens = {h}
  BY DEF Braces
<1>3. closes = IF i = e THEN {e} ELSE {}
  BY DEF Braces
<1>4. Cardinality({h}) = 1 /\ Cardinality({e}) = 1 /\ Cardinality({}) = 0
  BY FS_Singleton, FS_EmptySet
<1> HIDE DEF opens, closes
<1>5. Cardinality(opens) = Cardinality(closes) <=> i = e
  BY <1>2, <1>3, <1>4
<1> QED BY <1>1, <1>5, Zenon DEF Balanced

(* FindBrace returns the first place of an opening brace.                  *)
LEMMA FindBraceIs ==
    ASSUME NEW text, NEW n \in Nat, Len(text) = n, NEW from \in Nat,
           NEW k \in from..n, text[k] = LBrace,
           \A i \in from..n : i < k => text[i] # LBrace
    PROVE  FindBrace(text, from) = k
<1> DEFINE I == {i \in from..n : text[i] = LBrace}
<1>1. I \subseteq Nat /\ k \in I /\ \A i \in I : k <= i
  OBVIOUS
<1>2. FindBrace(text, from) = IF I # {} THEN Min(I) ELSE 0
  BY Zenon DEF FindBrace, FindMark, SelectInSubSeq, LBrace
<1> HIDE DEF I
<1> QED
  BY <1>1, <1>2, MinIs

(* The scanner of the answer, in these terms                               *)
LEMMA ObjectForPathIs ==
    ASSUME NEW text, NEW path
    PROVE  ExtractObjectForPath(text, path)
             = LET start == FindBrace(text, KeyAt(text, path) + 1)
                   closed == {i \in start..Len(text) : Balanced(text, start, i)}
               IN  IF ~HasField(text, path) \/ start = 0 \/ closed = {} THEN <<>>
                   ELSE SubSeq(text, start, Min(closed))
  BY Zenon DEF ExtractObjectForPath, FindBrace, Balanced

(* The scanner takes the text between the first pair of braces behind the  *)
(* name.                                                                   *)
LEMMA EnclosedObject ==
    ASSUME NEW t, NEW n \in Nat, Len(t) = n, NEW name, HasField(t, name),
           NEW x, KeyAt(t, name) = x, NEW f \in Nat, f = x + 1,
           NEW h, NEW e, Braces(t, h, e), h \in f..n, e <= n, h # 0,
           \A i \in f..n : i < h => t[i] # LBrace
    PROVE  ExtractObjectForPath(t, name) = SubSeq(t, h, e)
<1> DEFINE closed == {i \in h..n : Balanced(t, h, i)}
<1>1. FindBrace(t, f) = h
  <2>1. t[h] = LBrace
    BY DEF Braces
  <2> QED BY <2>1, FindBraceIs
<1>2. \A i \in h..e : Balanced(t, h, i) <=> i = e
  BY CountsOfObject
<1>3. h \in Nat /\ e \in Nat /\ h < e
  BY DEF Braces
<1>4. e \in closed /\ closed \subseteq Nat /\ \A i \in closed : e <= i
  <2>1. \A i \in h..n : i < e => i \in h..e /\ i # e
    BY <1>3
  <2>2. e \in h..e /\ e \in h..n
    BY <1>3
  <2>3. \A i \in closed : ~(i < e)
    BY <1>2, <2>1
  <2> QED BY <1>2, <1>3, <2>2, <2>3
<1>5. Min(closed) = e
  <2> HIDE DEF closed
  <2> QED BY <1>4, MinIs
<1>6. ExtractObjectForPath(t, name)
        = IF h = 0 \/ closed = {} THEN <<>> ELSE SubSeq(t, h, Min(closed))
  BY <1>1, ObjectForPathIs
<1> HIDE DEF closed
<1> QED BY <1>4, <1>5, <1>6

(* The block of a path stands at x.                                        *)
BlockAt(t, x, path) == \A k \in 1..24 : t[x + k - 1] = AnswerFor(path)[k]

(* o is the object in the block of a path.                                 *)
ObjectOf(o, path) == IsSeq(o, 22) /\ \A k \in 1..22 : o[k] = AnswerFor(path)[k + 2]

(* In a block only the third and the last element are braces.              *)
LEMMA BracesOfBlock ==
    ASSUME NEW path
    PROVE  LET t == AnswerFor(path)
           IN  /\ t[2] # LBrace /\ t[3] = LBrace /\ t[24] = RBrace
               /\ \A k \in 4..23 : t[k] # LBrace
               /\ \A k \in 3..23 : t[k] # RBrace
               /\ LBrace # RBrace
<1> DEFINE t == AnswerFor(path)
<1>1. BlockOf(t, path)
  BY BlockShape
<1>2. t[3] = LBrace /\ t[24] = RBrace
  BY <1>1, Zenon DEF BlockOf
<1>3. /\ t[2] = Mark(":") /\ t[5] = Mark(":") /\ t[10] = Mark(":") /\ t[13] = Mark(":")
      /\ t[16] = Mark(":") /\ t[19] = Mark(":") /\ t[22] = Mark(":")
      /\ t[6] = Mark("[") /\ t[8] = Mark("]")
  BY <1>1, Zenon DEF BlockOf
<1>4. /\ t[4].kind = "word" /\ t[9].kind = "word" /\ t[12].kind = "word"
      /\ t[15].kind = "word" /\ t[18].kind = "word" /\ t[21].kind = "word"
  <2>1. /\ t[4] = Word("value") /\ t[9] = Word("dev_time") /\ t[12] = Word("svr_time")
        /\ t[15] = Word("item_path") /\ t[18] = Word("item_description")
        /\ t[21] = Word("item_name")
    BY <1>1, Zenon DEF BlockOf
  <2> QED BY <2>1, Marks
<1>5. t[17].kind = "word" /\ t[20].kind = "word" /\ t[23].kind = "word"
  <2> DEFINE name == ItemNameFromPath(path)
  <2>1. /\ t[17] = Word("/DV:mock/CP:mock/DT:" \o Escape(name))
        /\ t[20] = Word(Escape(name)) /\ t[23] = Word(Escape(name))
    BY <1>1, Zenon DEF BlockOf, Written
  <2> QED BY <2>1, Marks
<1>6. t[7].kind # "word" /\ t[7] = Number(path) /\ t[11] = Number("now") /\ t[14] = Number("now")
  BY <1>1, Marks, Zenon DEF BlockOf
<1>7. /\ LBrace # RBrace /\ LBrace.kind = "mark" /\ RBrace.kind = "mark"
      /\ LBrace # Mark(":") /\ LBrace # Mark("[") /\ LBrace # Mark("]")
      /\ RBrace # Mark(":") /\ RBrace # Mark("[") /\ RBrace # Mark("]")
  <2>1. "{" # "}" /\ "{" # ":" /\ "{" # "[" /\ "{" # "]" /\ "}" # ":" /\ "}" # "[" /\ "}" # "]"
    BY Zenon
  <2>2. LBrace = Mark("{") /\ RBrace = Mark("}")
    BY Zenon DEF LBrace, RBrace
  <2>3. \A c : Mark(c).kind = "mark"
    BY DEF Mark
  <2> QED BY <2>1, <2>2, <2>3, MarksDiffer, Zenon
<1>8. /\ Number(path).kind = "number" /\ Number("now").kind = "number"
  BY DEF Number
<1> HIDE DEF t
<1>9. t[2] # LBrace
  BY <1>3, <1>7
<1>10. ASSUME NEW k \in 4..23 PROVE t[k] # LBrace /\ t[k] # RBrace
  <2>1. CASE k \in {5, 6, 8, 10, 13, 16, 19, 22}
    BY <2>1, <1>3, <1>7
  <2>2. CASE k \in {4, 9, 12, 15, 17, 18, 20, 21, 23}
    BY <2>2, <1>4, <1>5, <1>7
  <2>3. CASE k \in {7, 11, 14}
    BY <2>3, <1>6, <1>7, <1>8
  <2> QED BY <2>1, <2>2, <2>3
<1>11. t[3] # RBrace
  BY <1>2, <1>7
<1>12. \A k \in 3..23 : t[k] # RBrace
  BY <1>10, <1>11
<1> QED BY <1>2, <1>7, <1>9, <1>10, <1>12 DEF t

(* Where the name is the head of a block, that is the object of its path.  *)
LEMMA ObjectAt ==
    ASSUME NEW t, NEW n, IsSeq(t, n), NEW name, HasField(t, name),
           NEW x \in 1..n, x + 23 <= n, KeyAt(t, name) = x, NEW path,
           BlockAt(t, x, path)
    PROVE  ObjectOf(ExtractObjectForPath(t, name), path)
<1> DEFINE h == x + 2
<1> DEFINE e == x + 23
<1> DEFINE o == SubSeq(t, h, e)
<1>1. n \in Nat /\ Len(t) = n /\ h \in Nat /\ e \in Nat /\ h < e /\ e <= n
      /\ h = x + 2 /\ e = x + 23
  <2>1. n \in Nat /\ Len(t) = n
    BY SeqLen
  <2> QED BY <2>1
<1>2. /\ t[x + 1] # LBrace /\ t[h] = LBrace /\ t[e] = RBrace
      /\ \A i \in (h + 1)..e : t[i] # LBrace
      /\ \A i \in h..(e - 1) : t[i] # RBrace
  <2> DEFINE a == AnswerFor(path)
  <2>1. /\ a[2] # LBrace /\ a[3] = LBrace /\ a[24] = RBrace
        /\ \A k \in 4..23 : a[k] # LBrace
        /\ \A k \in 3..23 : a[k] # RBrace
        /\ LBrace # RBrace
    BY BracesOfBlock
  <2> HIDE DEF a
  <2>2. \A k \in 1..24 : t[x + k - 1] = a[k]
    BY DEF a, BlockAt
  <2>3. x + 2 - 1 = x + 1 /\ x + 3 - 1 = h /\ x + 24 - 1 = e
    BY <1>1
  <2>4. t[x + 1] = a[2] /\ t[h] = a[3] /\ t[e] = a[24]
    <3>1. t[x + 2 - 1] = a[2] /\ t[x + 3 - 1] = a[3] /\ t[x + 24 - 1] = a[24]
      BY <2>2
    <3> QED BY <2>3, <3>1
  <2>5. ASSUME NEW i \in (h + 1)..e PROVE t[i] # LBrace
    <3>1. i - x + 1 \in 4..24 /\ x + (i - x + 1) - 1 = i
      BY <1>1
    <3>2. t[i] = a[i - x + 1]
      BY <2>2, <3>1
    <3> QED BY <2>1, <3>1, <3>2
  <2>6. ASSUME NEW i \in h..(e - 1) PROVE t[i] # RBrace
    <3>1. i - x + 1 \in 3..23 /\ x + (i - x + 1) - 1 = i
      BY <1>1
    <3>2. t[i] = a[i - x + 1]
      BY <2>2, <3>1
    <3> QED BY <2>1, <3>1, <3>2
  <2> QED BY <2>1, <2>4, <2>5, <2>6
<1> HIDE DEF o
<1>7. ExtractObjectForPath(t, name) = o
  <2> DEFINE f == x + 1
  <2>1. f \in Nat /\ h \in f..n /\ h # 0
    BY <1>1
  <2>5. \A i \in f..n : i < h => i = f
    BY <1>1
  <2>2. \A i \in f..n : i < h => t[i] # LBrace
    BY <1>2, <2>5
  <2>3. Braces(t, h, e)
    BY <1>1, <1>2 DEF Braces
  <2>4. f = x + 1
    OBVIOUS
  <2>6. n \in Nat /\ Len(t) = n /\ e <= n
    BY <1>1
  <2> HIDE DEF h, e, f
  <2> QED BY <2>1, <2>2, <2>3, <2>4, <2>6, EnclosedObject DEF o
<1>8. SubSeqOf(o, t, h, 22)
  <2>1. h \in Nat \ {0} /\ h + 22 <= n + 1 /\ e \in Int /\ e = h + 22 - 1
    BY <1>1
  <2> HIDE DEF h, e
  <2> QED BY <1>1, <2>1, SubSeqIs DEF o
<1>9. ASSUME NEW k \in 1..22 PROVE o[k] = AnswerFor(path)[k + 2]
  <2>1. o[k] = t[h + k - 1]
    BY <1>8 DEF SubSeqOf
  <2>2. k + 2 \in 1..24 /\ h + k - 1 = x + (k + 2) - 1
    BY <1>1
  <2>3. t[x + (k + 2) - 1] = AnswerFor(path)[k + 2]
    BY <2>2 DEF BlockAt
  <2> QED BY <2>1, <2>2, <2>3
<1>10. IsSeq(o, 22)
  BY <1>8 DEF SubSeqOf
<1> QED BY <1>7, <1>9, <1>10 DEF ObjectOf

(* What the collector finds under a name that is no other word             *)
LEMMA ObjectForPath ==
    ASSUME NEW id, NEW q, NEW n, IsSeq(q, n), NEW t, AnswerOf(t, id, q, n),
           NEW name, name \notin OtherWords(id, q), HasField(t, name)
    PROVE  \E i \in 1..n : Escape(q[i]) = name /\ ObjectOf(ExtractObjectForPath(t, name), q[i])
<1> DEFINE l == 24 * n + 12
<1>1. n \in Nat /\ IsSeq(t, l) /\ l \in Nat /\ Len(t) = l
  <2>1. n \in Nat /\ IsSeq(t, l)
    BY DEF AnswerOf
  <2>2. l \in Nat
    BY <2>1
  <2> HIDE DEF l
  <2> QED BY <2>1, <2>2, SeqLen
<1>2. PICK x \in 1..l : KeyAt(t, name) = x /\ t[x] = Word(name)
  <2> HIDE DEF l
  <2> QED BY <1>1, KeyAtFirst
<1>3. PICK i \in 1..n : x = 11 + 24 * (i - 1) /\ Escape(q[i]) = name
  BY <1>2, WordOfAnswer
<1>4. x + 23 <= l
  BY <1>1, <1>3
<1>5. BlockAt(t, x, q[i])
  <2>1. ASSUME NEW k \in 1..24 PROVE t[x + k - 1] = AnswerFor(q[i])[k]
    <3>1. x + k - 1 = 10 + 24 * (i - 1) + k
      BY <1>1, <1>3
    <3> QED BY <3>1 DEF AnswerOf
  <2> QED BY <2>1 DEF BlockAt
<1>6. ObjectOf(ExtractObjectForPath(t, name), q[i])
  <2> HIDE DEF l
  <2>1. x \in 1..l /\ KeyAt(t, name) = x
    BY <1>2
  <2> DEFINE path == q[i]
  <2>2. BlockAt(t, x, path)
    BY <1>5
  <2> HIDE DEF path
  <2>3. ObjectOf(ExtractObjectForPath(t, name), path)
    BY <1>1, <1>4, <2>1, <2>2, ObjectAt
  <2> QED BY <2>3 DEF path
<1> QED BY <1>3, <1>6

(* What the object of a path says                                          *)
ObjectText(o, path) ==
    LET name == ItemNameFromPath(path)
    IN  /\ o[1] = LBrace /\ o[2] = Word("value") /\ o[3] = Mark(":")
        /\ o[4] = Mark("[") /\ o[5] = Number(path) /\ o[6] = Mark("]")
        /\ o[7] = Word("dev_time") /\ o[8] = Mark(":") /\ o[9] = Number("now")
        /\ o[10] = Word("svr_time") /\ o[11] = Mark(":") /\ o[12] = Number("now")
        /\ o[13] = Word("item_path") /\ o[14] = Mark(":")
        /\ o[15] = Word("/DV:mock/CP:mock/DT:" \o Escape(name))
        /\ o[16] = Word("item_description") /\ o[17] = Mark(":") /\ o[18] = Written(name)
        /\ o[19] = Word("item_name") /\ o[20] = Mark(":") /\ o[21] = Written(name)
        /\ o[22] = RBrace

(* An object says so.                                                      *)
LEMMA ObjectSays ==
    ASSUME NEW o, NEW path, ObjectOf(o, path)
    PROVE  ObjectText(o, path) /\ IsSeq(o, 22) /\ Len(o) = 22
<1> DEFINE t == AnswerFor(path)
<1>1. BlockOf(t, path)
  BY BlockShape
<1>2. IsSeq(o, 22) /\ Len(o) = 22
  BY SeqLen DEF ObjectOf
<1>3. \A k \in 1..22 : o[k] = t[k + 2]
  BY DEF ObjectOf
<1> HIDE DEF t
<1>4. /\ o[1] = t[3] /\ o[2] = t[4] /\ o[3] = t[5] /\ o[4] = t[6] /\ o[5] = t[7] /\ o[6] = t[8]
      /\ o[7] = t[9] /\ o[8] = t[10] /\ o[9] = t[11] /\ o[10] = t[12] /\ o[11] = t[13]
      /\ o[12] = t[14] /\ o[13] = t[15] /\ o[14] = t[16] /\ o[15] = t[17] /\ o[16] = t[18]
      /\ o[17] = t[19] /\ o[18] = t[20] /\ o[19] = t[21] /\ o[20] = t[22] /\ o[21] = t[23]
      /\ o[22] = t[24]
  BY <1>3
<1>5. ObjectText(o, path)
  BY <1>1, <1>4, Zenon DEF BlockOf, ObjectText
<1> QED BY <1>2, <1>5

(* The value that is read from the object of a path is that of the path.   *)
LEMMA ValueOfObject ==
    ASSUME NEW o, NEW path, ObjectOf(o, path)
    PROVE  ExtractArrayFieldText(o, "value") = ValueForPath(path)
<1>1. ObjectText(o, path) /\ IsSeq(o, 22) /\ Len(o) = 22
  BY ObjectSays
<1>2. /\ o[1] = LBrace /\ o[2] = Word("value") /\ o[3] = Mark(":")
      /\ o[4] = Mark("[") /\ o[5] = Number(path) /\ o[6] = Mark("]")
  BY <1>1 DEF ObjectText
<1> DEFINE n == 22
<1>0. n \in Nat /\ Len(o) = n
  BY <1>1
<1>3. HasField(o, "value") /\ KeyAt(o, "value") = 2
  <2>1. o[1] # Word("value")
    BY <1>2, NoBraceIsAWord
  <2>2. 2 \in 1..n /\ \A i \in 1..n : i < 2 => o[i] # Word("value")
    BY <2>1
  <2> HIDE DEF n
  <2> QED BY <1>0, <1>2, <2>2, KeyAtIs
<1>4. FindMark(o, 3, "[") = 4
  <2>1. o[3] # Mark("[")
    BY <1>2, MarksDiffer
  <2>2. 3 \in Nat /\ 4 \in 3..n /\ \A i \in 3..n : i < 4 => o[i] # Mark("[")
    BY <2>1
  <2> HIDE DEF n
  <2> QED BY <1>0, <1>2, <2>2, FindMarkIs
<1>5. FindBracket(o, 4) = 6
  <2>1. Closing(o[6])
    BY <1>2 DEF Closing
  <2>2. ~Closing(o[4]) /\ ~Closing(o[5])
    BY <1>2, Marks, MarksDiffer DEF Closing
  <2>3. 4 \in Nat /\ 6 \in 4..n /\ \A i \in 4..n : i < 6 => ~Closing(o[i])
    BY <2>2
  <2> HIDE DEF n
  <2> QED BY <1>0, <2>1, <2>3, FindBracketIs
<1> DEFINE u == SubSeq(o, 4, 6)
<1>6. ExtractArrayFieldText(o, "value") = u
  <2>1. 2 + 1 = 3 /\ 4 # 0 /\ 6 # 0
    OBVIOUS
  <2> QED BY <1>3, <1>4, <1>5, <2>1 DEF ExtractArrayFieldText
<1>7. SubSeqOf(u, o, 4, 3)
  <2>1. 4 \in Nat \ {0} /\ 3 \in Nat /\ 4 + 3 <= 22 + 1 /\ 6 \in Int /\ 6 = 4 + 3 - 1
    OBVIOUS
  <2> QED BY <1>1, <2>1, SubSeqIs
<1> HIDE DEF u
<1>8. IsSeq(u, 3) /\ u[1] = Mark("[") /\ u[2] = Number(path) /\ u[3] = Mark("]")
  <2>1. \A i \in 1..3 : u[i] = o[4 + i - 1]
    BY <1>7 DEF SubSeqOf
  <2>2. u[1] = o[4] /\ u[2] = o[5] /\ u[3] = o[6]
    BY <2>1
  <2> QED BY <1>2, <1>7, <2>2 DEF SubSeqOf
<1> DEFINE one == <<Number(path)>>
<1> DEFINE array == Enclosed("[", one, "]")
<1>9. IsSeq(one, 1) /\ one[1] = Number(path)
  BY OneIs
<1>10. ValueForPath(path) = array
  BY DEF ValueForPath
<1> HIDE DEF one
<1>11. EnclosedOf(array, Mark("["), one, 1, Mark("]"))
  BY <1>9, EnclosedIs
<1>12. IsSeq(array, 3) /\ array[1] = Mark("[") /\ array[2] = Number(path) /\ array[3] = Mark("]")
  BY <1>9, <1>11 DEF EnclosedOf
<1> HIDE DEF array
<1>13. \A i \in 1..3 : u[i] = array[i]
  BY <1>8, <1>12
<1>14. u = array
  BY <1>8, <1>12, <1>13, SameSeq
<1> QED BY <1>6, <1>10, <1>14

(* The item name is the one the driver has made of the path, even if a     *)
(* word of the object is spelt like the name of the field.                 *)
LEMMA NameOfObject ==
    ASSUME NEW o, NEW path, ObjectOf(o, path)
    PROVE  StringField(o, "item_name") = Unescape(Escape(ItemNameFromPath(path)))
<1> DEFINE name == ItemNameFromPath(path)
<1> DEFINE full == "/DV:mock/CP:mock/DT:" \o Escape(name)
<1> DEFINE key == Word("item_name")
<1>1. ObjectText(o, path) /\ Len(o) = 22
  BY ObjectSays
<1>2. /\ o[1] = LBrace /\ o[2] = Word("value") /\ o[7] = Word("dev_time")
      /\ o[10] = Word("svr_time") /\ o[13] = Word("item_path") /\ o[15] = Word(full)
      /\ o[16] = Word("item_description") /\ o[18] = Word(Escape(name))
      /\ o[19] = key /\ o[21] = Word(Escape(name))
      /\ o[3] = Mark(":") /\ o[4] = Mark("[") /\ o[6] = Mark("]") /\ o[8] = Mark(":")
      /\ o[11] = Mark(":") /\ o[14] = Mark(":") /\ o[17] = Mark(":") /\ o[20] = Mark(":")
      /\ o[5] = Number(path) /\ o[9] = Number("now") /\ o[12] = Number("now")
  BY <1>1, Zenon DEF ObjectText, Written
<1>3. \A i \in 1..14 : o[i] # key
  <2>1. o[1] # key
    BY <1>2, NoBraceIsAWord
  <2>2. o[3] # key /\ o[4] # key /\ o[6] # key /\ o[8] # key /\ o[11] # key /\ o[14] # key
    BY <1>2, Marks
  <2>3. o[5] # key /\ o[9] # key /\ o[12] # key
    BY <1>2 DEF Number, Word
  <2>4. o[2] # key /\ o[7] # key /\ o[10] # key /\ o[13] # key
    BY <1>2, WordsDiffer
  <2> QED BY <2>1, <2>2, <2>3, <2>4
<1>4. o[16] # key /\ o[17] # key
  BY <1>2, Marks, WordsDiffer
<1>5. /\ o[18].kind = "word" /\ o[18].text = Escape(name)
      /\ o[21].kind = "word" /\ o[21].text = Escape(name)
      /\ o[15] # Mark(":") /\ o[16] # Mark(":") /\ o[18] # Mark(":") /\ o[19] # Mark(":")
      /\ key # Mark(":")
  BY <1>2, Marks
<1> DEFINE n == 22
<1>0. n \in Nat /\ Len(o) = n
  BY <1>1
<1> HIDE DEF full, name, key
<1>6. CASE o[15] = key
  <2>1. 15 \in 1..n /\ \A i \in 1..n : i < 15 => o[i] # key
    BY <1>3
  <2>2. 17 \in (15 + 1)..n /\ \A i \in (15 + 1)..n : i < 17 => o[i] # Mark(":")
    BY <1>5
  <2>3. 18 \in (17 + 1)..n /\ \A i \in (17 + 1)..n : i < 18 => o[i].kind # "word"
    OBVIOUS
  <2> HIDE DEF n
  <2>4. StringField(o, "item_name") = Unescape(o[18].text)
    BY <1>0, <1>2, <1>5, <1>6, <2>1, <2>2, <2>3, StringFieldIs, ZenonT(60) DEF key
  <2> QED BY <1>5, <2>4 DEF name
<1>7. ASSUME NEW k \in {18, 19}, o[k] = key, \A i \in 1..n : i < k => o[i] # key
      PROVE  StringField(o, "item_name") = Unescape(Escape(name))
  <2>1. k \in 1..n
    OBVIOUS
  <2>2. 20 \in (k + 1)..n /\ \A i \in (k + 1)..n : i < 20 => o[i] # Mark(":")
    BY <1>5
  <2>3. 21 \in (20 + 1)..n /\ \A i \in (20 + 1)..n : i < 21 => o[i].kind # "word"
    OBVIOUS
  <2> HIDE DEF n
  <2>4. StringField(o, "item_name") = Unescape(o[21].text)
    BY <1>0, <1>2, <1>5, <1>7, <2>1, <2>2, <2>3, StringFieldIs, ZenonT(60) DEF key
  <2> QED BY <1>5, <2>4
<1>8. CASE o[15] # key /\ o[18] = key
  <2>1. \A i \in 1..n : i < 18 => o[i] # key
    BY <1>3, <1>4, <1>8
  <2> QED BY <1>7, <1>8, <2>1 DEF name
<1>9. CASE o[15] # key /\ o[18] # key
  <2>1. \A i \in 1..n : i < 19 => o[i] # key
    BY <1>3, <1>4, <1>9
  <2>2. o[19] = key
    BY <1>2
  <2> QED BY <1>7, <2>1, <2>2 DEF name
<1> QED BY <1>6, <1>8, <1>9

(* Without an object no value is read.                                     *)
LEMMA NoArray == ExtractArrayFieldText(<<>>, "value") = <<>>
<1>1. ~HasField(<<>>, "value")
  <2>1. Len(<<>>) = 0 /\ \A i \in 1..0 : <<>>[i] # Word("value")
    OBVIOUS
  <2> QED BY <2>1, KeyAtNone
<1> QED BY <1>1 DEF ExtractArrayFieldText

(* A value is not empty.                                                   *)
LEMMA ValueIsSomething ==
    ASSUME NEW path
    PROVE  ValueForPath(path) # <<>>
<1> DEFINE one == <<Number(path)>>
<1>1. IsSeq(one, 1)
  BY OneIs
<1>2. ValueForPath(path) = Enclosed("[", one, "]")
  BY DEF ValueForPath
<1> HIDE DEF one
<1> DEFINE array == Enclosed("[", one, "]")
<1>3. EnclosedOf(array, Mark("["), one, 1, Mark("]"))
  BY <1>1, EnclosedIs
<1>4. IsSeq(array, 3)
  BY <1>3 DEF EnclosedOf
<1> HIDE DEF array
<1>5. Len(array) = 3
  BY <1>4, SeqLen
<1>6. array # <<>>
  BY <1>5
<1> QED BY <1>2, <1>6 DEF array

-----------------------------------------------------------------------------
(* A query, its answer and the records                                     *)

(* Every word of the answer to the query for points that is not a path,    *)
(* and the spellings of escaped strings: what a path can be mistaken for   *)
Mistakable(cid, points) ==
    LET names == {Escape(ItemNameFromPath(Trim(Unescape(Escape(points[i].namePath))))) :
                     i \in DOMAIN points}
    IN  FieldWords \cup {"", Escape("mock-cid"), Escape(Unescape(Escape(cid)))}
        \cup names \cup {"/DV:mock/CP:mock/DT:" \o a : a \in names}
        \cup {Escaped[s] : s \in DOMAIN Escaped}

(* The answer to the query of a device, and the paths the driver took from *)
(* it                                                                      *)
AnswerTo(cid, points) == HandleQuery(BuildQuery(cid, points))
SentPaths(points, b) == [i \in 1..b |-> Trim(Unescape(Escape(points[i].namePath)))]

(* The driver has unescaped and trimmed them.                              *)
LEMMA SentPathsIs ==
    ASSUME NEW points, NEW b \in Nat
    PROVE  /\ IsSeq(SentPaths(points, b), b)
           /\ \A i \in 1..b : SentPaths(points, b)[i] = Trim(Unescape(Escape(points[i].namePath)))
  BY DEF SentPaths, IsSeq

(* The driver answers every query with the blocks of the paths up to a     *)
(* bracket, under its id or, if that is empty, another one.                *)
LEMMA AnswerToQuery ==
    ASSUME NEW cid, NEW n, NEW points, IsSeq(points, n), NEW b, Unbracketed(points, n, b)
    PROVE  \E id \in {"mock-cid", Unescape(Escape(cid))} :
               AnswerOf(AnswerTo(cid, points), id, SentPaths(points, b), b)
<1> DEFINE query == BuildQuery(cid, points)
<1> DEFINE q == SentPaths(points, b)
<1>1. b \in Nat
  BY DEF Unbracketed, IsSeq
<1>2. ExtractQueryPaths(query) = q
  BY QueryPaths DEF SentPaths
<1>3. IsSeq(q, b)
  BY <1>1, SentPathsIs
<1>4. AnswerId(query) \in {"mock-cid", Unescape(Escape(cid))}
  BY QueryId DEF AnswerId
<1> HIDE DEF query, q
<1>5. AnswerOf(HandleQuery(query), AnswerId(query), q, b)
  BY <1>2, <1>3, AnswerShape
<1> QED BY <1>4, <1>5 DEF query, q, AnswerTo

(* The words besides the names of the blocks are among them.               *)
LEMMA OtherWordsAreMistakable ==
    ASSUME NEW cid, NEW n, NEW points, IsSeq(points, n), NEW b \in 0..n,
           NEW id \in {"mock-cid", Unescape(Escape(cid))}
    PROVE  OtherWords(id, SentPaths(points, b)) \subseteq Mistakable(cid, points)
<1> DEFINE q == SentPaths(points, b)
<1> DEFINE sent == {Escape(ItemNameFromPath(q[i])) : i \in DOMAIN q}
<1> DEFINE names == {Escape(ItemNameFromPath(Trim(Unescape(Escape(points[i].namePath))))) :
                        i \in DOMAIN points}
<1>1. n \in Nat /\ DOMAIN points = 1..n /\ b \in Nat
  BY DEF IsSeq
<1>2. DOMAIN q = 1..b /\ \A i \in 1..b : q[i] = Trim(Unescape(Escape(points[i].namePath)))
  BY <1>1 DEF SentPaths
<1> HIDE DEF q
<1>3. sent \subseteq names
  BY <1>1, <1>2
<1> HIDE DEF sent, names
<1>4. OtherWords(id, q)
        = FieldWords \cup {Escape(id)} \cup sent \cup {"/DV:mock/CP:mock/DT:" \o a : a \in sent}
  BY DEF OtherWords, sent
<1>5. Mistakable(cid, points)
        = FieldWords \cup {"", Escape("mock-cid"), Escape(Unescape(Escape(cid)))}
          \cup names \cup {"/DV:mock/CP:mock/DT:" \o a : a \in names}
          \cup {Escaped[s] : s \in DOMAIN Escaped}
  BY DEF Mistakable, names
<1>6. Escape(id) \in {"", Escape("mock-cid"), Escape(Unescape(Escape(cid)))}
  OBVIOUS
<1> DEFINE full(a) == "/DV:mock/CP:mock/DT:" \o a
<1>7. {full(a) : a \in sent} \subseteq {full(a) : a \in names}
  <2> HIDE DEF full
  <2> QED BY <1>3
<1> DEFINE F == {"/DV:mock/CP:mock/DT:" \o a : a \in sent}
<1> DEFINE G == {"/DV:mock/CP:mock/DT:" \o a : a \in names}
<1>8. F \subseteq G
  BY <1>7, Zenon
<1> HIDE DEF F, G
<1>9. OtherWords(id, q) = FieldWords \cup {Escape(id)} \cup sent \cup F
  BY <1>4, Zenon DEF F
<1>10. Mistakable(cid, points)
        = FieldWords \cup {"", Escape("mock-cid"), Escape(Unescape(Escape(cid)))}
          \cup names \cup G \cup {Escaped[s] : s \in DOMAIN Escaped}
  BY <1>5, Zenon DEF G
<1> QED BY <1>3, <1>6, <1>8, <1>9, <1>10 DEF q

(* A spelling that no escaped string has is that of one string only        *)
LEMMA EscapeIs ==
    ASSUME NEW s, Escape(s) \notin {Escaped[x] : x \in DOMAIN Escaped}
    PROVE  Escape(s) = s /\ s \notin DOMAIN Escaped
  BY DEF Escape, Mapped

(* Only such spellings are unescaped.                                      *)
LEMMA UnescapeIs ==
    ASSUME NEW s, s \notin {Escaped[x] : x \in DOMAIN Escaped}
    PROVE  Unescape(s) = s
  BY EscapeAssumption DEF Unescape, Mapped

(* The item name of a path without a quote is not empty and needs no       *)
(* escaping.                                                               *)
LEMMA NameIsKept ==
    ASSUME NEW path, path # "", path \notin DOMAIN Escaped,
           path \notin {Escaped[x] : x \in DOMAIN Escaped}
    PROVE  ItemNameFromPath(path) # ""
           /\ Unescape(Escape(ItemNameFromPath(path))) = ItemNameFromPath(path)
<1>1. CASE path \in DOMAIN ItemNames
  BY <1>1, NamesAssumption DEF ItemNameFromPath, Escape, Unescape, Mapped
<1>2. CASE path \notin DOMAIN ItemNames
  <2>1. ItemNameFromPath(path) = path /\ Escape(path) = path
    BY <1>2 DEF ItemNameFromPath, Escape, Mapped
  <2> QED BY <2>1, UnescapeIs
<1> QED BY <1>1, <1>2

(* The record has the value and the name of its path.                      *)
OwnRecord(r) == r.data = ValueForPath(r.path) /\ r.itemName = ItemNameFromPath(r.path)

(* A path that can be mistaken for nothing has its own object, or none.    *)
LEMMA RecordOfPath ==
    ASSUME NEW cid, NEW n, NEW points, IsSeq(points, n), NEW point,
           point.namePath \notin Mistakable(cid, points), NEW t, t = AnswerTo(cid, points),
           NEW r, r = RecordFor(point, ExtractObjectForPath(t, point.namePath))
    PROVE  /\ HasField(t, point.namePath) => OwnRecord(r) /\ r.data # <<>>
           /\ ~HasField(t, point.namePath) => r.data = <<>>
<1> DEFINE path == point.namePath
<1> DEFINE o == ExtractObjectForPath(t, path)
<1>1. /\ r.path = path /\ r.data = ExtractArrayFieldText(o, "value")
      /\ r.itemName = LET name == StringField(o, "item_name")
                      IN  IF name = "" THEN point.itemName ELSE name
  BY DEF RecordFor
<1>2. path # "" /\ path \notin {Escaped[x] : x \in DOMAIN Escaped}
  BY DEF Mistakable
<1>3. ASSUME HasField(t, path) PROVE OwnRecord(r) /\ r.data # <<>>
  <2>1. PICK b : Unbracketed(points, n, b)
    BY UnbracketedExists DEF IsSeq
  <2> DEFINE q == SentPaths(points, b)
  <2>2. b \in 0..n /\ b \in Nat
    BY <2>1 DEF Unbracketed, IsSeq
  <2>3. IsSeq(q, b)
    BY <2>2, SentPathsIs
  <2>4. PICK id \in {"mock-cid", Unescape(Escape(cid))} : AnswerOf(t, id, q, b)
    BY <2>1, AnswerToQuery
  <2>5. path \notin OtherWords(id, q)
    BY <2>2, OtherWordsAreMistakable
  <2> HIDE DEF q, path
  <2>6. PICK i \in 1..b : Escape(q[i]) = path /\ ObjectOf(o, q[i])
    BY <1>3, <2>3, <2>4, <2>5, ObjectForPath
  <2>7. q[i] = path /\ path \notin DOMAIN Escaped
    BY <1>2, <2>6, EscapeIs
  <2>8. ObjectOf(o, path)
    BY <2>6, <2>7
  <2> HIDE DEF o
  <2>9. /\ r.data = ValueForPath(path)
        /\ StringField(o, "item_name") = Unescape(Escape(ItemNameFromPath(path)))
    BY <1>1, <2>8, ValueOfObject, NameOfObject
  <2>10. ItemNameFromPath(path) # ""
         /\ Unescape(Escape(ItemNameFromPath(path))) = ItemNameFromPath(path)
    BY <1>2, <2>7, NameIsKept
  <2>11. r.data # <<>>
    BY <2>9, ValueIsSomething
  <2> QED BY <1>1, <2>9, <2>10, <2>11 DEF OwnRecord
<1>4. ASSUME ~HasField(t, path) PROVE r.data = <<>>
  <2>1. o = <<>>
    BY <1>4, ObjectForPathIs
  <2> QED BY <1>1, <2>1, NoArray
<1> QED BY <1>3, <1>4

(* A path without a quote or outer blanks that is not cut off by a bracket *)
(* is answered.                                                            *)
LEMMA PathIsAnswered ==
    ASSUME NEW cid, NEW n, NEW points, IsSeq(points, n), NEW i \in 1..n, NEW path,
           path = points[i].namePath, path \notin Mistakable(cid, points),
           path \notin DOMAIN Escaped \cup DOMAIN Trimmed,
           \A j \in 1..i : points[j].namePath \notin Bracketed
    PROVE  HasField(AnswerTo(cid, points), path)
<1>1. PICK b : Unbracketed(points, n, b)
  BY UnbracketedExists DEF IsSeq
<1> DEFINE q == SentPaths(points, b)
<1>2. b \in 0..n /\ b \in Nat /\ n \in Nat
  BY <1>1 DEF Unbracketed, IsSeq
<1>3. i \in 1..b
  <2>1. CASE b = n
    BY <2>1
  <2>2. CASE b # n
    <3>1. Escape(points[b + 1].namePath) \in Bracketed
      BY <1>1, <2>2 DEF Unbracketed
    <3>2. points[b + 1].namePath \in Bracketed
      BY <3>1, EscapeAssumption DEF Escape, Mapped
    <3>3. b + 1 \notin 1..i
      BY <3>2
    <3> QED BY <1>2, <3>3
  <2> QED BY <2>1, <2>2
<1>4. PICK id \in {"mock-cid", Unescape(Escape(cid))} : AnswerOf(AnswerTo(cid, points), id, q, b)
  BY <1>1, AnswerToQuery
<1>5. q[i] = Trim(Unescape(Escape(path)))
  BY <1>2, <1>3, SentPathsIs
<1>6. Escape(path) = path
  BY DEF Escape, Mapped
<1>7. Unescape(path) = path /\ Trim(path) = path
  <2>1. path \notin {Escaped[x] : x \in DOMAIN Escaped}
    BY DEF Mistakable
  <2>2. Trim(path) = path
    BY DEF Trim, Mapped
  <2> QED BY <2>1, <2>2, UnescapeIs
<1> HIDE DEF q
<1>8. HasField(AnswerTo(cid, points), Escape(q[i]))
  BY <1>3, <1>4, EveryPathHasAField
<1> QED BY <1>5, <1>6, <1>7, <1>8

(* A record is stored under the path of its point.                         *)
LEMMA PathOfRecord == ASSUME NEW point, NEW o PROVE RecordFor(point, o).path = point.namePath
  BY DEF RecordFor

(* The records before those without data are left out                      *)
RecordsFor(points, t) ==
    [i \in DOMAIN points |-> RecordFor(points[i], ExtractObjectForPath(t, points[i].namePath))]

(* There is one for every point.                                           *)
LEMMA RecordsForIs ==
    ASSUME NEW n, NEW points, IsSeq(points, n), NEW t
    PROVE  /\ IsSeq(RecordsFor(points, t), n)
           /\ \A i \in 1..n : RecordsFor(points, t)[i]
                  = RecordFor(points[i], ExtractObjectForPath(t, points[i].namePath))
  BY DEF RecordsFor, IsSeq

(* processResponse keeps those with data.                                  *)
LEMMA ResponseIs ==
    ASSUME NEW points, NEW t
    PROVE  ProcessResponse(points, t) = WithData(RecordsFor(points, t))
<1> DEFINE K(s) == Kept(s, LAMBDA r : r.data # <<>>)
<1>1. ProcessResponse(points, t) = K(RecordsFor(points, t))
  BY DEF ProcessResponse, RecordsFor
<1> QED BY <1>1 DEF WithData

(* R is what an answer to the query for n points should give: own records, *)
(* and one for every point that was answered, confusions excepted.         *)
ResponseTo(R, cid, points, n, l) ==
    /\ l \in Nat /\ IsSeq(R, l)
    /\ \A k \in 1..l : R[k].path \notin Mistakable(cid, points) => OwnRecord(R[k])
    /\ \A i \in 1..n : /\ HasField(AnswerTo(cid, points), points[i].namePath)
                       /\ points[i].namePath \notin Mistakable(cid, points)
                       => \E k \in 1..l : R[k].path = points[i].namePath

(* The records of an answer are those of the points that were found.       *)
LEMMA RecordsAreFound ==
    ASSUME NEW cid, NEW n, NEW points, IsSeq(points, n)
    PROVE  \E l : ResponseTo(ProcessResponse(points, AnswerTo(cid, points)), cid, points, n, l)
<1> DEFINE R == ProcessResponse(points, AnswerTo(cid, points))
<1> DEFINE t == AnswerTo(cid, points)
<1> DEFINE s == RecordsFor(points, t)
<1>1. IsSeq(s, n)
  BY RecordsForIs
<1>2. \A i \in 1..n : s[i] = RecordFor(points[i], ExtractObjectForPath(t, points[i].namePath))
  BY RecordsForIs
<1>3. R = WithData(s)
  BY ResponseIs
<1> HIDE DEF s, t, R
<1>4. PICK l : DataOf(R, s, n, l)
  BY <1>1, <1>3, DataAreKept
<1>5. ASSUME NEW i \in 1..n, points[i].namePath \notin Mistakable(cid, points)
      PROVE  /\ HasField(t, points[i].namePath) => OwnRecord(s[i]) /\ s[i].data # <<>>
             /\ ~HasField(t, points[i].namePath) => s[i].data = <<>>
  <2> DEFINE point == points[i]
  <2> DEFINE r == s[i]
  <2>1. r = RecordFor(point, ExtractObjectForPath(t, point.namePath))
    BY <1>2
  <2>2. t = AnswerTo(cid, points) /\ point.namePath \notin Mistakable(cid, points)
    BY <1>5 DEF t
  <2> HIDE DEF point, r
  <2>3. /\ HasField(t, point.namePath) => OwnRecord(r) /\ r.data # <<>>
        /\ ~HasField(t, point.namePath) => r.data = <<>>
    BY <2>1, <2>2, RecordOfPath
  <2> QED BY <2>3 DEF point, r
<1>6. ASSUME NEW i \in 1..n PROVE s[i].path = points[i].namePath
  <2> DEFINE point == points[i]
  <2>1. s[i] = RecordFor(point, ExtractObjectForPath(t, point.namePath))
    BY <1>2
  <2> HIDE DEF point
  <2>2. s[i].path = point.namePath
    BY <2>1, PathOfRecord
  <2> QED BY <2>2 DEF point
<1>7. ASSUME NEW k \in 1..l, R[k].path \notin Mistakable(cid, points)
      PROVE  OwnRecord(R[k])
  <2>1. PICK i \in 1..n : s[i].data # <<>> /\ R[k] = s[i]
    BY <1>4 DEF DataOf
  <2>2. points[i].namePath \notin Mistakable(cid, points)
    BY <1>6, <1>7, <2>1
  <2> QED BY <1>5, <2>1, <2>2
<1>8. ASSUME NEW i \in 1..n, HasField(t, points[i].namePath),
             points[i].namePath \notin Mistakable(cid, points)
      PROVE  \E k \in 1..l : R[k].path = points[i].namePath
  <2>1. s[i].data # <<>>
    BY <1>5, <1>8
  <2>2. PICK k \in 1..l : R[k] = s[i]
    BY <1>4, <2>1 DEF DataOf
  <2>3. s[i].path = points[i].namePath
    BY <1>6
  <2> QED BY <2>2, <2>3
<1>9. l \in Nat /\ IsSeq(R, l)
  BY <1>4 DEF DataOf
<1>10. ResponseTo(R, cid, points, n, l)
  BY <1>7, <1>8, <1>9 DEF ResponseTo, t
<1> QED BY <1>10 DEF R

-----------------------------------------------------------------------------
(* The points of a device                                                  *)

(* The parser's state has its fields, and its points are a sequence.       *)
ParserState(st) ==
    /\ DOMAIN st = {"component", "point", "inDataItem", "points"}
    /\ st = [k \in DOMAIN st |-> st[k]]
    /\ \E m : IsSeq(st.points, m)

(* The end of an item leaves it so.                                        *)
LEMMA FlushedState ==
    ASSUME NEW st, ParserState(st)
    PROVE  ParserState(Flushed(st))
<1>1. CASE st.point.itemName = ""
  BY <1>1 DEF Flushed
<1>2. CASE st.point.itemName # ""
  <2>1. PICK m : IsSeq(st.points, m)
    BY DEF ParserState
  <2>2. PICK point :
          Flushed(st) = [st EXCEPT !.points = Appended(st.points, point), !.point = NoPoint]
    BY <1>2 DEF Flushed, Appended
  <2> DEFINE more == Appended(st.points, point)
  <2>3. IsSeq(more, m + 1)
    BY <2>1, AppendedIs
  <2> HIDE DEF more
  <2>4. Flushed(st) = [st EXCEPT !.points = more, !.point = NoPoint]
    BY <2>2 DEF more
  <2>5. DOMAIN st = {"component", "point", "inDataItem", "points"}
    BY DEF ParserState
  <2>6. Flushed(st).points = more /\ DOMAIN Flushed(st) = DOMAIN st
        /\ Flushed(st) = [k \in DOMAIN Flushed(st) |-> Flushed(st)[k]]
    BY <2>4, <2>5
  <2> QED BY <2>3, <2>5, <2>6 DEF ParserState
<1> QED BY <1>1, <1>2

(* So does a line.                                                         *)
LEMMA ParsedState ==
    ASSUME NEW st, NEW line, ParserState(st)
    PROVE  ParserState(ParseLine(st, line))
<1>1. ASSUME NEW a, ParserState(a), NEW b, DOMAIN b = DOMAIN a, b = [k \in DOMAIN b |-> b[k]],
             b.points = a.points
      PROVE  ParserState(b)
  BY <1>1 DEF ParserState
<1>2. ParserState(NameLine(st, line))
  <2> DEFINE a == Flushed(st)
  <2> DEFINE b == NameLine(st, line)
  <2>1. ParserState(a)
    BY FlushedState
  <2>2. \/ \E v : b = [a EXCEPT !.point = v]
        \/ \E v : b = [a EXCEPT !.component = v, !.inDataItem = FALSE]
    BY DEF NameLine
  <2>3. DOMAIN a = {"component", "point", "inDataItem", "points"}
    BY <2>1 DEF ParserState
  <2> HIDE DEF a, b
  <2>4. DOMAIN b = DOMAIN a /\ b = [k \in DOMAIN b |-> b[k]] /\ b.points = a.points
    BY <2>2, <2>3
  <2>5. ParserState(b)
    BY <1>1, <2>1, <2>4
  <2> QED BY <2>5 DEF b
<1>3. DOMAIN st = {"component", "point", "inDataItem", "points"}
  BY DEF ParserState
<1>4. ParserState([st EXCEPT !.inDataItem = TRUE])
  <2> DEFINE b == [st EXCEPT !.inDataItem = TRUE]
  <2>1. DOMAIN b = DOMAIN st /\ b = [k \in DOMAIN b |-> b[k]] /\ b.points = st.points
    BY <1>3
  <2> HIDE DEF b
  <2>2. ParserState(b)
    BY <1>1, <2>1
  <2> QED BY <2>2 DEF b
<1>5. ParserState([st EXCEPT !.point.namePath = line.value])
  <2> DEFINE b == [st EXCEPT !.point.namePath = line.value]
  <2>1. DOMAIN b = DOMAIN st /\ b = [k \in DOMAIN b |-> b[k]] /\ b.points = st.points
    BY <1>3
  <2> HIDE DEF b
  <2>2. ParserState(b)
    BY <1>1, <2>1
  <2> QED BY <2>2 DEF b
<1>6. ParseLine(st, line) \in {st, NameLine(st, line), [st EXCEPT !.inDataItem = TRUE],
                               [st EXCEPT !.point.namePath = line.value]}
  BY DEF ParseLine
<1> QED BY <1>2, <1>4, <1>5, <1>6

(* The parser has read nothing.                                            *)
NoLines == [component |-> "", point |-> NoPoint, inDataItem |-> FALSE, points |-> <<>>]

(* f[i] is the parser's state after i lines.                               *)
ParseSteps(f, lines, n) ==
    f = [i \in 0..n |-> IF i = 0 THEN NoLines ELSE ParseLine(f[i - 1], lines[i])]

(* There is such a function, for files of any length.                      *)
LEMMA ParseExists ==
    ASSUME NEW n \in Nat, NEW lines
    PROVE  \E f : ParseSteps(f, lines, n)
<1> DEFINE Step(f, i) == IF i = 0 THEN NoLines ELSE ParseLine(f[i - 1], lines[i])
<1> DEFINE S == {m \in Nat : \E f : f = [i \in 0..m |-> Step(f, i)]}
<1>1. 0 \in S
  <2> DEFINE f == [i \in 0..0 |-> NoLines]
  <2>1. f = [i \in 0..0 |-> Step(f, i)]
    OBVIOUS
  <2> QED BY <2>1
<1>2. ASSUME NEW m \in S PROVE m + 1 \in S
  <2>1. PICK f : f = [i \in 0..m |-> Step(f, i)]
    OBVIOUS
  <2> DEFINE g == [i \in 0..(m + 1) |-> IF i = m + 1 THEN Step(f, i) ELSE f[i]]
  <2>2. ASSUME NEW i \in 0..(m + 1) PROVE g[i] = Step(g, i)
    <3>1. CASE i = 0
      BY <3>1, <2>1
    <3>2. CASE i # 0
      <4>1. i - 1 \in 0..m /\ i - 1 \in 0..(m + 1) /\ i - 1 # m + 1
        BY <3>2
      <4>2. g[i - 1] = f[i - 1]
        BY <4>1
      <4>3. Step(g, i) = Step(f, i)
        BY <4>2
      <4>4. ASSUME i # m + 1 PROVE f[i] = Step(f, i)
        <5>1. i \in 0..m
          BY <4>4
        <5> HIDE DEF Step
        <5> QED BY <5>1, <2>1
      <4>5. g[i] = IF i = m + 1 THEN Step(f, i) ELSE f[i]
        OBVIOUS
      <4> HIDE DEF g, Step
      <4> QED BY <4>3, <4>4, <4>5
    <3> QED BY <3>1, <3>2
  <2>3. g = [i \in 0..(m + 1) |-> g[i]]
    OBVIOUS
  <2>4. m + 1 \in Nat
    OBVIOUS
  <2> HIDE DEF Step, g
  <2>5. g = [i \in 0..(m + 1) |-> Step(g, i)]
    BY <2>2, <2>3
  <2> QED BY <2>4, <2>5
<1>3. S = Nat
  <2>1. S \subseteq Nat
    OBVIOUS
  <2> HIDE DEF S
  <2> QED BY <1>1, <1>2, <2>1, SetInduction
<1> QED
  BY <1>3 DEF ParseSteps

(* The states are as described after any number of lines.                  *)
LEMMA StatesOfParser ==
    ASSUME NEW n \in Nat, NEW lines, NEW f, ParseSteps(f, lines, n)
    PROVE  ParserState(f[n])
<1> DEFINE S == {m \in Nat : m <= n => ParserState(f[m])}
<1>1. \A i \in 0..n : f[i] = IF i = 0 THEN NoLines ELSE ParseLine(f[i - 1], lines[i])
  BY DEF ParseSteps
<1>2. 0 \in S
  <2>1. f[0] = NoLines
    BY <1>1
  <2>2. IsSeq(<<>>, 0)
    BY DEF IsSeq
  <2>3. ParserState(NoLines)
    <3>1. NoLines.points = <<>>
      BY DEF NoLines
    <3>2. DOMAIN NoLines = {"component", "point", "inDataItem", "points"}
          /\ NoLines = [k \in DOMAIN NoLines |-> NoLines[k]]
      BY DEF NoLines
    <3> QED BY <2>2, <3>1, <3>2 DEF ParserState
  <2> QED BY <2>1, <2>3
<1>3. ASSUME NEW m \in S PROVE m + 1 \in S
  <2>1. ASSUME m + 1 <= n PROVE ParserState(f[m + 1])
    <3>1. m \in Nat /\ m <= n /\ m + 1 \in 0..n /\ m + 1 # 0 /\ (m + 1) - 1 = m
      BY <2>1
    <3>2. f[m + 1] = ParseLine(f[m], lines[m + 1])
      BY <1>1, <3>1
    <3>3. ParserState(f[m])
      BY <3>1
    <3> QED BY <3>2, <3>3, ParsedState
  <2> QED BY <2>1
<1>4. S = Nat
  <2>1. S \subseteq Nat
    OBVIOUS
  <2> HIDE DEF S
  <2> QED BY <1>2, <1>3, <2>1, SetInduction
<1> QED BY <1>4

(* The items of a file are a sequence, as the data points are.             *)
LEMMA ItemsAreASequence ==
    ASSUME NEW n, NEW lines, IsSeq(lines, n)
    PROVE  \E m : IsSeq(ParseDataItems(lines), m)
<1> DEFINE Step(f, i) == IF i = 0 THEN NoLines ELSE ParseLine(f[i - 1], lines[i])
<1> DEFINE after == CHOOSE f : f = [i \in 0..n |-> Step(f, i)]
<1>1. Len(lines) = n /\ n \in Nat
  BY SeqLen
<1>2. ParseDataItems(lines) = Flushed(after[n]).points
  BY <1>1 DEF ParseDataItems, NoLines
<1>3. \E f : f = [i \in 0..n |-> Step(f, i)]
  BY <1>1, ParseExists DEF ParseSteps
<1>4. ParseSteps(after, lines, n)
  <2> HIDE DEF Step
  <2>1. after = [i \in 0..n |-> Step(after, i)]
    BY <1>3
  <2> HIDE DEF after
  <2> QED BY <2>1 DEF ParseSteps, Step
<1> HIDE DEF after
<1>5. ParserState(Flushed(after[n]))
  BY <1>1, <1>4, StatesOfParser, FlushedState
<1> QED BY <1>2, <1>5 DEF ParserState

-----------------------------------------------------------------------------
(* Model files                                                             *)

(* f[i] is the parser's state after i of these lines, from st on.          *)
Follows(f, st, lines, n) ==
    f[0] = st /\ \A i \in 1..n : f[i] = ParseLine(f[i - 1], lines[i])

(* The lines take the parser from one state to another.                    *)
ReadsAll(st, lines, n, end) ==
    IsSeq(lines, n) /\ \A f : Follows(f, st, lines, n) => f[n] = end
Reads(st, lines, end) == \E n : ReadsAll(st, lines, n, end)

(* No line changes nothing.                                                *)
LEMMA ReadNothing == ASSUME NEW st, NEW lines, IsSeq(lines, 0) PROVE Reads(st, lines, st)
<1>1. ReadsAll(st, lines, 0, st)
  BY DEF ReadsAll, Follows
<1> QED BY <1>1 DEF Reads

(* One line does what ParseLine says.                                      *)
LEMMA ReadLine == ASSUME NEW st, NEW line PROVE Reads(st, <<line>>, ParseLine(st, line))
<1> DEFINE lines == <<line>>
<1> DEFINE end == ParseLine(st, line)
<1>1. IsSeq(lines, 1) /\ lines[1] = line
  BY OneIs
<1>2. ASSUME NEW f, Follows(f, st, lines, 1) PROVE f[1] = end
  <2>1. 1 \in 1..1 /\ 1 - 1 = 0
    OBVIOUS
  <2>2. f[0] = st /\ f[1] = ParseLine(f[0], lines[1])
    BY <1>2, <2>1 DEF Follows
  <2> QED BY <1>1, <2>2
<1> HIDE DEF lines, end
<1>3. ReadsAll(st, lines, 1, end)
  BY <1>1, <1>2 DEF ReadsAll
<1>4. Reads(st, lines, end)
  BY <1>3 DEF Reads
<1> QED BY <1>4 DEF lines, end

(* Lines behind lines                                                      *)
LEMMA ReadBoth ==
    ASSUME NEW a, NEW b, NEW c, NEW s, NEW t, Reads(a, s, b), Reads(b, t, c)
    PROVE  Reads(a, Joined(s, t), c)
<1>1. PICK m : ReadsAll(a, s, m, b)
  BY DEF Reads
<1>2. PICK n : ReadsAll(b, t, n, c)
  BY DEF Reads
<1> DEFINE j == Joined(s, t)
<1>3. m \in Nat /\ n \in Nat /\ IsSeq(s, m) /\ IsSeq(t, n)
  BY <1>1, <1>2 DEF ReadsAll, IsSeq
<1>4. JoinOf(j, s, m, t, n)
  BY <1>3, JoinIs
<1> HIDE DEF j
<1>5. ASSUME NEW f, Follows(f, a, j, m + n) PROVE f[m + n] = c
  <2>1. f[0] = a /\ \A i \in 1..(m + n) : f[i] = ParseLine(f[i - 1], j[i])
    BY <1>5 DEF Follows
  <2>2. ASSUME NEW i \in 1..m PROVE f[i] = ParseLine(f[i - 1], s[i])
    <3>1. i \in 1..(m + n)
      BY <1>3
    <3>2. j[i] = s[i]
      BY <1>4 DEF JoinOf
    <3>3. f[i] = ParseLine(f[i - 1], j[i])
      BY <2>1, <3>1
    <3> QED BY <3>2, <3>3
  <2>3. f[m] = b
    BY <1>1, <2>1, <2>2 DEF ReadsAll, Follows
  <2> DEFINE g == [i \in 0..n |-> f[m + i]]
  <2>4. g[0] = b
    BY <1>3, <2>3
  <2>5. ASSUME NEW i \in 1..n PROVE g[i] = ParseLine(g[i - 1], t[i])
    <3>1. i - 1 \in 0..n /\ i \in 0..n /\ m + i \in 1..(m + n) /\ (m + i) - 1 = m + (i - 1)
      BY <1>3
    <3>2. j[m + i] = t[i]
      BY <1>4 DEF JoinOf
    <3>3. f[m + i] = ParseLine(f[m + (i - 1)], j[m + i])
      BY <2>1, <3>1
    <3>4. g[i] = f[m + i] /\ g[i - 1] = f[m + (i - 1)]
      BY <3>1
    <3> HIDE DEF g
    <3> QED BY <3>2, <3>3, <3>4
  <2>6. g[n] = f[m + n]
    BY <1>3
  <2> HIDE DEF g
  <2>7. g[n] = c
    BY <1>2, <2>4, <2>5 DEF ReadsAll, Follows
  <2> QED BY <2>6, <2>7
<1>6. IsSeq(j, m + n)
  BY <1>4 DEF JoinOf
<1>7. ReadsAll(a, j, m + n, c)
  BY <1>5, <1>6 DEF ReadsAll
<1> QED BY <1>7 DEF Reads, j

(* Notes change nothing.                                                   *)
LEMMA ReadNotes ==
    ASSUME NEW st, NEW n, NEW lines, IsSeq(lines, n), SayNothing(lines)
    PROVE  Reads(st, lines, st)
<1>1. n \in Nat /\ DOMAIN lines = 1..n
  BY SeqLen
<1>2. ASSUME NEW f, Follows(f, st, lines, n) PROVE f[n] = st
  <2> DEFINE S == {i \in Nat : i <= n => f[i] = st}
  <2>1. 0 \in S
    BY <1>2 DEF Follows
  <2>2. ASSUME NEW i \in S PROVE i + 1 \in S
    <3>1. ASSUME i + 1 <= n PROVE f[i + 1] = st
      <4>1. i \in Nat /\ i + 1 \in 1..n /\ (i + 1) - 1 = i /\ f[i] = st
        BY <1>1, <3>1
      <4>2. f[i + 1] = ParseLine(f[i], lines[i + 1])
        BY <1>2, <4>1 DEF Follows
      <4>3. lines[i + 1].kind = "other"
        BY <1>1, <4>1 DEF SayNothing
      <4>4. ParseLine(st, lines[i + 1]) = st
        BY <4>3 DEF ParseLine
      <4> QED BY <4>1, <4>2, <4>4
    <3> QED BY <3>1
  <2>3. S = Nat
    <3>1. S \subseteq Nat
      OBVIOUS
    <3> HIDE DEF S
    <3> QED BY <2>1, <2>2, <3>1, SetInduction
  <2> QED BY <1>1, <2>3
<1>3. ReadsAll(st, lines, n, st)
  BY <1>2 DEF ReadsAll
<1> QED BY <1>3 DEF Reads

(* A state of the parser; the truth values have names for the solver.      *)
Within == TRUE
Outside == FALSE
State(a, p, d, ps) == [component |-> a, point |-> p, inDataItem |-> d, points |-> ps]

(* Assigning fields of a state makes a state.                              *)
WithPoints(st, x, y) == [st EXCEPT !.points = x, !.point = y]
WithComponent(st, x) == [st EXCEPT !.component = x, !.inDataItem = FALSE]
WithPoint(st, x) == [st EXCEPT !.point = x]
WithItems(st, x) == [st EXCEPT !.inDataItem = x]

LEMMA AssignPoints ==
    ASSUME NEW a, NEW p, NEW d, NEW ps, NEW x, NEW y
    PROVE  WithPoints(State(a, p, d, ps), x, y) = State(a, y, d, x)
<1> DEFINE b == WithPoints(State(a, p, d, ps), x, y)
<1>1. b.component = a /\ b.point = y /\ b.inDataItem = d /\ b.points = x
  BY DEF State, WithPoints
<1>2. DOMAIN b = {"component", "point", "inDataItem", "points"} /\ b = [k \in DOMAIN b |-> b[k]]
  BY DEF State, WithPoints
<1> HIDE DEF b
<1>3. b = State(a, y, d, x)
  BY <1>1, <1>2 DEF State
<1> QED BY <1>3 DEF b

LEMMA AssignComponent ==
    ASSUME NEW a, NEW p, NEW d, NEW ps, NEW x
    PROVE  WithComponent(State(a, p, d, ps), x) = State(x, p, Outside, ps)
<1> DEFINE b == WithComponent(State(a, p, d, ps), x)
<1>1. b.component = x /\ b.point = p /\ b.inDataItem = Outside /\ b.points = ps
  BY DEF State, WithComponent, Outside
<1>2. DOMAIN b = {"component", "point", "inDataItem", "points"} /\ b = [k \in DOMAIN b |-> b[k]]
  BY DEF State, WithComponent, Outside
<1> HIDE DEF b
<1>3. b = State(x, p, Outside, ps)
  BY <1>1, <1>2 DEF State
<1> QED BY <1>3 DEF b

LEMMA AssignPoint ==
    ASSUME NEW a, NEW p, NEW d, NEW ps, NEW x
    PROVE  WithPoint(State(a, p, d, ps), x) = State(a, x, d, ps)
  BY DEF State, WithPoint

LEMMA AssignItems ==
    ASSUME NEW a, NEW p, NEW d, NEW ps, NEW x
    PROVE  WithItems(State(a, p, d, ps), x) = State(a, p, x, ps)
  BY DEF State, WithItems

(* A sequence, in these terms                                              *)
LEMMA SeqIs == ASSUME NEW E, NEW s \in Seq(E) PROVE IsSeq(s, Len(s))
  BY DEF IsSeq

(* The point that is taken when the next name is read                      *)
Completed(a, p) ==
    IF p.namePath = "" THEN [p EXCEPT !.namePath = "/" \o a \o "/" \o p.itemName] ELSE p

Taken(a, p, d, ps) == Flushed(State(a, p, d, ps)).points

(* The item that is read has a name, or there is none.                     *)
Orderly(p) == p = NoPoint \/ p.itemName # ""

(* What the end of an item makes of it                                     *)
FlushEffect(a, p, d, ps) ==
    /\ p = NoPoint => Taken(a, p, d, ps) = ps
    /\ p # NoPoint => Taken(a, p, d, ps) = Appended(ps, Completed(a, p))
    /\ Flushed(State(a, p, d, ps)) = State(a, NoPoint, d, Taken(a, p, d, ps))

LEMMA FlushedIs ==
    ASSUME NEW a, NEW p, NEW d, NEW ps, Orderly(p)
    PROVE  FlushEffect(a, p, d, ps)
<1> DEFINE st == State(a, p, d, ps)
<1>1. st.component = a /\ st.point = p /\ st.points = ps
  BY DEF State
<1>2. CASE p = NoPoint
  <2>1. p.itemName = ""
    BY <1>2 DEF NoPoint
  <2>2. Flushed(st) = st
    BY <1>1, <2>1 DEF Flushed
  <2>3. Taken(a, p, d, ps) = ps
    BY <1>1, <2>2 DEF Taken
  <2> QED BY <1>2, <2>2, <2>3 DEF FlushEffect
<1>3. CASE p.itemName # ""
  <2> DEFINE new == Append(ps, Completed(a, p))
  <2>1. Flushed(st) = WithPoints(st, new, NoPoint)
    <3>1. DefaultPath(st, st.point.itemName) = "/" \o a \o "/" \o p.itemName
      BY <1>1 DEF DefaultPath
    <3> DEFINE point == IF st.point.namePath = ""
                        THEN [st.point EXCEPT !.namePath = DefaultPath(st, st.point.itemName)]
                        ELSE st.point
    <3> HIDE DEF st
    <3>2. Flushed(st) = WithPoints(st, Append(st.points, point), NoPoint)
      BY <1>1, <1>3 DEF Flushed, WithPoints
    <3>3. point = Completed(a, p)
      BY <1>1, <3>1 DEF Completed
    <3> HIDE DEF point
    <3>4. new = Append(st.points, point)
      BY <1>1, <3>3
    <3> HIDE DEF new
    <3> QED BY <3>2, <3>4
  <2> HIDE DEF new
  <2>2. WithPoints(st, new, NoPoint) = State(a, NoPoint, d, new)
    BY AssignPoints
  <2>3. State(a, NoPoint, d, new).points = new
    BY DEF State
  <2>4. Taken(a, p, d, ps) = new
    BY <2>1, <2>2, <2>3 DEF Taken
  <2>5. Flushed(State(a, p, d, ps)) = State(a, NoPoint, d, Taken(a, p, d, ps))
    BY <2>1, <2>2, <2>4
  <2>6. Taken(a, p, d, ps) = Appended(ps, Completed(a, p))
    BY <2>4 DEF new, Appended
  <2>7. p # NoPoint
    <3>1. NoPoint.itemName = ""
      BY DEF NoPoint
    <3> QED BY Zenon, <1>3, <3>1
  <2> QED BY <2>5, <2>6, <2>7 DEF FlushEffect
<1> QED BY <1>2, <1>3 DEF Orderly

(* An item, as far as its name says                                        *)
Named(a, name) == [itemName |-> name, namePath |-> "/" \o a \o "/" \o name]

(* What the parser makes of the name of an item and of that of a component *)
LEMMA ItemName ==
    ASSUME NEW a, NEW p, Orderly(p), NEW ps, NEW name, NEW indent \in Nat, indent >= ItemIndent
    PROVE  ParseLine(State(a, p, Within, ps), TextLine("Name", indent, name))
             = State(a, Named(a, name), Within, Taken(a, p, Within, ps))
<1> DEFINE st == State(a, p, Within, ps)
<1> DEFINE line == TextLine("Name", indent, name)
<1> DEFINE more == Taken(a, p, Within, ps)
<1>1. line.kind = "Name" /\ line.indent = indent /\ line.value = name
  BY DEF TextLine
<1>2. st.inDataItem /\ st.component = a
  BY DEF State, Within
<1>3. Flushed(st) = State(a, NoPoint, Within, more)
  BY FlushedIs DEF FlushEffect
<1>4. DefaultPath(st, line.value) = "/" \o a \o "/" \o name
  BY <1>1, <1>2 DEF DefaultPath
<1> HIDE DEF st, line, more
<1>5. ParseLine(st, line) = NameLine(st, line)
  BY <1>1 DEF ParseLine
<1>6. NameLine(st, line) = WithPoint(Flushed(st), Named(a, name))
  BY <1>1, <1>2, <1>4 DEF NameLine, WithPoint, Named
<1> DEFINE named == Named(a, name)
<1> HIDE DEF named
<1>7. WithPoint(State(a, NoPoint, Within, more), named) = State(a, named, Within, more)
  BY AssignPoint
<1>8. ParseLine(st, line) = State(a, Named(a, name), Within, more)
  BY <1>3, <1>5, <1>6, <1>7 DEF named
<1> QED BY <1>8 DEF st, line, more

LEMMA ComponentName ==
    ASSUME NEW a, NEW p, Orderly(p), NEW d, NEW ps, NEW name,
           NEW indent \in Nat, indent < ItemIndent
    PROVE  ParseLine(State(a, p, d, ps), TextLine("Name", indent, name))
             = State(name, NoPoint, Outside, Taken(a, p, d, ps))
<1> DEFINE st == State(a, p, d, ps)
<1> DEFINE line == TextLine("Name", indent, name)
<1> DEFINE more == Taken(a, p, d, ps)
<1>1. line.kind = "Name" /\ line.indent = indent /\ line.value = name
  BY DEF TextLine
<1>2. ~ (indent >= ItemIndent)
  BY DEF ItemIndent
<1>3. Flushed(st) = State(a, NoPoint, d, more)
  BY FlushedIs DEF FlushEffect
<1> HIDE DEF st, line, more
<1>5. ParseLine(st, line) = NameLine(st, line)
  BY <1>1 DEF ParseLine
<1>6. NameLine(st, line) = WithComponent(Flushed(st), name)
  BY <1>1, <1>2 DEF NameLine, WithComponent
<1>7. WithComponent(State(a, NoPoint, d, more), name) = State(name, NoPoint, Outside, more)
  BY AssignComponent
<1>8. ParseLine(st, line) = State(name, NoPoint, Outside, more)
  BY <1>3, <1>5, <1>6, <1>7
<1> QED BY <1>8 DEF st, line, more

(* An item, as far as its lines say: an empty path is left to be completed *)
Pending(a, item) ==
    [itemName |-> item.name,
     namePath |-> IF Len(item.path) = 0 THEN Named(a, item.name).namePath ELSE item.path[1]]

(* What Readable says of an item                                           *)
ItemReadable(item) ==
    item.name # "" /\ Len(item.path) <= 1 /\ SayNothing(item.notes)

(* The lines of an item                                                    *)
LEMMA ReadItem ==
    ASSUME NEW a, NEW p, Orderly(p), NEW ps, NEW item \in ModelItem,
           NEW indent \in Nat, indent >= ItemIndent,
           ItemReadable(item)
    PROVE  Reads(State(a, p, Within, ps), ItemLines(item, indent),
                 State(a, Pending(a, item), Within, Taken(a, p, Within, ps)))
<1> DEFINE more == Taken(a, p, Within, ps)
<1> DEFINE head == <<TextLine("Name", indent, item.name)>>
<1> DEFINE path == [i \in DOMAIN item.path |-> TextLine("Path", indent + 2, item.path[i])]
<1> DEFINE named == State(a, Named(a, item.name), Within, more)
<1> DEFINE n == Len(item.path)
<1>1. Reads(State(a, p, Within, ps), head, named)
  <2> DEFINE line == TextLine("Name", indent, item.name)
  <2> DEFINE st == State(a, p, Within, ps)
  <2>1. ParseLine(st, line) = named
    BY ItemName
  <2> HIDE DEF named, line, st
  <2>2. Reads(st, <<line>>, ParseLine(st, line))
    BY ReadLine
  <2> QED BY <2>1, <2>2 DEF line, st
<1>2. item.notes \in Seq(ModelLine) /\ item.path \in Seq(STRING)
  BY DEF ModelItem
<1>3. Reads(named, item.notes, named)
  <2>1. IsSeq(item.notes, Len(item.notes))
    BY <1>2, SeqIs
  <2>2. SayNothing(item.notes)
    BY DEF ItemReadable
  <2> QED BY <2>1, <2>2, ReadNotes
<1>4. DOMAIN item.path = 1..n /\ n \in Nat /\ n \in {0, 1}
  <2> DEFINE s == item.path
  <2>1. IsSeq(s, n)
    BY <1>2, SeqIs
  <2>2. DOMAIN s = 1..n /\ n \in Nat
    BY <2>1, SeqLen
  <2>3. n <= 1
    BY DEF ItemReadable
  <2> HIDE DEF s, n
  <2>4. n \in {0, 1}
    BY <2>2, <2>3
  <2> QED BY <2>2, <2>4 DEF s
<1>5. IsSeq(path, n)
  <2> HIDE DEF n
  <2> QED BY <1>4 DEF IsSeq
<1> DEFINE end == State(a, Pending(a, item), Within, more)
<1>6. Reads(named, path, end)
  <2>1. CASE n = 0
    <3>1. Pending(a, item) = Named(a, item.name)
      BY <2>1 DEF Pending, Named
    <3>2. IsSeq(path, 0)
      BY <1>5, <2>1
    <3> HIDE DEF path
    <3> QED BY <3>1, <3>2, ReadNothing
  <2>2. CASE n = 1
    <3> DEFINE line == TextLine("Path", indent + 2, item.path[1])
    <3>1. path = <<line>>
      <4>1. path[1] = line
        <5>1. 1 \in DOMAIN item.path
          <6> HIDE DEF n
          <6> QED BY <1>4, <2>2
        <5> QED BY <5>1
      <4>2. IsSeq(path, 1)
        BY <1>5, <2>2
      <4>3. IsSeq(<<line>>, 1) /\ <<line>>[1] = line
        <5> HIDE DEF line
        <5> QED BY OneIs
      <4>4. \A i \in 1..1 : i = 1
        BY SMT
      <4> HIDE DEF path, line
      <4>5. \A i \in 1..1 : path[i] = <<line>>[i]
        BY <4>1, <4>3, <4>4
      <4> QED BY <4>2, <4>3, <4>5, SameSeq
    <3>2. ParseLine(named, line) = end
      <4>1. line.kind = "Path" /\ line.value = item.path[1]
        BY DEF TextLine
      <4>2. named.point.itemName # "" /\ named.point = Named(a, item.name)
        BY DEF State, Named, ItemReadable
      <4> DEFINE new == [Named(a, item.name) EXCEPT !.namePath = item.path[1]]
      <4>3. new = Pending(a, item)
        <5>1. Pending(a, item) = [itemName |-> item.name, namePath |-> item.path[1]]
          <6>1. ~ (Len(item.path) = 0)
            BY <2>2
          <6> QED BY Zenon, <6>1 DEF Pending
        <5> DEFINE value == item.path[1]
        <5> HIDE DEF value
        <5>2. [Named(a, item.name) EXCEPT !.namePath = value]
                = [itemName |-> item.name, namePath |-> value]
          BY DEF Named
        <5> QED BY <5>1, <5>2 DEF value
      <4> HIDE DEF line
      <4>4. ParseLine(named, line) = [named EXCEPT !.point.namePath = line.value]
        <5> HIDE DEF named
        <5> QED BY <4>1, <4>2 DEF ParseLine
      <4>5. [named EXCEPT !.point.namePath = line.value] = WithPoint(named, new)
        BY <4>1, <4>2 DEF WithPoint, State
      <4> HIDE DEF new
      <4>6. WithPoint(named, new) = State(a, new, Within, more)
        <5> DEFINE old == Named(a, item.name)
        <5> HIDE DEF more, old
        <5> QED BY AssignPoint DEF old
      <4> QED BY <4>3, <4>4, <4>5, <4>6
    <3>3. Reads(named, <<line>>, ParseLine(named, line))
      <4> HIDE DEF named, line
      <4> QED BY ReadLine
    <3> HIDE DEF named, path, line, end
    <3> QED BY <3>1, <3>2, <3>3
  <2> QED BY <1>4, <2>1, <2>2
<1>7. ItemLines(item, indent) = Joined(Joined(head, item.notes), path)
  BY Zenon DEF ItemLines, Joined
<1> DEFINE first == State(a, p, Within, ps)
<1> HIDE DEF named, path, head, end, first
<1>8. Reads(first, Joined(head, item.notes), named)
  BY <1>1, <1>3, ReadBoth DEF first
<1>9. Reads(first, Joined(Joined(head, item.notes), path), end)
  BY <1>6, <1>8, ReadBoth
<1> QED BY <1>7, <1>9 DEF first, end

(* The last step makes of an item the point that is meant.                 *)
LEMMA CompletedIs ==
    ASSUME NEW c, NEW item \in ModelItem, ItemReadable(item)
    PROVE  Completed(c.name, Pending(c.name, item)) = PointOf(c, item)
<1> DEFINE a == c.name
<1> DEFINE own == "/" \o a \o "/" \o item.name
<1> DEFINE path == item.path
<1> DEFINE n == Len(path)
<1>1. IsSeq(path, n) /\ n \in {0, 1}
  <2>1. path \in Seq(STRING)
    BY DEF ModelItem
  <2>2. IsSeq(path, n)
    BY <2>1, SeqIs
  <2>3. n \in Nat
    BY <2>2, SeqLen
  <2>4. n <= 1
    BY DEF ItemReadable
  <2> HIDE DEF n, path
  <2> QED BY <2>2, <2>3, <2>4
<1>2. Pending(a, item) = [itemName |-> item.name, namePath |-> IF n = 0 THEN own ELSE path[1]]
  BY DEF Pending, Named
<1>3. PointOf(c, item) = [itemName |-> item.name,
                          namePath |-> IF path \in {<<>>, <<"">>} THEN own ELSE path[1]]
  BY DEF PointOf
<1> DEFINE none == ""
<1> HIDE DEF own, none
<1>4. \A x : Completed(a, [itemName |-> item.name, namePath |-> x])
               = [itemName |-> item.name, namePath |-> IF x = none THEN own ELSE x]
  BY DEF Completed, own, none
<1>5. path \in {<<>>, <<none>>} <=> (n = 0 \/ path[1] = none)
  <2> HIDE DEF path, n
  <2>1. CASE n = 0
    <3>1. IsSeq(<<>>, 0)
      BY DEF IsSeq
    <3>2. path = <<>>
      BY <1>1, <2>1, <3>1, SameSeq
    <3> QED BY <2>1, <3>2
  <2>2. CASE n = 1
    <3>1. \A y : IsSeq(<<y>>, 1) /\ <<y>>[1] = y
      BY OneIs
    <3>2. \A i \in 1..1 : i = 1
      BY SMT
    <3>3. path = <<path[1]>>
      <4> DEFINE one == <<path[1]>>
      <4>1. IsSeq(one, 1) /\ one[1] = path[1]
        BY <3>1
      <4>2. IsSeq(path, 1)
        BY <1>1, <2>2
      <4> HIDE DEF one
      <4>3. \A i \in 1..1 : path[i] = one[i]
        BY <3>2, <4>1
      <4>4. path = one
        BY <4>1, <4>2, <4>3, SameSeq
      <4> QED BY <4>4 DEF one
    <3>4. path # <<>>
      <4>1. ASSUME path = <<>> PROVE IsSeq(path, 0)
        BY <4>1 DEF IsSeq
      <4>2. ASSUME IsSeq(path, 0), IsSeq(path, 1) PROVE FALSE
        <5>1. Len(path) = 0
          BY <4>2, SeqLen
        <5>2. Len(path) = 1
          BY <4>2, SeqLen
        <5> QED BY <5>1, <5>2
      <4> QED BY <1>1, <2>2, <4>1, <4>2
    <3>5. path = <<none>> => path[1] = none
      BY <3>1
    <3>6. path[1] = none => path = <<none>>
      BY <3>3
    <3>7. n # 0
      BY <2>2
    <3> QED BY Zenon, <3>4, <3>5, <3>6, <3>7
  <2> QED BY <1>1, <2>1, <2>2
<1>6. (path \in {<<>>, <<"">>}) <=> (n = 0 \/ path[1] = none)
  BY Zenon, <1>5 DEF none
<1> DEFINE x == IF n = 0 THEN own ELSE path[1]
<1>7. (IF x = none THEN own ELSE x) = (IF path \in {<<>>, <<"">>} THEN own ELSE path[1])
  <2> DEFINE first == path[1]
  <2> DEFINE bare == path \in {<<>>, <<"">>}
  <2> HIDE DEF first, bare, n
  <2>1. bare <=> (n = 0 \/ first = none)
    BY <1>6 DEF first, bare
  <2>2. (IF x = none THEN own ELSE x) = (IF bare THEN own ELSE first)
    BY <2>1 DEF first
  <2> QED BY <2>2 DEF first, bare
<1> HIDE DEF x
<1> QED BY Zenon, <1>2, <1>3, <1>4, <1>7 DEF x

(* The points that are there when j of these items have been read          *)
PointsTo(c, pts, its, j) == Joined(pts, [i \in 1..j |-> PointOf(c, its[i])])

(* Joining with no elements                                                *)
LEMMA JoinedToNone ==
    ASSUME NEW s, NEW n, IsSeq(s, n), NEW none, IsSeq(none, 0)
    PROVE  Joined(s, none) = s
<1> DEFINE both == Joined(s, none)
<1>1. JoinOf(both, s, n, none, 0)
  BY JoinIs
<1> HIDE DEF both
<1>2. n \in Nat
  BY SeqLen
<1>3. n + 0 = n
  BY <1>2
<1>4. IsSeq(both, n) /\ \A i \in 1..n : both[i] = s[i]
  BY <1>1, <1>3 DEF JoinOf
<1>5. both = s
  BY <1>4, SameSeq
<1> QED BY <1>5 DEF both

LEMMA PointsToNone ==
    ASSUME NEW c, NEW its, NEW pts, NEW m, IsSeq(pts, m)
    PROVE  PointsTo(c, pts, its, 0) = pts
<1> DEFINE none == [i \in 1..0 |-> PointOf(c, its[i])]
<1>1. IsSeq(none, 0)
  BY DEF IsSeq
<1> HIDE DEF none
<1>2. Joined(pts, none) = pts
  BY <1>1, JoinedToNone
<1> QED BY <1>2 DEF PointsTo, none

LEMMA PointsToNext ==
    ASSUME NEW c, NEW its, NEW pts, NEW m, IsSeq(pts, m), NEW j \in Nat
    PROVE  PointsTo(c, pts, its, j + 1)
             = Appended(PointsTo(c, pts, its, j), PointOf(c, its[j + 1]))
<1> DEFINE s == [i \in 1..j |-> PointOf(c, its[i])]
<1> DEFINE t == [i \in 1..(j + 1) |-> PointOf(c, its[i])]
<1> DEFINE new == PointOf(c, its[j + 1])
<1>1. IsSeq(s, j) /\ IsSeq(t, j + 1)
  BY DEF IsSeq
<1>2. t[j + 1] = new /\ \A i \in 1..j : t[i] = s[i]
  OBVIOUS
<1> HIDE DEF s, t, new
<1>3. m \in Nat
  BY SeqLen
<1> DEFINE a == Joined(pts, s)
<1> DEFINE b == Joined(pts, t)
<1>4. JoinOf(a, pts, m, s, j)
  BY <1>1, JoinIs
<1>5. JoinOf(b, pts, m, t, j + 1)
  BY <1>1, JoinIs
<1> HIDE DEF a, b
<1>6. IsSeq(a, m + j)
  BY <1>4 DEF JoinOf
<1> DEFINE e == Appended(a, new)
<1> DEFINE n == m + j
<1> HIDE DEF n
<1>7. IsSeq(e, n + 1) /\ (\A i \in 1..n : e[i] = a[i]) /\ e[n + 1] = new
  BY <1>6, AppendedIs DEF n
<1> HIDE DEF e
<1>8. n \in Nat /\ n = m + j /\ m + (j + 1) = n + 1
  BY <1>3 DEF n
<1>9. ASSUME NEW i \in 1..(n + 1) PROVE b[i] = e[i]
  <2>1. CASE i \in 1..m
    <3>1. i \in 1..n
      BY <1>3, <1>8, <2>1
    <3>2. b[i] = pts[i] /\ a[i] = pts[i]
      BY <1>4, <1>5, <2>1 DEF JoinOf
    <3> QED BY <1>7, <3>1, <3>2
  <2>2. CASE i \notin 1..m /\ i # n + 1
    <3>1. i - m \in 1..j /\ i - m \in 1..(j + 1) /\ m + (i - m) = i /\ i \in 1..n
      BY <1>3, <1>8, <2>2
    <3>2. b[m + (i - m)] = t[i - m] /\ a[m + (i - m)] = s[i - m]
      BY <1>4, <1>5, <3>1 DEF JoinOf
    <3> QED BY <1>2, <1>7, <3>1, <3>2
  <2>3. CASE i = n + 1
    <3>1. j + 1 \in 1..(j + 1) /\ m + (j + 1) = n + 1
      BY <1>8
    <3>2. b[m + (j + 1)] = t[j + 1]
      BY <1>5, <3>1 DEF JoinOf
    <3> QED BY <1>2, <1>7, <2>3, <3>1, <3>2
  <2> QED BY <2>1, <2>2, <2>3
<1>10. IsSeq(b, n + 1)
  BY <1>5, <1>8 DEF JoinOf
<1>11. b = e
  BY <1>7, <1>9, <1>10, SameSeq
<1> QED BY <1>11 DEF PointsTo, a, b, e, s, t, new

(* A component's data items are its first list.                            *)
Taking(c) == c.lists # <<>> /\ c.lists[1].kind = "DataItem"

(* The state behind j items of a component that is read: they are points   *)
(* of it, or each of them is taken for a component.                        *)
After(c, pts, its, j) ==
    IF ~Taking(c) THEN State(IF j = 0 THEN c.name ELSE its[j].name, NoPoint, Outside, pts)
    ELSE IF j = 0 THEN State(c.name, NoPoint, Within, pts)
    ELSE State(c.name, Pending(c.name, its[j]), Within, PointsTo(c, pts, its, j - 1))

ItemsReadable(its, n) ==
    IsSeq(its, n) /\ \A j \in 1..n : its[j] \in ModelItem /\ ItemReadable(its[j])

ListReadable(list) ==
    /\ list.kind \in {"DataItem", "other"}
    /\ \E n : ItemsReadable(list.items, n)

ComponentReadable(c) ==
    /\ c.indent \in Nat /\ c.indent < ItemIndent /\ c.inner \in Nat /\ c.inner >= ItemIndent
    /\ SayNothing(c.notes) /\ \E n : IsSeq(c.notes, n)
    /\ IsSeq(c.lists, Len(c.lists))
    /\ \A k \in 1..Len(c.lists) :
           ListReadable(c.lists[k]) /\ (c.lists[k].kind = "DataItem" => k = 1)

(* It is as described, and its points are the first j.                     *)
Tidy(st, a, pts) ==
    \E p, ps : st = State(a, p, Within, ps) /\ Orderly(p) /\ Taken(a, p, Within, ps) = pts

LEMMA TakenAfter ==
    ASSUME NEW c, Taking(c), NEW pts, NEW m, IsSeq(pts, m),
           NEW its, NEW n, ItemsReadable(its, n), NEW j \in 0..n
    PROVE  Tidy(After(c, pts, its, j), c.name, PointsTo(c, pts, its, j))
<1> DEFINE a == c.name
<1>1. CASE j = 0
  <2>1. After(c, pts, its, j) = State(a, NoPoint, Within, pts)
    BY <1>1 DEF After
  <2>2. Orderly(NoPoint)
    BY Zenon DEF Orderly
  <2>3. FlushEffect(a, NoPoint, Within, pts)
    BY <2>2, FlushedIs
  <2>4. Taken(a, NoPoint, Within, pts) = pts
    BY Zenon, <2>3 DEF FlushEffect
  <2>5. PointsTo(c, pts, its, j) = pts
    BY <1>1, PointsToNone
  <2> QED BY Zenon, <2>1, <2>2, <2>4, <2>5 DEF Tidy
<1>2. CASE j # 0
  <2> DEFINE item == its[j]
  <2> DEFINE p == Pending(a, item)
  <2> DEFINE old == PointsTo(c, pts, its, j - 1)
  <2>1. item \in ModelItem /\ ItemReadable(item)
    <3>1. j \in 1..n
      BY <1>2
    <3> QED BY <3>1 DEF ItemsReadable
  <2>2. After(c, pts, its, j) = State(a, p, Within, old)
    BY <1>2 DEF After
  <2>3. p.itemName # ""
    BY Zenon, <2>1 DEF Pending, ItemReadable
  <2>4. Orderly(p)
    BY Zenon, <2>3 DEF Orderly
  <2>5. p # NoPoint
    <3>1. NoPoint.itemName = ""
      BY DEF NoPoint
    <3> QED BY Zenon, <2>3, <3>1
  <2>6. Completed(a, p) = PointOf(c, item)
    BY <2>1, CompletedIs
  <2>7. j - 1 \in Nat /\ (j - 1) + 1 = j
    BY <1>2
  <2>8. PointsTo(c, pts, its, (j - 1) + 1) = Appended(old, PointOf(c, its[(j - 1) + 1]))
    BY <2>7, PointsToNext
  <2> HIDE DEF p, old, item
  <2>9. FlushEffect(a, p, Within, old)
    BY <2>4, FlushedIs
  <2>10. Taken(a, p, Within, old) = Appended(old, Completed(a, p))
    BY <2>5, <2>9 DEF FlushEffect
  <2>11. PointsTo(c, pts, its, j) = Appended(old, PointOf(c, item))
    BY <2>7, <2>8 DEF item
  <2>12. Taken(a, p, Within, old) = PointsTo(c, pts, its, j)
    BY <2>6, <2>10, <2>11
  <2> QED BY Zenon, <2>2, <2>4, <2>12 DEF Tidy
<1> QED BY <1>1, <1>2

(* Blocks of lines, each of which takes the parser from one state to the   *)
(* next                                                                    *)
LEMMA ReadBlocks ==
    ASSUME NEW n, NEW b, IsSeq(b, n), NEW g, \A i \in 1..n : Reads(g[i - 1], b[i], g[i])
    PROVE  Reads(g[0], FlattenSeq(b), g[n])
<1>1. Len(b) = n /\ n \in Nat
  BY SeqLen
<1>2. CASE n = 0
  <2>1. FlattenSeq(b) = b
    BY <1>1, <1>2 DEF FlattenSeq
  <2>2. IsSeq(b, 0)
    BY <1>2
  <2> QED BY <1>2, <2>1, <2>2, ReadNothing
<1>3. CASE n # 0
  <2>1. PICK f : FlatSteps(f, b, n) /\ FlattenSeq(b) = f[n]
    BY <1>3, FlattenSteps
  <2>2. \A i \in 1..n : f[i] = IF i = 1 THEN b[i] ELSE Joined(f[i - 1], b[i])
    BY <2>1 DEF FlatSteps
  <2> DEFINE S == {j \in Nat : j + 1 <= n => Reads(g[0], f[j + 1], g[j + 1])}
  <2>3. 0 \in S
    <3>1. 1 \in 1..n /\ 1 - 1 = 0
      BY <1>1, <1>3
    <3>2. f[1] = b[1]
      BY <2>2, <3>1
    <3>3. Reads(g[1 - 1], b[1], g[1])
      BY <3>1
    <3> QED BY <3>1, <3>2, <3>3
  <2>4. ASSUME NEW j \in S PROVE j + 1 \in S
    <3> DEFINE h == j + 1
    <3>1. ASSUME h + 1 <= n PROVE Reads(g[0], f[h + 1], g[h + 1])
      <4>1. h \in Nat /\ h + 1 \in 1..n /\ h + 1 # 1 /\ (h + 1) - 1 = h /\ Reads(g[0], f[h], g[h])
        BY <1>1, <3>1
      <4> HIDE DEF h
      <4>2. f[h + 1] = Joined(f[h], b[h + 1])
        BY <2>2, <4>1
      <4>3. Reads(g[(h + 1) - 1], b[h + 1], g[h + 1])
        BY <4>1
      <4>4. Reads(g[h], b[h + 1], g[h + 1])
        BY <4>1, <4>3
      <4> DEFINE first == f[h]
      <4> DEFINE block == b[h + 1]
      <4> DEFINE x == g[0]
      <4> DEFINE y == g[h]
      <4> DEFINE z == g[h + 1]
      <4>5. Reads(x, first, y) /\ Reads(y, block, z)
        BY <4>1, <4>4
      <4> HIDE DEF first, block, x, y, z
      <4>6. Reads(x, Joined(first, block), z)
        BY <4>5, ReadBoth
      <4> QED BY <4>2, <4>6 DEF first, block, x, z
    <3>2. h \in Nat
      OBVIOUS
    <3> QED BY <3>1, <3>2
  <2>5. S = Nat
    <3>1. S \subseteq Nat
      OBVIOUS
    <3> HIDE DEF S
    <3> QED BY <2>3, <2>4, <3>1, SetInduction
  <2>6. n - 1 \in Nat /\ (n - 1) + 1 = n
    BY <1>1, <1>3
  <2>7. Reads(g[0], f[n], g[n])
    <3>1. (n - 1) + 1 <= n => Reads(g[0], f[(n - 1) + 1], g[(n - 1) + 1])
      BY <2>5, <2>6
    <3> QED BY <1>1, <2>6, <3>1
  <2> QED BY <2>1, <2>7
<1> QED BY <1>2, <1>3

(* An item where no points are taken: its name counts as a component's,    *)
(* and the rest as nothing.                                                *)
LEMMA NameOutside ==
    ASSUME NEW a, NEW ps, NEW name, NEW indent
    PROVE  ParseLine(State(a, NoPoint, Outside, ps), TextLine("Name", indent, name))
             = State(name, NoPoint, Outside, ps)
<1> DEFINE st == State(a, NoPoint, Outside, ps)
<1> DEFINE line == TextLine("Name", indent, name)
<1>1. line.kind = "Name" /\ line.value = name
  BY DEF TextLine
<1>2. ~ st.inDataItem
  BY DEF State, Outside
<1>3. Orderly(NoPoint)
  BY Zenon DEF Orderly
<1>4. FlushEffect(a, NoPoint, Outside, ps)
  BY <1>3, FlushedIs
<1>5. Flushed(st) = st
  BY Zenon, <1>4 DEF FlushEffect
<1> HIDE DEF st, line
<1>6. ParseLine(st, line) = NameLine(st, line)
  BY <1>1 DEF ParseLine
<1>7. NameLine(st, line) = WithComponent(Flushed(st), name)
  BY <1>1, <1>2 DEF NameLine, WithComponent
<1>8. WithComponent(st, name) = State(name, NoPoint, Outside, ps)
  BY AssignComponent DEF st
<1>9. ParseLine(st, line) = State(name, NoPoint, Outside, ps)
  BY <1>5, <1>6, <1>7, <1>8
<1> QED BY <1>9 DEF st, line

LEMMA ReadStray ==
    ASSUME NEW a, NEW ps, NEW item \in ModelItem, ItemReadable(item), NEW indent
    PROVE  Reads(State(a, NoPoint, Outside, ps), ItemLines(item, indent),
                 State(item.name, NoPoint, Outside, ps))
<1> DEFINE st == State(a, NoPoint, Outside, ps)
<1> DEFINE named == State(item.name, NoPoint, Outside, ps)
<1> DEFINE line == TextLine("Name", indent, item.name)
<1> DEFINE head == <<line>>
<1> DEFINE notes == item.notes
<1> DEFINE path == [i \in DOMAIN item.path |-> TextLine("Path", indent + 2, item.path[i])]
<1> DEFINE n == Len(item.path)
<1>1. Reads(st, head, named)
  <2>1. ParseLine(st, line) = named
    BY NameOutside
  <2> HIDE DEF named, line, st
  <2>2. Reads(st, <<line>>, ParseLine(st, line))
    BY ReadLine
  <2> QED BY <2>1, <2>2
<1>2. item.notes \in Seq(ModelLine) /\ item.path \in Seq(STRING)
  BY DEF ModelItem
<1>3. Reads(named, notes, named)
  <2>1. IsSeq(notes, Len(notes)) /\ SayNothing(notes)
    BY <1>2, SeqIs DEF ItemReadable
  <2> HIDE DEF named, notes
  <2> QED BY <2>1, ReadNotes
<1>4. DOMAIN item.path = 1..n /\ n \in {0, 1}
  <2> DEFINE s == item.path
  <2>1. IsSeq(s, n)
    BY <1>2, SeqIs
  <2>2. DOMAIN s = 1..n /\ n \in Nat
    BY <2>1, SeqLen
  <2>3. n <= 1
    BY DEF ItemReadable
  <2> HIDE DEF s, n
  <2>4. n \in {0, 1}
    BY <2>2, <2>3
  <2> QED BY <2>2, <2>4 DEF s
<1>5. IsSeq(path, n)
  <2> HIDE DEF n
  <2> QED BY <1>4 DEF IsSeq
<1>6. Reads(named, path, named)
  <2>1. CASE n = 0
    <3>1. IsSeq(path, 0)
      BY <1>5, <2>1
    <3> HIDE DEF path, named
    <3> QED BY <3>1, ReadNothing
  <2>2. CASE n = 1
    <3> DEFINE last == path[1]
    <3>1. last.kind = "Path"
      <4>1. 1 \in DOMAIN item.path
        <5> HIDE DEF n
        <5> QED BY <1>4, <2>2
      <4> QED BY <4>1 DEF TextLine
    <3>2. named.point.itemName = ""
      BY DEF State, NoPoint
    <3> HIDE DEF named, path, last
    <3>3. ParseLine(named, last) = named
      BY Zenon, <3>1, <3>2 DEF ParseLine
    <3>4. Reads(named, <<last>>, ParseLine(named, last))
      BY ReadLine
    <3>5. path = <<last>>
      <4>1. IsSeq(path, 1)
        BY <1>5, <2>2
      <4>2. IsSeq(<<last>>, 1) /\ <<last>>[1] = last
        BY OneIs
      <4>3. \A i \in 1..1 : i = 1
        BY SMT
      <4>4. \A i \in 1..1 : path[i] = <<last>>[i]
        BY <4>2, <4>3 DEF last
      <4> QED BY <4>1, <4>2, <4>4, SameSeq
    <3> QED BY <3>3, <3>4, <3>5
  <2> QED BY <1>4, <2>1, <2>2
<1>7. ItemLines(item, indent) = Joined(Joined(head, notes), path)
  BY Zenon DEF ItemLines, Joined
<1> HIDE DEF named, path, head, notes, st
<1>8. Reads(st, Joined(head, notes), named)
  BY <1>1, <1>3, ReadBoth
<1>9. Reads(st, Joined(Joined(head, notes), path), named)
  BY <1>6, <1>8, ReadBoth
<1> QED BY <1>7, <1>9 DEF st, named

(* The next item of a component                                            *)
LEMMA ReadNext ==
    ASSUME NEW c, NEW pts, NEW m, IsSeq(pts, m),
           NEW its, NEW n, ItemsReadable(its, n), NEW i \in 1..n,
           NEW indent \in Nat, indent >= ItemIndent
    PROVE  Reads(After(c, pts, its, i - 1), ItemLines(its[i], indent), After(c, pts, its, i))
<1> DEFINE item == its[i]
<1> DEFINE lines == ItemLines(item, indent)
<1> DEFINE before == After(c, pts, its, i - 1)
<1> DEFINE end == After(c, pts, its, i)
<1>1. n \in Nat
  BY SeqLen DEF ItemsReadable
<1>2. i - 1 \in 0..n /\ i # 0
  BY <1>1
<1>3. item \in ModelItem /\ ItemReadable(item)
  BY DEF ItemsReadable
<1>4. CASE Taking(c)
  <2> DEFINE a == c.name
  <2> DEFINE got == PointsTo(c, pts, its, i - 1)
  <2>1. Tidy(before, a, got)
    BY <1>2, <1>4, TakenAfter
  <2>2. end = State(a, Pending(a, item), Within, got)
    BY <1>2, <1>4 DEF After
  <2> HIDE DEF before, a, got, item, end
  <2>3. PICK p, ps : /\ before = State(a, p, Within, ps) /\ Orderly(p)
                     /\ Taken(a, p, Within, ps) = got
    BY <2>1 DEF Tidy
  <2>4. Reads(State(a, p, Within, ps), ItemLines(item, indent),
              State(a, Pending(a, item), Within, Taken(a, p, Within, ps)))
    BY <1>3, <2>3, ReadItem
  <2>5. Reads(before, lines, end)
    BY <2>2, <2>3, <2>4
  <2> QED BY <2>5 DEF before, end, item
<1>5. CASE ~Taking(c)
  <2> DEFINE a == IF i - 1 = 0 THEN c.name ELSE its[i - 1].name
  <2>1. before = State(a, NoPoint, Outside, pts)
    BY <1>5 DEF After
  <2>2. end = State(item.name, NoPoint, Outside, pts)
    BY <1>2, <1>5 DEF After
  <2> HIDE DEF before, a, item, end
  <2>3. Reads(State(a, NoPoint, Outside, pts), ItemLines(item, indent),
              State(item.name, NoPoint, Outside, pts))
    BY <1>3, ReadStray
  <2>4. Reads(before, lines, end)
    BY <2>1, <2>2, <2>3
  <2> QED BY <2>4 DEF before, end, item
<1> QED BY <1>4, <1>5

(* More items do not change what the first ones make.                      *)
LEMMA AfterFirst ==
    ASSUME NEW c, NEW pts, NEW s, NEW t, NEW n \in Nat, \A i \in 1..n : s[i] = t[i]
    PROVE  After(c, pts, s, n) = After(c, pts, t, n)
<1>1. CASE n = 0
  BY <1>1 DEF After
<1>2. CASE n # 0
  <2>1. n \in 1..n
    BY <1>2
  <2>2. s[n] = t[n]
    BY <2>1
  <2> DEFINE x == [i \in 1..(n - 1) |-> PointOf(c, s[i])]
  <2> DEFINE y == [i \in 1..(n - 1) |-> PointOf(c, t[i])]
  <2>3. \A i \in 1..(n - 1) : i \in 1..n
    BY <1>2
  <2>4. x = y
    BY <2>3
  <2>5. PointsTo(c, pts, s, n - 1) = PointsTo(c, pts, t, n - 1)
    BY Zenon, <2>4 DEF PointsTo
  <2> QED BY Zenon, <1>2, <2>2, <2>5 DEF After
<1> QED BY <1>1, <1>2

LEMMA JoinReadable ==
    ASSUME NEW s, NEW m, ItemsReadable(s, m), NEW t, NEW n, ItemsReadable(t, n)
    PROVE  /\ ItemsReadable(Joined(s, t), m + n)
           /\ m \in Nat /\ n \in Nat /\ JoinOf(Joined(s, t), s, m, t, n)
<1> DEFINE j == Joined(s, t)
<1>1. IsSeq(s, m) /\ IsSeq(t, n)
  BY DEF ItemsReadable
<1>2. m \in Nat /\ n \in Nat
  BY <1>1, SeqLen
<1>3. JoinOf(j, s, m, t, n)
  BY <1>1, JoinIs
<1> HIDE DEF j
<1>4. ASSUME NEW i \in 1..(m + n) PROVE j[i] \in ModelItem /\ ItemReadable(j[i])
  <2>1. CASE i \in 1..m
    <3>1. j[i] = s[i]
      BY <1>3, <2>1 DEF JoinOf
    <3> QED BY <2>1, <3>1 DEF ItemsReadable
  <2>2. CASE i \notin 1..m
    <3>1. i - m \in 1..n /\ m + (i - m) = i
      BY <1>2, <2>2
    <3>2. j[m + (i - m)] = t[i - m]
      BY <1>3, <3>1 DEF JoinOf
    <3>3. t[i - m] \in ModelItem /\ ItemReadable(t[i - m])
      BY <3>1 DEF ItemsReadable
    <3> QED BY <3>1, <3>2, <3>3
  <2> QED BY <2>1, <2>2
<1>5. IsSeq(j, m + n)
  BY <1>3 DEF JoinOf
<1>6. ItemsReadable(j, m + n)
  BY <1>4, <1>5 DEF ItemsReadable
<1> QED BY <1>2, <1>3, <1>6 DEF j

(* The items of a list behind those of the lists before                    *)
LEMMA ReadMore ==
    ASSUME NEW c, NEW pts, NEW m, IsSeq(pts, m),
           NEW its, NEW n, ItemsReadable(its, n), NEW more, NEW k, ItemsReadable(more, k),
           NEW indent \in Nat, indent >= ItemIndent
    PROVE  Reads(After(c, pts, its, n),
                 FlattenSeq([i \in DOMAIN more |-> ItemLines(more[i], indent)]),
                 After(c, pts, Joined(its, more), n + k))
<1> DEFINE all == Joined(its, more)
<1> DEFINE b == [i \in DOMAIN more |-> ItemLines(more[i], indent)]
<1>1. ItemsReadable(all, n + k) /\ n \in Nat /\ k \in Nat /\ JoinOf(all, its, n, more, k)
  BY JoinReadable
<1>2. DOMAIN more = 1..k
  BY SeqLen DEF ItemsReadable
<1> DEFINE g == [i \in 0..k |-> After(c, pts, all, n + i)]
<1> HIDE DEF all
<1>3. IsSeq(b, k)
  BY <1>1, <1>2 DEF IsSeq
<1>4. ASSUME NEW i \in 1..k PROVE Reads(g[i - 1], b[i], g[i])
  <2> DEFINE l == n + k
  <2> DEFINE h == n + i
  <2>1. h \in 1..l /\ h - 1 = n + (i - 1) /\ i - 1 \in 0..k /\ i \in 0..k
    BY <1>1
  <2>2. all[h] = more[i]
    BY <1>1 DEF JoinOf
  <2>3. b[i] = ItemLines(all[h], indent)
    BY <1>2, <2>2
  <2>4. ItemsReadable(all, l)
    BY <1>1
  <2>5. g[i - 1] = After(c, pts, all, h - 1) /\ g[i] = After(c, pts, all, h)
    BY <2>1
  <2> HIDE DEF l, h, b, g
  <2>6. Reads(After(c, pts, all, h - 1), ItemLines(all[h], indent), After(c, pts, all, h))
    BY <2>1, <2>4, ReadNext
  <2> QED BY <2>3, <2>5, <2>6
<1>5. g[0] = After(c, pts, all, n) /\ g[k] = After(c, pts, all, n + k)
  BY <1>1
<1>6. After(c, pts, all, n) = After(c, pts, its, n)
  <2>1. \A i \in 1..n : all[i] = its[i]
    BY <1>1 DEF JoinOf
  <2> QED BY <1>1, <2>1, AfterFirst
<1> HIDE DEF g, b
<1>7. Reads(g[0], FlattenSeq(b), g[k])
  BY <1>3, <1>4, ReadBlocks
<1> QED BY <1>5, <1>6, <1>7 DEF b, all

(* Joining with no elements                                                *)
LEMMA JoinedNone == ASSUME NEW s, NEW n, IsSeq(s, n) PROVE Joined(<<>>, s) = s
<1> DEFINE none == <<>>
<1>1. IsSeq(none, 0)
  BY DEF IsSeq
<1> HIDE DEF none
<1> DEFINE j == Joined(none, s)
<1>2. JoinOf(j, none, 0, s, n)
  BY <1>1, JoinIs
<1> HIDE DEF j
<1>3. n \in Nat
  BY SeqLen
<1>4. IsSeq(j, n)
  <2>1. 0 + n = n
    BY <1>3
  <2> QED BY <1>2, <2>1 DEF JoinOf
<1>5. \A i \in 1..n : j[i] = s[i]
  <2> TAKE i \in 1..n
  <2>1. 0 + i = i
    BY <1>3
  <2> QED BY <1>2, <2>1 DEF JoinOf
<1>6. j = s
  BY <1>4, <1>5, SameSeq
<1> QED BY <1>6 DEF j, none

(* p[i] are the first i of these sequences, joined.                        *)
JoinedTo(q, n, p) ==
    /\ p[0] = <<>> /\ FlattenSeq(q) = p[n]
    /\ \A i \in 1..n : p[i] = Joined(p[i - 1], q[i])

LEMMA FlatStages ==
    ASSUME NEW q, NEW n, IsSeq(q, n), \A i \in 1..n : \E k : IsSeq(q[i], k)
    PROVE  \E p : JoinedTo(q, n, p)
<1> DEFINE none == <<>>
<1>1. n \in Nat
  BY SeqLen
<1>2. IsSeq(q, n)
  OBVIOUS
<1>3. IsSeq(none, 0)
  BY DEF IsSeq
<1> HIDE DEF none
<1>4. \E p : /\ p[0] = none /\ FlattenSeq(q) = p[n]
             /\ \A i \in 1..n : p[i] = Joined(p[i - 1], q[i])
  <2>1. CASE n = 0
    <3> DEFINE p == [i \in 0..0 |-> none]
    <3>1. Len(q) = 0
      BY <1>2, <2>1, SeqLen
    <3>2. FlattenSeq(q) = q
      BY <3>1 DEF FlattenSeq
    <3>3. q = none
      <4>1. IsSeq(q, 0)
        BY <1>2, <2>1
      <4> QED BY <1>3, <4>1, SameSeq
    <3>4. p[0] = none /\ \A i \in 1..n : FALSE
      BY <2>1
    <3> HIDE DEF p
    <3> QED BY <2>1, <3>2, <3>3, <3>4
  <2>2. CASE n # 0
    <3>1. PICK f : FlatSteps(f, q, n) /\ FlattenSeq(q) = f[n]
      BY <1>2, <2>2, FlattenSteps
    <3>2. \A i \in 1..n : f[i] = IF i = 1 THEN q[i] ELSE Joined(f[i - 1], q[i])
      BY <3>1 DEF FlatSteps
    <3> DEFINE p == [i \in 0..n |-> IF i = 0 THEN none ELSE f[i]]
    <3>3. p[0] = none /\ \A i \in 1..n : p[i] = f[i]
      BY <1>1
    <3> HIDE DEF p
    <3>4. ASSUME NEW i \in 1..n PROVE p[i] = Joined(p[i - 1], q[i])
      <4>1. CASE i = 1
        <5>1. PICK k : IsSeq(q[i], k)
          BY <1>2
        <5>2. Joined(none, q[i]) = q[i]
          <6> DEFINE block == q[i]
          <6> HIDE DEF block
          <6>1. IsSeq(block, k)
            BY <5>1 DEF block
          <6>2. Joined(<<>>, block) = block
            BY <6>1, JoinedNone
          <6> QED BY <6>2 DEF block, none
        <5>3. p[i - 1] = none
          BY <3>3, <4>1
        <5> QED BY <3>2, <3>3, <4>1, <5>2, <5>3
      <4>2. CASE i # 1
        <5>1. i - 1 \in 1..n
          BY <1>1, <4>2
        <5> QED BY <3>2, <3>3, <4>2, <5>1
      <4> QED BY <4>1, <4>2
    <3>5. n \in 1..n
      BY <1>1, <2>2
    <3> QED BY <3>1, <3>3, <3>4, <3>5
  <2> QED BY <2>1, <2>2
<1> QED BY <1>4 DEF none, JoinedTo

(* The line above a list                                                   *)
LEMMA OtherLine == ASSUME NEW st, NEW line, line.kind = "other" PROVE Reads(st, <<line>>, st)
<1>1. Reads(st, <<line>>, ParseLine(st, line))
  BY ReadLine
<1>2. ParseLine(st, line) = st
  BY Zenon DEF ParseLine
<1> QED BY <1>1, <1>2

LEMMA ListLine ==
    ASSUME NEW a, NEW ps, NEW line, line.kind = "DataItem"
    PROVE  Reads(State(a, NoPoint, Outside, ps), <<line>>, State(a, NoPoint, Within, ps))
<1> DEFINE st == State(a, NoPoint, Outside, ps)
<1>1. WithItems(st, Within) = State(a, NoPoint, Within, ps)
  BY AssignItems
<1> HIDE DEF st
<1>2. ParseLine(st, line) = WithItems(st, Within)
  BY DEF ParseLine, WithItems, Within
<1>3. Reads(st, <<line>>, ParseLine(st, line))
  BY ReadLine
<1>4. Reads(st, <<line>>, State(a, NoPoint, Within, ps))
  BY <1>1, <1>2, <1>3
<1> QED BY <1>4 DEF st

(* All that a component lists, and the state behind it                     *)
AllItems(c) == FlattenSeq([i \in DOMAIN c.lists |-> c.lists[i].items])
End(c, pts) == After(c, pts, AllItems(c), Len(AllItems(c)))

(* s[i] are the items of the first i lists.                                *)
Listed(c, n, s) ==
    /\ s[0] = <<>>
    /\ \A i \in 1..n : s[i] = Joined(s[i - 1], c.lists[i].items)
    /\ \A i \in 0..n : ItemsReadable(s[i], Len(s[i]))

LEMMA ItemsOfLists ==
    ASSUME NEW c, ComponentReadable(c), NEW n, n = Len(c.lists)
    PROVE  \E s : Listed(c, n, s) /\ AllItems(c) = s[n]
<1> DEFINE q == [i \in DOMAIN c.lists |-> c.lists[i].items]
<1>1. IsSeq(c.lists, n)
  BY DEF ComponentReadable
<1>2. n \in Nat /\ DOMAIN c.lists = 1..n
  <2> DEFINE lists == c.lists
  <2> HIDE DEF lists
  <2>1. n \in Nat /\ DOMAIN lists = 1..n
    BY <1>1, SeqLen DEF lists
  <2> QED BY <2>1 DEF lists
<1>3. IsSeq(q, n) /\ \A i \in 1..n : q[i] = c.lists[i].items
  BY <1>2 DEF IsSeq
<1>4. \A i \in 1..n : \E k : ItemsReadable(q[i], k)
  BY <1>3 DEF ComponentReadable, ListReadable
<1> HIDE DEF q
<1>5. \A i \in 1..n : \E k : IsSeq(q[i], k)
  BY <1>4 DEF ItemsReadable
<1>6. PICK s : /\ s[0] = <<>> /\ FlattenSeq(q) = s[n]
               /\ \A i \in 1..n : s[i] = Joined(s[i - 1], q[i])
  <2>1. \E s : JoinedTo(q, n, s)
    BY <1>3, <1>5, FlatStages
  <2> QED BY Zenon, <2>1 DEF JoinedTo
<1> DEFINE S == {i \in Nat : i <= n => \E k : ItemsReadable(s[i], k)}
<1>7. 0 \in S
  <2> DEFINE none == <<>>
  <2>1. IsSeq(none, 0)
    BY DEF IsSeq
  <2> HIDE DEF none
  <2>2. ItemsReadable(none, 0)
    BY <2>1 DEF ItemsReadable
  <2>3. s[0] = none
    BY <1>6 DEF none
  <2> QED BY <2>2, <2>3
<1>8. ASSUME NEW i \in S PROVE i + 1 \in S
  <2>1. ASSUME i + 1 <= n PROVE \E k : ItemsReadable(s[i + 1], k)
    <3>1. i + 1 \in 1..n /\ (i + 1) - 1 = i
      BY <1>2, <2>1
    <3> DEFINE old == s[i]
    <3> DEFINE more == q[i + 1]
    <3>2. s[i + 1] = Joined(old, more)
      BY <1>6, <3>1
    <3>3. (\E k : ItemsReadable(old, k)) /\ \E k : ItemsReadable(more, k)
      BY <1>4, <2>1, <3>1
    <3> HIDE DEF old, more
    <3>4. PICK k : ItemsReadable(old, k)
      BY <3>3
    <3>5. PICK l : ItemsReadable(more, l)
      BY <3>3
    <3>6. ItemsReadable(Joined(old, more), k + l)
      BY <3>4, <3>5, JoinReadable
    <3> QED BY <3>2, <3>6
  <2> QED BY <2>1
<1>9. S = Nat
  <2>1. S \subseteq Nat
    OBVIOUS
  <2> HIDE DEF S
  <2> QED BY <1>7, <1>8, <2>1, SetInduction
<1>10. ASSUME NEW i \in 0..n PROVE ItemsReadable(s[i], Len(s[i]))
  <2> DEFINE t == s[i]
  <2>1. \E k : ItemsReadable(t, k)
    BY <1>2, <1>9
  <2> HIDE DEF t
  <2>2. PICK k : ItemsReadable(t, k)
    BY <2>1
  <2>3. k = Len(t)
    BY <2>2, SeqLen DEF ItemsReadable
  <2>4. ItemsReadable(t, Len(t))
    BY <2>2, <2>3
  <2> QED BY <2>4 DEF t
<1>11. Listed(c, n, s)
  BY Zenon, <1>3, <1>6, <1>10 DEF Listed
<1>12. AllItems(c) = s[n]
  BY <1>6 DEF AllItems, q
<1> QED BY <1>11, <1>12

(* The lists of a component                                                *)
LEMMA ReadLists ==
    ASSUME NEW c, ComponentReadable(c), NEW pts, NEW m, IsSeq(pts, m)
    PROVE  Reads(State(c.name, NoPoint, Outside, pts),
                 FlattenSeq([i \in DOMAIN c.lists |-> ListLines(c.lists[i], c)]), End(c, pts))
<1> DEFINE n == Len(c.lists)
<1> DEFINE b == [i \in DOMAIN c.lists |-> ListLines(c.lists[i], c)]
<1> DEFINE out == State(c.name, NoPoint, Outside, pts)
<1>1. PICK s : Listed(c, n, s) /\ AllItems(c) = s[n]
  BY ItemsOfLists
<1>2. IsSeq(c.lists, n)
  BY DEF ComponentReadable
<1>3. n \in Nat /\ DOMAIN c.lists = 1..n
  <2> DEFINE lists == c.lists
  <2> HIDE DEF lists
  <2>1. n \in Nat /\ DOMAIN lists = 1..n
    BY <1>2, SeqLen DEF lists
  <2> QED BY <2>1 DEF lists
<1>4. IsSeq(b, n)
  BY <1>3 DEF IsSeq
<1>5. \A i \in 1..n : b[i] = ListLines(c.lists[i], c)
  BY <1>3
<1> DEFINE at(i) == After(c, pts, s[i], Len(s[i]))
<1> DEFINE g == [i \in 0..n |-> IF i = 0 THEN out ELSE at(i)]
<1>6. g[0] = out /\ \A i \in 1..n : g[i] = at(i)
  <2> HIDE DEF out, at
  <2> QED BY <1>3
<1> HIDE DEF g, b
<1>7. Len(s[0]) = 0
  <2> DEFINE none == <<>>
  <2>1. IsSeq(none, 0) /\ s[0] = none
    BY <1>1 DEF IsSeq, Listed
  <2> HIDE DEF none
  <2> QED BY <2>1, SeqLen
<1>8. ASSUME NEW i \in 1..n PROVE Reads(g[i - 1], b[i], g[i])
  <2> DEFINE list == c.lists[i]
  <2> DEFINE line == TextLine(list.kind, c.indent + 2, "")
  <2> DEFINE its == s[i - 1]
  <2> DEFINE k == Len(its)
  <2> DEFINE more == list.items
  <2> DEFINE rest == FlattenSeq([j \in DOMAIN more |-> ItemLines(more[j], c.inner)])
  <2> DEFINE before == g[i - 1]
  <2> DEFINE within == at(i - 1)
  <2>1. i - 1 \in 0..n /\ i \in 0..n
    BY <1>3
  <2>2. ListReadable(list) /\ (list.kind = "DataItem" => i = 1)
    BY DEF ComponentReadable
  <2>3. line.kind = list.kind
    BY DEF TextLine
  <2>4. Reads(before, <<line>>, within)
    <3>1. CASE i # 1
      <4>1. list.kind = "other"
        BY <2>2, <3>1 DEF ListReadable
      <4>2. i - 1 \in 1..n
        BY <1>3, <3>1
      <4>3. before = within
        BY <1>6, <4>2
      <4> HIDE DEF line, before, within
      <4>4. Reads(before, <<line>>, before)
        BY <2>3, <4>1, OtherLine
      <4> QED BY <4>3, <4>4
    <3>2. CASE i = 1
      <4>1. i - 1 = 0
        BY <3>2
      <4>2. before = out
        BY <1>6, <4>1
      <4>3. within = After(c, pts, its, 0)
        BY <1>7, <4>1
      <4>4. c.lists # <<>>
        <5> DEFINE lists == c.lists
        <5> DEFINE none == <<>>
        <5>1. IsSeq(none, 0)
          BY DEF IsSeq
        <5>2. Len(lists) = n
          OBVIOUS
        <5> HIDE DEF lists, none, n
        <5>3. ASSUME lists = none PROVE n = 0
          <6>1. Len(none) = 0
            BY <5>1, SeqLen
          <6> QED BY <5>2, <5>3, <6>1
        <5>4. n # 0
          BY <1>3
        <5> QED BY <5>3, <5>4 DEF lists, none
      <4>5. Taking(c) <=> list.kind = "DataItem"
        BY <3>2, <4>4 DEF Taking
      <4>6. CASE Taking(c)
        <5>1. within = State(c.name, NoPoint, Within, pts)
          BY <4>3, <4>6 DEF After
        <5> DEFINE name == c.name
        <5> HIDE DEF line, before, within, name
        <5>2. Reads(State(name, NoPoint, Outside, pts), <<line>>, State(name, NoPoint, Within, pts))
          BY <2>3, <4>5, <4>6, ListLine
        <5> QED BY <4>2, <5>1, <5>2 DEF name
      <4>7. CASE ~Taking(c)
        <5>1. within = out
          BY <4>3, <4>7 DEF After
        <5>2. list.kind = "other"
          BY <2>2, <4>5, <4>7 DEF ListReadable
        <5> HIDE DEF line, before, within, out
        <5>3. Reads(before, <<line>>, before)
          BY <2>3, <5>2, OtherLine
        <5> QED BY <4>2, <5>1, <5>3
      <4> QED BY <4>6, <4>7
    <3> QED BY <3>1, <3>2
  <2>5. ItemsReadable(its, k)
    BY <1>1, <2>1 DEF Listed
  <2>6. PICK r : ItemsReadable(more, r)
    BY <2>2 DEF ListReadable
  <2>7. s[i] = Joined(its, more)
    BY <1>1 DEF Listed
  <2>8. g[i] = After(c, pts, Joined(its, more), k + r)
    <3>1. g[i] = After(c, pts, s[i], Len(s[i]))
      BY <1>6
    <3> HIDE DEF its, more, k
    <3>2. ItemsReadable(Joined(its, more), k + r)
      BY <2>5, <2>6, JoinReadable
    <3>3. Len(Joined(its, more)) = k + r
      BY <3>2, SeqLen DEF ItemsReadable
    <3> QED BY <2>7, <3>1, <3>3
  <2>9. within = After(c, pts, its, k)
    OBVIOUS
  <2> DEFINE indent == c.inner
  <2>10. indent \in Nat /\ indent >= ItemIndent
    BY DEF ComponentReadable
  <2>11. b[i] = Joined(<<line>>, rest)
    BY <1>5 DEF ListLines, Joined
  <2>12. Reads(within, rest, g[i])
    <3> DEFINE end == g[i]
    <3> HIDE DEF its, k, more, indent, within, end
    <3>1. Reads(After(c, pts, its, k),
                FlattenSeq([j \in DOMAIN more |-> ItemLines(more[j], indent)]),
                After(c, pts, Joined(its, more), k + r))
      BY <2>5, <2>6, <2>10, ReadMore
    <3>2. Reads(within, FlattenSeq([j \in DOMAIN more |-> ItemLines(more[j], indent)]), end)
      BY <2>8, <2>9, <3>1 DEF end
    <3> QED BY <3>2 DEF end, indent
  <2> DEFINE head == <<line>>
  <2> DEFINE end == g[i]
  <2>13. Reads(before, head, within) /\ Reads(within, rest, end)
    BY <2>4, <2>12
  <2> HIDE DEF head, rest, before, within, end
  <2>14. Reads(before, Joined(head, rest), end)
    BY <2>13, ReadBoth
  <2> QED BY <2>11, <2>14 DEF head, before, end
<1>9. Reads(g[0], FlattenSeq(b), g[n])
  BY <1>4, <1>8, ReadBlocks
<1>10. g[n] = End(c, pts)
  <2>1. End(c, pts) = at(n)
    BY <1>1 DEF End
  <2>2. CASE n # 0
    <3>1. n \in 1..n
      BY <1>3, <2>2
    <3>2. g[n] = at(n)
      BY <1>6, <3>1
    <3> QED BY <2>1, <3>2
  <2>3. CASE n = 0
    <3>1. c.lists = <<>>
      <4> DEFINE lists == c.lists
      <4> DEFINE none == <<>>
      <4>1. IsSeq(none, 0)
        BY DEF IsSeq
      <4>2. IsSeq(lists, 0)
        BY <1>2, <2>3
      <4> HIDE DEF lists, none
      <4>3. lists = none
        BY <4>1, <4>2, SameSeq
      <4> QED BY <4>3 DEF lists, none
    <3>2. ~Taking(c)
      BY <3>1 DEF Taking
    <3>3. Len(s[n]) = 0
      BY <1>7, <2>3
    <3>4. at(n) = out
      BY <3>2, <3>3 DEF After
    <3> QED BY <1>6, <2>1, <2>3, <3>4
  <2> QED BY <2>2, <2>3
<1> QED BY <1>6, <1>9, <1>10 DEF b

(* A state in which a component can begin                                  *)
Ready(st, pts) ==
    \E a, p, d, ps : st = State(a, p, d, ps) /\ Orderly(p) /\ Taken(a, p, d, ps) = pts

LEMMA ReadComponent ==
    ASSUME NEW c, ComponentReadable(c), NEW st, NEW pts, Ready(st, pts), NEW m, IsSeq(pts, m)
    PROVE  Reads(st, ComponentLines(c), End(c, pts))
<1> DEFINE name == c.name
<1> DEFINE head == <<TextLine("Name", c.indent, name)>>
<1> DEFINE lists == FlattenSeq([i \in DOMAIN c.lists |-> ListLines(c.lists[i], c)])
<1> DEFINE out == State(name, NoPoint, Outside, pts)
<1> DEFINE end == End(c, pts)
<1>1. Reads(st, head, out)
  <2> DEFINE line == TextLine("Name", c.indent, name)
  <2>1. PICK a, p, d, ps : st = State(a, p, d, ps) /\ Orderly(p) /\ Taken(a, p, d, ps) = pts
    BY DEF Ready
  <2>2. c.indent \in Nat /\ c.indent < ItemIndent
    BY DEF ComponentReadable
  <2> DEFINE indent == c.indent
  <2> HIDE DEF name, indent
  <2>3. ParseLine(State(a, p, d, ps), TextLine("Name", indent, name))
          = State(name, NoPoint, Outside, Taken(a, p, d, ps))
    BY <2>1, <2>2, ComponentName DEF indent
  <2>4. ParseLine(st, line) = out
    BY <2>1, <2>3 DEF indent
  <2> HIDE DEF line, out
  <2>5. Reads(st, <<line>>, ParseLine(st, line))
    BY ReadLine
  <2> QED BY <2>4, <2>5 DEF line
<1>2. Reads(out, c.notes, out)
  <2> DEFINE s == c.notes
  <2>1. SayNothing(s) /\ \E n : IsSeq(s, n)
    BY DEF ComponentReadable
  <2> HIDE DEF s, out
  <2>2. Reads(out, s, out)
    BY <2>1, ReadNotes
  <2> QED BY <2>2 DEF s
<1>3. Reads(out, lists, end)
  BY ReadLists
<1>4. ComponentLines(c) = Joined(Joined(head, c.notes), lists)
  BY Zenon DEF ComponentLines, Joined
<1> DEFINE notes == c.notes
<1> HIDE DEF head, lists, out, end, notes
<1>5. Reads(st, Joined(head, notes), out)
  BY <1>1, <1>2, ReadBoth DEF notes
<1>6. Reads(st, Joined(Joined(head, notes), lists), end)
  BY <1>3, <1>5, ReadBoth
<1> QED BY <1>4, <1>6 DEF end, notes

(* Between two components, the points of those before are there.           *)
Between(st, pts) == Ready(st, pts) /\ \E m : IsSeq(pts, m)

LEMMA NoLinesReady == Between(NoLines, <<>>)
<1> DEFINE none == <<>>
<1> DEFINE a == ""
<1>1. IsSeq(none, 0)
  BY DEF IsSeq
<1>2. NoLines = State(a, NoPoint, Outside, none)
  BY DEF NoLines, State, Outside
<1> HIDE DEF none, a
<1>3. Orderly(NoPoint)
  BY Zenon DEF Orderly
<1>4. FlushEffect(a, NoPoint, Outside, none)
  BY <1>3, FlushedIs
<1>5. Taken(a, NoPoint, Outside, none) = none
  BY Zenon, <1>4 DEF FlushEffect
<1>6. Ready(NoLines, none)
  BY Zenon, <1>2, <1>3, <1>5 DEF Ready
<1> QED BY <1>1, <1>6 DEF Between, none

(* The items of its lists of these kinds                                   *)
ItemsOfKinds(c, kinds) ==
    FlattenSeq([i \in DOMAIN c.lists |->
                   IF c.lists[i].kind \in kinds THEN c.lists[i].items ELSE <<>>])

ListsHave(c, kinds) == \A i \in DOMAIN c.lists : c.lists[i].kind \in kinds

LEMMA ItemsOfTheKinds ==
    ASSUME NEW c, NEW kinds, ListsHave(c, kinds) PROVE ItemsOfKinds(c, kinds) = AllItems(c)
<1>1. [i \in DOMAIN c.lists |-> IF c.lists[i].kind \in kinds THEN c.lists[i].items ELSE <<>>]
        = [i \in DOMAIN c.lists |-> c.lists[i].items]
  BY DEF ListsHave
<1> QED BY Zenon, <1>1 DEF ItemsOfKinds, AllItems

LEMMA ItemsOfAnyKind ==
    ASSUME NEW c, ComponentReadable(c) PROVE ItemsOfKinds(c, {"DataItem", "other"}) = AllItems(c)
<1> DEFINE lists == c.lists
<1>1. IsSeq(lists, Len(lists)) /\ \A k \in 1..Len(lists) : ListReadable(lists[k])
  BY DEF ComponentReadable
<1> HIDE DEF lists
<1>2. DOMAIN lists = 1..Len(lists)
  BY <1>1, SeqLen
<1>3. ListsHave(c, {"DataItem", "other"})
  BY <1>1, <1>2 DEF ListsHave, ListReadable, lists
<1> QED BY <1>3, ItemsOfTheKinds

(* The points of a component follow those before.                          *)
LEMMA PointsOfComponent ==
    ASSUME NEW c, ComponentReadable(c), NEW pts, NEW m, IsSeq(pts, m)
    PROVE  /\ Between(End(c, pts), Joined(pts, ComponentPoints(c)))
           /\ \E k : IsSeq(ComponentPoints(c), k)
<1> DEFINE all == AllItems(c)
<1> DEFINE n == Len(all)
<1> DEFINE end == End(c, pts)
<1> DEFINE new == ComponentPoints(c)
<1>1. ItemsReadable(all, n)
  <2> DEFINE l == Len(c.lists)
  <2>1. PICK s : Listed(c, l, s) /\ AllItems(c) = s[l]
    BY ItemsOfLists
  <2>2. l \in Nat
    BY DEF ComponentReadable, IsSeq
  <2>3. l \in 0..l
    BY <2>2
  <2> QED BY <2>1, <2>3 DEF Listed
<1>2. n \in Nat /\ DOMAIN all = 1..n /\ n \in 0..n
  <2> HIDE DEF all
  <2> QED BY <1>1, SeqLen DEF ItemsReadable
<1>3. end = After(c, pts, all, n)
  BY DEF End
<1>4. CASE Taking(c)
  <2>1. PointsOf(c, {"DataItem", "other"}) = [i \in DOMAIN all |-> PointOf(c, all[i])]
    BY ItemsOfAnyKind DEF PointsOf, ItemsOfKinds
  <2>2. new = PointsOf(c, {"DataItem", "other"})
    BY <1>4 DEF ComponentPoints, Taking
  <2> HIDE DEF all
  <2>3. new = [i \in 1..n |-> PointOf(c, all[i])]
    BY <1>2, <2>1, <2>2
  <2>4. IsSeq(new, n)
    BY <1>2, <2>3 DEF IsSeq
  <2>5. PointsTo(c, pts, all, n) = Joined(pts, new)
    BY <2>3 DEF PointsTo
  <2>6. Tidy(After(c, pts, all, n), c.name, PointsTo(c, pts, all, n))
    BY <1>1, <1>2, <1>4, TakenAfter
  <2> HIDE DEF end, new, n
  <2>7. Ready(end, Joined(pts, new))
    BY <1>3, <2>5, <2>6 DEF Tidy, Ready
  <2>8. JoinOf(Joined(pts, new), pts, m, new, n)
    BY <2>4, JoinIs
  <2>9. Between(end, Joined(pts, new))
    BY <2>7, <2>8 DEF Between, JoinOf
  <2> QED BY <2>4, <2>9 DEF end, new
<1>5. CASE ~Taking(c)
  <2>1. new = <<>>
    BY <1>5 DEF ComponentPoints, Taking
  <2>2. IsSeq(new, 0)
    BY <2>1 DEF IsSeq
  <2> DEFINE a == IF n = 0 THEN c.name ELSE all[n].name
  <2>3. end = State(a, NoPoint, Outside, pts)
    BY <1>3, <1>5 DEF After
  <2> HIDE DEF end, new, a
  <2>4. Orderly(NoPoint)
    BY Zenon DEF Orderly
  <2>5. FlushEffect(a, NoPoint, Outside, pts)
    BY <2>4, FlushedIs
  <2>6. Taken(a, NoPoint, Outside, pts) = pts
    BY Zenon, <2>5 DEF FlushEffect
  <2>7. Ready(end, pts)
    BY Zenon, <2>3, <2>4, <2>6 DEF Ready
  <2>8. Joined(pts, new) = pts
    BY <2>2, JoinedToNone
  <2>9. Between(end, Joined(pts, new))
    BY <2>7, <2>8 DEF Between
  <2> QED BY <2>2, <2>9 DEF end, new
<1> QED BY <1>4, <1>5

(* p[i] are the points of the first i components, g[i] is the parser's     *)
(* state behind their lines.                                               *)
Stages(comps, n, p, g) ==
    /\ p[0] = <<>> /\ g[0] = NoLines
    /\ \A i \in 1..n : /\ p[i] = Joined(p[i - 1], ComponentPoints(comps[i]))
                       /\ g[i] = End(comps[i], p[i - 1])

LEMMA StagesExist ==
    ASSUME NEW comps, NEW n, IsSeq(comps, n),
           NEW q, q = [i \in 1..n |-> ComponentPoints(comps[i])],
           \A i \in 1..n : \E k : IsSeq(ComponentPoints(comps[i]), k)
    PROVE  \E p, g : Stages(comps, n, p, g) /\ FlattenSeq(q) = p[n]
<1>1. n \in Nat
  BY SeqLen
<1>2. IsSeq(q, n) /\ \A i \in 1..n : q[i] = ComponentPoints(comps[i])
  BY <1>1 DEF IsSeq
<1>3. \A i \in 1..n : \E k : IsSeq(q[i], k)
  BY <1>2
<1>4. PICK p : /\ p[0] = <<>> /\ FlattenSeq(q) = p[n]
               /\ \A i \in 1..n : p[i] = Joined(p[i - 1], q[i])
  <2>1. \E p : JoinedTo(q, n, p)
    BY <1>2, <1>3, FlatStages
  <2> QED BY Zenon, <2>1 DEF JoinedTo
<1> DEFINE behind(i) == End(comps[i], p[i - 1])
<1> DEFINE g == [i \in 0..n |-> IF i = 0 THEN NoLines ELSE behind(i)]
<1>5. g[0] = NoLines /\ \A i \in 1..n : g[i] = behind(i)
  <2> HIDE DEF behind
  <2> QED BY <1>1
<1> HIDE DEF g
<1>6. Stages(comps, n, p, g)
  BY Zenon, <1>2, <1>4, <1>5 DEF Stages
<1> QED BY <1>4, <1>6

LEMMA StagesBetween ==
    ASSUME NEW comps, NEW n \in Nat, NEW p, NEW g, Stages(comps, n, p, g),
           \A i \in 1..n : ComponentReadable(comps[i])
    PROVE  \A i \in 0..n : Between(g[i], p[i])
<1> DEFINE S == {i \in Nat : i <= n => Between(g[i], p[i])}
<1>1. 0 \in S
  BY NoLinesReady DEF Stages
<1>2. ASSUME NEW i \in S PROVE i + 1 \in S
  <2>1. ASSUME i + 1 <= n PROVE Between(g[i + 1], p[i + 1])
    <3> DEFINE c == comps[i + 1]
    <3> DEFINE pts == p[i]
    <3>1. i + 1 \in 1..n /\ (i + 1) - 1 = i /\ Between(g[i], pts)
      BY <2>1
    <3>2. PICK m : IsSeq(pts, m)
      BY <3>1 DEF Between
    <3>3. ComponentReadable(c)
      BY <3>1
    <3>4. p[i + 1] = Joined(pts, ComponentPoints(c)) /\ g[i + 1] = End(c, pts)
      BY <3>1 DEF Stages
    <3> HIDE DEF c, pts
    <3>5. Between(End(c, pts), Joined(pts, ComponentPoints(c)))
      BY <3>2, <3>3, PointsOfComponent
    <3> QED BY <3>4, <3>5
  <2>2. i + 1 \in Nat
    OBVIOUS
  <2> QED BY <2>1, <2>2
<1>3. S = Nat
  <2>1. S \subseteq Nat
    OBVIOUS
  <2> HIDE DEF S
  <2> QED BY <1>1, <1>2, <2>1, SetInduction
<1> QED BY <1>3

(* Reading a file to its end                                               *)
LEMMA ReadToTheEnd ==
    ASSUME NEW lines, NEW end, Reads(NoLines, lines, end), NEW pts, Ready(end, pts)
    PROVE  ParseDataItems(lines) = pts
<1>0. PICK n : ReadsAll(NoLines, lines, n, end)
  BY DEF Reads
<1> DEFINE Step(f, i) == IF i = 0 THEN NoLines ELSE ParseLine(f[i - 1], lines[i])
<1> DEFINE after == CHOOSE f : f = [i \in 0..n |-> Step(f, i)]
<1>1. Len(lines) = n /\ n \in Nat
  BY <1>0, SeqLen DEF ReadsAll
<1>2. ParseDataItems(lines) = Flushed(after[n]).points
  BY <1>1 DEF ParseDataItems, NoLines
<1>3. \E f : f = [i \in 0..n |-> Step(f, i)]
  BY <1>1, ParseExists DEF ParseSteps
<1>4. Follows(after, NoLines, lines, n)
  <2> HIDE DEF Step
  <2>1. after = [i \in 0..n |-> Step(after, i)]
    BY <1>3
  <2> HIDE DEF after
  <2>2. 0 \in 0..n /\ \A i \in 1..n : i \in 0..n /\ i # 0
    BY <1>1
  <2>3. \A i \in 0..n : after[i] = Step(after, i)
    BY <2>1
  <2> QED BY <2>2, <2>3 DEF Follows, Step
<1> HIDE DEF after
<1>5. after[n] = end
  BY <1>0, <1>4 DEF ReadsAll
<1>6. Flushed(end).points = pts
  BY DEF Ready, Taken
<1> QED BY <1>2, <1>5, <1>6

(* What Readable says of a component                                       *)
LEMMA ReadableComponents ==
    ASSUME NEW m \in Model, Readable(m), NEW n, n = Len(m.components)
    PROVE  /\ DOMAIN m.components = 1..n /\ IsSeq(m.components, n)
           /\ \A i \in 1..n : ComponentReadable(m.components[i])
<1> DEFINE comps == m.components
<1>1. comps \in Seq(ModelComponent)
  BY DEF Model
<1>2. IsSeq(comps, n)
  BY <1>1, SeqIs
<1>3. n \in Nat /\ DOMAIN comps = 1..n
  <2> HIDE DEF comps
  <2> QED BY <1>2, SeqLen
<1>4. ASSUME NEW i \in 1..n PROVE ComponentReadable(comps[i])
  <2> DEFINE c == comps[i]
  <2> DEFINE lists == c.lists
  <2>1. c \in ModelComponent
    BY <1>1, <1>3
  <2>2. lists \in Seq(ModelList) /\ c.notes \in Seq(ModelLine) /\ c.indent \in Nat /\ c.inner \in Nat
    BY <2>1 DEF ModelComponent
  <2>3. /\ c.indent < ItemIndent /\ c.inner >= ItemIndent /\ SayNothing(c.notes)
        /\ \A k \in DOMAIN lists :
               /\ lists[k].kind = "DataItem" => k = 1
               /\ \A j \in DOMAIN lists[k].items : ItemReadable(lists[k].items[j])
    BY Zenon, <1>3 DEF Readable, ItemReadable
  <2> DEFINE l == Len(lists)
  <2>4. IsSeq(lists, l)
    BY <2>2, SeqIs
  <2>5. DOMAIN lists = 1..l
    <3> HIDE DEF lists
    <3> QED BY <2>4, SeqLen
  <2>6. ASSUME NEW k \in 1..l PROVE ListReadable(lists[k])
    <3> DEFINE list == lists[k]
    <3> DEFINE s == list.items
    <3>1. list \in ModelList
      <4> HIDE DEF lists
      <4> QED BY <2>2, <2>5
    <3>2. list.kind \in {"DataItem", "other"} /\ s \in Seq(ModelItem)
      <4> HIDE DEF list
      <4> QED BY <3>1 DEF ModelList
    <3>3. \A j \in DOMAIN s : ItemReadable(s[j])
      BY <2>3, <2>5
    <3>4. IsSeq(s, Len(s))
      BY <3>2, SeqIs
    <3>5. ItemsReadable(s, Len(s))
      <4> HIDE DEF s
      <4>1. DOMAIN s = 1..Len(s)
        BY <3>4, SeqLen
      <4> QED BY <3>2, <3>3, <3>4, <4>1 DEF ItemsReadable
    <3> QED BY Zenon, <3>2, <3>5 DEF ListReadable
  <2>7. \E k : IsSeq(c.notes, k)
    BY <2>2, SeqIs
  <2>8. ComponentReadable(c)
    <3> HIDE DEF c
    <3> QED BY <2>2, <2>3, <2>4, <2>5, <2>6, <2>7 DEF ComponentReadable
  <2> QED BY <2>8 DEF c
<1> QED BY <1>2, <1>3, <1>4

(* Reading a file that is written from a model gives what it lists in the  *)
(* components that begin with data items.                                  *)
LEMMA FileIsRead ==
    ASSUME NEW m \in Model, Readable(m)
    PROVE  ParseDataItems(File(m)) = Points(m)
<1> DEFINE comps == m.components
<1> DEFINE n == Len(comps)
<1> DEFINE q == [i \in DOMAIN comps |-> ComponentPoints(comps[i])]
<1> DEFINE b == [i \in DOMAIN comps |-> ComponentLines(comps[i])]
<1>1. /\ DOMAIN comps = 1..n /\ IsSeq(comps, n)
      /\ \A i \in 1..n : ComponentReadable(comps[i])
  BY ReadableComponents
<1>2. Points(m) = FlattenSeq(q) /\ File(m) = Joined(m.heading, FlattenSeq(b))
  BY DEF Points, File, Joined
<1>3. q = [i \in 1..n |-> ComponentPoints(comps[i])] /\ b = [i \in 1..n |-> ComponentLines(comps[i])]
  BY <1>1
<1>4. m.heading \in Seq(ModelLine) /\ SayNothing(m.heading)
  BY DEF Model, Readable
<1> HIDE DEF q, b, comps, n
<1>5. n \in Nat
  BY <1>1, SeqLen
<1>6. \A i \in 1..n : \E k : IsSeq(ComponentPoints(comps[i]), k)
  <2>1. ASSUME NEW i \in 1..n PROVE \E k : IsSeq(ComponentPoints(comps[i]), k)
    <3> DEFINE none == <<>>
    <3> DEFINE c == comps[i]
    <3>1. IsSeq(none, 0) /\ ComponentReadable(c)
      BY <1>1 DEF IsSeq
    <3> HIDE DEF none, c
    <3>2. \E k : IsSeq(ComponentPoints(c), k)
      BY <3>1, PointsOfComponent
    <3> QED BY <3>2 DEF c
  <2> QED BY <2>1
<1>7. PICK p, g : Stages(comps, n, p, g) /\ FlattenSeq(q) = p[n]
  BY <1>1, <1>3, <1>6, StagesExist, ZenonT(60)
<1>8. \A i \in 0..n : Between(g[i], p[i])
  BY <1>1, <1>5, <1>7, StagesBetween
<1>9. IsSeq(b, n) /\ \A i \in 1..n : b[i] = ComponentLines(comps[i])
  BY <1>3, <1>5 DEF IsSeq
<1>10. ASSUME NEW i \in 1..n PROVE Reads(g[i - 1], b[i], g[i])
  <2> DEFINE c == comps[i]
  <2> DEFINE pts == p[i - 1]
  <2> DEFINE st == g[i - 1]
  <2>1. i - 1 \in 0..n
    BY <1>5
  <2>2. Ready(st, pts) /\ \E k : IsSeq(pts, k)
    BY <1>8, <2>1 DEF Between
  <2>3. g[i] = End(c, pts)
    BY <1>7 DEF Stages
  <2>4. b[i] = ComponentLines(c) /\ ComponentReadable(c)
    BY <1>1, <1>9
  <2> HIDE DEF c, pts, st
  <2>5. Reads(st, ComponentLines(c), End(c, pts))
    BY <2>2, <2>4, ReadComponent
  <2> QED BY <2>3, <2>4, <2>5 DEF st
<1>11. Reads(g[0], FlattenSeq(b), g[n])
  BY <1>9, <1>10, ReadBlocks
<1>12. g[0] = NoLines
  BY <1>7 DEF Stages
<1>13. Reads(NoLines, m.heading, NoLines)
  <2> DEFINE s == m.heading
  <2>1. IsSeq(s, Len(s)) /\ SayNothing(s)
    BY <1>4, SeqIs
  <2> HIDE DEF s
  <2>2. Reads(NoLines, s, NoLines)
    BY <2>1, ReadNotes
  <2> QED BY <2>2 DEF s
<1> DEFINE first == m.heading
<1> DEFINE rest == FlattenSeq(b)
<1> DEFINE end == g[n]
<1>14. Reads(NoLines, first, NoLines) /\ Reads(NoLines, rest, end)
  BY <1>11, <1>12, <1>13
<1>15. n \in 0..n
  BY <1>5
<1>16. Ready(end, p[n])
  BY <1>8, <1>15 DEF Between
<1>17. File(m) = Joined(first, rest)
  BY <1>2
<1> HIDE DEF first, rest, end
<1>18. Reads(NoLines, Joined(first, rest), end)
  BY <1>14, ReadBoth
<1>19. ParseDataItems(Joined(first, rest)) = p[n]
  BY <1>16, <1>18, ReadToTheEnd
<1> QED BY <1>2, <1>7, <1>17, <1>19

(* Where nothing but data items is listed, these are the points.           *)
LEMMA OnlyItems ==
    ASSUME NEW m \in Model, Readable(m), DataItemsOnly(m) PROVE Points(m) = Items(m)
<1> DEFINE comps == m.components
<1> DEFINE n == Len(comps)
<1>1. DOMAIN comps = 1..n /\ \A i \in 1..n : ComponentReadable(comps[i])
  BY ReadableComponents
<1>2. ASSUME NEW i \in DOMAIN comps PROVE ComponentPoints(comps[i]) = ComponentItems(comps[i])
  <2> DEFINE c == comps[i]
  <2>1. ComponentReadable(c)
    BY <1>1
  <2>2. ListsHave(c, {"DataItem"})
    BY DEF DataItemsOnly, ListsHave
  <2> DEFINE lists == c.lists
  <2>3. IsSeq(lists, Len(lists))
    BY <2>1 DEF ComponentReadable
  <2> HIDE DEF c, lists
  <2>4. DOMAIN lists = 1..Len(lists) /\ Len(lists) \in Nat
    BY <2>3, SeqLen
  <2>5. PointsOf(c, {"DataItem"}) = PointsOf(c, {"DataItem", "other"})
    <3>1. ItemsOfKinds(c, {"DataItem"}) = ItemsOfKinds(c, {"DataItem", "other"})
      BY <2>1, <2>2, ItemsOfTheKinds, ItemsOfAnyKind
    <3> QED BY <3>1 DEF PointsOf, ItemsOfKinds
  <2>6. CASE lists # <<>>
    <3>1. 1 \in DOMAIN lists
      BY <2>3, <2>4, <2>6 DEF IsSeq
    <3>2. lists[1].kind = "DataItem"
      BY <2>2, <3>1 DEF ListsHave, lists
    <3> QED BY <2>5, <2>6, <3>2 DEF ComponentPoints, ComponentItems, c, lists
  <2>7. CASE lists = <<>>
    <3> DEFINE kinds == {"DataItem"}
    <3> DEFINE q ==
          [k \in DOMAIN lists |-> IF lists[k].kind \in kinds THEN lists[k].items ELSE <<>>]
    <3>1. IsSeq(q, 0)
      BY <2>7 DEF IsSeq
    <3> HIDE DEF q
    <3>2. FlattenSeq(q) = <<>>
      <4>1. \E p : JoinedTo(q, 0, p)
        BY <3>1, FlatStages
      <4> QED BY Zenon, <4>1 DEF JoinedTo
    <3>3. PointsOf(c, kinds) = <<>>
      BY <3>2 DEF PointsOf, q, lists
    <3> QED BY <2>7, <3>3 DEF ComponentPoints, ComponentItems, c, lists
  <2> QED BY <2>6, <2>7
<1>3. [i \in DOMAIN comps |-> ComponentPoints(comps[i])]
        = [i \in DOMAIN comps |-> ComponentItems(comps[i])]
  BY <1>2
<1> QED BY <1>3 DEF Points, Items

-----------------------------------------------------------------------------
(* Commands                                                                *)

(* t carries the command c for a device, with nothing before it that is    *)
(* spelt like the fields that are looked for.                              *)
Carries(t, l, k, c, name) ==
    /\ IsSeq(t, l) /\ k \in Nat \ {0} /\ k + 8 <= l
    /\ t[k] = Word("category") /\ t[k + 1] = Mark(":") /\ t[k + 2] = Written(c)
    /\ t[k + 3] = Word("params") /\ t[k + 4] = Mark(":") /\ t[k + 5] = LBrace
    /\ t[k + 6] = Word("device_name") /\ t[k + 7] = Mark(":") /\ t[k + 8] = Written(name)
    /\ \A i \in 1..l : i < k => t[i] # Word("category") /\ t[i] # Word("device_name")

(* The field of a command text that says what is asked for                 *)
Cmd(c, name) ==
    Field("cmd", Braced(Joined(Field("category", <<Written(c)>>),
        Field("params", Braced(Field("device_name", <<Written(name)>>))))))

(* Its tokens up to the name                                               *)
LEMMA CmdShape ==
    ASSUME NEW c, NEW name, NEW t, t = Cmd(c, name)
    PROVE  /\ IsSeq(t, 14)
           /\ t[1] = Word("cmd") /\ t[2] = Mark(":") /\ t[3] = LBrace
           /\ t[4] = Word("category") /\ t[5] = Mark(":") /\ t[6] = Written(c)
           /\ t[7] = Word("params") /\ t[8] = Mark(":") /\ t[9] = LBrace
           /\ t[10] = Word("device_name") /\ t[11] = Mark(":") /\ t[12] = Written(name)
<1> DEFINE f1 == Field("category", <<Written(c)>>)
<1> DEFINE f2 == Field("device_name", <<Written(name)>>)
<1> DEFINE params == Braced(f2)
<1> DEFINE f3 == Field("params", params)
<1> DEFINE j == Joined(f1, f3)
<1> DEFINE object == Braced(j)
<1>1. t = Field("cmd", object)
  BY Zenon DEF Cmd
<1>2. IsSeq(f1, 3) /\ f1[1] = Word("category") /\ f1[2] = Mark(":") /\ f1[3] = Written(c)
  BY OneField
<1>3. IsSeq(f2, 3) /\ f2[1] = Word("device_name") /\ f2[2] = Mark(":") /\ f2[3] = Written(name)
  BY OneField
<1> HIDE DEF f1, f2
<1>4. EnclosedOf(params, LBrace, f2, 3, RBrace)
  BY <1>3, BracedIs
<1>5. /\ IsSeq(params, 5) /\ params[1] = LBrace /\ params[2] = Word("device_name")
      /\ params[3] = Mark(":") /\ params[4] = Written(name)
  BY <1>3, <1>4 DEF EnclosedOf
<1> HIDE DEF params
<1>6. FieldOf(f3, "params", params, 5)
  BY <1>5, FieldIs
<1>7. /\ IsSeq(f3, 7) /\ f3[1] = Word("params") /\ f3[2] = Mark(":") /\ f3[3] = LBrace
      /\ f3[4] = Word("device_name") /\ f3[5] = Mark(":") /\ f3[6] = Written(name)
  BY <1>5, <1>6 DEF FieldOf
<1> HIDE DEF f3
<1>8. JoinOf(j, f1, 3, f3, 7)
  BY <1>2, <1>7, JoinIs
<1>9. /\ IsSeq(j, 10) /\ j[1] = Word("category") /\ j[2] = Mark(":") /\ j[3] = Written(c)
      /\ j[4] = Word("params") /\ j[5] = Mark(":") /\ j[6] = LBrace
      /\ j[7] = Word("device_name") /\ j[8] = Mark(":") /\ j[9] = Written(name)
  <2>1. IsSeq(j, 10) /\ (\A i \in 1..3 : j[i] = f1[i]) /\ (\A i \in 1..7 : j[3 + i] = f3[i])
    BY <1>8 DEF JoinOf
  <2> QED BY <1>2, <1>7, <2>1
<1> HIDE DEF j
<1>10. EnclosedOf(object, LBrace, j, 10, RBrace)
  BY <1>9, BracedIs
<1>11. IsSeq(object, 12) /\ object[1] = LBrace /\ \A i \in 1..10 : object[i + 1] = j[i]
  BY <1>10 DEF EnclosedOf
<1> HIDE DEF object
<1>12. FieldOf(t, "cmd", object, 12)
  BY <1>1, <1>11, FieldIs
<1>13. /\ IsSeq(t, 14) /\ t[1] = Word("cmd") /\ t[2] = Mark(":")
       /\ \A i \in 1..12 : t[i + 2] = object[i]
  BY <1>12 DEF FieldOf
<1>14. t[3] = LBrace /\ \A i \in 1..10 : t[i + 3] = j[i]
  BY <1>11, <1>13
<1>15. t[4] = j[1] /\ t[5] = j[2] /\ t[6] = j[3] /\ t[7] = j[4] /\ t[8] = j[5] /\ t[9] = j[6]
  BY <1>14
<1>16. t[10] = j[7] /\ t[11] = j[8] /\ t[12] = j[9]
  BY <1>14
<1> QED BY <1>9, <1>13, <1>14, <1>15, <1>16

(* No token of it is spelt like the fields that are looked for.            *)
Neutral(p, n) ==
    IsSeq(p, n) /\ \A i \in 1..n : p[i] # Word("category") /\ p[i] # Word("device_name")

(* Whatever stands before it and behind it, the command is carried.        *)
LEMMA CommandCarried ==
    ASSUME NEW c, NEW name, NEW p, NEW n, Neutral(p, n), NEW s, NEW m, IsSeq(s, m)
    PROVE  Carries(Braced(Joined(Joined(p, Cmd(c, name)), s)), n + 14 + m + 2, n + 5, c, name)
<1> DEFINE x == Cmd(c, name)
<1> DEFINE j == Joined(p, x)
<1> DEFINE k == Joined(j, s)
<1> DEFINE t == Braced(k)
<1>1. IsSeq(p, n) /\ n \in Nat /\ m \in Nat
      /\ \A i \in 1..n : p[i] # Word("category") /\ p[i] # Word("device_name")
  BY DEF Neutral, IsSeq
<1>2. /\ IsSeq(x, 14)
      /\ x[1] = Word("cmd") /\ x[2] = Mark(":") /\ x[3] = LBrace
      /\ x[4] = Word("category") /\ x[5] = Mark(":") /\ x[6] = Written(c)
      /\ x[7] = Word("params") /\ x[8] = Mark(":") /\ x[9] = LBrace
      /\ x[10] = Word("device_name") /\ x[11] = Mark(":") /\ x[12] = Written(name)
  BY CmdShape
<1> HIDE DEF x
<1>3. JoinOf(j, p, n, x, 14)
  BY <1>1, <1>2, JoinIs
<1>4. IsSeq(j, n + 14) /\ (\A i \in 1..n : j[i] = p[i]) /\ (\A i \in 1..14 : j[n + i] = x[i])
  BY <1>3 DEF JoinOf
<1> HIDE DEF j
<1> DEFINE a == n + 14
<1>5. JoinOf(k, j, a, s, m)
  BY <1>4, JoinIs
<1>6. IsSeq(k, a + m) /\ (\A i \in 1..a : k[i] = j[i])
  BY <1>5 DEF JoinOf
<1> HIDE DEF k
<1> DEFINE b == a + m
<1>7. EnclosedOf(t, LBrace, k, b, RBrace)
  BY <1>6, BracedIs
<1>8. IsSeq(t, b + 2) /\ t[1] = LBrace /\ (\A i \in 1..b : t[i + 1] = k[i])
  BY <1>7 DEF EnclosedOf
<1> HIDE DEF t
<1>9. \A i \in 1..14 : t[n + i + 1] = x[i]
  <2> SUFFICES ASSUME NEW i \in 1..14 PROVE t[n + i + 1] = x[i]
    OBVIOUS
  <2>1. n + i \in 1..a /\ n + i \in 1..b
    BY <1>1
  <2> QED BY <1>4, <1>6, <1>8, <2>1
<1>10. \A i \in 1..n : t[i + 1] = p[i]
  <2> SUFFICES ASSUME NEW i \in 1..n PROVE t[i + 1] = p[i]
    OBVIOUS
  <2>1. i \in 1..a /\ i \in 1..b
    BY <1>1
  <2> QED BY <1>4, <1>6, <1>8, <2>1
<1>11. /\ t[n + 5] = x[4] /\ t[n + 6] = x[5] /\ t[n + 7] = x[6]
       /\ t[n + 8] = x[7] /\ t[n + 9] = x[8] /\ t[n + 10] = x[9]
       /\ t[n + 11] = x[10] /\ t[n + 12] = x[11] /\ t[n + 13] = x[12]
  <2>1. \A i \in 1..14 : t[n + i + 1] = x[i]
    BY <1>9
  <2>2. t[n + 4 + 1] = x[4] /\ t[n + 5 + 1] = x[5] /\ t[n + 6 + 1] = x[6]
    BY <2>1
  <2>3. t[n + 7 + 1] = x[7] /\ t[n + 8 + 1] = x[8] /\ t[n + 9 + 1] = x[9]
    BY <2>1
  <2>4. t[n + 10 + 1] = x[10] /\ t[n + 11 + 1] = x[11] /\ t[n + 12 + 1] = x[12]
    BY <2>1
  <2>5. /\ n + 4 + 1 = n + 5 /\ n + 5 + 1 = n + 6 /\ n + 6 + 1 = n + 7
        /\ n + 7 + 1 = n + 8 /\ n + 8 + 1 = n + 9 /\ n + 9 + 1 = n + 10
        /\ n + 10 + 1 = n + 11 /\ n + 11 + 1 = n + 12 /\ n + 12 + 1 = n + 13
    BY <1>1
  <2> QED BY <2>2, <2>3, <2>4, <2>5
<1>12. ASSUME NEW i \in 1..(b + 2), i < n + 5
       PROVE  t[i] # Word("category") /\ t[i] # Word("device_name")
  <2>1. i = 1 \/ i - 1 \in 1..n \/ i = n + 1 + 1 \/ i = n + 2 + 1 \/ i = n + 3 + 1
    BY <1>1, <1>12
  <2>2. CASE i = 1
    BY <1>8, <2>2, NoBraceIsAWord
  <2>3. CASE i - 1 \in 1..n
    <3>1. (i - 1) + 1 = i
      OBVIOUS
    <3>2. t[i] = p[i - 1]
      BY <1>10, <2>3, <3>1
    <3> QED BY <1>1, <2>3, <3>2
  <2>4. CASE i = n + 1 + 1
    <3>1. t[i] = x[1]
      BY <1>9, <2>4
    <3> QED BY <1>2, <3>1, WordsDiffer
  <2>5. CASE i = n + 2 + 1
    <3>1. t[i] = x[2]
      BY <1>9, <2>5
    <3>2. Mark(":") # Word("category") /\ Mark(":") # Word("device_name")
      BY Marks
    <3> QED BY <1>2, <3>1, <3>2
  <2>6. CASE i = n + 3 + 1
    <3>1. t[i] = x[3]
      BY <1>9, <2>6
    <3> QED BY <1>2, <3>1, NoBraceIsAWord
  <2> QED BY <2>1, <2>2, <2>3, <2>4, <2>5, <2>6
<1> DEFINE l == n + 14 + m + 2
<1> DEFINE e == n + 5
<1>13. l = b + 2 /\ e \in Nat \ {0} /\ e + 8 <= l
  BY <1>1
<1>14. /\ e = n + 5 /\ e + 1 = n + 6 /\ e + 2 = n + 7 /\ e + 3 = n + 8 /\ e + 4 = n + 9
       /\ e + 5 = n + 10 /\ e + 6 = n + 11 /\ e + 7 = n + 12 /\ e + 8 = n + 13
  BY <1>1
<1>15. IsSeq(t, l) /\ \A i \in 1..l : i < e => t[i] # Word("category") /\ t[i] # Word("device_name")
  BY <1>8, <1>12, <1>13
<1>16. Carries(t, l, e, c, name)
  <2> HIDE DEF l
  <2>1. /\ t[e] = Word("category") /\ t[e + 1] = Mark(":") /\ t[e + 2] = Written(c)
        /\ t[e + 3] = Word("params") /\ t[e + 4] = Mark(":") /\ t[e + 5] = LBrace
        /\ t[e + 6] = Word("device_name") /\ t[e + 7] = Mark(":") /\ t[e + 8] = Written(name)
    BY <1>2, <1>11, <1>14
  <2> HIDE DEF e
  <2> QED BY <1>13, <1>15, <2>1 DEF Carries
<1> QED BY <1>16 DEF t, k, j, x

(* A command for one device                                                *)
OneDevice == {"start_device_collect", "stop_device_collect", "delete_device"}

(* What such a text asks for is understood.                                *)
LEMMA HandleIs ==
    ASSUME NEW t, NEW l, NEW k, NEW c \in OneDevice, NEW name,
           Carries(t, l, k, c, name), Unescape(Escape(name)) = name
    PROVE  Handle(t) = Asks(c, name)
<1>1. l \in Nat /\ Len(t) = l /\ k \in Nat \ {0} /\ k + 8 <= l
  <2>1. IsSeq(t, l) /\ l \in Nat
    BY DEF Carries, IsSeq
  <2> QED BY <2>1, SeqLen DEF Carries
<1>2. /\ t[k] = Word("category") /\ t[k + 1] = Mark(":") /\ t[k + 2] = Written(c)
      /\ t[k + 3] = Word("params") /\ t[k + 4] = Mark(":") /\ t[k + 5] = LBrace
      /\ t[k + 6] = Word("device_name") /\ t[k + 7] = Mark(":") /\ t[k + 8] = Written(name)
      /\ \A i \in 1..l : i < k => t[i] # Word("category") /\ t[i] # Word("device_name")
  BY DEF Carries
<1>3. StringField(t, "category") = Unescape(Escape(c))
  <2> DEFINE h == k
  <2> DEFINE d == k + 1
  <2> DEFINE v == k + 2
  <2>1. h \in 1..l /\ \A i \in 1..l : i < h => t[i] # Word("category")
    BY <1>1, <1>2
  <2>2. d \in (h + 1)..l /\ \A i \in (h + 1)..l : i < d => t[i] # Mark(":")
    BY <1>1
  <2>3. v \in (d + 1)..l /\ \A i \in (d + 1)..l : i < v => t[i].kind # "word"
    BY <1>1
  <2>4. t[h] = Word("category") /\ t[d] = Mark(":") /\ t[v] = Written(c)
    BY <1>2
  <2> HIDE DEF h, d, v
  <2>5. t[v].kind = "word" /\ t[v].text = Escape(c)
    BY <2>4, Marks DEF Written
  <2>6. StringField(t, "category") = Unescape(t[v].text)
    <3>1. l \in Nat /\ Len(t) = l
      BY <1>1
    <3> QED BY <2>1, <2>2, <2>3, <2>4, <2>5, <3>1, StringFieldIs
  <2> QED BY <2>5, <2>6
<1>4. StringField(t, "device_name") = Unescape(Escape(name))
  <2> DEFINE h == k + 6
  <2> DEFINE d == k + 7
  <2> DEFINE v == k + 8
  <2>1. ASSUME NEW i \in 1..l, i < h PROVE t[i] # Word("device_name")
    <3>1. i < k \/ i = k \/ i = k + 1 \/ i = k + 2 \/ i = k + 3 \/ i = k + 4 \/ i = k + 5
      BY <1>1, <2>1
    <3>2. CASE i < k
      BY <1>2, <3>2
    <3>3. CASE i = k
      BY <1>2, <3>3, WordsDiffer
    <3>4. CASE i = k + 1 \/ i = k + 4
      <4>1. Mark(":") # Word("device_name")
        BY Marks
      <4> QED BY <1>2, <3>4, <4>1
    <3>5. CASE i = k + 2
      <4>1. Escape(c) # "device_name"
        BY CategoryAssumption DEF Escape, Mapped, Categories, OneDevice
      <4>2. Word(Escape(c)) # Word("device_name")
        BY <4>1, WordsDiffer
      <4> QED BY <1>2, <3>5, <4>2 DEF Written
    <3>6. CASE i = k + 3
      BY <1>2, <3>6, WordsDiffer
    <3>7. CASE i = k + 5
      BY <1>2, <3>7, NoBraceIsAWord
    <3> QED BY <3>1, <3>2, <3>3, <3>4, <3>5, <3>6, <3>7
  <2>2. h \in 1..l /\ \A i \in 1..l : i < h => t[i] # Word("device_name")
    BY <1>1, <2>1
  <2>3. d \in (h + 1)..l /\ \A i \in (h + 1)..l : i < d => t[i] # Mark(":")
    BY <1>1
  <2>4. v \in (d + 1)..l /\ \A i \in (d + 1)..l : i < v => t[i].kind # "word"
    BY <1>1
  <2>5. t[h] = Word("device_name") /\ t[d] = Mark(":") /\ t[v] = Written(name)
    BY <1>2
  <2> HIDE DEF h, d, v
  <2>6. t[v].kind = "word" /\ t[v].text = Escape(name)
    BY <2>5, Marks DEF Written
  <2>7. StringField(t, "device_name") = Unescape(t[v].text)
    <3>1. l \in Nat /\ Len(t) = l
      BY <1>1
    <3> QED BY <2>2, <2>3, <2>4, <2>5, <2>6, <3>1, StringFieldIs
  <2> QED BY <2>6, <2>7
<1>5. StringField(t, "category") = c
  BY <1>3, CategoryAssumption DEF Escape, Unescape, Mapped, Categories, OneDevice
<1>6. c \in Categories /\ c \notin {"start_all", "stop_all", "get_status"}
  BY DEF Categories, OneDevice
<1> QED BY <1>4, <1>5, <1>6 DEF Handle

(* A name for this, because the solver cannot read the empty string        *)
HasText(s) == s # ""

(* The texts that ask for one device carry the command.                    *)
LEMMA EnvelopeCarries ==
    ASSUME NEW c, NEW name, HasText(name), NEW mid
    PROVE  \E l, k : Carries(CommandEnvelope(c, name, mid), l, k, c, name)
<1> DEFINE f1 == Field("type", <<Word("json")>>)
<1> DEFINE f2 == Field("uid", <<Word("http")>>)
<1> DEFINE f3 == Field("pid", <<Word("http")>>)
<1> DEFINE f5 == Field("mid", <<Written(mid)>>)
<1> DEFINE j == Joined(f1, f2)
<1> DEFINE p == Joined(j, f3)
<1>1. CommandEnvelope(c, name, mid) = Braced(Joined(Joined(p, Cmd(c, name)), f5))
  <2> DEFINE device == Field("device_name", <<Written(name)>>)
  <2>1. (IF name = "" THEN <<>> ELSE device) = device
    BY Zenon DEF HasText
  <2> QED BY <2>1, Zenon DEF CommandEnvelope, Joined, Braced, Cmd
<1>2. IsSeq(f1, 3) /\ f1[1] = Word("type") /\ f1[2] = Mark(":") /\ f1[3] = Word("json")
  BY OneField
<1>3. IsSeq(f2, 3) /\ f2[1] = Word("uid") /\ f2[2] = Mark(":") /\ f2[3] = Word("http")
  BY OneField
<1>4. IsSeq(f3, 3) /\ f3[1] = Word("pid") /\ f3[2] = Mark(":") /\ f3[3] = Word("http")
  BY OneField
<1>5. IsSeq(f5, 3)
  BY OneField
<1> HIDE DEF f1, f2, f3, f5
<1>6. JoinOf(j, f1, 3, f2, 3) /\ IsSeq(j, 6)
  <2>1. JoinOf(j, f1, 3, f2, 3)
    BY <1>2, <1>3, JoinIs
  <2> QED BY <2>1 DEF JoinOf
<1> HIDE DEF j
<1>7. JoinOf(p, j, 6, f3, 3) /\ IsSeq(p, 9)
  <2>1. JoinOf(p, j, 6, f3, 3)
    BY <1>4, <1>6, JoinIs
  <2> QED BY <2>1 DEF JoinOf
<1> HIDE DEF p
<1>8. \A i \in 1..9 : p[i] \in {Word("type"), Word("json"), Word("uid"), Word("http"),
                                 Word("pid"), Mark(":")}
  <2>1. \A i \in 1..3 : p[i] = f1[i] /\ p[3 + i] = f2[i] /\ p[6 + i] = f3[i]
    BY <1>6, <1>7 DEF JoinOf
  <2>2. p[1] = f1[1] /\ p[2] = f1[2] /\ p[3] = f1[3] /\ p[4] = f2[1] /\ p[5] = f2[2]
        /\ p[6] = f2[3] /\ p[7] = f3[1] /\ p[8] = f3[2] /\ p[9] = f3[3]
    BY <2>1
  <2> QED BY <1>2, <1>3, <1>4, <2>2
<1>9. Neutral(p, 9)
  <2>1. \A w \in {"category", "device_name"} :
           Word(w) \notin {Word("type"), Word("json"), Word("uid"), Word("http"),
                           Word("pid"), Mark(":")}
    BY Marks, WordsDiffer
  <2> QED BY <1>7, <1>8, <2>1 DEF Neutral
<1> DEFINE n == 9
<1>10. Neutral(p, n)
  BY <1>9
<1> HIDE DEF n
<1> DEFINE m == 3
<1>11. IsSeq(f5, m)
  BY <1>5
<1> HIDE DEF m
<1>12. Carries(Braced(Joined(Joined(p, Cmd(c, name)), f5)), n + 14 + m + 2, n + 5, c, name)
  BY <1>10, <1>11, CommandCarried
<1> QED BY <1>1, <1>12, Zenon

(* A sequence that ends with the elements of another has it as a suffix.   *)
LEMMA SuffixIs ==
    ASSUME NEW s, NEW m, IsSeq(s, m), NEW p, NEW n, IsSeq(p, n), m <= n,
           \A i \in 1..m : p[n - m + i] = s[i]
    PROVE  IsSuffix(s, p)
<1>1. m \in Nat /\ n \in Nat /\ Len(s) = m /\ Len(p) = n
  <2>1. m \in Nat /\ n \in Nat
    BY DEF IsSeq
  <2> QED BY <2>1, SeqLen
<1> DEFINE a == Reverse(s)
<1> DEFINE b == Reverse(p)
<1>2. IsSeq(a, m) /\ IsSeq(b, n)
  BY <1>1 DEF Reverse, IsSeq
<1>3. \A i \in 1..m : a[i] = b[i]
  <2> SUFFICES ASSUME NEW i \in 1..m PROVE a[i] = b[i]
    OBVIOUS
  <2>1. a[i] = s[m - i + 1] /\ b[i] = p[n - i + 1]
    BY <1>1 DEF Reverse
  <2>2. m - i + 1 \in 1..m /\ n - m + (m - i + 1) = n - i + 1
    BY <1>1
  <2> QED BY <2>1, <2>2
<1> HIDE DEF a, b
<1>4. Len(a) = m /\ Len(b) = n
  BY <1>1, <1>2, SeqLen
<1> DEFINE one == 1
<1> DEFINE u == SubSeq(a, one, m)
<1> DEFINE v == SubSeq(b, one, m)
<1>5. SubSeqOf(u, a, one, m) /\ SubSeqOf(v, b, one, m)
  <2>1. one \in Nat \ {0} /\ one + m <= m + 1 /\ one + m <= n + 1 /\ m \in Int /\ m = one + m - 1
    BY <1>1
  <2> HIDE DEF one
  <2> QED BY <1>1, <1>2, <2>1, SubSeqIs
<1>6. IsSeq(u, m) /\ IsSeq(v, m) /\ \A i \in 1..m : u[i] = a[one + i - 1] /\ v[i] = b[one + i - 1]
  BY <1>5 DEF SubSeqOf
<1>7. \A i \in 1..m : u[i] = v[i]
  <2>1. \A i \in 1..m : one + i - 1 = i
    BY <1>1
  <2> QED BY <1>3, <1>6, <2>1
<1> HIDE DEF u, v
<1>8. u = v
  BY <1>6, <1>7, SameSeq
<1> QED BY <1>1, <1>4, <1>8 DEF IsSuffix, IsPrefix, a, b, u, v

-----------------------------------------------------------------------------
(* The fields of a command                                                 *)

(* From place p on, t has the fields, three tokens each.                   *)
FieldsAt(t, l, p, fields, n) ==
    /\ IsSeq(t, l) /\ IsSeq(fields, n) /\ p \in Nat /\ p + 3 * n <= l
    /\ \A i \in 1..n : /\ t[p + 3 * (i - 1) + 1] = Word(fields[i].name)
                       /\ t[p + 3 * (i - 1) + 2] = Mark(":")
                       /\ t[p + 3 * (i - 1) + 3] = fields[i].value

(* The name stands only where a field has it.                              *)
OnlyAt(t, l, p, n, name) ==
    \A j \in 1..l : t[j] = Word(name) => \E i \in 1..n : j = p + 3 * (i - 1) + 1

(* The first field with the name is i, and k is its place.                 *)
FirstAt(t, l, p, fields, n, name, i, k) ==
    /\ i \in 1..n /\ fields[i].name = name /\ FieldNamed(fields, name) = i /\ i # 0
    /\ k \in 1..l /\ k + 2 <= l /\ t[k] = Word(name) /\ t[k + 1] = Mark(":")
    /\ t[k + 2] = fields[i].value
    /\ \A j \in 1..l : j < k => t[j] # Word(name)

(* A field that is looked for is found at the first place it is given, and *)
(* not at all if it is not.                                                *)
LEMMA FieldFound ==
    ASSUME NEW t, NEW l, NEW p, NEW fields, NEW n, FieldsAt(t, l, p, fields, n),
           NEW name, OnlyAt(t, l, p, n, name)
    PROVE  \/ FieldNamed(fields, name) = 0 /\ ~HasField(t, name)
           \/ HasField(t, name) /\ \E i, k : FirstAt(t, l, p, fields, n, name, i, k)
<1>1. /\ l \in Nat /\ Len(t) = l /\ n \in Nat /\ Len(fields) = n /\ p \in Nat /\ p + 3 * n <= l
  BY SeqLen DEF FieldsAt
<1> DEFINE I == {i \in 1..n : fields[i].name = name}
<1>2. FieldNamed(fields, name) = IF I # {} THEN Min(I) ELSE 0
  BY <1>1 DEF FieldNamed, SelectInSeq
<1>3. CASE I = {}
  <2>1. ASSUME NEW j \in 1..l PROVE t[j] # Word(name)
    <3> SUFFICES ASSUME t[j] = Word(name) PROVE FALSE
      OBVIOUS
    <3>1. PICK i \in 1..n : j = p + 3 * (i - 1) + 1
      BY DEF OnlyAt
    <3>2. Word(fields[i].name) = Word(name)
      BY <3>1 DEF FieldsAt
    <3>3. fields[i].name = name
      BY <3>2, WordsDiffer
    <3> QED BY <1>3, <3>3
  <2>2. ~HasField(t, name)
    BY <1>1, <2>1, KeyAtNone
  <2> HIDE DEF I
  <2> QED BY <1>2, <1>3, <2>2
<1>4. CASE I # {}
  <2>1. I \subseteq Nat
    OBVIOUS
  <2>2. PICK i \in I : \A j \in I : i <= j
    <3> HIDE DEF I
    <3> QED BY <1>4, <2>1, MinExists
  <2>3. Min(I) = i
    <3> HIDE DEF I
    <3> QED BY <2>1, <2>2, MinIs
  <2>4. i \in 1..n /\ fields[i].name = name /\ \A j \in 1..n : fields[j].name = name => i <= j
    BY <2>2
  <2>5. FieldNamed(fields, name) = i
    <3> HIDE DEF I
    <3> QED BY <1>2, <1>4, <2>3
  <2> HIDE DEF I
  <2> DEFINE k == p + 3 * (i - 1) + 1
  <2>6. k \in 1..l /\ k + 2 <= l /\ k + 1 = p + 3 * (i - 1) + 2 /\ k + 2 = p + 3 * (i - 1) + 3
    BY <1>1, <2>4
  <2>7. t[k] = Word(name) /\ t[k + 1] = Mark(":") /\ t[k + 2] = fields[i].value
    BY <2>4, <2>6 DEF FieldsAt
  <2>8. ASSUME NEW j \in 1..l, j < k PROVE t[j] # Word(name)
    <3> SUFFICES ASSUME t[j] = Word(name) PROVE FALSE
      OBVIOUS
    <3>1. PICK h \in 1..n : j = p + 3 * (h - 1) + 1
      BY DEF OnlyAt
    <3>2. Word(fields[h].name) = Word(name)
      BY <3>1 DEF FieldsAt
    <3>3. fields[h].name = name
      BY <3>2, WordsDiffer
    <3>4. i <= h
      BY <2>4, <3>3
    <3> QED BY <1>1, <2>4, <2>8, <3>1, <3>4
  <2> HIDE DEF k
  <2>9. i # 0
    BY <2>4
  <2>10. FirstAt(t, l, p, fields, n, name, i, k)
    BY <2>4, <2>5, <2>6, <2>7, <2>8, <2>9 DEF FirstAt
  <2>11. HasField(t, name)
    BY <1>1, <2>6, <2>7, <2>8, KeyAtIs
  <2> QED BY <2>10, <2>11
<1> QED BY <1>3, <1>4

(* A string that is given is what StringField reads.                       *)
LEMMA GivenIs ==
    ASSUME NEW t, NEW l, NEW p, NEW fields, NEW n, FieldsAt(t, l, p, fields, n),
           NEW name, OnlyAt(t, l, p, n, name),
           \A i \in 1..n : fields[i].name = name => fields[i].value.kind = "word"
    PROVE  StringField(t, name) = Given(fields, name)
<1>1. CASE FieldNamed(fields, name) = 0 /\ ~HasField(t, name)
  BY Zenon, <1>1 DEF StringField, Given
<1>2. ASSUME NEW i, NEW k, FirstAt(t, l, p, fields, n, name, i, k)
      PROVE  StringField(t, name) = Given(fields, name)
  <2>1. l \in Nat /\ Len(t) = l
    BY SeqLen DEF FieldsAt
  <2> DEFINE c == k + 1
  <2> DEFINE v == k + 2
  <2>2. /\ k \in 1..l /\ t[k] = Word(name) /\ \A j \in 1..l : j < k => t[j] # Word(name)
        /\ t[c] = Mark(":") /\ t[v] = fields[i].value /\ v <= l
        /\ i \in 1..n /\ FieldNamed(fields, name) = i /\ i # 0 /\ fields[i].name = name
    BY <1>2 DEF FirstAt
  <2>3. /\ c \in (k + 1)..l /\ \A j \in (k + 1)..l : j < c => t[j] # Mark(":")
        /\ v \in (c + 1)..l /\ \A j \in (c + 1)..l : j < v => t[j].kind # "word"
    BY <2>1, <2>2
  <2> HIDE DEF c, v
  <2>4. t[v].kind = "word"
    BY <2>2
  <2>5. StringField(t, name) = Unescape(t[v].text)
    BY <2>1, <2>2, <2>3, <2>4, StringFieldIs
  <2>6. Given(fields, name) = Unescape(fields[i].value.text)
    BY Zenon, <2>2 DEF Given
  <2> QED BY Zenon, <2>2, <2>5, <2>6
<1> QED BY <1>1, <1>2, FieldFound

(* A token with digits                                                     *)
HasDigits(t) == t.kind = "number" \/ (t.kind = "word" /\ t.text \in DOMAIN Digits)

(* NumberField returns the digits of the first token behind the colon that *)
(* has digits.                                                             *)
LEMMA NumberFieldIs ==
    ASSUME NEW text, NEW n \in Nat, Len(text) = n, NEW name, NEW fallback,
           NEW k \in 1..n, text[k] = Word(name),
           \A i \in 1..n : i < k => text[i] # Word(name),
           k + 2 <= n, text[k + 1] = Mark(":"), HasDigits(text[k + 2])
    PROVE  NumberField(text, name, fallback) = Mapped(Digits, text[k + 2].text)
<1> DEFINE a == k + 1
<1> DEFINE b == a + 1
<1> DEFINE I == {i \in b..n : HasDigits(text[i])}
<1>1. KeyAt(text, name) = k /\ HasField(text, name)
  BY KeyAtIs
<1>2. /\ a \in Nat /\ a \in a..n /\ \A i \in a..n : i < a => text[i] # Mark(":")
      /\ b = k + 2 /\ a # 0 /\ b # 0
      /\ text[a] = Mark(":") /\ b \in b..n /\ b \in Nat
  OBVIOUS
<1>3. I \subseteq Nat /\ b \in I /\ \A i \in I : b <= i
  <2> HIDE DEF HasDigits
  <2> QED BY <1>2
<1>4. SelectInSubSeq(text, b, Len(text), LAMBDA t : HasDigits(t)) = IF I # {} THEN Min(I) ELSE 0
  BY DEF SelectInSubSeq
<1> HIDE DEF a, b, I
<1>5. FindMark(text, a, ":") = a
  BY <1>2, FindMarkIs
<1>6. SelectInSubSeq(text, b, Len(text), LAMBDA t : HasDigits(t)) = b
  BY <1>3, <1>4, MinIs
<1>7. SelectInSubSeq(text, b, Len(text),
          LAMBDA t : t.kind = "number" \/ (t.kind = "word" /\ t.text \in DOMAIN Digits)) = b
  BY <1>6 DEF HasDigits
<1>8. KeyAt(text, name) + 1 = a /\ a + 1 = b
  BY <1>1 DEF a, b
<1>9. NumberField(text, name, fallback) = Mapped(Digits, text[b].text)
  BY <1>1, <1>2, <1>5, <1>7, <1>8 DEF NumberField
<1> QED BY <1>2, <1>9

(* A number that is given is what NumberField reads.                       *)
LEMMA NumberGivenIs ==
    ASSUME NEW t, NEW l, NEW p, NEW fields, NEW n, FieldsAt(t, l, p, fields, n),
           NEW name, OnlyAt(t, l, p, n, name), NEW fallback,
           \A i \in 1..n : fields[i].name = name => HasDigits(fields[i].value)
    PROVE  NumberField(t, name, fallback) = NumberGiven(fields, name, fallback)
<1>1. CASE FieldNamed(fields, name) = 0 /\ ~HasField(t, name)
  BY Zenon, <1>1 DEF NumberField, NumberGiven
<1>2. ASSUME NEW i, NEW k, FirstAt(t, l, p, fields, n, name, i, k)
      PROVE  NumberField(t, name, fallback) = NumberGiven(fields, name, fallback)
  <2>1. l \in Nat /\ Len(t) = l
    BY SeqLen DEF FieldsAt
  <2>2. /\ k \in 1..l /\ t[k] = Word(name) /\ \A j \in 1..l : j < k => t[j] # Word(name)
        /\ k + 2 <= l /\ t[k + 1] = Mark(":") /\ t[k + 2] = fields[i].value
        /\ i \in 1..n /\ FieldNamed(fields, name) = i /\ i # 0 /\ fields[i].name = name
    BY <1>2 DEF FirstAt
  <2>3. HasDigits(t[k + 2])
    BY <2>2
  <2>4. NumberField(t, name, fallback) = Mapped(Digits, t[k + 2].text)
    BY <2>1, <2>2, <2>3, NumberFieldIs
  <2>5. NumberGiven(fields, name, fallback) = Mapped(Digits, fields[i].value.text)
    BY Zenon, <2>2 DEF NumberGiven
  <2> QED BY Zenon, <2>2, <2>4, <2>5
<1> QED BY <1>1, <1>2, FieldFound

(* t is a command with the params x, token by token.                       *)
CommandIs(t, c, x, m) ==
    /\ IsSeq(t, m + 19)
    /\ t[1] = LBrace /\ t[2] = Word("uid") /\ t[3] = Mark(":") /\ t[4] = Word("admin")
    /\ t[5] = Word("cmd") /\ t[6] = Mark(":") /\ t[7] = LBrace
    /\ t[8] = Word("category") /\ t[9] = Mark(":") /\ t[10] = Word(c)
    /\ t[11] = Word("params") /\ t[12] = Mark(":") /\ t[13] = LBrace
    /\ \A i \in 1..m : t[i + 13] = x[i]
    /\ t[m + 14] = RBrace /\ t[m + 15] = RBrace
    /\ t[m + 16] = Word("mid") /\ t[m + 17] = Mark(":") /\ t[m + 18] = Word("m")
    /\ t[m + 19] = RBrace

(* A command is such a text.                                               *)
LEMMA CommandOfIs ==
    ASSUME NEW c, NEW m, NEW x, IsSeq(x, m) PROVE CommandIs(CommandOf(c, x), c, x, m)
<1> DEFINE uid == Field("uid", <<Word("admin")>>)
<1> DEFINE mid == Field("mid", <<Word("m")>>)
<1> DEFINE f1 == Field("category", <<Word(c)>>)
<1> DEFINE params == Braced(x)
<1> DEFINE f2 == Field("params", params)
<1> DEFINE j == Joined(f1, f2)
<1> DEFINE object == Braced(j)
<1> DEFINE cmd == Field("cmd", object)
<1> DEFINE a == Joined(uid, cmd)
<1> DEFINE b == Joined(a, mid)
<1> DEFINE t == Braced(b)
<1>1. CommandOf(c, x) = t
  BY Zenon DEF CommandOf, Joined, Braced
<1>2. m \in Nat
  BY SeqLen
<1>3. IsSeq(uid, 3) /\ uid[1] = Word("uid") /\ uid[2] = Mark(":") /\ uid[3] = Word("admin")
  BY OneField
<1>4. IsSeq(mid, 3) /\ mid[1] = Word("mid") /\ mid[2] = Mark(":") /\ mid[3] = Word("m")
  BY OneField
<1>5. IsSeq(f1, 3) /\ f1[1] = Word("category") /\ f1[2] = Mark(":") /\ f1[3] = Word(c)
  BY OneField
<1> HIDE DEF uid, mid, f1
<1>6. EnclosedOf(params, LBrace, x, m, RBrace)
  BY BracedIs
<1> HIDE DEF params
<1>7. /\ IsSeq(params, m + 2) /\ params[1] = LBrace /\ params[m + 2] = RBrace
      /\ \A i \in 1..m : params[i + 1] = x[i]
  BY <1>6 DEF EnclosedOf
<1>8. FieldOf(f2, "params", params, m + 2)
  BY <1>7, FieldIs
<1> HIDE DEF f2
<1>9. /\ IsSeq(f2, m + 4) /\ f2[1] = Word("params") /\ f2[2] = Mark(":")
      /\ \A i \in 1..(m + 2) : f2[i + 2] = params[i]
  BY <1>2, <1>8 DEF FieldOf
<1>10. JoinOf(j, f1, 3, f2, m + 4)
  BY <1>5, <1>9, JoinIs
<1> HIDE DEF j
<1>11. /\ IsSeq(j, m + 7) /\ \A i \in 1..3 : j[i] = f1[i]
       /\ \A i \in 1..(m + 4) : j[3 + i] = f2[i]
  BY <1>2, <1>10 DEF JoinOf
<1>12. EnclosedOf(object, LBrace, j, m + 7, RBrace)
  BY <1>11, BracedIs
<1> HIDE DEF object
<1>13. /\ IsSeq(object, m + 9) /\ object[1] = LBrace /\ object[m + 9] = RBrace
       /\ \A i \in 1..(m + 7) : object[i + 1] = j[i]
  BY <1>2, <1>12 DEF EnclosedOf
<1>14. FieldOf(cmd, "cmd", object, m + 9)
  BY <1>13, FieldIs
<1> HIDE DEF cmd
<1>15. /\ IsSeq(cmd, m + 11) /\ cmd[1] = Word("cmd") /\ cmd[2] = Mark(":")
       /\ \A i \in 1..(m + 9) : cmd[i + 2] = object[i]
  BY <1>2, <1>14 DEF FieldOf
<1>16. JoinOf(a, uid, 3, cmd, m + 11)
  BY <1>3, <1>15, JoinIs
<1> HIDE DEF a
<1>17. /\ IsSeq(a, m + 14) /\ \A i \in 1..3 : a[i] = uid[i]
       /\ \A i \in 1..(m + 11) : a[3 + i] = cmd[i]
  BY <1>2, <1>16 DEF JoinOf
<1>18. JoinOf(b, a, m + 14, mid, 3)
  BY <1>4, <1>17, JoinIs
<1> HIDE DEF b
<1>19. /\ IsSeq(b, m + 17) /\ \A i \in 1..(m + 14) : b[i] = a[i]
       /\ \A i \in 1..3 : b[m + 14 + i] = mid[i]
  BY <1>2, <1>18 DEF JoinOf
<1>20. EnclosedOf(t, LBrace, b, m + 17, RBrace)
  BY <1>19, BracedIs
<1> HIDE DEF t
<1>21. /\ IsSeq(t, m + 19) /\ t[1] = LBrace /\ t[m + 19] = RBrace
       /\ \A i \in 1..(m + 17) : t[i + 1] = b[i]
  BY <1>2, <1>20 DEF EnclosedOf
<1>22. t[2] = Word("uid") /\ t[3] = Mark(":") /\ t[4] = Word("admin")
  <2>1. \A i \in 1..3 : t[i + 1] = uid[i]
    BY <1>2, <1>17, <1>19, <1>21
  <2>2. t[1 + 1] = uid[1] /\ t[2 + 1] = uid[2] /\ t[3 + 1] = uid[3]
    BY <2>1
  <2> QED BY <1>3, <2>2
<1>23. \A i \in 1..(m + 11) : t[i + 4] = cmd[i]
  <2> SUFFICES ASSUME NEW i \in 1..(m + 11) PROVE t[i + 4] = cmd[i]
    OBVIOUS
  <2>1. 3 + i \in 1..(m + 14) /\ 3 + i \in 1..(m + 17) /\ (3 + i) + 1 = i + 4
    BY <1>2
  <2> QED BY <1>17, <1>19, <1>21, <2>1
<1>24. \A i \in 1..(m + 9) : t[i + 6] = object[i]
  <2> SUFFICES ASSUME NEW i \in 1..(m + 9) PROVE t[i + 6] = object[i]
    OBVIOUS
  <2>1. i + 2 \in 1..(m + 11) /\ (i + 2) + 4 = i + 6
    BY <1>2
  <2> QED BY <1>15, <1>23, <2>1
<1>25. \A i \in 1..(m + 7) : t[i + 7] = j[i]
  <2> SUFFICES ASSUME NEW i \in 1..(m + 7) PROVE t[i + 7] = j[i]
    OBVIOUS
  <2>1. i + 1 \in 1..(m + 9) /\ (i + 1) + 6 = i + 7
    BY <1>2
  <2> QED BY <1>13, <1>24, <2>1
<1>26. \A i \in 1..(m + 4) : t[i + 10] = f2[i]
  <2> SUFFICES ASSUME NEW i \in 1..(m + 4) PROVE t[i + 10] = f2[i]
    OBVIOUS
  <2>1. 3 + i \in 1..(m + 7) /\ (3 + i) + 7 = i + 10
    BY <1>2
  <2> QED BY <1>11, <1>25, <2>1
<1>27. \A i \in 1..(m + 2) : t[i + 12] = params[i]
  <2> SUFFICES ASSUME NEW i \in 1..(m + 2) PROVE t[i + 12] = params[i]
    OBVIOUS
  <2>1. i + 2 \in 1..(m + 4) /\ (i + 2) + 10 = i + 12
    BY <1>2
  <2> QED BY <1>9, <1>26, <2>1
<1>28. \A i \in 1..m : t[i + 13] = x[i]
  <2> SUFFICES ASSUME NEW i \in 1..m PROVE t[i + 13] = x[i]
    OBVIOUS
  <2>1. i + 1 \in 1..(m + 2) /\ (i + 1) + 12 = i + 13
    BY <1>2
  <2> QED BY <1>7, <1>27, <2>1
<1>29. t[5] = Word("cmd") /\ t[6] = Mark(":")
  <2>1. 1 \in 1..(m + 11) /\ 2 \in 1..(m + 11) /\ 1 + 4 = 5 /\ 2 + 4 = 6
    BY <1>2
  <2>2. t[1 + 4] = cmd[1] /\ t[2 + 4] = cmd[2]
    BY <1>23, <2>1
  <2> QED BY <1>15, <2>1, <2>2
<1>30. t[7] = LBrace /\ t[m + 15] = RBrace
  <2>1. 1 \in 1..(m + 9) /\ m + 9 \in 1..(m + 9) /\ 1 + 6 = 7 /\ (m + 9) + 6 = m + 15
    BY <1>2
  <2>2. t[1 + 6] = object[1] /\ t[(m + 9) + 6] = object[m + 9]
    BY <1>24, <2>1
  <2> QED BY <1>13, <2>1, <2>2
<1>31. t[8] = Word("category") /\ t[9] = Mark(":") /\ t[10] = Word(c)
  <2>1. /\ 1 \in 1..(m + 7) /\ 2 \in 1..(m + 7) /\ 3 \in 1..(m + 7)
        /\ 1 + 7 = 8 /\ 2 + 7 = 9 /\ 3 + 7 = 10
    BY <1>2
  <2>2. t[1 + 7] = j[1] /\ t[2 + 7] = j[2] /\ t[3 + 7] = j[3]
    BY <1>25, <2>1
  <2>3. j[1] = f1[1] /\ j[2] = f1[2] /\ j[3] = f1[3]
    BY <1>11
  <2> QED BY <1>5, <2>1, <2>2, <2>3
<1>32. t[11] = Word("params") /\ t[12] = Mark(":")
  <2>1. 1 \in 1..(m + 4) /\ 2 \in 1..(m + 4) /\ 1 + 10 = 11 /\ 2 + 10 = 12
    BY <1>2
  <2>2. t[1 + 10] = f2[1] /\ t[2 + 10] = f2[2]
    BY <1>26, <2>1
  <2> QED BY <1>9, <2>1, <2>2
<1>33. t[13] = LBrace /\ t[m + 14] = RBrace
  <2>1. 1 \in 1..(m + 2) /\ m + 2 \in 1..(m + 2) /\ 1 + 12 = 13 /\ (m + 2) + 12 = m + 14
    BY <1>2
  <2>2. t[1 + 12] = params[1] /\ t[(m + 2) + 12] = params[m + 2]
    BY <1>27, <2>1
  <2> QED BY <1>7, <2>1, <2>2
<1>34. t[m + 16] = Word("mid") /\ t[m + 17] = Mark(":") /\ t[m + 18] = Word("m")
  <2>1. \A i \in 1..3 : t[(m + 14 + i) + 1] = mid[i]
    <3> SUFFICES ASSUME NEW i \in 1..3 PROVE t[(m + 14 + i) + 1] = mid[i]
      OBVIOUS
    <3>1. m + 14 + i \in 1..(m + 17)
      BY <1>2
    <3> QED BY <1>19, <1>21, <3>1
  <2>2. (m + 14 + 1) + 1 = m + 16 /\ (m + 14 + 2) + 1 = m + 17 /\ (m + 14 + 3) + 1 = m + 18
    BY <1>2
  <2>3. t[(m + 14 + 1) + 1] = mid[1] /\ t[(m + 14 + 2) + 1] = mid[2] /\ t[(m + 14 + 3) + 1] = mid[3]
    BY <2>1
  <2> QED BY <1>4, <2>2, <2>3
<1>35. CommandIs(t, c, x, m)
  BY <1>21, <1>22, <1>28, <1>29, <1>30, <1>31, <1>32, <1>33, <1>34 DEF CommandIs
<1> QED BY Zenon, <1>1, <1>35

(* The fields stand in the text as they are listed.                        *)
LEMMA TextIs ==
    ASSUME NEW fields, NEW n, IsSeq(fields, n)
    PROVE  /\ IsSeq(Text(fields), 3 * n) /\ n \in Nat
           /\ \A i \in 1..n : /\ Text(fields)[3 * (i - 1) + 1] = Word(fields[i].name)
                              /\ Text(fields)[3 * (i - 1) + 2] = Mark(":")
                              /\ Text(fields)[3 * (i - 1) + 3] = fields[i].value
<1> DEFINE b == [i \in DOMAIN fields |-> Field(fields[i].name, <<fields[i].value>>)]
<1> DEFINE t == FlattenSeq(b)
<1>1. Text(fields) = t
  BY DEF Text
<1>2. n \in Nat /\ DOMAIN fields = 1..n
  BY SeqLen
<1>3. IsSeq(b, n) /\ \A i \in 1..n : b[i] = Field(fields[i].name, <<fields[i].value>>)
  BY <1>2 DEF IsSeq
<1> HIDE DEF b
<1>4. ASSUME NEW i \in 1..n
      PROVE  /\ IsSeq(b[i], 3) /\ b[i][1] = Word(fields[i].name) /\ b[i][2] = Mark(":")
             /\ b[i][3] = fields[i].value
  <2> DEFINE name == fields[i].name
  <2> DEFINE value == fields[i].value
  <2> DEFINE block == b[i]
  <2>1. block = Field(name, <<value>>)
    BY <1>3
  <2> HIDE DEF name, value, block
  <2>2. /\ IsSeq(block, 3) /\ block[1] = Word(name) /\ block[2] = Mark(":")
        /\ block[3] = value
    BY <2>1, OneField
  <2> QED BY <2>2 DEF name, value, block
<1>5. Blocks(t, b, n, 3)
  BY <1>3, <1>4, FlattenIs
<1> HIDE DEF t
<1>6. IsSeq(t, 3 * n) /\ \A i \in 1..n : \A k \in 1..3 : t[3 * (i - 1) + k] = b[i][k]
  BY <1>5 DEF Blocks
<1> QED BY <1>1, <1>2, <1>4, <1>6

(* A place among the params is in one of the fields.                       *)
LEMMA PlaceOfField ==
    ASSUME NEW n \in Nat, NEW j \in 1..(3 * n)
    PROVE  \E i \in 1..n : \E k \in 1..3 : j = 3 * (i - 1) + k
<1> DEFINE i == ((j - 1) \div 3) + 1
<1> DEFINE k == ((j - 1) % 3) + 1
<1>1. i \in 1..n /\ k \in 1..3 /\ j = 3 * (i - 1) + k
  OBVIOUS
<1> QED BY <1>1

(* The commands that carry a device                                        *)
Upserts == {"create_device", "update_device"}
RowFields == NumberFields \cup StringFields

(* In a text that is not misleading a field's name stands only where the   *)
(* field is.                                                               *)
LEMMA FieldsOfCommand ==
    ASSUME NEW fields, NEW n, IsSeq(fields, n), NEW c \in Upserts,
           NEW t, t = CommandOf(c, Text(fields)), ~Misleading(t)
    PROVE  /\ FieldsAt(t, 3 * n + 19, 13, fields, n)
           /\ \A name \in RowFields : OnlyAt(t, 3 * n + 19, 13, n, name)
           /\ \A i \in 1..n : fields[i].value # Mark("null")
<1> DEFINE x == Text(fields)
<1> DEFINE m == 3 * n
<1> DEFINE l == m + 19
<1>1. /\ IsSeq(x, m) /\ n \in Nat /\ m \in Nat
      /\ \A i \in 1..n : /\ x[3 * (i - 1) + 1] = Word(fields[i].name)
                         /\ x[3 * (i - 1) + 2] = Mark(":")
                         /\ x[3 * (i - 1) + 3] = fields[i].value
  <2>1. n \in Nat
    BY TextIs
  <2> QED BY <2>1, TextIs
<1>2. \A i \in 1..n : \A k \in 1..3 : 3 * (i - 1) + k \in 1..m
  BY <1>1
<1> HIDE DEF x, m
<1>3. CommandIs(t, c, x, m)
  BY <1>1, CommandOfIs DEF x
<1>4. /\ IsSeq(t, l) /\ \A j \in 1..m : t[j + 13] = x[j]
  BY <1>3 DEF CommandIs
<1>5. l \in Nat /\ Len(t) = l /\ l = m + 19
  BY <1>4, SeqLen
<1>6. ASSUME NEW i \in 1..n
      PROVE  /\ t[13 + 3 * (i - 1) + 1] = Word(fields[i].name)
             /\ t[13 + 3 * (i - 1) + 2] = Mark(":")
             /\ t[13 + 3 * (i - 1) + 3] = fields[i].value
  <2> DEFINE h == 3 * (i - 1)
  <2>1. h + 1 \in 1..m /\ h + 2 \in 1..m /\ h + 3 \in 1..m /\ h \in Nat
    BY <1>1, <1>2
  <2>2. x[h + 1] = Word(fields[i].name) /\ x[h + 2] = Mark(":") /\ x[h + 3] = fields[i].value
    BY <1>1
  <2> HIDE DEF h
  <2>3. t[(h + 1) + 13] = x[h + 1] /\ t[(h + 2) + 13] = x[h + 2] /\ t[(h + 3) + 13] = x[h + 3]
    BY <1>4, <2>1
  <2>4. (h + 1) + 13 = 13 + h + 1 /\ (h + 2) + 13 = 13 + h + 2 /\ (h + 3) + 13 = 13 + h + 3
    BY <2>1
  <2> QED BY <2>2, <2>3, <2>4 DEF h
<1>7. FieldsAt(t, l, 13, fields, n)
  BY <1>1, <1>4, <1>5, <1>6 DEF FieldsAt, m
<1>8. ASSUME NEW name \in RowFields, NEW j \in 1..l, t[j] = Word(name)
      PROVE  \E i \in 1..n : j = 13 + 3 * (i - 1) + 1
  <2>1. j \in 1..13 \/ j - 13 \in 1..m \/ j \in {m + 14, m + 15, m + 16, m + 17, m + 18, m + 19}
    <3>1. m \in Nat /\ j \in Nat /\ 1 <= j /\ j <= m + 19
      BY <1>1, <1>5
    <3> QED BY <3>1
  <2>2. ASSUME j \in 1..13 PROVE FALSE
    <3>1. name \notin {"uid", "admin", "cmd", "category", c, "params"}
      BY DEF RowFields, NumberFields, StringFields, Upserts
    <3>2. t[j] \in {LBrace, Mark(":"), Word("uid"), Word("admin"), Word("cmd"), Word("category"),
                    Word(c), Word("params")}
      BY <1>3, <2>2 DEF CommandIs
    <3> QED BY <1>8, <3>1, <3>2, Marks, WordsDiffer, NoBraceIsAWord
  <2>3. ASSUME j \in {m + 14, m + 15, m + 16, m + 17, m + 18, m + 19} PROVE FALSE
    <3>1. name \notin {"mid", "m"}
      BY DEF RowFields, NumberFields, StringFields
    <3>2. t[j] \in {RBrace, Mark(":"), Word("mid"), Word("m")}
      BY <1>3, <2>3 DEF CommandIs
    <3>3. RBrace # Word(name)
      BY Marks, Zenon DEF RBrace
    <3> QED BY <1>8, <3>1, <3>2, <3>3, Marks, WordsDiffer
  <2>4. ASSUME j - 13 \in 1..m PROVE \E i \in 1..n : j = 13 + 3 * (i - 1) + 1
    <3>1. PICK i \in 1..n : \E k \in 1..3 : j - 13 = 3 * (i - 1) + k
      BY <1>1, <2>4, PlaceOfField DEF m
    <3>2. PICK k \in 1..3 : j - 13 = 3 * (i - 1) + k
      BY <3>1
    <3>3. j = 13 + 3 * (i - 1) + k
      BY <3>2
    <3>4. CASE k = 1
      BY <3>3, <3>4
    <3>5. CASE k = 2
      BY <1>6, <1>8, <3>3, <3>5, Marks
    <3>6. CASE k = 3
      <4>1. j - 1 = 13 + 3 * (i - 1) + 2 /\ j \in 2..l
        BY <1>5, <3>3, <3>6
      <4>2. t[j - 1] = Mark(":") /\ t[j].kind = "word" /\ t[j].text = name
        BY <1>6, <1>8, <4>1, Marks
      <4>3. name \in Values(t)
        BY <1>5, <4>1, <4>2 DEF Values
      <4>4. name \in CommandFields
        BY DEF RowFields, CommandFields
      <4> QED BY <4>3, <4>4 DEF Misleading
    <3> QED BY <3>4, <3>5, <3>6
  <2> QED BY <2>1, <2>2, <2>3, <2>4
<1>9. ASSUME NEW i \in 1..n PROVE fields[i].value # Mark("null")
  <2> DEFINE j == 13 + 3 * (i - 1) + 3
  <2>1. t[j] = fields[i].value
    BY <1>6
  <2>2. 3 * (i - 1) + 3 \in 1..m
    BY <1>2
  <2>3. j \in 1..l
    BY <1>1, <1>5, <2>2
  <2>4. t[j] # Mark("null")
    BY <1>5, <2>3 DEF Misleading, Contains
  <2> QED BY <2>1, <2>4
<1>10. \A name \in RowFields : OnlyAt(t, l, 13, n, name)
  BY <1>8 DEF OnlyAt
<1> QED BY <1>7, <1>9, <1>10 DEF m

(* What the scanners read in t is what the fields say.                     *)
SaysAs(t, fields) ==
    /\ \A name \in StringFields : StringField(t, name) = Given(fields, name)
    /\ \A name \in NumberFields : \A d : NumberField(t, name, d) = NumberGiven(fields, name, d)
    /\ \A name \in RowFields : HasField(t, name) <=> FieldNamed(fields, name) # 0

(* Whatever fields of the right types a command has, in whatever order,    *)
(* that is so if the text does not mislead.                                *)
LEMMA FieldsAreRead ==
    ASSUME NEW fields, WellTyped(fields), NEW c \in Upserts,
           NEW t, t = CommandOf(c, Text(fields)), ~Misleading(t)
    PROVE  SaysAs(t, fields)
<1> DEFINE n == Len(fields)
<1> DEFINE l == 3 * n + 19
<1>1. IsSeq(fields, n)
  BY SeqIs DEF WellTyped
<1>2. n \in Nat /\ DOMAIN fields = 1..n
  BY <1>1, SeqLen
<1> HIDE DEF n
<1>3. /\ FieldsAt(t, l, 13, fields, n)
      /\ \A name \in RowFields : OnlyAt(t, l, 13, n, name)
      /\ \A i \in 1..n : fields[i].value # Mark("null")
  BY <1>1, FieldsOfCommand
<1> HIDE DEF l
<1>4. ASSUME NEW name \in StringFields
      PROVE  StringField(t, name) = Given(fields, name)
  <2>1. ASSUME NEW i \in 1..n, fields[i].name = name PROVE fields[i].value.kind = "word"
    BY <1>2, <1>3, <2>1 DEF WellTyped, Typed
  <2>2. OnlyAt(t, l, 13, n, name)
    BY <1>3 DEF RowFields
  <2> QED BY <1>3, <2>1, <2>2, GivenIs
<1>5. ASSUME NEW name \in NumberFields, NEW d
      PROVE  NumberField(t, name, d) = NumberGiven(fields, name, d)
  <2>1. ASSUME NEW i \in 1..n, fields[i].name = name PROVE HasDigits(fields[i].value)
    BY <1>2, <1>3, <2>1 DEF WellTyped, Typed, HasDigits
  <2>2. OnlyAt(t, l, 13, n, name)
    BY <1>3 DEF RowFields
  <2> QED BY <1>3, <2>1, <2>2, NumberGivenIs
<1>6. ASSUME NEW name \in RowFields
      PROVE  HasField(t, name) <=> FieldNamed(fields, name) # 0
  <2>1. \/ FieldNamed(fields, name) = 0 /\ ~HasField(t, name)
        \/ HasField(t, name) /\ \E i, k : FirstAt(t, l, 13, fields, n, name, i, k)
    BY <1>3, FieldFound
  <2> QED BY <2>1 DEF FirstAt
<1> QED BY <1>4, <1>5, <1>6 DEF SaysAs

(* The first of two fields that is given                                   *)
LEMMA FirstOfTwo ==
    ASSUME NEW t, NEW a, NEW b
    PROVE  FirstOf(t, <<a, b>>)
             = IF HasText(StringField(t, a)) THEN StringField(t, a) ELSE StringField(t, b)
<1> DEFINE names == <<a, b>>
<1> DEFINE I == {i \in 1..Len(names) : HasText(StringField(t, names[i]))}
<1> DEFINE found == IF I # {} THEN Min(I) ELSE 0
<1> DEFINE none == ""
<1>1. FirstOf(t, names) = IF found = 0 THEN none ELSE StringField(t, names[found])
  BY Zenon DEF FirstOf, SelectInSeq, HasText
<1>2. ~HasText(StringField(t, b)) => StringField(t, b) = none
  BY Zenon DEF HasText
<1> HIDE DEF none
<1>3. Len(names) = 2 /\ names[1] = a /\ names[2] = b
  OBVIOUS
<1> HIDE DEF names
<1>4. I \subseteq Nat /\ \A i \in I : i = 1 \/ i = 2
  BY <1>3
<1>5. /\ 1 \in I <=> HasText(StringField(t, a))
      /\ 2 \in I <=> HasText(StringField(t, b))
  BY <1>3
<1> HIDE DEF I
<1>6. CASE 1 \in I
  <2>1. \A i \in I : 1 <= i
    BY <1>4
  <2>2. found = 1
    BY <1>4, <1>6, <2>1, MinIs
  <2> QED BY <1>1, <1>3, <1>5, <1>6, <2>2 DEF names
<1>7. CASE 1 \notin I /\ 2 \in I
  <2>1. \A i \in I : 2 <= i
    BY <1>4, <1>7
  <2>2. found = 2
    BY <1>4, <1>7, <2>1, MinIs
  <2> QED BY <1>1, <1>3, <1>5, <1>7, <2>2 DEF names
<1>8. CASE 1 \notin I /\ 2 \notin I
  <2>1. found = 0
    BY <1>4, <1>8
  <2> QED BY <1>1, <1>2, <1>5, <1>8, <2>1 DEF names
<1> QED BY <1>6, <1>7, <1>8

(* Of two names for a field the first that is given counts.                *)
LEMMA EitherIs ==
    ASSUME NEW t, NEW fields, SaysAs(t, fields), NEW a \in StringFields, NEW b \in StringFields
    PROVE  FirstOf(t, <<a, b>>) = Either(fields, a, b)
<1>1. StringField(t, a) = Given(fields, a) /\ StringField(t, b) = Given(fields, b)
  BY DEF SaysAs
<1>2. Either(fields, a, b)
        = IF HasText(StringField(t, a)) THEN StringField(t, a) ELSE StringField(t, b)
  BY Zenon, <1>1 DEF Either, HasText
<1> QED BY Zenon, <1>2, FirstOfTwo

(* The row of the fields, once they have been looked up                    *)
RowOf(name, model, version, status, address, host, number) ==
    LET ip == IF address # "" THEN Mapped(Hosts, address) ELSE host
        port == IF address \in DOMAIN Ports THEN Ports[address] ELSE number
    IN  [name |-> name, model |-> model, version |-> version, status |-> status,
         ip |-> IF ip = "" THEN "127.0.0.1" ELSE ip,
         port |-> IF port = "0" THEN "9001" ELSE port]

(* The scanner knows no port as 0, which is the default port as well.      *)
LEMMA DefaultPort ==
    ASSUME NEW name, NEW model, NEW version, NEW status, NEW address, NEW host
    PROVE  RowOf(name, model, version, status, address, host, "0")
             = RowOf(name, model, version, status, address, host, "9001")
<1> DEFINE Port(number) == IF address \in DOMAIN Ports THEN Ports[address] ELSE number
<1> DEFINE Sure(port) == IF port = "0" THEN "9001" ELSE port
<1>1. Sure(Port("0")) = Sure(Port("9001"))
  OBVIOUS
<1>2. \A n : RowOf(name, model, version, status, address, host, n)
         = [name |-> name, model |-> model, version |-> version, status |-> status,
            ip |-> IF (IF address # "" THEN Mapped(Hosts, address) ELSE host) = ""
                   THEN "127.0.0.1"
                   ELSE IF address # "" THEN Mapped(Hosts, address) ELSE host,
            port |-> Sure(Port(n))]
  BY Zenon DEF RowOf
<1> QED BY Zenon, <1>1, <1>2

(* What a row of fields looks up                                           *)
LEMMA RowIs ==
    ASSUME NEW fields, NEW status
    PROVE  Row(fields, status) = RowOf(
              Given(fields, "device_name"), Given(fields, "model"),
              Given(fields, "model_version"),
              NumberGiven(fields, "Status", NumberGiven(fields, "status", status)),
              Either(fields, "addr", "IpAddr"), Given(fields, "ip"),
              NumberGiven(fields, "Port", "9001"))
  BY Zenon DEF Row, RowOf

(* ... and what the parser looks up                                        *)
LEMMA UpsertIs ==
    ASSUME NEW t
    PROVE  ParseDeviceUpsert(t) = RowOf(
              StringField(t, "device_name"), StringField(t, "model"),
              StringField(t, "model_version"),
              NumberField(t, "Status", NumberField(t, "status", "1")),
              FirstOf(t, <<"addr", "IpAddr">>), StringField(t, "ip"),
              NumberField(t, "Port", "0"))
  BY Zenon DEF ParseDeviceUpsert, RowOf

(* What the parser makes of a command is the row that its fields say.      *)
LEMMA RowIsMeant ==
    ASSUME NEW t, NEW fields, SaysAs(t, fields)
    PROVE  ParseDeviceUpsert(t) = Row(fields, "1")
<1> DEFINE one == "1"
<1>1. /\ StringField(t, "device_name") = Given(fields, "device_name")
      /\ StringField(t, "model") = Given(fields, "model")
      /\ StringField(t, "model_version") = Given(fields, "model_version")
      /\ StringField(t, "ip") = Given(fields, "ip")
  BY DEF SaysAs, StringFields
<1>2. FirstOf(t, <<"addr", "IpAddr">>) = Either(fields, "addr", "IpAddr")
  BY EitherIs DEF StringFields
<1>3. /\ \A d : NumberField(t, "Status", d) = NumberGiven(fields, "Status", d)
      /\ \A d : NumberField(t, "status", d) = NumberGiven(fields, "status", d)
      /\ \A d : NumberField(t, "Port", d) = NumberGiven(fields, "Port", d)
  BY DEF SaysAs, NumberFields
<1>4. \/ NumberGiven(fields, "Port", "0") = NumberGiven(fields, "Port", "9001")
      \/ NumberGiven(fields, "Port", "0") = "0" /\ NumberGiven(fields, "Port", "9001") = "9001"
  BY Zenon DEF NumberGiven
<1> DEFINE Rest(port) ==
        RowOf(Given(fields, "device_name"), Given(fields, "model"),
              Given(fields, "model_version"),
              NumberGiven(fields, "Status", NumberGiven(fields, "status", one)),
              Either(fields, "addr", "IpAddr"), Given(fields, "ip"), port)
<1>5. ParseDeviceUpsert(t) = Rest(NumberGiven(fields, "Port", "0"))
  BY Zenon, <1>1, <1>2, <1>3, UpsertIs
<1>6. Row(fields, one) = Rest(NumberGiven(fields, "Port", "9001"))
  BY Zenon, RowIs
<1>7. Rest("0") = Rest("9001")
  BY Zenon, DefaultPort
<1> HIDE DEF Rest
<1>8. ParseDeviceUpsert(t) = Row(fields, one)
  BY Zenon, <1>4, <1>5, <1>6, <1>7
<1> QED BY <1>8

(* A row with another status                                               *)
WithStatus(row, status) == [row EXCEPT !.status = status]

(* A status that the fields do not give is the one to take.                *)
LEMMA StatusIsKept ==
    ASSUME NEW fields, NEW status,
           FieldNamed(fields, "status") = 0, FieldNamed(fields, "Status") = 0
    PROVE  WithStatus(Row(fields, "1"), status) = Row(fields, status)
<1>1. /\ NumberGiven(fields, "Status", NumberGiven(fields, "status", "1")) = "1"
      /\ NumberGiven(fields, "Status", NumberGiven(fields, "status", status)) = status
  BY Zenon DEF NumberGiven
<1> DEFINE a == Given(fields, "device_name")
<1> DEFINE b == Given(fields, "model")
<1> DEFINE c == Given(fields, "model_version")
<1> DEFINE d == Either(fields, "addr", "IpAddr")
<1> DEFINE e == Given(fields, "ip")
<1> DEFINE f == NumberGiven(fields, "Port", "9001")
<1>2. Row(fields, "1") = RowOf(a, b, c, "1", d, e, f)
  BY Zenon, <1>1, RowIs
<1>3. Row(fields, status) = RowOf(a, b, c, status, d, e, f)
  BY Zenon, <1>1, RowIs
<1> HIDE DEF a, b, c, d, e, f
<1> DEFINE host == IF d # "" THEN Mapped(Hosts, d) ELSE e
<1> DEFINE ip == IF host = "" THEN "127.0.0.1" ELSE host
<1> DEFINE port == IF d \in DOMAIN Ports THEN Ports[d] ELSE f
<1> DEFINE sure == IF port = "0" THEN "9001" ELSE port
<1>4. \A s : RowOf(a, b, c, s, d, e, f)
                = [name |-> a, model |-> b, version |-> c, status |-> s, ip |-> ip, port |-> sure]
  BY Zenon DEF RowOf
<1> HIDE DEF ip, sure
<1>5. [[name |-> a, model |-> b, version |-> c, status |-> "1", ip |-> ip, port |-> sure]
          EXCEPT !.status = status]
        = [name |-> a, model |-> b, version |-> c, status |-> status, ip |-> ip, port |-> sure]
  OBVIOUS
<1> QED BY Zenon, <1>2, <1>3, <1>4, <1>5 DEF WithStatus

(* A status that they give is theirs whatever the other is.                *)
LEMMA StatusIsGiven ==
    ASSUME NEW fields, NEW status,
           FieldNamed(fields, "status") # 0 \/ FieldNamed(fields, "Status") # 0
    PROVE  Row(fields, "1") = Row(fields, status)
<1>1. NumberGiven(fields, "Status", NumberGiven(fields, "status", "1"))
        = NumberGiven(fields, "Status", NumberGiven(fields, "status", status))
  BY Zenon DEF NumberGiven
<1> QED BY Zenon, <1>1, RowIs

(* The command is carried out for what it is.                              *)
LEMMA UpsertIsHandled ==
    ASSUME NEW fields, WellTyped(fields), NEW c \in Upserts,
           NEW t, t = CommandOf(c, Text(fields))
    PROVE  Handle(t).op = c /\ t # <<>>
<1> DEFINE n == Len(fields)
<1> DEFINE m == 3 * n
<1> DEFINE x == Text(fields)
<1> DEFINE l == m + 19
<1>1. IsSeq(fields, n)
  BY SeqIs DEF WellTyped
<1> HIDE DEF n
<1>2. IsSeq(x, m) /\ n \in Nat
  BY <1>1, TextIs
<1> HIDE DEF x
<1>3. m \in Nat
  BY <1>2
<1> HIDE DEF m
<1>4. CommandIs(t, c, x, m)
  BY <1>2, CommandOfIs DEF x
<1>5. /\ IsSeq(t, l)
      /\ t[1] = LBrace /\ t[2] = Word("uid") /\ t[3] = Mark(":") /\ t[4] = Word("admin")
      /\ t[5] = Word("cmd") /\ t[6] = Mark(":") /\ t[7] = LBrace
      /\ t[8] = Word("category") /\ t[9] = Mark(":") /\ t[10] = Word(c)
  BY <1>4 DEF CommandIs
<1>6. l >= 19
  BY <1>3
<1> HIDE DEF l
<1>7. l \in Nat /\ Len(t) = l /\ l >= 19
  BY <1>5, <1>6, SeqLen
<1>8. StringField(t, "category") = Unescape(c)
  <2> DEFINE h == 8
  <2> DEFINE d == 9
  <2> DEFINE v == 10
  <2>1. ASSUME NEW i \in 1..l, i < h PROVE t[i] # Word("category")
    <3>1. i \in {1, 2, 3, 4, 5, 6, 7}
      BY <2>1
    <3>2. t[i] \in {LBrace, Mark(":"), Word("uid"), Word("admin"), Word("cmd")}
      BY <1>5, <3>1
    <3> QED BY <3>2, Marks, WordsDiffer, NoBraceIsAWord
  <2>2. h \in 1..l /\ \A i \in 1..l : i < h => t[i] # Word("category")
    BY <1>7, <2>1
  <2>3. d \in (h + 1)..l /\ \A i \in (h + 1)..l : i < d => t[i] # Mark(":")
    BY <1>7
  <2>4. v \in (d + 1)..l /\ \A i \in (d + 1)..l : i < v => t[i].kind # "word"
    BY <1>7
  <2>5. t[h] = Word("category") /\ t[d] = Mark(":") /\ t[v].kind = "word" /\ t[v].text = c
    BY <1>5, Marks
  <2> HIDE DEF h, d, v
  <2>6. StringField(t, "category") = Unescape(t[v].text)
    BY <1>7, <2>2, <2>3, <2>4, <2>5, StringFieldIs
  <2> QED BY <2>5, <2>6
<1>9. Unescape(c) = c
  BY CategoryAssumption DEF Unescape, Mapped, Categories, Upserts
<1>10. Handle(t) = Asks(c, StringField(t, "device_name"))
  BY <1>8, <1>9, Zenon DEF Handle, Categories, Upserts
<1>11. Handle(t).op = c
  BY <1>10 DEF Asks
<1>12. t # <<>>
  BY <1>7
<1> QED BY <1>11, <1>12
=============================================================================
