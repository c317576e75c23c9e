---------------------------- MODULE SequenceFacts ---------------------------
(***************************************************************************)
(* What the operators on sequences that the models use give for every      *)
(* sequence: RemoveFirst and FlattenSeq.                                   *)
(*                                                                         *)
(* FlattenSeq is recursive, so its facts need an induction.  The provers   *)
(* cannot use the library's induction theorems, whose parameter is an      *)
(* operator; LeastNatural says the same of sets, and an induction is a     *)
(* look at the least counterexample.                                       *)
(***************************************************************************)
EXTENDS Integers, Sequences, SequencesExt, SequenceTheorems,
        WellFoundedInduction, TLAPS

\* A set of natural numbers has a least element, if it has any.
LEMMA LeastNatural ==
    ASSUME NEW S \in SUBSET Nat, S # {}
    PROVE  \E n \in S : \A m \in S : n <= m
<1> DEFINE R == OpToRel(<, Nat)
<1>1. IsWellFoundedOn(R, Nat)
  BY NatLessThanWellFounded
<1>2. \A m, n \in Nat : <<m, n>> \in R <=> m < n
  BY DEF OpToRel
<1> HIDE DEF R
<1>3. PICK n \in S : \A m \in S : <<m, n>> \notin R
  BY <1>1, WFMin
<1>4. \A m \in S : n <= m
  <2> SUFFICES ASSUME NEW m \in S PROVE n <= m
    OBVIOUS
  <2>1. ~(m < n)
    BY <1>2, <1>3
  <2> QED
    BY <2>1
<1> QED
  BY <1>4

\* The least of a set of naturals, as the community modules choose it.
LEMMA MinProperties ==
    ASSUME NEW S \in SUBSET Nat, S # {}
    PROVE  Min(S) \in S /\ \A k \in S : Min(S) <= k
<1>1. \E x \in S : \A y \in S : x <= y
  BY LeastNatural
<1> QED
  BY <1>1 DEF Min

\* Among bounded weights there is a heaviest.
LEMMA HeaviestExists ==
    ASSUME NEW I, I # {}, NEW w, NEW b \in Nat, \A i \in I : w[i] \in 0..b
    PROVE  \E i \in I : \A k \in I : w[k] <= w[i]
<1> DEFINE S == {b - w[i] : i \in I}
<1>1. S \in SUBSET Nat /\ S # {}
  OBVIOUS
<1>2. PICK x \in S : \A y \in S : x <= y
  BY <1>1, LeastNatural
<1>3. PICK i \in I : x = b - w[i]
  BY <1>2
<1>4. ASSUME NEW k \in I PROVE w[k] <= w[i]
  <2>1. b - w[i] <= b - w[k]
    BY <1>2, <1>3
  <2> QED
    BY <2>1
<1> QED
  BY <1>4

-----------------------------------------------------------------------------
(* RemoveFirst.                                                            *)

\* It leaves out one occurrence and keeps the order of the rest.
LEMMA RemoveFirstProperties ==
    ASSUME NEW S, NEW s \in Seq(S), NEW c, Contains(s, c)
    PROVE  /\ RemoveFirst(s, c) \in Seq(S)
           /\ Len(RemoveFirst(s, c)) = Len(s) - 1
           /\ \E k \in 1..Len(s) :
                /\ s[k] = c
                /\ \A i \in 1..(Len(s) - 1) :
                     RemoveFirst(s, c)[i] = IF i < k THEN s[i] ELSE s[i + 1]
<1> DEFINE I == {i \in 1..Len(s) : s[i] = c}
           k == CHOOSE i \in I : \A j \in I : i <= j
           front == SubSeq(s, 1, k - 1)
           back == SubSeq(s, k + 1, Len(s))
<1>1. I \in SUBSET Nat /\ I # {}
  BY DEF Contains
<1>2. k \in I
  <2>1. \E i \in I : \A j \in I : i <= j
    BY <1>1, LeastNatural
  <2> QED
    BY <2>1
<1>3. SelectInSeq(s, LAMBDA v : v = c) = k
  BY <1>1 DEF SelectInSeq, Min
<1>4. RemoveFirst(s, c) = front \o back
  BY <1>1, <1>3, Zenon DEF RemoveFirst, RemoveAt, Contains
<1> HIDE DEF k
<1>5. k \in 1..Len(s) /\ s[k] = c
  BY <1>2
<1>6. front \in Seq(S) /\ Len(front) = k - 1 /\ \A i \in 1..(k - 1) : front[i] = s[i]
  BY <1>5
<1>7. /\ back \in Seq(S) /\ Len(back) = Len(s) - k
      /\ \A i \in 1..(Len(s) - k) : back[i] = s[k + i]
  BY <1>5
<1> HIDE DEF front, back
<1>8. /\ front \o back \in Seq(S) /\ Len(front \o back) = Len(front) + Len(back)
      /\ \A i \in 1..(Len(front) + Len(back)) :
           (front \o back)[i] = IF i <= Len(front) THEN front[i] ELSE back[i - Len(front)]
  BY <1>6, <1>7, ConcatProperties
<1>9. ASSUME NEW i \in 1..(Len(s) - 1)
      PROVE  (front \o back)[i] = IF i < k THEN s[i] ELSE s[i + 1]
  <2>1. CASE i < k
    BY <1>5, <1>6, <1>7, <1>8, <2>1
  <2>2. CASE ~(i < k)
    <3>1. i - (k - 1) \in 1..(Len(s) - k) /\ k + (i - (k - 1)) = i + 1
      BY <1>5, <2>2
    <3>2. back[i - (k - 1)] = s[i + 1]
      BY <1>7, <3>1
    <3> QED
      BY <1>5, <1>6, <1>7, <1>8, <2>2, <3>2
  <2> QED
    BY <2>1, <2>2
<1>10. Len(front \o back) = Len(s) - 1
  BY <1>5, <1>6, <1>7, <1>8
<1> QED
  BY <1>4, <1>5, <1>8, <1>9, <1>10

-----------------------------------------------------------------------------
(* Sequences by what is in them.                                           *)

IsSeq(s) == s \in Seq(ToSet(s))

\* Any two elements of s, in their order, are in R.
Apart(s, R) == \A a, b \in 1..Len(s) : a < b => <<s[a], s[b]>> \in R

LEMMA SeqIsSeq ==
    ASSUME NEW S, NEW s \in Seq(S)
    PROVE  IsSeq(s) /\ ToSet(s) \subseteq S
<1>1. s \in [1..Len(s) -> S] /\ DOMAIN s = 1..Len(s) /\ Len(s) \in Nat
  BY LenProperties
<1>2. s \in [1..Len(s) -> ToSet(s)] /\ ToSet(s) \subseteq S
  BY <1>1 DEF ToSet
<1> QED
  BY <1>1, <1>2, SeqDef DEF IsSeq

LEMMA IsSeqProperties ==
    ASSUME NEW s, IsSeq(s)
    PROVE  /\ Len(s) \in Nat /\ DOMAIN s = 1..Len(s)
           /\ s = [i \in 1..Len(s) |-> s[i]]
           /\ \A i \in 1..Len(s) : s[i] \in ToSet(s)
           /\ \A x \in ToSet(s) : \E i \in 1..Len(s) : s[i] = x
<1>1. s \in [1..Len(s) -> ToSet(s)] /\ DOMAIN s = 1..Len(s) /\ Len(s) \in Nat
  BY LenProperties DEF IsSeq
<1> QED
  BY <1>1 DEF ToSet

\* A function on 1..n is a sequence.
LEMMA FunctionIsSeq ==
    ASSUME NEW n \in Nat, NEW s, s = [i \in 1..n |-> s[i]]
    PROVE  /\ IsSeq(s) /\ Len(s) = n
           /\ ToSet(s) = {s[i] : i \in 1..n}
<1>1. DOMAIN s = 1..n
  OBVIOUS
<1>2. ToSet(s) = {s[i] : i \in 1..n}
  BY <1>1 DEF ToSet
<1>3. s \in [1..n -> ToSet(s)]
  BY <1>2
<1>4. s \in Seq(ToSet(s))
  BY <1>3, SeqDef
<1> QED
  BY <1>1, <1>2, <1>4, LenProperties DEF IsSeq

LEMMA EmptyIsSeq ==
    IsSeq(<<>>) /\ ToSet(<<>>) = {} /\ \A R : Apart(<<>>, R)
<1>1. ToSet(<<>>) = {}
  BY DEF ToSet
<1> QED
  BY <1>1, EmptySeq DEF IsSeq, Apart

LEMMA OneIsSeq ==
    ASSUME NEW x
    PROVE  /\ IsSeq(<<x>>) /\ ToSet(<<x>>) = {x} /\ Len(<<x>>) = 1
           /\ \A R : Apart(<<x>>, R)
<1>1. <<x>> \in Seq({x}) /\ Len(<<x>>) = 1 /\ <<x>>[1] = x
  OBVIOUS
<1>2. ToSet(<<x>>) = {x}
  BY <1>1 DEF ToSet
<1> QED
  BY <1>1, <1>2 DEF IsSeq, Apart

LEMMA ConcatIsSeq ==
    ASSUME NEW s, NEW t, IsSeq(s), IsSeq(t)
    PROVE  /\ IsSeq(s \o t)
           /\ ToSet(s \o t) = ToSet(s) \cup ToSet(t)
           /\ Len(s \o t) = Len(s) + Len(t)
           /\ \A i \in 1..Len(s) : (s \o t)[i] = s[i]
           /\ \A i \in 1..Len(t) : (s \o t)[Len(s) + i] = t[i]
<1> DEFINE S == ToSet(s) \cup ToSet(t)
           u == s \o t
<1>1. s \in Seq(S) /\ t \in Seq(S)
  BY SeqMonotonic DEF IsSeq
<1>2. /\ u \in Seq(S) /\ Len(u) = Len(s) + Len(t)
      /\ \A i \in 1..(Len(s) + Len(t)) :
           u[i] = IF i <= Len(s) THEN s[i] ELSE t[i - Len(s)]
  BY <1>1, ConcatProperties
<1>3. Len(s) \in Nat /\ Len(t) \in Nat
  BY <1>1, LenProperties
<1>4. \A i \in 1..Len(s) : u[i] = s[i]
  BY <1>2, <1>3
<1>5. ASSUME NEW i \in 1..Len(t) PROVE u[Len(s) + i] = t[i]
  <2>1. Len(s) + i \in 1..(Len(s) + Len(t)) /\ ~(Len(s) + i <= Len(s))
        /\ (Len(s) + i) - Len(s) = i
    BY <1>3
  <2> QED
    BY <1>2, <2>1
<1>6. IsSeq(u) /\ ToSet(u) \subseteq S
  BY <1>2, SeqIsSeq
<1> HIDE DEF u
<1>7. ASSUME NEW x \in S PROVE x \in ToSet(u)
  <2>1. CASE x \in ToSet(s)
    <3>1. PICK i \in 1..Len(s) : s[i] = x
      BY <2>1, IsSeqProperties
    <3>2. i \in 1..Len(u)
      BY <1>2, <1>3
    <3> QED
      BY <1>4, <1>6, <3>1, <3>2, IsSeqProperties
  <2>2. CASE x \in ToSet(t)
    <3>1. PICK i \in 1..Len(t) : t[i] = x
      BY <2>2, IsSeqProperties
    <3>2. Len(s) + i \in 1..Len(u)
      BY <1>2, <1>3
    <3> QED
      BY <1>5, <1>6, <3>1, <3>2, IsSeqProperties
  <2> QED
    BY <2>1, <2>2
<1> QED
  BY <1>2, <1>4, <1>5, <1>6, <1>7 DEF u

LEMMA ConcatApart ==
    ASSUME NEW s, NEW t, NEW R, IsSeq(s), IsSeq(t), Apart(s, R), Apart(t, R),
           \A x \in ToSet(s), y \in ToSet(t) : <<x, y>> \in R
    PROVE  Apart(s \o t, R)
<1> DEFINE u == s \o t
<1>1. /\ Len(u) = Len(s) + Len(t) /\ Len(s) \in Nat /\ Len(t) \in Nat
      /\ \A i \in 1..Len(s) : u[i] = s[i] /\ s[i] \in ToSet(s)
      /\ \A i \in 1..Len(t) : u[Len(s) + i] = t[i] /\ t[i] \in ToSet(t)
  BY ConcatIsSeq, IsSeqProperties
<1> HIDE DEF u
<1>2. ASSUME NEW a \in 1..Len(u), NEW b \in 1..Len(u), a < b
      PROVE  <<u[a], u[b]>> \in R
  <2>1. CASE b <= Len(s)
    <3>1. a \in 1..Len(s) /\ b \in 1..Len(s)
      BY <1>1, <1>2, <2>1
    <3> QED
      BY <1>1, <1>2, <3>1 DEF Apart
  <2>2. CASE a <= Len(s) /\ ~(b <= Len(s))
    <3>1. a \in 1..Len(s) /\ b - Len(s) \in 1..Len(t) /\ Len(s) + (b - Len(s)) = b
      BY <1>1, <2>2
    <3>2. u[a] = s[a] /\ s[a] \in ToSet(s)
      BY <1>1, <3>1
    <3>3. u[b] = t[b - Len(s)] /\ t[b - Len(s)] \in ToSet(t)
      BY <1>1, <3>1
    <3> QED
      BY <3>2, <3>3
  <2>3. CASE ~(a <= Len(s))
    <3> DEFINE i == a - Len(s)  j == b - Len(s)
    <3>1. /\ i \in 1..Len(t) /\ j \in 1..Len(t) /\ i < j
          /\ Len(s) + i = a /\ Len(s) + j = b
      BY <1>1, <1>2, <2>3
    <3> HIDE DEF i, j
    <3>2. u[a] = t[i] /\ u[b] = t[j]
      BY <1>1, <3>1
    <3> QED
      BY <3>1, <3>2 DEF Apart
  <2> QED
    BY <1>1, <1>2, <2>1, <2>2, <2>3
<1> QED
  BY <1>2 DEF u, Apart

-----------------------------------------------------------------------------
(* FlattenSeq.                                                             *)

\* f is the function that FlattenSeq of the first n pieces of ss ends with.
Flattens(f, ss, n) ==
    f = [i \in 1..n |-> IF i = 1 THEN ss[i] ELSE f[i - 1] \o ss[i]]

LEMMA FlattenExists ==
    ASSUME NEW ss, NEW n \in Nat, n >= 1
    PROVE  \E f : Flattens(f, ss, n)
<1> DEFINE Bad == {m \in Nat : m >= 1 /\ ~\E f : Flattens(f, ss, m)}
<1>1. ASSUME Bad # {} PROVE FALSE
  <2>1. PICK m \in Bad : \A k \in Bad : m <= k
    BY <1>1, LeastNatural
  <2>2. m \in Nat /\ m >= 1
    BY <2>1
  <2>3. CASE m = 1
    <3> DEFINE f == [i \in 1..1 |-> ss[1]]
    <3>1. f = [i \in 1..1 |-> IF i = 1 THEN ss[i] ELSE f[i - 1] \o ss[i]]
      OBVIOUS
    <3> QED
      BY <2>1, <2>3, <3>1 DEF Flattens
  <2>4. CASE m # 1
    <3>1. m - 1 \in Nat /\ m - 1 >= 1 /\ m - 1 \notin Bad
      BY <2>1, <2>2, <2>4
    <3>2. PICK f : Flattens(f, ss, m - 1)
      BY <3>1
    <3> DEFINE g == [i \in 1..m |-> IF i = m THEN f[m - 1] \o ss[m] ELSE f[i]]
    <3>3. \A i \in 1..(m - 1) : f[i] = IF i = 1 THEN ss[i] ELSE f[i - 1] \o ss[i]
      BY <3>2 DEF Flattens
    <3>4. \A i \in 1..m : g[i] = IF i = 1 THEN ss[i] ELSE g[i - 1] \o ss[i]
      <4> SUFFICES ASSUME NEW i \in 1..m
                   PROVE  g[i] = IF i = 1 THEN ss[i] ELSE g[i - 1] \o ss[i]
        OBVIOUS
      <4>1. CASE i = m
        <5>1. m - 1 \in 1..m /\ m - 1 # m
          BY <3>1
        <5> QED
          BY <2>4, <4>1, <5>1
      <4>2. CASE i = 1
        <5>1. 1 \in 1..(m - 1) /\ 1 # m
          BY <3>1
        <5> QED
          BY <3>3, <4>2, <5>1
      <4>3. CASE i # m /\ i # 1
        <5>1. i \in 1..(m - 1) /\ i - 1 \in 1..m /\ i - 1 # m
          BY <2>2, <4>3
        <5> QED
          BY <3>3, <4>3, <5>1
      <4> QED
        BY <4>1, <4>2, <4>3
    <3>5. g = [i \in 1..m |-> g[i]]
      OBVIOUS
    <3> HIDE DEF g
    <3>6. Flattens(g, ss, m)
      BY <3>4, <3>5 DEF Flattens
    <3> QED
      BY <2>1, <3>6
  <2> QED
    BY <2>3, <2>4
<1> QED
  BY <1>1

LEMMA FlattenPieces ==
    ASSUME NEW ss, IsSeq(ss), Len(ss) # 0
    PROVE  \E f : /\ FlattenSeq(ss) = f[Len(ss)]
                  /\ f[1] = ss[1]
                  /\ \A i \in 2..Len(ss) : f[i] = f[i - 1] \o ss[i]
<1> DEFINE n == Len(ss)
           f == CHOOSE f : Flattens(f, ss, n)
<1>1. n \in Nat /\ n >= 1
  BY IsSeqProperties
<1>2. Flattens(f, ss, n)
  BY <1>1, FlattenExists
<1>3. FlattenSeq(ss) = f[n]
  BY DEF FlattenSeq, Flattens
<1> HIDE DEF f
<1>4. \A i \in 1..n : f[i] = IF i = 1 THEN ss[i] ELSE f[i - 1] \o ss[i]
  BY <1>2 DEF Flattens
<1>5. f[1] = ss[1]
  <2>1. 1 \in 1..n
    BY <1>1
  <2> QED
    BY <1>4, <2>1
<1>6. ASSUME NEW i \in 2..n PROVE f[i] = f[i - 1] \o ss[i]
  <2>1. i \in 1..n /\ i # 1
    BY <1>1
  <2> QED
    BY <1>4, <2>1
<1> QED
  BY <1>3, <1>5, <1>6

\* Its elements are those of the pieces, in the order of the pieces.
LEMMA FlattenProperties ==
    ASSUME NEW ss, IsSeq(ss), \A i \in 1..Len(ss) : IsSeq(ss[i])
    PROVE  /\ IsSeq(FlattenSeq(ss))
           /\ ToSet(FlattenSeq(ss)) = UNION {ToSet(ss[i]) : i \in 1..Len(ss)}
           /\ \A R : (/\ \A i \in 1..Len(ss) : Apart(ss[i], R)
                      /\ \A i, k \in 1..Len(ss) : i < k =>
                           \A x \in ToSet(ss[i]), y \in ToSet(ss[k]) : <<x, y>> \in R)
                     => Apart(FlattenSeq(ss), R)
<1> DEFINE n == Len(ss)
<1>0. n \in Nat
  BY IsSeqProperties
<1>1. CASE n = 0
  <2>1. ss = <<>>
    BY <1>1, IsSeqProperties, EmptySeq DEF IsSeq
  <2>2. FlattenSeq(ss) = <<>>
    BY <1>1, <2>1 DEF FlattenSeq
  <2>3. 1..n = {}
    BY <1>1
  <2> QED
    BY <2>2, <2>3, EmptyIsSeq
<1>2. CASE n # 0
  <2>1. PICK f : /\ FlattenSeq(ss) = f[n] /\ f[1] = ss[1]
                 /\ \A i \in 2..n : f[i] = f[i - 1] \o ss[i]
    BY <1>2, FlattenPieces
  <2> DEFINE Good(i) == /\ IsSeq(f[i])
                        /\ ToSet(f[i]) = UNION {ToSet(ss[k]) : k \in 1..i}
             Bad == {i \in 1..n : ~Good(i)}
  <2>2. Bad = {}
    <3> SUFFICES ASSUME Bad # {} PROVE FALSE
      OBVIOUS
    <3>1. PICK m \in Bad : \A k \in Bad : m <= k
      <4>1. Bad \in SUBSET Nat
        BY <1>0
      <4> QED
        BY <4>1, LeastNatural
    <3>2. CASE m = 1
      <4>1. 1..1 = {1}
        OBVIOUS
      <4> QED
        BY <2>1, <3>1, <3>2, <4>1
    <3>3. CASE m # 1
      <4>1. m - 1 \in 1..n /\ m \in 2..n /\ m - 1 \notin Bad
        BY <1>0, <3>1, <3>3
      <4>2. Good(m - 1) /\ f[m] = f[m - 1] \o ss[m] /\ IsSeq(ss[m])
        BY <2>1, <4>1
      <4>3. IsSeq(f[m]) /\ ToSet(f[m]) = ToSet(f[m - 1]) \cup ToSet(ss[m])
        BY <4>2, ConcatIsSeq
      <4>4. 1..m = 1..(m - 1) \cup {m}
        BY <1>0, <4>1
      <4>5. UNION {ToSet(ss[k]) : k \in 1..m}
              = (UNION {ToSet(ss[k]) : k \in 1..(m - 1)}) \cup ToSet(ss[m])
        BY <4>4
      <4> QED
        BY <3>1, <4>2, <4>3, <4>5
    <3> QED
      BY <3>2, <3>3
  <2>3. \A i \in 1..n : Good(i)
    BY <2>2
  <2>4. ASSUME NEW R, \A i \in 1..n : Apart(ss[i], R),
               \A i, k \in 1..n : i < k =>
                 \A x \in ToSet(ss[i]), y \in ToSet(ss[k]) : <<x, y>> \in R
        PROVE  Apart(f[n], R)
    <3> DEFINE Worse == {i \in 1..n : ~Apart(f[i], R)}
    <3>1. Worse = {}
      <4> SUFFICES ASSUME Worse # {} PROVE FALSE
        OBVIOUS
      <4>1. PICK m \in Worse : \A k \in Worse : m <= k
        <5>1. Worse \in SUBSET Nat
          BY <1>0
        <5> QED
          BY <5>1, LeastNatural
      <4>2. CASE m = 1
        BY <2>1, <2>4, <4>1, <4>2
      <4>3. CASE m # 1
        <5>1. m - 1 \in 1..n /\ m \in 2..n /\ m - 1 \notin Worse
          BY <1>0, <4>1, <4>3
        <5>2. Apart(f[m - 1], R) /\ f[m] = f[m - 1] \o ss[m] /\ Good(m - 1)
          BY <2>1, <2>3, <5>1
        <5>3. ASSUME NEW x \in ToSet(f[m - 1]), NEW y \in ToSet(ss[m])
              PROVE  <<x, y>> \in R
          <6>1. PICK k \in 1..(m - 1) : x \in ToSet(ss[k])
            BY <5>2
          <6>2. k \in 1..n /\ k < m
            BY <1>0, <5>1
          <6> QED
            BY <2>4, <6>1, <6>2
        <5>4. Apart(f[m - 1] \o ss[m], R)
          BY <2>4, <5>2, <5>3, ConcatApart
        <5> QED
          BY <4>1, <5>2, <5>4
      <4> QED
        BY <4>2, <4>3
    <3>2. n \in 1..n
      BY <1>0, <1>2
    <3> QED
      BY <3>1, <3>2
  <2>5. n \in 1..n
    BY <1>0, <1>2
  <2> HIDE DEF n
  <2> QED
    BY <2>1, <2>3, <2>4, <2>5 DEF n
<1> QED
  BY <1>1, <1>2

\* s holds the e[i] for the i of I, in their order.
Chosen(s, e, I) ==
    /\ IsSeq(s)
    /\ ToSet(s) = {e[i] : i \in I}
    /\ \A R : (\A i, k \in I : i < k => <<e[i], e[k]>> \in R) => Apart(s, R)

\* What is flattened from pieces that hold one element or none.
LEMMA FlattenChosen ==
    ASSUME NEW ss, IsSeq(ss), NEW I \in SUBSET (1..Len(ss)), NEW e,
           \A i \in 1..Len(ss) : ss[i] = IF i \in I THEN <<e[i]>> ELSE <<>>
    PROVE  Chosen(FlattenSeq(ss), e, I)
<1>1. \A i \in I : /\ i \in 1..Len(ss) /\ ss[i] = <<e[i]>>
                   /\ IsSeq(ss[i]) /\ ToSet(ss[i]) = {e[i]}
                   /\ \A R : Apart(ss[i], R)
  <2> SUFFICES ASSUME NEW i \in I
               PROVE  /\ i \in 1..Len(ss) /\ ss[i] = <<e[i]>>
                      /\ IsSeq(ss[i]) /\ ToSet(ss[i]) = {e[i]}
                      /\ \A R : Apart(ss[i], R)
    OBVIOUS
  <2>1. i \in 1..Len(ss) /\ ss[i] = <<e[i]>>
    OBVIOUS
  <2>2. IsSeq(<<e[i]>>) /\ ToSet(<<e[i]>>) = {e[i]} /\ \A R : Apart(<<e[i]>>, R)
    BY OneIsSeq
  <2> QED
    BY <2>1, <2>2
<1>2. \A i \in (1..Len(ss)) \ I : /\ IsSeq(ss[i]) /\ ToSet(ss[i]) = {}
                                  /\ \A R : Apart(ss[i], R)
  BY EmptyIsSeq
<1>3. UNION {ToSet(ss[i]) : i \in 1..Len(ss)} = {e[i] : i \in I}
  <2>1. ASSUME NEW i \in 1..Len(ss), NEW x \in ToSet(ss[i])
        PROVE  x \in {e[k] : k \in I}
    <3>1. i \in I
      BY <1>2
    <3> QED
      BY <1>1, <3>1
  <2>2. ASSUME NEW i \in I
        PROVE  e[i] \in UNION {ToSet(ss[k]) : k \in 1..Len(ss)}
    BY <1>1
  <2> QED
    BY <2>1, <2>2
<1>4. ASSUME NEW R, \A i, k \in I : i < k => <<e[i], e[k]>> \in R
      PROVE  Apart(FlattenSeq(ss), R)
  <2>1. ASSUME NEW i \in 1..Len(ss), NEW k \in 1..Len(ss), i < k,
               NEW x \in ToSet(ss[i]), NEW y \in ToSet(ss[k])
        PROVE  <<x, y>> \in R
    <3>1. i \in I /\ k \in I
      BY <1>2
    <3>2. x = e[i] /\ y = e[k]
      BY <1>1, <3>1
    <3> QED
      BY <1>4, <2>1, <3>1, <3>2
  <2>2. \A i \in 1..Len(ss) : IsSeq(ss[i]) /\ Apart(ss[i], R)
    BY <1>1, <1>2
  <2> QED
    BY <2>1, <2>2, FlattenProperties
<1>5. \A i \in 1..Len(ss) : IsSeq(ss[i])
  BY <1>1, <1>2
<1>6. IsSeq(FlattenSeq(ss)) /\ ToSet(FlattenSeq(ss)) = {e[i] : i \in I}
  BY <1>3, <1>5, FlattenProperties
<1> QED
  BY <1>4, <1>6 DEF Chosen
=============================================================================
