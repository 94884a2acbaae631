----------------------------- MODULE WireProofs -----------------------------
(****************************************************************************)
(* What is written is what is read: proofs about WireFormat, Structures,    *)
(* NetworkFees, Transactions, Documents and BlockSigning, for every object, *)
(* every value of its members and every list of transactions or votes.      *)
(*                                                                          *)
(*   Part 1  reading back what was written, member by member, by induction  *)
(*           over the list of the members; JSON; sizes                      *)
(*   Part 2  Documents: every structure, its committed form, and its fee    *)
(*   Part 3  BlockSigning: blocks, their hashes and their signatures        *)
(*                                                                          *)
(* The induction theorems of the library take an operator, which no prover  *)
(* here can be given.  Part 1 gets its own induction over a set of numbers  *)
(* from the well-foundedness of <, and states what it shows as such a set.  *)
(****************************************************************************)
EXTENDS Documents, BlockSigning, SequenceTheorems, FiniteSetTheorems, WellFoundedInduction, TLAPS

(******************************************************************************)
(* Part 1: what is written is read back                                       *)
(******************************************************************************)
-----------------------------------------------------------------------------
(* Induction.  The naturals are well founded, so a set of them has a least   *)
(* element; induction over a set follows.                                    *)

\* A set of naturals that is not empty has a least element.
LEMMA LeastNatural ==
    ASSUME NEW T, T \subseteq Nat, T # {}
    PROVE  \E x \in T : \A y \in T : x <= y
<1> DEFINE R == OpToRel(<, Nat)
<1>1. \A x, y \in Nat : x < y => <<x, y>> \in R
  BY DEF OpToRel
<1>2. IsWellFoundedOn(R, Nat)
  BY NatLessThanWellFounded
<1> HIDE DEF R
<1>3. PICK x \in T : \A y \in T : ~(<<y, x>> \in R)
  BY <1>2, WFMin
<1>4. ASSUME NEW y \in T PROVE x <= y
  <2>1. x \in Nat /\ y \in Nat
    OBVIOUS
  <2>2. ~(y < x)
    BY <1>1, <1>3, <2>1, Zenon
  <2> QED BY <2>1, <2>2
<1> QED BY <1>4

\* Induction: a set that has 0 and with every natural the next has them all.
LEMMA Induction ==
    ASSUME NEW S, 0 \in S, \A n \in Nat : n \in S => n + 1 \in S
    PROVE  \A n \in Nat : n \in S
<1> DEFINE T == Nat \ S
<1>1. SUFFICES ASSUME T # {} PROVE FALSE
  OBVIOUS
<1>2. PICK x \in T : \A y \in T : x <= y
  BY <1>1, LeastNatural
<1>3. x - 1 \in Nat /\ x - 1 \in S
  BY <1>2
<1> QED BY <1>2, <1>3

-----------------------------------------------------------------------------
(* FlattenSeq *)

\* g[i] is the concatenation of the first i of the n sequences of s.
Flattens(g, s, n) ==
    /\ g[0] = <<>>
    /\ \A i \in 1..n : g[i] = g[i - 1] \o s[i]

\* There is such a function, whatever s holds.
LEMMA FlattenExists ==
    ASSUME NEW s
    PROVE  \A n \in Nat : \E g : g = [i \in 0..n |-> g[i]] /\ Flattens(g, s, n)
<1> DEFINE P(n) == \E g : g = [i \in 0..n |-> g[i]] /\ Flattens(g, s, n)
           S == {n \in Nat : P(n)}
<1>1. 0 \in S
  <2> DEFINE g == [i \in 0..0 |-> <<>>]
  <2>1. g = [i \in 0..0 |-> g[i]] /\ Flattens(g, s, 0)
    BY DEF Flattens
  <2> QED BY <2>1
<1>2. ASSUME NEW n \in Nat, n \in S PROVE n + 1 \in S
  <2>1. PICK g : g = [i \in 0..n |-> g[i]] /\ Flattens(g, s, n)
    BY <1>2
  <2> DEFINE next == g[n] \o s[n + 1]
  <2> HIDE DEF next
  <2> DEFINE h == [i \in 0..(n + 1) |-> IF i = n + 1 THEN next ELSE g[i]]
  <2>2. \A i \in 0..n : h[i] = g[i]
    OBVIOUS
  <2>3. h[n + 1] = next
    OBVIOUS
  <2>4. h = [i \in 0..(n + 1) |-> h[i]]
    OBVIOUS
  <2> HIDE DEF h
  <2>5. Flattens(h, s, n + 1)
    <3>1. h[0] = <<>>
      BY <2>1, <2>2 DEF Flattens
    <3>2. ASSUME NEW i \in 1..(n + 1) PROVE h[i] = h[i - 1] \o s[i]
      <4>1. CASE i = n + 1
        <5>1. h[i] = next /\ h[i - 1] = g[n] /\ s[i] = s[n + 1]
          BY <4>1, <2>2, <2>3
        <5> QED BY <5>1, Zenon DEF next
      <4>2. CASE i # n + 1
        <5>1. i \in 1..n /\ h[i] = g[i] /\ h[i - 1] = g[i - 1]
          BY <4>2, <2>2
        <5> QED BY <5>1, <2>1 DEF Flattens
      <4> QED BY <4>1, <4>2
    <3> QED BY <3>1, <3>2 DEF Flattens
  <2>6. P(n + 1)
    BY <2>4, <2>5
  <2> QED BY <2>6
<1> HIDE DEF P
<1>3. \A n \in Nat : n \in S
  <2> HIDE DEF S
  <2> QED BY <1>1, <1>2, Induction
<1> QED BY <1>3 DEF P

\* FlattenSeq, a recursive function in the library, ends with that of all.
LEMMA FlattenFunction ==
    ASSUME NEW T, NEW s \in Seq(Seq(T))
    PROVE  \E g \in [0..Len(s) -> Seq(T)] :
               Flattens(g, s, Len(s)) /\ FlattenSeq(s) = g[Len(s)]
<1> DEFINE N == Len(s)
<1>1. N \in Nat /\ \A i \in 1..N : s[i] \in Seq(T)
  BY LenProperties, ElementOfSeq
<1>2. FlattenSeq(s) = IF N = 0 THEN s
                      ELSE (CHOOSE f : f = [i \in 1..N |-> IF i = 1 THEN s[i] ELSE f[i - 1] \o s[i]])[N]
  BY DEF FlattenSeq
<1>3. N = 0 => s = <<>>
  BY EmptySeq
<1> HIDE DEF N
<1>4. PICK g : g = [i \in 0..N |-> g[i]] /\ Flattens(g, s, N)
  BY <1>1, FlattenExists
<1>5. \A i \in 0..N : g[i] \in Seq(T)
  <2> DEFINE S == {n \in Nat : n <= N => g[n] \in Seq(T)}
  <2>1. 0 \in S
    <3>1. g[0] = <<>> /\ <<>> \in Seq(T)
      BY <1>4, EmptySeq DEF Flattens
    <3> QED BY <3>1
  <2>2. ASSUME NEW n \in Nat, n \in S PROVE n + 1 \in S
    <3> SUFFICES ASSUME n + 1 <= N PROVE g[n + 1] \in Seq(T)
      OBVIOUS
    <3>1. g[n] \in Seq(T)
      BY <2>2, <1>1
    <3>2. s[n + 1] \in Seq(T)
      BY <1>1
    <3>3. g[n + 1] = g[n] \o s[n + 1]
      <4>1. n + 1 \in 1..N /\ (n + 1) - 1 = n
        BY <1>1
      <4> QED BY <1>4, <4>1 DEF Flattens
    <3> QED BY <3>1, <3>2, <3>3, ConcatProperties
  <2>3. \A n \in Nat : n \in S
    <3> HIDE DEF S
    <3> QED BY <2>1, <2>2, Induction
  <2> QED BY <2>3, <1>1
<1>6. g \in [0..N -> Seq(T)]
  BY <1>4, <1>5
<1>7. CASE N = 0
  BY <1>2, <1>3, <1>4, <1>6, <1>7 DEF N, Flattens
<1>8. CASE N # 0
  <2> DEFINE D(f) == [i \in 1..N |-> IF i = 1 THEN s[i] ELSE f[i - 1] \o s[i]]
             h == [i \in 1..N |-> g[i]]
  <2>1. g[1] = s[1]
    <3>1. 1 \in 1..N /\ 1 - 1 = 0
      BY <1>1, <1>8
    <3>2. g[1] = g[0] \o s[1] /\ g[0] = <<>>
      BY <1>4, <3>1 DEF Flattens
    <3>3. <<>> \o s[1] = s[1]
      BY <1>1, <3>1, ConcatEmptySeq
    <3> QED BY <3>2, <3>3
  <2>2. ASSUME NEW i \in 1..N, i # 1 PROVE i - 1 \in 1..N /\ g[i] = g[i - 1] \o s[i]
    <3>1. i - 1 \in 1..N
      BY <1>1, <2>2
    <3> QED BY <1>4, <3>1, Zenon DEF Flattens
  <2>3. h = D(h)
    <3>1. ASSUME NEW i \in 1..N PROVE g[i] = IF i = 1 THEN s[i] ELSE h[i - 1] \o s[i]
      <4>1. CASE i = 1
        BY <2>1, <4>1
      <4>2. CASE i # 1
        <5>1. h[i - 1] = g[i - 1]
          BY <2>2, <4>2
        <5> QED BY <4>2, <2>2, <5>1
      <4> QED BY <4>1, <4>2
    <3> QED BY <3>1, Zenon
  <2> DEFINE flatten == CHOOSE f : f = D(f)
  <2>4. flatten = D(flatten)
    <3>1. \E f : f = D(f)
      BY <2>3, Zenon
    <3> QED BY <3>1, Zenon
  <2>5. FlattenSeq(s) = flatten[N]
    BY <1>2, <1>8, Zenon
  <2> HIDE DEF flatten, h
  <2>6. ASSUME NEW i \in 1..N PROVE flatten[i] = IF i = 1 THEN s[i] ELSE flatten[i - 1] \o s[i]
    <3>1. flatten[i] = D(flatten)[i]
      BY <2>4, Zenon
    <3>2. D(flatten)[i] = IF i = 1 THEN s[i] ELSE flatten[i - 1] \o s[i]
      BY Zenon
    <3> QED BY <3>1, <3>2, Zenon
  <2> HIDE DEF D
  <2> DEFINE S == {n \in Nat : n + 1 \in 1..N => flatten[n + 1] = g[n + 1]}
  <2>7. 0 \in S
    BY <2>1, <2>6
  <2>8. ASSUME NEW n \in Nat, n \in S PROVE n + 1 \in S
    <3> SUFFICES ASSUME (n + 1) + 1 \in 1..N PROVE flatten[(n + 1) + 1] = g[(n + 1) + 1]
      OBVIOUS
    <3> DEFINE k == (n + 1) + 1
    <3>1. k \in 1..N /\ k # 1 /\ k - 1 = n + 1 /\ n + 1 \in 1..N
      BY <1>1
    <3>2. flatten[k - 1] = g[k - 1]
      BY <2>8, <3>1
    <3> HIDE DEF k
    <3>3. flatten[k] = flatten[k - 1] \o s[k] /\ g[k] = g[k - 1] \o s[k]
      BY <2>2, <2>6, <3>1, Zenon
    <3>4. flatten[k] = g[k]
      BY <3>2, <3>3, Zenon
    <3> QED BY <3>4 DEF k
  <2>9. N - 1 \in Nat /\ N - 1 \in S
    <3>1. \A n \in Nat : n \in S
      <4> HIDE DEF S
      <4> QED BY <2>7, <2>8, Induction
    <3> QED BY <1>1, <1>8, <3>1
  <2>10. flatten[N] = g[N]
    BY <1>1, <1>8, <2>9
  <2> QED BY <1>4, <1>6, <2>5, <2>10 DEF N
<1> QED BY <1>7, <1>8

\* Where each sequence lies in the concatenation g[N] of all.
Parts(g, s, N) ==
    \A i \in 1..N :
        /\ Len(g[i]) = Len(g[i - 1]) + Len(s[i])
        /\ Len(g[i]) <= Len(g[N])
        /\ \A k \in 1..Len(s[i]) : g[N][Len(g[i - 1]) + k] = s[i][k]

\* A flattening of sequences of T.
Flattening(T, g, s, N) ==
    N \in Nat /\ s \in [1..N -> Seq(T)] /\ g \in [0..N -> Seq(T)] /\ Flattens(g, s, N)

\* Each part stands in the whole after the parts before it.
LEMMA FlattenPart ==
    ASSUME NEW T, NEW N, NEW s, NEW g, Flattening(T, g, s, N)
    PROVE  Parts(g, s, N)
<1> USE DEF Flattening
<1> SUFFICES ASSUME NEW i \in 1..N
             PROVE  /\ Len(g[i]) = Len(g[i - 1]) + Len(s[i])
                    /\ Len(g[i]) <= Len(g[N])
                    /\ \A k \in 1..Len(s[i]) : g[N][Len(g[i - 1]) + k] = s[i][k]
  BY DEF Parts
<1>1. ASSUME NEW j \in 1..N
      PROVE  /\ g[j] \in Seq(T) /\ g[j - 1] \in Seq(T) /\ s[j] \in Seq(T)
             /\ Len(g[j]) \in Nat /\ Len(g[j - 1]) \in Nat /\ Len(s[j]) \in Nat
             /\ g[j] = g[j - 1] \o s[j]
             /\ Len(g[j]) = Len(g[j - 1]) + Len(s[j])
             /\ \A k \in 1..Len(g[j - 1]) : g[j][k] = g[j - 1][k]
             /\ \A k \in 1..Len(s[j]) : g[j][Len(g[j - 1]) + k] = s[j][k]
  <2>1. j \in 0..N /\ j - 1 \in 0..N
    OBVIOUS
  <2>2. g[j] \in Seq(T) /\ g[j - 1] \in Seq(T) /\ s[j] \in Seq(T)
    BY <2>1
  <2>3. g[j] = g[j - 1] \o s[j]
    BY Zenon DEF Flattens
  <2>4. Len(g[j]) \in Nat /\ Len(g[j - 1]) \in Nat /\ Len(s[j]) \in Nat
    BY <2>2, LenProperties
  <2> DEFINE a == g[j - 1]
             b == s[j]
  <2>5. /\ Len(a \o b) = Len(a) + Len(b)
        /\ \A k \in 1..Len(a) + Len(b) : (a \o b)[k] = IF k <= Len(a) THEN a[k] ELSE b[k - Len(a)]
    <3> HIDE DEF a, b
    <3> QED BY <2>2, ConcatProperties DEF a, b
  <2>6. \A k \in 1..Len(a) : k \in 1..Len(a) + Len(b) /\ k <= Len(a)
    BY <2>4
  <2>7. \A k \in 1..Len(b) : /\ Len(a) + k \in 1..Len(a) + Len(b)
                              /\ ~(Len(a) + k <= Len(a))
                              /\ (Len(a) + k) - Len(a) = k
    BY <2>4
  <2>8. g[j] = a \o b
    BY <2>3
  <2> HIDE DEF a, b
  <2>9. /\ Len(g[j]) = Len(a) + Len(b)
        /\ \A k \in 1..Len(a) : g[j][k] = a[k]
        /\ \A k \in 1..Len(b) : g[j][Len(a) + k] = b[k]
    BY <2>5, <2>6, <2>7, <2>8, Zenon
  <2> QED BY <2>2, <2>3, <2>4, <2>9, Zenon DEF a, b
<1> DEFINE P(m) == /\ Len(g[i]) <= Len(g[m])
                   /\ \A k \in 1..Len(g[i]) : g[m][k] = g[i][k]
           S == {m \in Nat : i + m <= N => P(i + m)}
<1>2. 0 \in S
  BY <1>1
<1>3. ASSUME NEW m \in Nat, m \in S PROVE m + 1 \in S
  <2> SUFFICES ASSUME i + (m + 1) <= N PROVE P(i + (m + 1))
    OBVIOUS
  <2> DEFINE j == i + (m + 1)
  <2>1. j \in 1..N /\ j - 1 = i + m /\ P(j - 1)
    BY <1>3
  <2> HIDE DEF j
  <2>2. Len(g[i]) \in Nat /\ Len(g[j - 1]) \in Nat /\ Len(s[j]) \in Nat
    BY <1>1, <2>1
  <2>3. Len(g[i]) <= Len(g[j])
    BY <1>1, <2>1, <2>2
  <2>4. ASSUME NEW k \in 1..Len(g[i]) PROVE g[j][k] = g[i][k]
    <3>1. k \in 1..Len(g[j - 1])
      BY <2>1, <2>2
    <3> QED BY <1>1, <2>1, <3>1, Zenon
  <2> QED BY <2>3, <2>4 DEF j
<1>4. P(N)
  <2>1. \A m \in Nat : m \in S
    <3> HIDE DEF S
    <3> QED BY <1>2, <1>3, Induction
  <2>2. N - i \in Nat /\ i + (N - i) = N /\ N <= N
    OBVIOUS
  <2> HIDE DEF P
  <2>3. i + (N - i) <= N => P(i + (N - i))
    BY <2>1, <2>2
  <2> QED BY <2>2, <2>3
<1>5. ASSUME NEW k \in 1..Len(s[i]) PROVE g[N][Len(g[i - 1]) + k] = s[i][k]
  <2>1. Len(g[i - 1]) + k \in 1..Len(g[i])
    BY <1>1
  <2> QED BY <1>1, <1>4, <2>1, Zenon
<1> QED BY <1>1, <1>4, <1>5

\* Sequences of one width.
LEMMA FlattenWidth ==
    ASSUME NEW T, NEW s \in Seq(Seq(T)), NEW w \in Nat, \A i \in 1..Len(s) : Len(s[i]) = w
    PROVE  /\ FlattenSeq(s) \in Seq(T)
           /\ Len(FlattenSeq(s)) = w * Len(s)
           /\ \A i \in 1..Len(s), k \in 1..w : FlattenSeq(s)[w * (i - 1) + k] = s[i][k]
<1> DEFINE N == Len(s)
<1>1. N \in Nat /\ s \in [1..N -> Seq(T)]
  BY LenProperties
<1>2. PICK g \in [0..N -> Seq(T)] : Flattens(g, s, N) /\ FlattenSeq(s) = g[N]
  BY FlattenFunction
<1>3. \A i \in 1..N : Len(s[i]) = w
  OBVIOUS
<1> HIDE DEF N
<1>a. ASSUME NEW i \in 1..N
      PROVE  /\ Len(g[i]) = Len(g[i - 1]) + Len(s[i])
             /\ Len(g[i]) <= Len(g[N])
             /\ \A k \in 1..Len(s[i]) : g[N][Len(g[i - 1]) + k] = s[i][k]
  <2>1. Flattening(T, g, s, N)
    BY <1>1, <1>2 DEF Flattening
  <2>2. Parts(g, s, N)
    BY <2>1, FlattenPart
  <2> QED BY <2>2 DEF Parts
<1>4. \A m \in 0..N : Len(g[m]) = w * m
  <2> DEFINE S == {m \in Nat : m <= N => Len(g[m]) = w * m}
  <2>1. 0 \in S
    <3>1. Len(g[0]) = 0
      BY <1>2, EmptySeq DEF Flattens
    <3> QED BY <3>1
  <2>2. ASSUME NEW m \in Nat, m \in S PROVE m + 1 \in S
    <3> SUFFICES ASSUME m + 1 <= N PROVE Len(g[m + 1]) = w * (m + 1)
      OBVIOUS
    <3>1. m + 1 \in 1..N /\ (m + 1) - 1 = m /\ Len(g[m]) = w * m
      BY <1>1, <2>2
    <3>2. Len(g[m + 1]) = Len(g[m]) + Len(s[m + 1])
      BY <1>a, <3>1
    <3>3. w * (m + 1) = w * m + w
      OBVIOUS
    <3> QED BY <1>3, <3>1, <3>2, <3>3
  <2>3. \A m \in Nat : m \in S
    <3> HIDE DEF S
    <3> QED BY <2>1, <2>2, Induction
  <2> QED BY <1>1, <2>3
<1>5. ASSUME NEW i \in 1..N, NEW k \in 1..w PROVE g[N][w * (i - 1) + k] = s[i][k]
  <2>1. Len(g[i - 1]) = w * (i - 1)
    <3>1. i - 1 \in 0..N
      BY <1>1
    <3> QED BY <3>1, <1>4, Zenon
  <2>2. k \in 1..Len(s[i])
    BY <1>3
  <2>3. g[N][Len(g[i - 1]) + k] = s[i][k]
    BY <1>a, <2>2, Zenon
  <2> QED BY <2>1, <2>3
<1>6. g[N] \in Seq(T) /\ Len(g[N]) = w * N
  BY <1>1, <1>2, <1>4
<1> QED BY <1>2, <1>5, <1>6 DEF N

-----------------------------------------------------------------------------
(* Members *)

IsSequence(v) == \E V : v \in Seq(V)

\* What a vector's elements are made of: one plain value, or named members.
ElementsOK(of) ==
    /\ IsSequence(of) /\ Len(of) >= 1
    /\ \A i, j \in DOMAIN of : of[i].name = of[j].name => i = j
    /\ of[1].name = Itself => Len(of) = 1
    /\ of[1].name # Itself => \A i \in DOMAIN of : of[i].name # Itself

FieldOK(f) == Counted(f) => ElementsOK(f.of)

\* Values that reading leaves as they are: only an address in its compatible
\* form is changed (normalize_v4_embedded).
ElementStorable(of, e) ==
    of[1].name # Itself =>
        /\ e = [n \in Names(of) |-> e[n]]
        /\ \A k \in DOMAIN of : Loaded(of[k], e[of[k].name]) = e[of[k].name]

Storable(f, v) ==
    IF Counted(f) THEN IsSequence(v) /\ \A i \in DOMAIN v : ElementStorable(f.of, v[i])
    ELSE Loaded(f, v) = v

\* data and whole agree as far as both go: data is whole and more, or whole
\* cut short.
Agree(data, whole) == \A j \in 1..Len(data) : j <= Len(whole) => data[j] = whole[j]

\* An element is read back from its tokens, which have the kinds that
\* ReadVector asks for.
LEMMA ElementRead ==
    ASSUME NEW of, ElementsOK(of), NEW e, ElementStorable(of, e)
    PROVE  /\ DOMAIN Element(of, e) = 1..Len(of)
           /\ Kinds(Element(of, e)) = [k \in DOMAIN of |-> of[k].kind]
           /\ ReadElement(of, Element(of, e)) = e
<1> DEFINE E == Element(of, e)
<1>1. Len(of) \in Nat /\ Len(of) >= 1 /\ DOMAIN of = 1..Len(of)
  BY LenProperties DEF ElementsOK, IsSequence
<1>2. E = [i \in DOMAIN of |-> <<of[i].kind, IF of[i].name = Itself THEN e ELSE e[of[i].name]>>]
  BY DEF Element, Token
<1> HIDE DEF E
<1>3. DOMAIN E = 1..Len(of)
  BY <1>1, <1>2
<1>4. \A i \in DOMAIN of : /\ E[i][1] = of[i].kind
                           /\ E[i][2] = IF of[i].name = Itself THEN e ELSE e[of[i].name]
  BY <1>2
<1>5. Kinds(E) = [k \in DOMAIN of |-> of[k].kind]
  BY <1>1, <1>3, <1>4 DEF Kinds
<1>6. ReadElement(of, E) = e
  <2>1. CASE of[1].name = Itself
    <3>1. ReadElement(of, E) = E[1][2]
      BY <2>1, Zenon DEF ReadElement
    <3>2. E[1][2] = e
      <4>1. 1 \in DOMAIN of
        BY <1>1
      <4> QED BY <1>4, <2>1, <4>1, Zenon
    <3> QED BY <3>1, <3>2
  <2>2. CASE of[1].name # Itself
    <3>1. ASSUME NEW n \in Names(of)
          PROVE  Loaded(of[CHOOSE k \in DOMAIN of : of[k].name = n],
                        E[CHOOSE k \in DOMAIN of : of[k].name = n][2]) = e[n]
      <4> DEFINE i == CHOOSE k \in DOMAIN of : of[k].name = n
      <4>1. i \in DOMAIN of /\ of[i].name = n
        BY <3>1 DEF Names
      <4> HIDE DEF i
      <4>2. of[i].name # Itself
        BY <2>2, <4>1 DEF ElementsOK
      <4>3. E[i][2] = e[n]
        BY <1>4, <4>1, <4>2
      <4>4. Loaded(of[i], e[n]) = e[n]
        BY <2>2, <4>1 DEF ElementStorable
      <4>5. Loaded(of[i], E[i][2]) = e[n]
        BY <4>3, <4>4
      <4> QED BY <4>5 DEF i
    <3>2. ReadElement(of, E) = [n \in Names(of) |-> e[n]]
      BY <2>2, <3>1 DEF ReadElement
    <3> QED BY <2>2, <3>2 DEF ElementStorable
  <2> QED BY <2>1, <2>2
<1> QED BY <1>3, <1>5, <1>6 DEF E

\* Products of a width.
LEMMA WidthTimes ==
    ASSUME NEW w \in Nat, NEW c \in Nat
    PROVE  /\ w * c \in Nat
           /\ \A i \in 1..c : /\ w * (i - 1) \in Nat /\ w * i \in Nat
                             /\ w * i = w * (i - 1) + w /\ w * i <= w * c
<1>1. ASSUME NEW i \in 1..c
      PROVE  w * (i - 1) \in Nat /\ w * i \in Nat /\ w * i = w * (i - 1) + w /\ w * i <= w * c
  <2>1. w * (c - i) \in Nat /\ w * c = w * i + w * (c - i)
    OBVIOUS
  <2> QED BY <2>1
<1> QED BY <1>1

\* The tokens of a vector's elements.
ElementTokens(f, v) == FlattenSeq([i \in DOMAIN v |-> Element(f.of, v[i])])

ElementsLaid(f, v) ==
    \A i \in 1..Len(v), k \in 1..Len(f.of) :
        ElementTokens(f, v)[Len(f.of) * (i - 1) + k] = Element(f.of, v[i])[k]

\* The elements of a vector are written one after the other, each with as
\* many tokens as an element has members.
LEMMA ElementsShape ==
    ASSUME NEW f, FieldOK(f), Counted(f), NEW v, Storable(f, v)
    PROVE  /\ Len(v) \in Nat /\ DOMAIN v = 1..Len(v) /\ Len(f.of) \in Nat
           /\ IsSequence(ElementTokens(f, v))
           /\ Len(ElementTokens(f, v)) = Len(f.of) * Len(v)
           /\ ElementsLaid(f, v)
<1> DEFINE of == f.of
           w == Len(of)
           N == Len(v)
           s == [i \in DOMAIN v |-> Element(of, v[i])]
           T == UNION {{Element(of, v[i])[k] : k \in 1..w} : i \in 1..N}
<1>1. ElementsOK(of)
  BY DEF FieldOK
<1>2. w \in Nat
  BY <1>1, LenProperties DEF ElementsOK, IsSequence
<1>3. N \in Nat /\ DOMAIN v = 1..N
  BY LenProperties DEF Storable, IsSequence
<1>4. \A i \in 1..N : ElementStorable(of, v[i])
  BY <1>3 DEF Storable
<1>5. ASSUME NEW i \in 1..N PROVE Element(of, v[i]) \in Seq(T) /\ Len(Element(of, v[i])) = w
  <2> DEFINE E == Element(of, v[i])
  <2>1. DOMAIN E = 1..w
    BY <1>1, <1>4, ElementRead
  <2>2. E = [k \in 1..w |-> E[k]]
    BY <2>1 DEF Element
  <2>3. \A k \in 1..w : E[k] \in T
    OBVIOUS
  <2> HIDE DEF E, T, w
  <2>4. E \in [1..w -> T]
    BY <2>2, <2>3
  <2>5. E \in Seq(T)
    BY <2>4, <1>2, SeqDef
  <2>6. Len(E) = w
    BY <2>1, <2>5, <1>2, LenProperties
  <2> QED BY <2>5, <2>6 DEF E
<1> HIDE DEF w, N, T
<1>6. s \in Seq(Seq(T)) /\ Len(s) = N /\ \A i \in 1..N : s[i] = Element(of, v[i])
  <2>1. s \in [1..N -> Seq(T)]
    BY <1>3, <1>5
  <2>2. s \in Seq(Seq(T))
    BY <2>1, <1>3, SeqDef
  <2>3. DOMAIN s = 1..N
    BY <1>3
  <2> HIDE DEF s
  <2>4. Len(s) = N
    BY <2>2, <2>3, <1>3, LenProperties
  <2> QED BY <2>2, <2>4, <1>3 DEF s
<1> HIDE DEF s
<1>7. \A i \in 1..Len(s) : Len(s[i]) = w
  BY <1>5, <1>6
<1>8. /\ FlattenSeq(s) \in Seq(T)
      /\ Len(FlattenSeq(s)) = w * Len(s)
      /\ \A i \in 1..Len(s), k \in 1..w : FlattenSeq(s)[w * (i - 1) + k] = s[i][k]
  BY <1>2, <1>6, <1>7, FlattenWidth
<1>9. ElementTokens(f, v) = FlattenSeq(s)
  BY DEF ElementTokens, s
<1>10. IsSequence(ElementTokens(f, v))
  BY <1>8, <1>9 DEF IsSequence
<1>11. \A i \in 1..N, k \in 1..w : ElementTokens(f, v)[w * (i - 1) + k] = Element(of, v[i])[k]
  BY <1>6, <1>8, <1>9, Zenon
<1>12. ElementsLaid(f, v)
  BY <1>11, Zenon DEF ElementsLaid, N, w
<1> QED BY <1>2, <1>3, <1>6, <1>8, <1>9, <1>10, <1>12 DEF N, w

\* A vector that is there in full is read back; one that is cut short is not
\* read at all.
LEMMA VectorRead ==
    ASSUME NEW f, FieldOK(f), Counted(f), NEW v, Storable(f, v),
           NEW T, NEW rest \in Seq(T), Agree(rest, ElementTokens(f, v)), NEW r
    PROVE  /\ Len(rest) < Len(ElementTokens(f, v)) => ReadVector(r, f, Len(v), rest) = Thrown
           /\ Len(rest) >= Len(ElementTokens(f, v)) =>
                ReadVector(r, f, Len(v), rest) =
                    [in |-> SubSeq(rest, Len(ElementTokens(f, v)) + 1, Len(rest)), ok |-> TRUE,
                     out |-> Assigned(r.out, f.name, v)]
<1> DEFINE of == f.of
           w == Len(of)
           N == Len(v)
           L == Len(rest)
           el(i) == SubSeq(rest, w * (i - 1) + 1, w * i)
           good == \A i \in 1..N : Kinds(el(i)) = [k \in DOMAIN of |-> of[k].kind]
           B == ElementTokens(f, v)
<1>1. N \in Nat /\ DOMAIN v = 1..N /\ w \in Nat /\ Len(B) = w * N
  BY ElementsShape
<1>2. \A i \in 1..N, k \in 1..w : B[w * (i - 1) + k] = Element(of, v[i])[k]
  <2>1. ElementsLaid(f, v)
    BY ElementsShape
  <2> QED BY <2>1, Zenon DEF ElementsLaid
<1>3. L \in Nat /\ DOMAIN rest = 1..L
  BY LenProperties
<1>4. ElementsOK(of) /\ \A i \in 1..N : ElementStorable(of, v[i])
  BY <1>1 DEF FieldOK, Storable
<1>5. ReadVector(r, f, N, rest) =
        IF w * N <= L /\ good
        THEN [in |-> SubSeq(rest, w * N + 1, L), ok |-> TRUE,
              out |-> Assigned(r.out, f.name, [i \in 1..N |-> ReadElement(of, el(i))])]
        ELSE Thrown
  BY DEF ReadVector
<1>6. \A j \in 1..L : j <= w * N => rest[j] = B[j]
  BY <1>1 DEF Agree
<1> HIDE DEF w, N, L, B
<1>7. CASE ~(w * N <= L)
  BY <1>1, <1>3, <1>5, <1>7, WidthTimes DEF N, L, B
<1>8. CASE w * N <= L
  <2>1. ASSUME NEW i \in 1..N PROVE el(i) = Element(of, v[i])
    <3> DEFINE a == w * (i - 1)
               b == w * i
               E == Element(of, v[i])
    <3>1. a \in Nat /\ b \in Nat /\ b = a + w /\ b <= L /\ b <= w * N /\ w * N \in Nat
      BY <1>1, <1>3, <1>8, WidthTimes
    <3>2. DOMAIN E = 1..w /\ E = [k \in DOMAIN E |-> E[k]]
      BY <1>4, ElementRead DEF Element, w
    <3>3. \A k \in 1..w : B[a + k] = E[k]
      BY <1>2
    <3> HIDE DEF a, b, E
    <3>4. \A j \in (a + 1)..b : rest[j] \in T
      BY <1>3, <3>1, ElementOfSeq DEF L
    <3> DEFINE x == SubSeq(rest, a + 1, b)
    <3>5. /\ x \in Seq(T) /\ Len(x) = IF a + 1 <= b THEN b - (a + 1) + 1 ELSE 0
          /\ \A k \in 1..b - (a + 1) + 1 : x[k] = rest[(a + 1) + k - 1]
      BY <3>1, <3>4, SubSeqProperties
    <3>6. Len(x) = w
      BY <1>1, <3>1, <3>5
    <3>7. ASSUME NEW k \in 1..w PROVE x[k] = E[k]
      <4>1. a + k \in 1..L /\ a + k <= w * N /\ (a + 1) + k - 1 = a + k
            /\ k \in 1..b - (a + 1) + 1
        BY <1>1, <1>3, <3>1
      <4>2. x[k] = rest[a + k]
        BY <3>5, <4>1
      <4>3. rest[a + k] = B[a + k]
        BY <1>6, <4>1
      <4> QED BY <3>3, <4>2, <4>3
    <3>8. DOMAIN x = 1..w /\ x = [k \in DOMAIN x |-> x[k]]
      BY <3>5, <3>6, LenProperties
    <3> HIDE DEF x
    <3>9. x = E
      BY <3>2, <3>7, <3>8
    <3> QED BY <3>9 DEF x, a, b, E
  <2>2. good
    <3>1. \A i \in 1..N : Kinds(Element(of, v[i])) = [k \in DOMAIN of |-> of[k].kind]
      BY <1>4, ElementRead, Zenon
    <3> QED BY <2>1, <3>1, Zenon
  <2>3. [i \in 1..N |-> ReadElement(of, el(i))] = v
    <3>1. \A i \in 1..N : ReadElement(of, el(i)) = v[i]
      BY <1>4, <2>1, ElementRead
    <3>2. v = [i \in 1..N |-> v[i]]
      BY <1>1 DEF Storable, IsSequence
    <3> HIDE DEF el
    <3> QED BY <3>1, <3>2
  <2> HIDE DEF el, good
  <2>4. ReadVector(r, f, N, rest) = [in |-> SubSeq(rest, w * N + 1, L), ok |-> TRUE,
                                     out |-> Assigned(r.out, f.name, v)]
    BY <1>5, <1>8, <2>2, <2>3, Zenon
  <2>5. ~(L < w * N)
    BY <1>1, <1>3, <1>8, WidthTimes
  <2> QED BY <1>1, <2>4, <2>5 DEF N, L, B
<1> QED BY <1>7, <1>8

\* The tokens of a member: one, or a count and the block of its elements.
LEMMA EmittedShape ==
    ASSUME NEW f, FieldOK(f), NEW v, Storable(f, v)
    PROVE  /\ IsSequence(Emitted(f, v))
           /\ ~Counted(f) => Len(Emitted(f, v)) = 1 /\ Emitted(f, v)[1] = <<f.kind, v>>
           /\ Counted(f) => /\ Len(ElementTokens(f, v)) \in Nat
                            /\ Len(Emitted(f, v)) = Len(ElementTokens(f, v)) + 1
                            /\ Emitted(f, v)[1] = <<"varint", Len(v)>>
                            /\ \A k \in 1..Len(ElementTokens(f, v)) : Emitted(f, v)[k + 1] = ElementTokens(f, v)[k]
<1>1. CASE ~Counted(f)
  <2>1. Emitted(f, v) = <<<<f.kind, v>>>>
    BY <1>1 DEF Emitted, Token
  <2>2. Emitted(f, v) \in Seq({<<f.kind, v>>})
    BY <2>1
  <2>3. IsSequence(Emitted(f, v))
    BY <2>2, Zenon DEF IsSequence
  <2>4. Len(Emitted(f, v)) = 1 /\ Emitted(f, v)[1] = <<f.kind, v>>
    BY <2>1
  <2> QED BY <1>1, <2>3, <2>4, Zenon
<1>2. CASE Counted(f)
  <2> DEFINE head == <<<<"varint", Len(v)>>>>
             B == ElementTokens(f, v)
  <2>1. Emitted(f, v) = head \o B
    BY <1>2 DEF Emitted, Token, varint, Field, ElementTokens
  <2>2. PICK V : B \in Seq(V)
    BY <1>2, ElementsShape DEF IsSequence
  <2> DEFINE T == V \cup {<<"varint", Len(v)>>}
  <2>3. B \in Seq(T)
    BY <2>2, SeqMonotonic
  <2>4. head \in Seq(T) /\ Len(head) = 1 /\ head[1] = <<"varint", Len(v)>>
    OBVIOUS
  <2> HIDE DEF head, B, T
  <2>5. Len(B) \in Nat
    BY <2>3, LenProperties
  <2>6. /\ head \o B \in Seq(T)
        /\ Len(head \o B) = Len(head) + Len(B)
        /\ \A i \in 1..Len(head) + Len(B) :
              (head \o B)[i] = IF i <= Len(head) THEN head[i] ELSE B[i - Len(head)]
    BY <2>3, <2>4, ConcatProperties
  <2> DEFINE E == head \o B
  <2> HIDE DEF E
  <2>7. /\ Len(E) = 1 + Len(B)
        /\ \A i \in 1..1 + Len(B) : E[i] = IF i <= 1 THEN head[i] ELSE B[i - 1]
    BY <2>4, <2>6 DEF E
  <2>8. E[1] = head[1]
    BY <2>5, <2>7
  <2>9. ASSUME NEW k \in 1..Len(B) PROVE E[k + 1] = B[k]
    <3>1. k + 1 \in 1..1 + Len(B) /\ ~(k + 1 <= 1) /\ (k + 1) - 1 = k
      BY <2>5
    <3> QED BY <2>7, <3>1
  <2>10. IsSequence(Emitted(f, v))
    BY <2>1, <2>6 DEF IsSequence
  <2>11. Emitted(f, v) = E
    BY <2>1 DEF E
  <2> QED BY <1>2, <2>4, <2>5, <2>7, <2>8, <2>9, <2>10, <2>11 DEF B
<1> QED BY <1>1, <1>2

\* What is left of what is left.
LEMMA SubSeqShift ==
    ASSUME NEW T, NEW s \in Seq(T), NEW a \in Nat, NEW b \in Nat, a <= Len(s)
    PROVE  /\ SubSeq(s, a + 1, Len(s)) \in Seq(T)
           /\ Len(SubSeq(s, a + 1, Len(s))) = Len(s) - a
           /\ \A i \in 1..Len(s) - a : SubSeq(s, a + 1, Len(s))[i] = s[a + i]
           /\ SubSeq(SubSeq(s, a + 1, Len(s)), b + 1, Len(s) - a) = SubSeq(s, a + b + 1, Len(s))
<1> DEFINE n == Len(s)
           x == SubSeq(s, a + 1, n)
           y == SubSeq(x, b + 1, n - a)
           z == SubSeq(s, a + b + 1, n)
<1>1. n \in Nat /\ \A i \in 1..n : s[i] \in T
  BY LenProperties, ElementOfSeq
<1> HIDE DEF n, x, y, z
<1>2. /\ x \in Seq(T) /\ Len(x) = n - a
      /\ \A i \in 1..n - a : x[i] = s[a + i]
  <2>1. \A i \in (a + 1)..n : s[i] \in T
    BY <1>1
  <2>2. /\ x \in Seq(T) /\ Len(x) = IF a + 1 <= n THEN n - (a + 1) + 1 ELSE 0
        /\ \A i \in 1..n - (a + 1) + 1 : x[i] = s[(a + 1) + i - 1]
    BY <1>1, <2>1, SubSeqProperties DEF x
  <2>3. \A i \in 1..n - a : i \in 1..n - (a + 1) + 1 /\ (a + 1) + i - 1 = a + i
    BY <1>1
  <2>4. Len(x) = n - a
    BY <1>1, <2>2 DEF n
  <2>5. ASSUME NEW i \in 1..n - a PROVE x[i] = s[a + i]
    BY <2>2, <2>3
  <2> QED BY <2>2, <2>4, <2>5
<1>3. n - a \in Nat
  BY <1>1 DEF n
<1>4. \A i \in 1..n - a : x[i] \in T
  BY <1>2, ElementOfSeq
<1>5. /\ y \in Seq(T) /\ Len(y) = IF b + 1 <= n - a THEN (n - a) - (b + 1) + 1 ELSE 0
      /\ \A i \in 1..(n - a) - (b + 1) + 1 : y[i] = x[(b + 1) + i - 1]
  BY <1>3, <1>4, SubSeqProperties DEF y
<1>6. /\ z \in Seq(T) /\ Len(z) = IF a + b + 1 <= n THEN n - (a + b + 1) + 1 ELSE 0
      /\ \A i \in 1..n - (a + b + 1) + 1 : z[i] = s[(a + b + 1) + i - 1]
  <2>1. \A i \in (a + b + 1)..n : s[i] \in T
    BY <1>1
  <2> QED BY <1>1, <2>1, SubSeqProperties DEF z
<1>7. Len(y) = Len(z) /\ Len(y) \in Nat
  BY <1>1, <1>3, <1>5, <1>6
<1>8. ASSUME NEW i \in 1..Len(y) PROVE y[i] = z[i]
  <2>1. /\ i \in 1..(n - a) - (b + 1) + 1 /\ i \in 1..n - (a + b + 1) + 1
        /\ (b + 1) + i - 1 = b + i /\ (a + b + 1) + i - 1 = a + (b + i)
        /\ b + i \in 1..n - a
    BY <1>1, <1>3, <1>5
  <2> QED BY <1>2, <1>5, <1>6, <2>1
<1>9. y = z
  BY <1>5, <1>6, <1>7, <1>8, SeqEqual
<1> QED BY <1>2, <1>9 DEF n, x, y, z

\* One member: read back if its tokens are all there, refused if they are cut
\* short anywhere.
LEMMA FieldRead ==
    ASSUME NEW f, FieldOK(f), NEW v, Storable(f, v),
           NEW r, r.ok, NEW T, r.in \in Seq(T), Agree(r.in, Emitted(f, v))
    PROVE  /\ Len(r.in) < Len(Emitted(f, v)) => ReadField(r, f) = Thrown
           /\ Len(r.in) >= Len(Emitted(f, v)) =>
                ReadField(r, f) =
                    [in |-> SubSeq(r.in, Len(Emitted(f, v)) + 1, Len(r.in)), ok |-> TRUE,
                     out |-> Assigned(r.out, f.name, v)]
<1> DEFINE in == r.in
           L == Len(in)
           E == Emitted(f, v)
           t == Head(in)
<1>1. L \in Nat
  BY LenProperties
<1>2. Len(E) \in Nat
  BY EmittedShape, LenProperties DEF IsSequence
<1>3. CASE in = <<>>
  <2>1. ReadField(r, f) = Thrown
    BY <1>3, Zenon DEF ReadField
  <2>2. L = 0
    BY <1>3
  <2>3. Len(E) >= 1
    <3>1. CASE Counted(f)
      BY <3>1, EmittedShape
    <3>2. CASE ~Counted(f)
      BY <3>2, EmittedShape
    <3> QED BY <3>1, <3>2
  <2> HIDE DEF E
  <2> QED BY <1>2, <2>1, <2>2, <2>3 DEF E
<1>4. CASE in # <<>>
  <2>1. ReadField(r, f) =
          CASE Counted(f) /\ t[1] = "varint" -> ReadVector(r, f, t[2], Tail(in))
            [] t[1] = f.kind -> [in |-> Tail(in), ok |-> TRUE,
                                 out |-> Assigned(r.out, f.name, Loaded(f, t[2]))]
            [] OTHER -> Thrown
    BY <1>4, Zenon DEF ReadField
  <2>2. L >= 1
    BY <1>1, <1>4, EmptySeq
  <2>3. t = in[1]
    BY <1>4
  <2>4. Len(E) >= 1 => t = E[1]
    BY <1>1, <1>2, <2>2, <2>3 DEF Agree
  <2>5. Tail(in) \in Seq(T) /\ Len(Tail(in)) = L - 1 /\ \A i \in 1..Len(Tail(in)) : Tail(in)[i] = in[i + 1]
    BY <1>4, HeadTailProperties
  <2>6. CASE ~Counted(f)
    <3>1. Len(E) = 1 /\ t = <<f.kind, v>> /\ Loaded(f, v) = v
      BY <2>4, <2>6, EmittedShape DEF Storable
    <3>2. t[1] = f.kind /\ t[2] = v
      BY <3>1
    <3>3. ReadField(r, f) = [in |-> Tail(in), ok |-> TRUE, out |-> Assigned(r.out, f.name, v)]
      <4> HIDE DEF t, in
      <4> QED BY <2>1, <2>6, <3>1, <3>2
    <3>4. Tail(in) = SubSeq(in, 2, L)
      BY <1>4, TailIsSubSeq
    <3>5. ~(L < Len(E)) /\ Len(E) + 1 = 2
      BY <1>1, <2>2, <3>1
    <3> QED BY <3>3, <3>4, <3>5, Zenon
  <2>7. CASE Counted(f)
    <3> DEFINE B == ElementTokens(f, v)
               rest == Tail(in)
    <3>1. /\ Len(B) \in Nat /\ Len(E) = Len(B) + 1 /\ t = <<"varint", Len(v)>>
          /\ \A k \in 1..Len(B) : E[k + 1] = B[k]
      BY <2>4, <2>7, EmittedShape
    <3>2. t[1] = "varint" /\ t[2] = Len(v)
      BY <3>1
    <3>3. ReadField(r, f) = ReadVector(r, f, Len(v), rest)
      <4> HIDE DEF t, in, rest
      <4>1. ReadField(r, f) = ReadVector(r, f, t[2], Tail(in))
        <5> DEFINE A == ReadVector(r, f, t[2], Tail(in))
                   C == [in |-> Tail(in), ok |-> TRUE, out |-> Assigned(r.out, f.name, Loaded(f, t[2]))]
        <5>1. f.kind # "varint"
          BY <2>7 DEF Counted
        <5>2. ReadField(r, f) = CASE Counted(f) /\ t[1] = "varint" -> A
                                  [] t[1] = f.kind -> C [] OTHER -> Thrown
          BY <2>1, Zenon
        <5> HIDE DEF A, C
        <5>3. ReadField(r, f) = A
          BY <2>7, <3>2, <5>1, <5>2
        <5> QED BY <5>3 DEF A
      <4> QED BY <3>2, <4>1, Zenon DEF rest
    <3>4. Agree(rest, B)
      <4> SUFFICES ASSUME NEW j \in 1..Len(rest), j <= Len(B) PROVE rest[j] = B[j]
        BY DEF Agree
      <4>1. j + 1 \in 1..L /\ j + 1 <= Len(E) /\ j \in 1..Len(B)
        BY <1>1, <2>5, <3>1
      <4>2. in[j + 1] = E[j + 1]
        BY <4>1 DEF Agree
      <4>3. rest[j] = in[j + 1]
        BY <2>5
      <4> QED BY <3>1, <4>1, <4>2, <4>3
    <3>5. /\ Len(rest) < Len(B) => ReadVector(r, f, Len(v), rest) = Thrown
          /\ Len(rest) >= Len(B) =>
               ReadVector(r, f, Len(v), rest) =
                    [in |-> SubSeq(rest, Len(B) + 1, Len(rest)), ok |-> TRUE,
                     out |-> Assigned(r.out, f.name, v)]
      BY <2>5, <2>7, <3>4, VectorRead
    <3>6. Len(rest) >= Len(B) => SubSeq(rest, Len(B) + 1, Len(rest)) = SubSeq(in, Len(E) + 1, L)
      <4> HIDE DEF E, B, in, L, rest
      <4>1. rest = SubSeq(in, 1 + 1, L)
        <5>1. Tail(in) = SubSeq(in, 2, L) /\ 1 + 1 = 2
          BY <1>4, TailIsSubSeq DEF L, in
        <5> QED BY <5>1, Zenon DEF rest
      <4>2. Len(B) + 1 + 1 = Len(E) + 1 /\ Len(rest) = L - 1
        BY <2>5, <3>1 DEF rest
      <4> HAVE Len(rest) >= Len(B)
      <4>3. SubSeq(SubSeq(in, 1 + 1, L), Len(B) + 1, L - 1) = SubSeq(in, 1 + Len(B) + 1, L)
        BY <1>1, <2>2, <3>1, SubSeqShift DEF in, L
      <4>4. SubSeq(rest, Len(B) + 1, Len(rest)) = SubSeq(in, 1 + Len(B) + 1, L)
        BY <4>1, <4>2, <4>3, Zenon
      <4>5. 1 + Len(B) + 1 = Len(E) + 1
        BY <3>1
      <4> QED BY <4>4, <4>5
    <3>7. /\ Len(rest) < Len(B) <=> L < Len(E)
          /\ Len(rest) >= Len(B) <=> L >= Len(E)
      BY <1>1, <2>5, <3>1
    <3> QED BY <3>3, <3>5, <3>6, <3>7, Zenon
  <2> QED BY <2>6, <2>7
<1> QED BY <1>3, <1>4

-----------------------------------------------------------------------------
(* Structures *)

\* The reads of a structure, one after the other: a[i] is the reader after
\* the first i members.
Reads(a, r, fields, n) ==
    /\ a[0] = r
    /\ \A i \in 1..n : a[i] = ReadField(a[i - 1], fields[i])

\* The recursion of ReadFields is defined for every length of a list.
LEMMA ReadsExist ==
    ASSUME NEW r, NEW fields
    PROVE  \A n \in Nat : \E a : a = [i \in 0..n |-> a[i]] /\ Reads(a, r, fields, n)
<1> DEFINE P(n) == \E a : a = [i \in 0..n |-> a[i]] /\ Reads(a, r, fields, n)
           S == {n \in Nat : P(n)}
<1>1. 0 \in S
  <2> DEFINE a == [i \in 0..0 |-> r]
  <2>1. a = [i \in 0..0 |-> a[i]] /\ Reads(a, r, fields, 0)
    BY DEF Reads
  <2> QED BY <2>1
<1>2. ASSUME NEW n \in Nat, n \in S PROVE n + 1 \in S
  <2>1. PICK a : a = [i \in 0..n |-> a[i]] /\ Reads(a, r, fields, n)
    BY <1>2
  <2> DEFINE next == ReadField(a[n], fields[n + 1])
  <2> HIDE DEF next
  <2> DEFINE h == [i \in 0..(n + 1) |-> IF i = n + 1 THEN next ELSE a[i]]
  <2>2. \A i \in 0..n : h[i] = a[i]
    OBVIOUS
  <2>3. h[n + 1] = next
    OBVIOUS
  <2>4. h = [i \in 0..(n + 1) |-> h[i]]
    OBVIOUS
  <2> HIDE DEF h
  <2>5. Reads(h, r, fields, n + 1)
    <3>1. h[0] = r
      BY <2>1, <2>2 DEF Reads
    <3>2. ASSUME NEW i \in 1..(n + 1) PROVE h[i] = ReadField(h[i - 1], fields[i])
      <4>1. CASE i = n + 1
        <5>1. h[i] = next /\ h[i - 1] = a[n] /\ fields[i] = fields[n + 1]
          BY <4>1, <2>2, <2>3
        <5> QED BY <5>1, Zenon DEF next
      <4>2. CASE i # n + 1
        <5>1. i \in 1..n /\ h[i] = a[i] /\ h[i - 1] = a[i - 1]
          BY <4>2, <2>2
        <5> QED BY <5>1, <2>1, Zenon DEF Reads
      <4> QED BY <4>1, <4>2
    <3> QED BY <3>1, <3>2, Zenon DEF Reads
  <2>6. P(n + 1)
    BY <2>4, <2>5
  <2> QED BY <2>6
<1> HIDE DEF P
<1>3. \A n \in Nat : n \in S
  <2> HIDE DEF S
  <2> QED BY <1>1, <1>2, Induction
<1> QED BY <1>3 DEF P

\* ReadFields ends with the last of them.
LEMMA ReadsFunction ==
    ASSUME NEW r, NEW fields, Len(fields) \in Nat
    PROVE  \E a : Reads(a, r, fields, Len(fields)) /\ ReadFields(r, fields) = a[Len(fields)]
<1> DEFINE N == Len(fields)
           D(a) == [i \in 0..N |-> IF i = 0 THEN r ELSE ReadField(a[i - 1], fields[i])]
           after == CHOOSE a : a = D(a)
<1>1. PICK b : b = [i \in 0..N |-> b[i]] /\ Reads(b, r, fields, N)
  BY ReadsExist
<1>2. b = D(b)
  <2>1. ASSUME NEW i \in 0..N PROVE b[i] = IF i = 0 THEN r ELSE ReadField(b[i - 1], fields[i])
    <3>1. CASE i = 0
      BY <1>1, <3>1 DEF Reads
    <3>2. CASE i # 0
      <4>1. i \in 1..N
        BY <3>2
      <4> QED BY <1>1, <3>2, <4>1, Zenon DEF Reads
    <3> QED BY <3>1, <3>2
  <2> HIDE DEF N
  <2>2. b = [i \in 0..N |-> b[i]]
    BY <1>1
  <2> QED BY <2>1, <2>2, Zenon
<1>3. after = D(after)
  BY <1>2, Zenon
<1>4. ReadFields(r, fields) = after[N]
  BY Zenon DEF ReadFields
<1> HIDE DEF after
<1>5. Reads(after, r, fields, N)
  <2>1. ASSUME NEW i \in 0..N
        PROVE  after[i] = IF i = 0 THEN r ELSE ReadField(after[i - 1], fields[i])
    <3>1. after[i] = D(after)[i]
      BY <1>3, Zenon
    <3>2. D(after)[i] = IF i = 0 THEN r ELSE ReadField(after[i - 1], fields[i])
      BY Zenon
    <3> QED BY <3>1, <3>2, Zenon
  <2> HIDE DEF D
  <2>2. after[0] = r
    BY <2>1
  <2>3. ASSUME NEW i \in 1..N PROVE after[i] = ReadField(after[i - 1], fields[i])
    <3>1. i \in 0..N /\ i # 0
      OBVIOUS
    <3> QED BY <2>1, <3>1, Zenon
  <2> QED BY <2>2, <2>3, Zenon DEF Reads
<1> QED BY <1>4, <1>5

\* Well formed lists of fields, and values all of whose members are read
\* back as they are.
FieldsOK(fields) == IsSequence(fields) /\ \A i \in DOMAIN fields : FieldOK(fields[i])

RecordOK(fields, rec) == \A i \in DOMAIN fields : Storable(fields[i], rec[fields[i].name])

\* The members a reader has after the first i fields, and where it stands.
FirstNames(fields, i) == {fields[k].name : k \in 1..i}

Rest(data, p) == SubSeq(data, p + 1, Len(data))

ReaderAt(data, fields, rec, i, p) ==
    [in |-> Rest(data, p), ok |-> TRUE, out |-> [n \in FirstNames(fields, i) |-> rec[n]]]

\* The tokens of the members, one sequence for each.
Members(fields, rec) == [i \in DOMAIN fields |-> Emitted(fields[i], rec[fields[i].name])]

\* What is written of a structure is what is written of its members, joined.
LEMMA WrittenParts ==
    ASSUME NEW fields, NEW rec, FieldsOK(fields), RecordOK(fields, rec)
    PROVE  /\ Len(fields) \in Nat /\ DOMAIN fields = 1..Len(fields)
           /\ \E T, g : /\ Flattening(T, g, Members(fields, rec), Len(fields))
                        /\ Written(fields, rec) = g[Len(fields)]
<1> DEFINE N == Len(fields)
           E == Members(fields, rec)
           T == UNION {{E[i][k] : k \in 1..Len(E[i])} : i \in 1..N}
<1>1. N \in Nat /\ DOMAIN fields = 1..N
  BY LenProperties DEF FieldsOK, IsSequence
<1>2. E = [i \in 1..N |-> E[i]] /\ \A i \in 1..N : E[i] = Emitted(fields[i], rec[fields[i].name])
  BY <1>1 DEF Members
<1>3. Written(fields, rec) = FlattenSeq(E)
  BY DEF Written, Members
<1> HIDE DEF N, E
<1>4. ASSUME NEW i \in 1..N PROVE E[i] \in Seq(T)
  <2> DEFINE e == E[i]
  <2>1. IsSequence(e)
    BY <1>1, <1>2, EmittedShape DEF FieldsOK, RecordOK
  <2>2. PICK V : e \in Seq(V)
    BY <2>1 DEF IsSequence
  <2>3. Len(e) \in Nat /\ e \in [1..Len(e) -> V]
    BY <2>2, LenProperties
  <2>4. \A k \in 1..Len(e) : e[k] \in T
    OBVIOUS
  <2> HIDE DEF e, T
  <2>5. e \in [1..Len(e) -> T]
    BY <2>3, <2>4
  <2>6. e \in Seq(T)
    BY <2>3, <2>5, SeqDef
  <2> QED BY <2>6 DEF e
<1> HIDE DEF T
<1>5. E \in [1..N -> Seq(T)]
  BY <1>2, <1>4
<1>6. E \in Seq(Seq(T))
  BY <1>1, <1>5, SeqDef
<1>7. Len(E) = N
  <2>1. DOMAIN E = 1..N
    BY <1>5
  <2> QED BY <1>1, <1>6, <2>1, LenProperties
<1>8. PICK g \in [0..N -> Seq(T)] : Flattens(g, E, N) /\ FlattenSeq(E) = g[N]
  BY <1>6, <1>7, FlattenFunction
<1>9. Flattening(T, g, E, N) /\ Written(fields, rec) = g[N]
  BY <1>1, <1>3, <1>5, <1>8 DEF Flattening
<1> QED BY <1>1, <1>9 DEF N, E

\* What is left of the data at a member's place agrees with its tokens.
LEMMA RestAgrees ==
    ASSUME NEW T, NEW data \in Seq(T), NEW whole, NEW part, NEW p \in Nat, p <= Len(data),
           Len(part) \in Nat, Len(whole) \in Nat, p + Len(part) <= Len(whole),
           \A k \in 1..Len(part) : whole[p + k] = part[k],
           Agree(data, whole)
    PROVE  Rest(data, p) \in Seq(T) /\ Agree(Rest(data, p), part)
<1> DEFINE x == Rest(data, p)
<1>1. Len(data) \in Nat
  BY LenProperties
<1>2. x \in Seq(T) /\ Len(x) = Len(data) - p /\ \A i \in 1..Len(data) - p : x[i] = data[p + i]
  <2>1. 0 \in Nat
    OBVIOUS
  <2> QED BY <2>1, SubSeqShift DEF Rest
<1> HIDE DEF x
<1>3. ASSUME NEW j \in 1..Len(x), j <= Len(part) PROVE x[j] = part[j]
  <2>1. /\ j \in 1..Len(data) - p /\ p + j \in 1..Len(data) /\ p + j <= Len(whole)
        /\ j \in 1..Len(part)
    BY <1>1, <1>2, <1>3
  <2>2. data[p + j] = whole[p + j]
    BY <2>1 DEF Agree
  <2> QED BY <1>2, <2>1, <2>2
<1> QED BY <1>2, <1>3 DEF Agree, x

\* Setting one more member.
LEMMA OneMoreMember ==
    ASSUME NEW fields, NEW rec, NEW i \in Nat
    PROVE  Assigned([n \in FirstNames(fields, i) |-> rec[n]], fields[i + 1].name,
                    rec[fields[i + 1].name])
             = [n \in FirstNames(fields, i + 1) |-> rec[n]]
<1>1. FirstNames(fields, i + 1) = FirstNames(fields, i) \cup {fields[i + 1].name}
  <2>1. 1..(i + 1) = (1..i) \cup {i + 1}
    OBVIOUS
  <2> QED BY <2>1, Zenon DEF FirstNames
<1> QED BY <1>1 DEF Assigned

\* Nothing follows a reader that has thrown.
LEMMA ThrownStays == ASSUME NEW f PROVE ReadField(Thrown, f) = Thrown
BY DEF ReadField, Thrown

\* A structure's bytes, whatever follows them, are read back as the members
\* that were written; bytes that end before they do are refused.  This is
\* deserializer_t against serializer_t for every list of fields.
THEOREM StructureRead ==
    ASSUME NEW fields, NEW rec, FieldsOK(fields), RecordOK(fields, rec),
           NEW T, NEW data \in Seq(T), Agree(data, Written(fields, rec))
    PROVE  /\ Len(Written(fields, rec)) \in Nat
           /\ Len(data) < Len(Written(fields, rec)) => ReadFields(Reader(data), fields) = Thrown
           /\ Len(data) >= Len(Written(fields, rec)) =>
                ReadFields(Reader(data), fields) =
                    [in |-> Rest(data, Len(Written(fields, rec))), ok |-> TRUE,
                     out |-> [n \in Names(fields) |-> rec[n]]]
<1> DEFINE N == Len(fields)
           E == Members(fields, rec)
           W == Written(fields, rec)
           L == Len(data)
<1>1. N \in Nat /\ DOMAIN fields = 1..N /\ L \in Nat
  BY WrittenParts, LenProperties
<1>2. PICK U, g : Flattening(U, g, E, N) /\ W = g[N]
  BY WrittenParts
<1>3. Parts(g, E, N)
  BY <1>2, FlattenPart
<1>4. PICK a : Reads(a, Reader(data), fields, N) /\ ReadFields(Reader(data), fields) = a[N]
  BY <1>1, ReadsFunction
<1>5. \A i \in 1..N : E[i] = Emitted(fields[i], rec[fields[i].name])
  BY <1>1 DEF Members
<1> HIDE DEF N, E, W, L
<1>6. ASSUME NEW i \in 0..N PROVE Len(g[i]) \in Nat
  BY <1>2, LenProperties DEF Flattening
<1> DEFINE At(i) == ReaderAt(data, fields, rec, i, Len(g[i]))
           P(i) == IF Len(g[i]) <= L THEN a[i] = At(i) ELSE a[i] = Thrown
           S == {i \in Nat : i <= N => P(i)}
<1>7. 0 \in S
  <2>1. Len(g[0]) = 0
    BY <1>2, EmptySeq DEF Flattening, Flattens
  <2>2. a[0] = [in |-> data, out |-> <<>>, ok |-> TRUE]
    BY <1>4 DEF Reads, Reader
  <2>3. Rest(data, 0) = data
    BY SubSeqFull DEF Rest
  <2>4. FirstNames(fields, 0) = {}
    BY DEF FirstNames
  <2>5. [n \in {} |-> rec[n]] = <<>>
    OBVIOUS
  <2>6. At(0) = [in |-> data, ok |-> TRUE, out |-> <<>>]
    BY <2>1, <2>3, <2>4, <2>5, Zenon DEF ReaderAt
  <2>7. a[0] = At(0)
    BY <2>2, <2>6
  <2>8. Len(g[0]) <= L
    BY <1>1, <2>1
  <2> HIDE DEF At
  <2>9. P(0)
    BY <2>7, <2>8
  <2> QED BY <2>9
<1>8. ASSUME NEW m \in Nat, m \in S PROVE m + 1 \in S
  <2> SUFFICES ASSUME m + 1 <= N PROVE P(m + 1)
    OBVIOUS
  <2> DEFINE i == m + 1
             p == Len(g[m])
             q == Len(g[i])
             f == fields[i]
             v == rec[f.name]
  <2>1. i \in 1..N /\ m \in 0..N /\ i \in 0..N /\ i - 1 = m
    BY <1>1
  <2>2. P(m)
    BY <1>8, <2>1
  <2>3. p \in Nat /\ q \in Nat /\ Len(W) \in Nat
    BY <1>1, <1>2, <1>6, <2>1
  <2>4. /\ q = p + Len(E[i]) /\ q <= Len(W)
        /\ \A k \in 1..Len(E[i]) : W[p + k] = E[i][k]
    BY <1>2, <1>3, <2>1 DEF Parts
  <2>5. a[i] = ReadField(a[m], f)
    BY <1>4, <2>1 DEF Reads
  <2>6. E[i] = Emitted(f, v)
    BY <1>5, <2>1
  <2>7. Len(E[i]) \in Nat
    BY <1>2, <2>1, LenProperties DEF Flattening
  <2>8. CASE ~(p <= L)
    <3>1. a[m] = Thrown
      BY <2>2, <2>8
    <3>2. a[i] = Thrown
      BY <2>5, <3>1, ThrownStays
    <3>3. ~(q <= L)
      <4> DEFINE e == Len(E[i])
      <4> HIDE DEF p, q, e
      <4> QED BY <1>1, <2>3, <2>4, <2>7, <2>8 DEF e
    <3> QED BY <3>2, <3>3
  <2>9. CASE p <= L
    <3> DEFINE r == At(m)
               x == Rest(data, p)
    <3>1. a[m] = r /\ r.ok /\ r.in = x /\ r.out = [n \in FirstNames(fields, m) |-> rec[n]]
      BY <2>2, <2>9 DEF ReaderAt
    <3> HIDE DEF r
    <3>2. x \in Seq(T) /\ Agree(x, E[i])
      BY <1>1, <2>3, <2>4, <2>7, <2>9, RestAgrees DEF L, W
    <3>3. FieldOK(f) /\ Storable(f, v)
      BY <1>1, <2>1 DEF FieldsOK, RecordOK
    <3> HIDE DEF i, f, v, x
    <3>4. /\ Len(x) < Len(E[i]) => ReadField(r, f) = Thrown
          /\ Len(x) >= Len(E[i]) =>
                ReadField(r, f) = [in |-> SubSeq(x, Len(E[i]) + 1, Len(x)), ok |-> TRUE,
                                   out |-> Assigned(r.out, f.name, v)]
      <4>1. r.in \in Seq(T) /\ Agree(r.in, Emitted(f, v))
        BY <2>6, <3>1, <3>2, Zenon
      <4>2. /\ Len(r.in) < Len(Emitted(f, v)) => ReadField(r, f) = Thrown
            /\ Len(r.in) >= Len(Emitted(f, v)) =>
                  ReadField(r, f) = [in |-> SubSeq(r.in, Len(Emitted(f, v)) + 1, Len(r.in)), ok |-> TRUE,
                                     out |-> Assigned(r.out, f.name, v)]
        BY <3>1, <3>3, <4>1, FieldRead
      <4> QED BY <2>6, <3>1, <4>2, Zenon
    <3>5. /\ Len(x) = L - p
          /\ SubSeq(x, Len(E[i]) + 1, L - p) = SubSeq(data, p + Len(E[i]) + 1, L)
      BY <2>3, <2>7, <2>9, SubSeqShift DEF L, x, Rest
    <3>6. Len(x) < Len(E[i]) <=> ~(q <= L)
      <4> DEFINE e == Len(E[i])
      <4> HIDE DEF p, q, e
      <4> QED BY <1>1, <2>3, <2>4, <2>7, <3>5 DEF e
    <3>7. Len(x) >= Len(E[i]) <=> q <= L
      <4> DEFINE e == Len(E[i])
      <4> HIDE DEF p, q, e
      <4> QED BY <1>1, <2>3, <2>4, <2>7, <3>5 DEF e
    <3>8. Assigned(r.out, f.name, v) = [n \in FirstNames(fields, i) |-> rec[n]]
      BY <3>1, OneMoreMember DEF i, f, v
    <3>9. SubSeq(x, Len(E[i]) + 1, Len(x)) = Rest(data, q)
      BY <2>4, <3>5 DEF Rest, L
    <3> HIDE DEF q
    <3>10. CASE q <= L
      BY <2>5, <3>1, <3>4, <3>7, <3>8, <3>9, <3>10 DEF ReaderAt, i, q
    <3>11. CASE ~(q <= L)
      BY <2>5, <3>1, <3>4, <3>6, <3>11 DEF i, q
    <3> QED BY <3>10, <3>11
  <2> QED BY <2>8, <2>9
<1>9. P(N)
  <2>1. \A i \in Nat : i \in S
    <3> HIDE DEF S
    <3> QED BY <1>7, <1>8, Induction
  <2> HIDE DEF P
  <2> QED BY <1>1, <2>1
<1>10. FirstNames(fields, N) = Names(fields)
  BY <1>1 DEF FirstNames, Names
<1>11. Len(W) \in Nat
  BY <1>1, <1>2, <1>6
<1>12. L < Len(W) <=> ~(Len(W) <= L)
  BY <1>1, <1>11
<1>13. L >= Len(W) <=> Len(W) <= L
  BY <1>1, <1>11
<1>14. L < Len(W) => ReadFields(Reader(data), fields) = Thrown
  BY <1>2, <1>4, <1>9, <1>12
<1>15. L >= Len(W) => ReadFields(Reader(data), fields) =
                        [in |-> Rest(data, Len(W)), ok |-> TRUE, out |-> [n \in Names(fields) |-> rec[n]]]
  BY <1>2, <1>4, <1>9, <1>10, <1>13 DEF ReaderAt
<1> QED BY <1>11, <1>14, <1>15 DEF W, L

-----------------------------------------------------------------------------
(* JSON *)

\* The fields of a list, in any order.
FieldSet(fields) == {fields[i] : i \in DOMAIN fields}

\* A name is one field's.
NamedOnce(F) == \A f, g \in F : f.name = g.name => f = g

\* FieldNamed finds a field of the list with that name.
LEMMA FieldNamedIs ==
    ASSUME NEW fields, NEW n \in Names(fields)
    PROVE  FieldNamed(fields, n) \in FieldSet(fields) /\ FieldNamed(fields, n).name = n
<1> DEFINE i == CHOOSE k \in DOMAIN fields : fields[k].name = n
<1>1. i \in DOMAIN fields /\ fields[i].name = n
  BY DEF Names
<1>2. FieldNamed(fields, n) = fields[i]
  BY Zenon DEF FieldNamed
<1> HIDE DEF i
<1> QED BY <1>1, <1>2 DEF FieldSet

\* toJSON and fromJSON may visit their fields in different orders.
LEMMA FieldNamedSame ==
    ASSUME NEW a, NEW b, FieldSet(a) = FieldSet(b), NamedOnce(FieldSet(a))
    PROVE  /\ Names(a) = Names(b)
           /\ \A n \in Names(a) : FieldNamed(a, n) = FieldNamed(b, n)
<1>1. ASSUME NEW x PROVE Names(x) = {f.name : f \in FieldSet(x)}
  BY DEF Names, FieldSet
<1>2. Names(a) = Names(b)
  BY <1>1
<1>3. ASSUME NEW n \in Names(a) PROVE FieldNamed(a, n) = FieldNamed(b, n)
  <2>1. /\ FieldNamed(a, n) \in FieldSet(a) /\ FieldNamed(a, n).name = n
        /\ FieldNamed(b, n) \in FieldSet(a) /\ FieldNamed(b, n).name = n
    BY <1>2, FieldNamedIs
  <2> QED BY <2>1 DEF NamedOnce
<1> QED BY <1>2, <1>3

\* The fields of an element are told apart by their names.
LEMMA ElementFields ==
    ASSUME NEW of, ElementsOK(of), NEW n \in Names(of)
    PROVE  /\ FieldNamed(of, n) \in FieldSet(of) /\ FieldNamed(of, n).name = n
           /\ \A i \in DOMAIN of : of[i].name = n => of[i] = FieldNamed(of, n)
<1>1. FieldNamed(of, n) \in FieldSet(of) /\ FieldNamed(of, n).name = n
  BY FieldNamedIs
<1>2. PICK k \in DOMAIN of : FieldNamed(of, n) = of[k]
  BY <1>1 DEF FieldSet
<1>3. ASSUME NEW i \in DOMAIN of, of[i].name = n PROVE of[i] = FieldNamed(of, n)
  BY <1>1, <1>2, <1>3 DEF ElementsOK
<1> QED BY <1>1, <1>3

\* An element of an array passes the checks of JSON_MEMBER_OR_THROW and is
\* read back.
ElementReadable(of, e) ==
    IF of[1].name = Itself THEN e[1] = JsonType(of[1])
    ELSE e[1] = "object" /\ HasMembers(of, e[2])

\* An element of a JSON array is read back as it was.
LEMMA JsonElementRead ==
    ASSUME NEW of, ElementsOK(of), NEW e, ElementStorable(of, e)
    PROVE  /\ ElementReadable(of, JsonElement(of, e))
           /\ FromElement(of, JsonElement(of, e)) = e
<1> DEFINE J == JsonElement(of, e)
<1>1. CASE of[1].name = Itself
  <2>1. J = <<JsonType(of[1]), e>>
    BY <1>1, Zenon DEF JsonElement
  <2>2. J[1] = JsonType(of[1]) /\ J[2] = e
    BY <2>1
  <2> HIDE DEF J
  <2>3. FromElement(of, J) = e
    BY <1>1, <2>2, Zenon DEF FromElement
  <2> QED BY <1>1, <2>2, <2>3 DEF ElementReadable, J
<1>2. CASE of[1].name # Itself
  <2> DEFINE O == [n \in Names(of) |-> <<JsonType(FieldNamed(of, n)), e[n]>>]
  <2>1. J = <<"object", O>>
    BY <1>2, Zenon DEF JsonElement
  <2>2. J[1] = "object" /\ J[2] = O
    BY <2>1
  <2>3. \A n \in Names(of) : O[n][1] = JsonType(FieldNamed(of, n)) /\ O[n][2] = e[n]
    OBVIOUS
  <2>4. DOMAIN O = Names(of)
    OBVIOUS
  <2> HIDE DEF J, O
  <2>5. HasMembers(of, O)
    <3> SUFFICES ASSUME NEW i \in DOMAIN of
                 PROVE  of[i].name \in DOMAIN O /\ O[of[i].name][1] = JsonType(of[i])
      BY DEF HasMembers
    <3>1. of[i].name \in Names(of)
      BY DEF Names
    <3>2. of[i] = FieldNamed(of, of[i].name)
      BY <3>1, ElementFields
    <3>3. O[of[i].name][1] = JsonType(FieldNamed(of, of[i].name))
      BY <2>3, <3>1, Zenon
    <3>4. O[of[i].name][1] = JsonType(of[i])
      BY <3>2, <3>3, Zenon
    <3> QED BY <2>4, <3>1, <3>4
  <2>6. ASSUME NEW n \in Names(of) PROVE Loaded(FieldNamed(of, n), O[n][2]) = e[n]
    <3>1. PICK k \in DOMAIN of : FieldNamed(of, n) = of[k] /\ of[k].name = n
      BY ElementFields DEF FieldSet
    <3>2. Loaded(of[k], e[n]) = e[n]
      BY <1>2, <3>1 DEF ElementStorable
    <3> QED BY <2>3, <3>1, <3>2
  <2>7. FromElement(of, J) = [n \in Names(of) |-> Loaded(FieldNamed(of, n), J[2][n][2])]
    BY <1>2, Zenon DEF FromElement
  <2>8. FromElement(of, J) = [n \in Names(of) |-> e[n]]
    BY <2>2, <2>6, <2>7, Zenon
  <2>9. FromElement(of, J) = e
    BY <1>2, <2>8 DEF ElementStorable
  <2> QED BY <1>2, <2>2, <2>5, <2>9 DEF ElementReadable, J
<1> QED BY <1>1, <1>2

\* What toJSON writes for a member, and what fromJSON makes of it.
Exported(f, v) ==
    <<JsonType(f), IF f.kind = "vector" THEN [i \in DOMAIN v |-> JsonElement(f.of, v[i])] ELSE v>>
Imported(f, v) ==
    IF f.kind = "vector" THEN [i \in DOMAIN v |-> FromElement(f.of, v[i])] ELSE Loaded(f, v)

\* A JSON member has the type fromJSON asks for and is read back as it was.
LEMMA JsonMemberRead ==
    ASSUME NEW f, FieldOK(f), NEW v, Storable(f, v)
    PROVE  /\ Exported(f, v)[1] = JsonType(f)
           /\ f.kind = "vector" => \A k \in DOMAIN Exported(f, v)[2] :
                                       ElementReadable(f.of, Exported(f, v)[2][k])
           /\ Imported(f, Exported(f, v)[2]) = v
<1>1. CASE f.kind = "vector"
  <2> DEFINE X == [i \in DOMAIN v |-> JsonElement(f.of, v[i])]
  <2>1. ElementsOK(f.of) /\ IsSequence(v) /\ \A i \in DOMAIN v : ElementStorable(f.of, v[i])
    BY <1>1 DEF FieldOK, Storable, Counted
  <2>2. Exported(f, v) = <<JsonType(f), X>>
    BY <1>1, Zenon DEF Exported
  <2>3. Exported(f, v)[1] = JsonType(f) /\ Exported(f, v)[2] = X
    BY <2>2
  <2>4. DOMAIN X = DOMAIN v /\ \A i \in DOMAIN v : X[i] = JsonElement(f.of, v[i])
    OBVIOUS
  <2> HIDE DEF X
  <2>5. \A i \in DOMAIN v : ElementReadable(f.of, X[i]) /\ FromElement(f.of, X[i]) = v[i]
    BY <2>1, <2>4, JsonElementRead, Zenon
  <2>6. Imported(f, X) = [i \in DOMAIN v |-> v[i]]
    BY <1>1, <2>4, <2>5, Zenon DEF Imported
  <2>7. v = [i \in DOMAIN v |-> v[i]]
    BY <2>1, LenProperties DEF IsSequence
  <2> QED BY <1>1, <2>3, <2>4, <2>5, <2>6, <2>7, Zenon
<1>2. CASE f.kind # "vector"
  <2>1. Loaded(f, v) = v
    BY <1>2 DEF Storable, Counted, Loaded
  <2>2. Exported(f, v) = <<JsonType(f), v>>
    BY <1>2, Zenon DEF Exported
  <2>3. Exported(f, v)[1] = JsonType(f) /\ Exported(f, v)[2] = v
    BY <2>2
  <2>4. Imported(f, v) = v
    BY <1>2, <2>1, Zenon DEF Imported
  <2> QED BY <1>2, <2>3, <2>4, Zenon
<1> QED BY <1>1, <1>2

\* An object's JSON is read back as the members that were written, in
\* whatever order fromJSON asks for them.
THEOREM JsonRead ==
    ASSUME NEW to, NEW from, NEW rec, FieldsOK(to), RecordOK(to, rec),
           FieldSet(to) = FieldSet(from), NamedOnce(FieldSet(to))
    PROVE  FromJSON(from, ToJSON(to, rec)) =
             [in |-> <<>>, ok |-> TRUE, out |-> [n \in Names(to) |-> rec[n]]]
<1> DEFINE j == ToJSON(to, rec)
           F(n) == FieldNamed(to, n)
<1>1. Names(to) = Names(from) /\ \A n \in Names(to) : F(n) = FieldNamed(from, n)
  BY FieldNamedSame
<1>2. ASSUME NEW n \in Names(to)
      PROVE  FieldOK(F(n)) /\ Storable(F(n), rec[n])
  <2>1. F(n) \in FieldSet(to) /\ F(n).name = n
    BY FieldNamedIs
  <2>2. PICK i \in DOMAIN to : F(n) = to[i]
    BY <2>1 DEF FieldSet
  <2> QED BY <2>1, <2>2 DEF FieldsOK, RecordOK
<1>3. j = [n \in Names(to) |-> Exported(F(n), rec[n])]
  BY Zenon DEF ToJSON, Exported
<1>4. DOMAIN j = Names(to) /\ \A n \in Names(to) : j[n] = Exported(F(n), rec[n])
  BY <1>3
<1> HIDE DEF j
<1>5. ASSUME NEW n \in Names(to)
      PROVE  /\ j[n][1] = JsonType(F(n))
             /\ F(n).kind = "vector" => \A k \in DOMAIN j[n][2] : ElementReadable(F(n).of, j[n][2][k])
             /\ Imported(F(n), j[n][2]) = rec[n]
  <2> DEFINE f == F(n)
             v == rec[n]
  <2>1. FieldOK(f) /\ Storable(f, v) /\ j[n] = Exported(f, v)
    BY <1>2, <1>4
  <2> HIDE DEF f, v
  <2>2. /\ Exported(f, v)[1] = JsonType(f)
        /\ f.kind = "vector" => \A k \in DOMAIN Exported(f, v)[2] :
                                    ElementReadable(f.of, Exported(f, v)[2][k])
        /\ Imported(f, Exported(f, v)[2]) = v
    BY <2>1, JsonMemberRead
  <2> QED BY <2>1, <2>2, Zenon DEF f, v
<1>6. ASSUME NEW i \in DOMAIN from
      PROVE  from[i].name \in Names(to) /\ from[i] = F(from[i].name)
  <2>1. from[i].name \in Names(from) /\ from[i] \in FieldSet(from)
    BY DEF Names, FieldSet
  <2>2. F(from[i].name) \in FieldSet(to) /\ F(from[i].name).name = from[i].name
    BY <1>1, <2>1, FieldNamedIs
  <2> QED BY <1>1, <2>1, <2>2 DEF NamedOnce
<1> HIDE DEF F
<1>7. HasMembers(from, j)
  BY <1>4, <1>5, <1>6, Zenon DEF HasMembers
<1>8. Readable(from, j)
  <2>1. ASSUME NEW i \in DOMAIN from, from[i].kind = "vector",
               NEW k \in DOMAIN j[from[i].name][2]
        PROVE  ElementReadable(from[i].of, j[from[i].name][2][k])
    <3> DEFINE n == from[i].name
    <3>1. n \in Names(to) /\ from[i] = F(n)
      BY <1>6
    <3> HIDE DEF n
    <3>2. F(n).kind = "vector" => \A l \in DOMAIN j[n][2] : ElementReadable(F(n).of, j[n][2][l])
      BY <1>5, <3>1, Zenon
    <3> QED BY <2>1, <3>1, <3>2, Zenon DEF n
  <2> QED BY <1>7, <2>1, Zenon DEF Readable, ElementReadable
<1>9. FromJSON(from, j) =
        [in |-> <<>>, ok |-> TRUE,
         out |-> [n \in Names(from) |-> Imported(FieldNamed(from, n), j[n][2])]]
  BY <1>8, Zenon DEF FromJSON, Imported
<1>10. [n \in Names(from) |-> Imported(FieldNamed(from, n), j[n][2])] = [n \in Names(to) |-> rec[n]]
  BY <1>1, <1>5, Zenon
<1> QED BY <1>9, <1>10 DEF j

-----------------------------------------------------------------------------
(* The fields of the structures.  A name stands for one field in all of     *)
(* them, so that the lists are sequences over one catalogue.                *)

VarintNames == {"type", "version", "unlock_block", "amount", "nonce", "fee", "stake_amount",
                "record_version", "initial_stake", "block_production_assigned",
                "block_validation_assigned", "blocks_produced", "blocks_validated", "stake",
                "port", "last_seen", "peer_port"}
KeyNames == {"public_key", "staker_id", "public_ephemeral", "commitment", "signature_hash",
             "range_proof_hash", "candidate_public_key", "staker_public_view_key",
             "staker_public_spend_key", "secret_key", "recall_stake_tx", "public_signing_key",
             "public_view_key", "public_spend_key", "peer_id", "network_id"}
KeyVectorNames == {"key_images", "pseudo_commitments", "ring_participants"}

FieldOf(n) ==
    CASE n \in VarintNames -> varint(n)
      [] n \in KeyNames -> key(n)
      [] n \in KeyVectorNames -> keyV(n)
      [] n \in {"view_signature", "spend_signature"} -> signature(n)
      [] n = "range_proof" -> proof(n)
      [] n = "address" -> address(n)
      [] n \in {"extra", "payload"} -> bytes(n)
      [] n = "signatures" -> vector(n, <<proof(Itself)>>)
      [] n = "outputs" -> vector(n, TransactionOutput_serialize)
      [] n \in {"staker_outputs", "staker_penalties"} -> vector(n, StakerOutput_serialize)
      [] n = "peers" -> vector(n, peer_serialize)

CatalogueNames == VarintNames \cup KeyNames \cup KeyVectorNames \cup
    {"view_signature", "spend_signature", "range_proof", "address", "extra", "payload",
     "signatures", "outputs", "staker_outputs", "staker_penalties", "peers"}
Catalogue == {FieldOf(n) : n \in CatalogueNames}

\* The catalogue gives each name the field the structures use it with.
LEMMA CatalogueFields ==
    /\ \A n \in VarintNames : n \in CatalogueNames /\ FieldOf(n) = varint(n)
    /\ \A n \in KeyNames : n \in CatalogueNames /\ FieldOf(n) = key(n)
    /\ \A n \in KeyVectorNames : n \in CatalogueNames /\ FieldOf(n) = keyV(n)
    /\ \A n \in {"view_signature", "spend_signature"} : n \in CatalogueNames /\ FieldOf(n) = signature(n)
    /\ FieldOf("range_proof") = proof("range_proof")
    /\ FieldOf("address") = address("address")
    /\ \A n \in {"extra", "payload"} : n \in CatalogueNames /\ FieldOf(n) = bytes(n)
    /\ FieldOf("signatures") = vector("signatures", <<proof(Itself)>>)
    /\ FieldOf("outputs") = vector("outputs", TransactionOutput_serialize)
    /\ \A n \in {"staker_outputs", "staker_penalties"} :
          n \in CatalogueNames /\ FieldOf(n) = vector(n, StakerOutput_serialize)
    /\ FieldOf("peers") = vector("peers", peer_serialize)
<1>1. \A n \in VarintNames : n \in CatalogueNames /\ FieldOf(n) = varint(n)
  BY DEF FieldOf, CatalogueNames, VarintNames, KeyNames, KeyVectorNames
<1>2. \A n \in KeyNames : n \in CatalogueNames /\ FieldOf(n) = key(n)
  BY DEF FieldOf, CatalogueNames, VarintNames, KeyNames, KeyVectorNames
<1>3. \A n \in KeyVectorNames : n \in CatalogueNames /\ FieldOf(n) = keyV(n)
  BY DEF FieldOf, CatalogueNames, VarintNames, KeyNames, KeyVectorNames
<1>4. \A n \in {"view_signature", "spend_signature"} : n \in CatalogueNames /\ FieldOf(n) = signature(n)
  BY DEF FieldOf, CatalogueNames, VarintNames, KeyNames, KeyVectorNames
<1>5. /\ FieldOf("range_proof") = proof("range_proof")
      /\ FieldOf("address") = address("address")
      /\ FieldOf("signatures") = vector("signatures", <<proof(Itself)>>)
      /\ FieldOf("outputs") = vector("outputs", TransactionOutput_serialize)
      /\ FieldOf("peers") = vector("peers", peer_serialize)
  BY DEF FieldOf, CatalogueNames, VarintNames, KeyNames, KeyVectorNames
<1>6. \A n \in {"extra", "payload"} : n \in CatalogueNames /\ FieldOf(n) = bytes(n)
  BY DEF FieldOf, CatalogueNames, VarintNames, KeyNames, KeyVectorNames
<1>7. \A n \in {"staker_outputs", "staker_penalties"} :
          n \in CatalogueNames /\ FieldOf(n) = vector(n, StakerOutput_serialize)
  BY DEF FieldOf, CatalogueNames, VarintNames, KeyNames, KeyVectorNames
<1> QED BY <1>1, <1>2, <1>3, <1>4, <1>5, <1>6, <1>7

\* The name of a field, and whether it is counted.
LEMMA PlainFields ==
    ASSUME NEW n
    PROVE  /\ varint(n).name = n /\ FieldOK(varint(n)) /\ ~Counted(varint(n))
           /\ key(n).name = n /\ FieldOK(key(n)) /\ ~Counted(key(n))
           /\ signature(n).name = n /\ FieldOK(signature(n)) /\ ~Counted(signature(n))
           /\ proof(n).name = n /\ FieldOK(proof(n)) /\ ~Counted(proof(n))
           /\ address(n).name = n /\ FieldOK(address(n)) /\ ~Counted(address(n))
BY DEF FieldOK, Counted, Field, varint, key, signature, proof, address

\* Elements that are one plain value.
LEMMA PlainElement ==
    ASSUME NEW f, f.name = Itself
    PROVE  ElementsOK(<<f>>)
<1> DEFINE of == <<f>>
<1>1. of \in Seq({f}) /\ Len(of) = 1 /\ of[1] = f
  OBVIOUS
<1>2. \A i \in DOMAIN of : i = 1
  OBVIOUS
<1> HIDE DEF of
<1>3. IsSequence(of)
  BY <1>1 DEF IsSequence
<1>4. of[1].name = Itself /\ Len(of) = 1 /\ Len(of) >= 1
  BY <1>1
<1>5. ElementsOK(of)
  BY <1>2, <1>3, <1>4, Zenon DEF ElementsOK
<1> QED BY <1>5 DEF of

\* The members of an output, of a staker's reward and of a peer.
LEMMA ElementLists ==
    /\ ElementsOK(<<key(Itself)>>) /\ ElementsOK(<<proof(Itself)>>)
    /\ ElementsOK(<<Field(Itself, "byte", <<>>)>>)
    /\ ElementsOK(TransactionOutput_serialize)
    /\ ElementsOK(StakerOutput_serialize)
    /\ ElementsOK(peer_serialize)
<1>1. ElementsOK(<<key(Itself)>>) /\ ElementsOK(<<proof(Itself)>>) /\ ElementsOK(<<Field(Itself, "byte", <<>>)>>)
  <2>1. key(Itself).name = Itself /\ proof(Itself).name = Itself /\ Field(Itself, "byte", <<>>).name = Itself
    BY DEF key, proof, Field
  <2> QED BY <2>1, PlainElement
<1>2. ElementsOK(TransactionOutput_serialize)
  <2> DEFINE of == TransactionOutput_serialize
             P == {key("public_ephemeral"), varint("amount"), key("commitment")}
  <2>1. /\ of \in Seq(P) /\ Len(of) = 3 /\ \A i \in DOMAIN of : i = 1 \/ i = 2 \/ i = 3
        /\ of[1].name = "public_ephemeral" /\ of[2].name = "amount" /\ of[3].name = "commitment"
    BY PlainFields DEF TransactionOutput_serialize
  <2> HIDE DEF of, P
  <2>2. IsSequence(of)
    BY <2>1 DEF IsSequence
  <2>3. Len(of) >= 1 /\ of[1].name # Itself /\ \A i \in DOMAIN of : of[i].name # Itself
    BY <2>1 DEF Itself
  <2>4. \A i, j \in DOMAIN of : of[i].name = of[j].name => i = j
    BY <2>1
  <2>5. ElementsOK(of)
    BY <2>2, <2>3, <2>4, Zenon DEF ElementsOK
  <2> QED BY <2>5 DEF of
<1>3. ElementsOK(StakerOutput_serialize)
  <2> DEFINE of == StakerOutput_serialize
             P == {key("staker_id"), varint("amount")}
  <2>1. /\ of \in Seq(P) /\ Len(of) = 2 /\ \A i \in DOMAIN of : i = 1 \/ i = 2
        /\ of[1].name = "staker_id" /\ of[2].name = "amount"
    BY PlainFields DEF StakerOutput_serialize
  <2> HIDE DEF of, P
  <2>2. IsSequence(of)
    BY <2>1 DEF IsSequence
  <2>3. Len(of) >= 1 /\ of[1].name # Itself /\ \A i \in DOMAIN of : of[i].name # Itself
    BY <2>1 DEF Itself
  <2>4. \A i, j \in DOMAIN of : of[i].name = of[j].name => i = j
    BY <2>1
  <2>5. ElementsOK(of)
    BY <2>2, <2>3, <2>4, Zenon DEF ElementsOK
  <2> QED BY <2>5 DEF of
<1>4. ElementsOK(peer_serialize)
  <2> DEFINE of == peer_serialize
             P == {address("address"), varint("port"), key("peer_id"), key("network_id"),
                   varint("last_seen")}
  <2>1. /\ of \in Seq(P) /\ Len(of) = 5 /\ \A i \in DOMAIN of : i = 1 \/ i = 2 \/ i = 3 \/ i = 4 \/ i = 5
        /\ of[1].name = "address" /\ of[2].name = "port" /\ of[3].name = "peer_id"
        /\ of[4].name = "network_id" /\ of[5].name = "last_seen"
    BY PlainFields DEF peer_serialize
  <2> HIDE DEF of, P
  <2>2. IsSequence(of)
    BY <2>1 DEF IsSequence
  <2>3. Len(of) >= 1 /\ of[1].name # Itself /\ \A i \in DOMAIN of : of[i].name # Itself
    BY <2>1 DEF Itself
  <2>4. \A i, j \in DOMAIN of : of[i].name = of[j].name => i = j
    BY <2>1
  <2>5. ElementsOK(of)
    BY <2>2, <2>3, <2>4, Zenon DEF ElementsOK
  <2> QED BY <2>5 DEF of
<1> QED BY <1>1, <1>2, <1>3, <1>4

\* Vectors and strings of bytes.
LEMMA VectorOK ==
    ASSUME NEW n, NEW of, ElementsOK(of)
    PROVE  /\ FieldOK(vector(n, of)) /\ Counted(vector(n, of))
           /\ vector(n, of).name = n /\ vector(n, of).of = of /\ vector(n, of).kind = "vector"
BY DEF FieldOK, Counted, vector, Field

\* A field of bytes is a counted field of bytes.
LEMMA BytesOK ==
    ASSUME NEW n
    PROVE  /\ FieldOK(bytes(n)) /\ Counted(bytes(n))
           /\ bytes(n).name = n /\ bytes(n).of = <<Field(Itself, "byte", <<>>)>> /\ bytes(n).kind = "bytes"
<1> DEFINE of == <<Field(Itself, "byte", <<>>)>>
<1>1. ElementsOK(of)
  BY ElementLists
<1>2. bytes(n) = [name |-> n, kind |-> "bytes", of |-> of]
  BY DEF bytes, Field
<1> HIDE DEF of
<1>3. FieldOK(bytes(n)) /\ Counted(bytes(n))
  BY <1>1, <1>2 DEF FieldOK, Counted
<1>4. bytes(n).name = n /\ bytes(n).of = of /\ bytes(n).kind = "bytes"
  BY <1>2
<1> QED BY <1>3, <1>4 DEF of

\* Every field of the catalogue is well formed and has its own name.
LEMMA CatalogueOK ==
    ASSUME NEW n \in CatalogueNames
    PROVE  FieldOK(FieldOf(n)) /\ FieldOf(n).name = n /\ FieldOf(n) \in Catalogue
<1>1. FieldOf(n) \in Catalogue
  BY DEF Catalogue
<1>2. CASE n \in VarintNames
  BY <1>1, <1>2, CatalogueFields, PlainFields
<1>3. CASE n \in KeyNames
  BY <1>1, <1>3, CatalogueFields, PlainFields
<1>4. CASE n \in {"view_signature", "spend_signature", "range_proof", "address"}
  <2>1. FieldOf(n) \in {signature(n), proof(n), address(n)}
    BY <1>4, CatalogueFields
  <2> QED BY <1>1, <2>1, PlainFields
<1>5. CASE n \in KeyVectorNames
  <2>1. FieldOf(n) = vector(n, <<key(Itself)>>)
    BY <1>5, CatalogueFields, Zenon DEF keyV
  <2>2. ElementsOK(<<key(Itself)>>)
    BY ElementLists
  <2> DEFINE of == <<key(Itself)>>
  <2> HIDE DEF of
  <2>3. ElementsOK(of) /\ FieldOf(n) = vector(n, of)
    BY <2>1, <2>2 DEF of
  <2> QED BY <1>1, <2>3, VectorOK
<1>6. CASE n \in {"extra", "payload"}
  <2>1. FieldOf(n) = bytes(n)
    BY <1>6, CatalogueFields
  <2> QED BY <1>1, <2>1, BytesOK
<1>7. CASE n \in {"signatures", "outputs", "staker_outputs", "staker_penalties", "peers"}
  <2>1. \E of : ElementsOK(of) /\ FieldOf(n) = vector(n, of)
    BY <1>7, CatalogueFields, ElementLists
  <2> QED BY <1>1, <2>1, VectorOK
<1> QED BY <1>2, <1>3, <1>4, <1>5, <1>6, <1>7, Zenon DEF CatalogueNames

\* Lists over the catalogue.
LEMMA CatalogueList ==
    ASSUME NEW fields \in Seq(Catalogue)
    PROVE  FieldsOK(fields) /\ NamedOnce(FieldSet(fields)) /\ FieldSet(fields) \subseteq Catalogue
<1>1. \A i \in DOMAIN fields : fields[i] \in Catalogue
  BY LenProperties, ElementOfSeq
<1>2. FieldSet(fields) \subseteq Catalogue
  BY <1>1 DEF FieldSet
<1>3. \A f \in Catalogue : FieldOK(f) /\ f = FieldOf(f.name)
  BY CatalogueOK DEF Catalogue
<1> QED BY <1>1, <1>2, <1>3 DEF FieldsOK, IsSequence, NamedOnce

\* Every field of a structure is in the catalogue.
LEMMA InCatalogue ==
    /\ \A n \in VarintNames : varint(n) \in Catalogue
    /\ \A n \in KeyNames : key(n) \in Catalogue
    /\ \A n \in KeyVectorNames : keyV(n) \in Catalogue
    /\ \A n \in {"view_signature", "spend_signature"} : signature(n) \in Catalogue
    /\ proof("range_proof") \in Catalogue
    /\ address("address") \in Catalogue
    /\ \A n \in {"extra", "payload"} : bytes(n) \in Catalogue
    /\ vector("signatures", <<proof(Itself)>>) \in Catalogue
    /\ vector("outputs", TransactionOutput_serialize) \in Catalogue
    /\ \A n \in {"staker_outputs", "staker_penalties"} :
          vector(n, StakerOutput_serialize) \in Catalogue
    /\ vector("peers", peer_serialize) \in Catalogue
<1>1. {"range_proof", "address", "signatures", "outputs", "peers"} \subseteq CatalogueNames
  BY DEF CatalogueNames
<1>2. \A n \in CatalogueNames : FieldOf(n) \in Catalogue
  BY DEF Catalogue
<1>3. /\ FieldOf("range_proof") \in Catalogue /\ FieldOf("address") \in Catalogue
      /\ FieldOf("signatures") \in Catalogue /\ FieldOf("outputs") \in Catalogue
      /\ FieldOf("peers") \in Catalogue
  BY <1>1, <1>2
<1> QED BY <1>2, <1>3, CatalogueFields, Zenon

\* The lists the structures are made of.
LEMMA PartLists ==
    /\ serialize_header \in Seq(Catalogue) /\ serialize_prefix \in Seq(Catalogue)
    /\ serialize_body \in Seq(Catalogue) /\ serialize_extra \in Seq(Catalogue)
    /\ serialize_stake \in Seq(Catalogue) /\ serialize_recall \in Seq(Catalogue)
    /\ serialize_suffix \in Seq(Catalogue) /\ serialize_signatures \in Seq(Catalogue)
    /\ serialize_uncommitted_suffix \in Seq(Catalogue)
<1>1. serialize_header \in Seq(Catalogue)
  BY InCatalogue DEF serialize_header, VarintNames
<1>2. serialize_prefix \in Seq(Catalogue)
  <2>1. <<varint("unlock_block"), key("public_key")>> \in Seq(Catalogue)
    BY InCatalogue DEF VarintNames, KeyNames
  <2> QED BY <1>1, <2>1, ConcatProperties DEF serialize_prefix
<1>3. serialize_body \in Seq(Catalogue)
  BY InCatalogue DEF serialize_body, VarintNames, KeyVectorNames
<1>4. serialize_extra \in Seq(Catalogue)
  BY InCatalogue DEF serialize_extra
<1>5. serialize_stake \in Seq(Catalogue)
  BY InCatalogue DEF serialize_stake, VarintNames, KeyNames
<1>6. serialize_recall \in Seq(Catalogue)
  BY InCatalogue DEF serialize_recall, VarintNames, KeyNames
<1>7. serialize_suffix \in Seq(Catalogue)
  BY InCatalogue DEF serialize_suffix, KeyNames
<1>8. serialize_signatures \in Seq(Catalogue)
  BY InCatalogue DEF serialize_signatures, KeyVectorNames
<1>9. serialize_uncommitted_suffix \in Seq(Catalogue)
  <2>1. <<proof("range_proof")>> \in Seq(Catalogue)
    BY InCatalogue
  <2> QED BY <1>8, <2>1, ConcatProperties DEF serialize_uncommitted_suffix
<1> QED BY <1>1, <1>2, <1>3, <1>4, <1>5, <1>6, <1>7, <1>8, <1>9

\* What pays a block: its lists are those of its bytes and its JSON alike.
LEMMA RewardLists ==
    /\ genesis_serialize \in Seq(Catalogue) /\ staker_serialize \in Seq(Catalogue)
    /\ genesis_deserialize = genesis_serialize /\ staker_deserialize = staker_serialize
    /\ genesis_toJSON = genesis_serialize /\ staker_toJSON = staker_serialize
    /\ genesis_fromJSON = genesis_serialize /\ staker_fromJSON = staker_serialize
<1>1. genesis_serialize \in Seq(Catalogue)
  <2>1. <<key("secret_key"), vector("outputs", TransactionOutput_serialize)>> \in Seq(Catalogue)
    BY InCatalogue DEF KeyNames
  <2> QED BY <2>1, PartLists, ConcatProperties DEF genesis_serialize
<1>2. staker_serialize \in Seq(Catalogue)
  <2>1. <<vector("staker_outputs", StakerOutput_serialize),
          vector("staker_penalties", StakerOutput_serialize)>> \in Seq(Catalogue)
    BY InCatalogue
  <2> QED BY <2>1, PartLists, ConcatProperties DEF staker_serialize
<1> USE DEF serialize_header, deserialize_header, header_toJSON, header_fromJSON,
            serialize_prefix, deserialize_prefix, prefix_toJSON, prefix_fromJSON,
            TransactionOutput_serialize, TransactionOutput_deserialize,
            TransactionOutput_toJSON, TransactionOutput_fromJSON,
            StakerOutput_serialize, StakerOutput_deserialize, StakerOutput_toJSON, StakerOutput_fromJSON
<1>3. genesis_deserialize = genesis_serialize /\ genesis_toJSON = genesis_serialize
        /\ genesis_fromJSON = genesis_serialize
  BY Zenon DEF genesis_serialize, genesis_deserialize, genesis_toJSON, genesis_fromJSON
<1>4. staker_deserialize = staker_serialize /\ staker_toJSON = staker_serialize
        /\ staker_fromJSON = staker_serialize
  BY Zenon DEF staker_serialize, staker_deserialize, staker_toJSON, staker_fromJSON
<1> QED BY <1>1, <1>2, <1>3, <1>4, Zenon

-----------------------------------------------------------------------------
(* Totals and sizes *)

\* a[i] is the sum of the first i elements of s.
Totals(a, s, n) ==
    /\ a[0] = 0
    /\ \A i \in 1..n : a[i] = a[i - 1] + s[i]

\* The recursion of Total is defined for every length.
LEMMA TotalsExist ==
    ASSUME NEW N \in Nat, NEW s \in [1..N -> Nat]
    PROVE  \A n \in Nat : n <= N => \E a \in [0..n -> Nat] : Totals(a, s, n)
<1> DEFINE P(n) == n <= N => \E a \in [0..n -> Nat] : Totals(a, s, n)
           S == {n \in Nat : P(n)}
<1>1. 0 \in S
  <2> DEFINE a == [i \in 0..0 |-> 0]
  <2>1. a \in [0..0 -> Nat] /\ Totals(a, s, 0)
    BY DEF Totals
  <2> QED BY <2>1
<1>2. ASSUME NEW n \in Nat, n \in S PROVE n + 1 \in S
  <2> SUFFICES ASSUME n + 1 <= N PROVE \E a \in [0..(n + 1) -> Nat] : Totals(a, s, n + 1)
    OBVIOUS
  <2>1. PICK a \in [0..n -> Nat] : Totals(a, s, n)
    BY <1>2
  <2> DEFINE next == a[n] + s[n + 1]
  <2>6. next \in Nat
    OBVIOUS
  <2> HIDE DEF next
  <2> DEFINE h == [i \in 0..(n + 1) |-> IF i = n + 1 THEN next ELSE a[i]]
  <2>2. \A i \in 0..n : h[i] = a[i]
    OBVIOUS
  <2>3. h[n + 1] = next
    OBVIOUS
  <2>4. h \in [0..(n + 1) -> Nat]
    BY <2>6
  <2> HIDE DEF h
  <2>5. Totals(h, s, n + 1)
    <3>1. h[0] = 0
      BY <2>1, <2>2 DEF Totals
    <3>2. ASSUME NEW i \in 1..(n + 1) PROVE h[i] = h[i - 1] + s[i]
      <4>1. CASE i = n + 1
        <5>1. h[i] = next /\ h[i - 1] = a[n] /\ s[i] = s[n + 1]
          BY <4>1, <2>2, <2>3
        <5> QED BY <5>1 DEF next
      <4>2. CASE i # n + 1
        <5>1. i \in 1..n /\ h[i] = a[i] /\ h[i - 1] = a[i - 1]
          BY <4>2, <2>2
        <5> QED BY <5>1, <2>1 DEF Totals
      <4> QED BY <4>1, <4>2
    <3> QED BY <3>1, <3>2 DEF Totals
  <2> QED BY <2>4, <2>5
<1> HIDE DEF P
<1>3. \A n \in Nat : n \in S
  <2> HIDE DEF S
  <2> QED BY <1>1, <1>2, Induction
<1> QED BY <1>3 DEF P

\* Total, a recursive function, ends with the last of them.
LEMMA TotalFunction ==
    ASSUME NEW s \in Seq(Nat)
    PROVE  \E a \in [0..Len(s) -> Nat] : Totals(a, s, Len(s)) /\ Total(s) = a[Len(s)]
<1> DEFINE N == Len(s)
           D(a) == [i \in 0..N |-> IF i = 0 THEN 0 ELSE a[i - 1] + s[i]]
           upto == CHOOSE a : a = D(a)
<1>1. N \in Nat /\ s \in [1..N -> Nat]
  BY LenProperties
<1>2. PICK b \in [0..N -> Nat] : Totals(b, s, N)
  BY <1>1, TotalsExist
<1>3. b = D(b)
  <2>1. ASSUME NEW i \in 0..N PROVE b[i] = IF i = 0 THEN 0 ELSE b[i - 1] + s[i]
    BY <1>2 DEF Totals
  <2> HIDE DEF N
  <2>2. b = [i \in 0..N |-> b[i]]
    OBVIOUS
  <2> QED BY <2>1, <2>2, Zenon
<1>4. upto = D(upto)
  BY <1>3, Zenon
<1>5. Total(s) = upto[N]
  BY Zenon DEF Total
<1> HIDE DEF upto
<1>6. ASSUME NEW i \in 0..N PROVE upto[i] = IF i = 0 THEN 0 ELSE upto[i - 1] + s[i]
  <2>1. upto[i] = D(upto)[i]
    BY <1>4, Zenon
  <2>2. D(upto)[i] = IF i = 0 THEN 0 ELSE upto[i - 1] + s[i]
    BY Zenon
  <2> QED BY <2>1, <2>2, Zenon
<1>7. upto = [i \in 0..N |-> upto[i]]
  <2>1. DOMAIN D(upto) = 0..N
    OBVIOUS
  <2> HIDE DEF D
  <2> QED BY <1>4, <2>1
<1> HIDE DEF D, N
<1>8. Totals(upto, s, N)
  <2>1. 0 \in 0..N /\ \A i \in 1..N : i \in 0..N /\ i # 0
    BY <1>1
  <2> QED BY <1>6, <2>1 DEF Totals
<1>9. \A i \in Nat : i <= N => upto[i] \in Nat
  <2> DEFINE S == {i \in Nat : i <= N => upto[i] \in Nat}
  <2>1. 0 \in S
    BY <1>8 DEF Totals
  <2>2. ASSUME NEW i \in Nat, i \in S PROVE i + 1 \in S
    <3> SUFFICES ASSUME i + 1 <= N PROVE upto[i + 1] \in Nat
      OBVIOUS
    <3>1. i + 1 \in 1..N /\ (i + 1) - 1 = i /\ upto[i] \in Nat
      BY <1>1, <2>2
    <3>2. upto[i + 1] = upto[(i + 1) - 1] + s[i + 1]
      BY <1>8, <3>1 DEF Totals
    <3>3. s[i + 1] \in Nat
      BY <1>1, <3>1
    <3> QED BY <3>1, <3>2, <3>3
  <2>3. \A i \in Nat : i \in S
    <3> HIDE DEF S
    <3> QED BY <2>1, <2>2, Induction
  <2> QED BY <2>3
<1>10. upto \in [0..N -> Nat]
  BY <1>1, <1>7, <1>9
<1> QED BY <1>5, <1>8, <1>10 DEF N

\* The sum of a sequence is that of its two parts.
LEMMA TotalParts ==
    ASSUME NEW x \in Seq(Nat), NEW y \in Seq(Nat), NEW z \in Seq(Nat), Len(z) = Len(x) + Len(y),
           \A i \in 1..Len(x) : z[i] = x[i],
           \A i \in 1..Len(y) : z[Len(x) + i] = y[i]
    PROVE  Total(x) \in Nat /\ Total(y) \in Nat /\ Total(z) = Total(x) + Total(y)
<1> DEFINE m == Len(x)
           n == Len(y)
<1>1. m \in Nat /\ n \in Nat
  BY LenProperties
<1>2. PICK a \in [0..m -> Nat] : Totals(a, x, m) /\ Total(x) = a[m]
  BY TotalFunction, Zenon
<1>3. PICK b \in [0..n -> Nat] : Totals(b, y, n) /\ Total(y) = b[n]
  BY TotalFunction, Zenon
<1>4. PICK c \in [0..m + n -> Nat] : Totals(c, z, m + n) /\ Total(z) = c[m + n]
  <2>1. Len(z) = m + n
    OBVIOUS
  <2>2. \E c \in [0..Len(z) -> Nat] : Totals(c, z, Len(z)) /\ Total(z) = c[Len(z)]
    BY TotalFunction, Zenon
  <2> HIDE DEF m, n
  <2> QED BY <2>1, <2>2, Zenon
<1>10. (\A i \in 1..m : z[i] = x[i]) /\ (\A i \in 1..n : z[m + i] = y[i])
  OBVIOUS
<1> HIDE DEF m, n
<1>5. \A i \in Nat : i <= m => c[i] = a[i]
  <2> DEFINE S == {i \in Nat : i <= m => c[i] = a[i]}
  <2>1. 0 \in S
    BY <1>2, <1>4 DEF Totals
  <2>2. ASSUME NEW i \in Nat, i \in S PROVE i + 1 \in S
    <3> SUFFICES ASSUME i + 1 <= m PROVE c[i + 1] = a[i + 1]
      OBVIOUS
    <3>1. i + 1 \in 1..m /\ i + 1 \in 1..m + n /\ (i + 1) - 1 = i /\ c[i] = a[i]
      BY <1>1, <2>2
    <3>2. c[i + 1] = c[(i + 1) - 1] + z[i + 1] /\ a[i + 1] = a[(i + 1) - 1] + x[i + 1]
      BY <1>2, <1>4, <3>1 DEF Totals
    <3>3. z[i + 1] = x[i + 1]
      BY <1>10, <3>1
    <3> QED BY <3>1, <3>2, <3>3
  <2>3. \A i \in Nat : i \in S
    <3> HIDE DEF S
    <3> QED BY <2>1, <2>2, Induction
  <2> QED BY <2>3
<1>6. \A i \in Nat : i <= n => c[m + i] = a[m] + b[i]
  <2> DEFINE S == {i \in Nat : i <= n => c[m + i] = a[m] + b[i]}
  <2>1. 0 \in S
    <3>1. m + 0 = m /\ c[m] = a[m] /\ b[0] = 0 /\ a[m] \in Nat
      BY <1>1, <1>3, <1>5 DEF Totals
    <3> QED BY <3>1
  <2>2. ASSUME NEW i \in Nat, i \in S PROVE i + 1 \in S
    <3> SUFFICES ASSUME i + 1 <= n PROVE c[m + (i + 1)] = a[m] + b[i + 1]
      OBVIOUS
    <3>1. /\ i + 1 \in 1..n /\ m + (i + 1) \in 1..m + n /\ (i + 1) - 1 = i
          /\ (m + (i + 1)) - 1 = m + i /\ c[m + i] = a[m] + b[i]
      BY <1>1, <2>2
    <3>2. /\ c[m + (i + 1)] = c[(m + (i + 1)) - 1] + z[m + (i + 1)]
          /\ b[i + 1] = b[(i + 1) - 1] + y[i + 1]
      BY <1>3, <1>4, <3>1 DEF Totals
    <3>3. z[m + (i + 1)] = y[i + 1]
      BY <1>10, <3>1
    <3>4. a[m] \in Nat /\ b[i] \in Nat /\ b[i + 1] \in Nat
      BY <1>1, <3>1
    <3>5. y[i + 1] \in Nat
      BY <3>1, ElementOfSeq DEF n
    <3>6. c[m + (i + 1)] = (a[m] + b[i]) + y[i + 1] /\ b[i + 1] = b[i] + y[i + 1]
      BY <3>1, <3>2, <3>3, Zenon
    <3> DEFINE t == c[m + (i + 1)]
               u == a[m]
               v == b[i]
               w == b[i + 1]
               e == y[i + 1]
    <3>7. u \in Nat /\ v \in Nat /\ e \in Nat /\ t = (u + v) + e /\ w = v + e
      BY <3>4, <3>5, <3>6
    <3> HIDE DEF t, u, v, w, e
    <3>8. t = u + w
      BY <3>7
    <3> QED BY <3>8 DEF t, u, w
  <2>3. \A i \in Nat : i \in S
    <3> HIDE DEF S
    <3> QED BY <2>1, <2>2, Induction
  <2> QED BY <2>3
<1>7. c[m + n] = a[m] + b[n] /\ a[m] \in Nat /\ b[n] \in Nat
  BY <1>1, <1>6
<1> QED BY <1>2, <1>3, <1>4, <1>7 DEF m, n

\* The bytes of two pieces.
LEMMA SizeParts ==
    ASSUME NEW T, NEW x \in Seq(T), NEW y \in Seq(T)
    PROVE  Size(x) \in Nat /\ Size(y) \in Nat /\ Size(x \o y) = Size(x) + Size(y)
<1> DEFINE z == x \o y
           M(d) == [i \in DOMAIN d |-> TokenSize(d[i])]
<1>1. \A t : TokenSize(t) \in Nat
  BY DEF TokenSize
<1>2. ASSUME NEW d \in Seq(T)
      PROVE  /\ Len(d) \in Nat /\ M(d) \in Seq(Nat) /\ Len(M(d)) = Len(d) /\ Size(d) = Total(M(d))
             /\ \A i \in 1..Len(d) : M(d)[i] = TokenSize(d[i])
  <2>1. Len(d) \in Nat /\ DOMAIN d = 1..Len(d)
    BY LenProperties
  <2> DEFINE L == Len(d)
             w == M(d)
  <2>2. w \in [1..L -> Nat] /\ \A i \in 1..L : w[i] = TokenSize(d[i])
    BY <1>1, <2>1
  <2>3. Size(d) = Total(w)
    BY Zenon DEF Size
  <2> HIDE DEF L, w
  <2>4. L \in Nat
    BY <2>1 DEF L
  <2>5. w \in Seq(Nat)
    BY <2>2, <2>4, SeqDef
  <2>6. Len(w) = L
    <3>1. DOMAIN w = 1..L
      BY <2>2
    <3> QED BY <2>4, <2>5, <3>1, LenProperties
  <2> QED BY <2>2, <2>3, <2>4, <2>5, <2>6 DEF L, w
<1>3. /\ z \in Seq(T) /\ Len(z) = Len(x) + Len(y)
      /\ \A i \in 1..Len(x) + Len(y) : z[i] = IF i <= Len(x) THEN x[i] ELSE y[i - Len(x)]
  BY ConcatProperties
<1> HIDE DEF z, M
<1>4. \A i \in 1..Len(x) : M(z)[i] = M(x)[i]
  <2> TAKE i \in 1..Len(x)
  <2>1. Len(x) \in Nat /\ Len(y) \in Nat
    BY <1>2
  <2>2. i \in 1..Len(x) + Len(y) /\ i <= Len(x)
    BY <2>1
  <2>3. z[i] = x[i]
    BY <1>3, <2>2
  <2> QED BY <1>2, <1>3, <2>2, <2>3
<1>5. \A i \in 1..Len(y) : M(z)[Len(x) + i] = M(y)[i]
  <2> TAKE i \in 1..Len(y)
  <2>1. Len(x) \in Nat /\ Len(y) \in Nat
    BY <1>2
  <2>2. Len(x) + i \in 1..Len(x) + Len(y) /\ ~(Len(x) + i <= Len(x)) /\ (Len(x) + i) - Len(x) = i
    BY <2>1
  <2>3. z[Len(x) + i] = y[i]
    BY <1>3, <2>2
  <2> QED BY <1>2, <1>3, <2>2, <2>3
<1>6. /\ Total(M(x)) \in Nat /\ Total(M(y)) \in Nat /\ Total(M(z)) = Total(M(x)) + Total(M(y))
  <2> DEFINE p == M(x)
             q == M(y)
             r == M(z)
  <2>1. /\ p \in Seq(Nat) /\ q \in Seq(Nat) /\ r \in Seq(Nat)
        /\ Len(p) = Len(x) /\ Len(q) = Len(y) /\ Len(r) = Len(x) + Len(y)
    BY <1>2, <1>3
  <2>2. (\A i \in 1..Len(p) : r[i] = p[i]) /\ (\A i \in 1..Len(q) : r[Len(p) + i] = q[i])
    BY <1>4, <1>5, <2>1
  <2> HIDE DEF p, q, r
  <2>3. Total(p) \in Nat /\ Total(q) \in Nat /\ Total(r) = Total(p) + Total(q)
    <3>1. Len(r) = Len(p) + Len(q)
      BY <2>1
    <3> QED BY <2>1, <2>2, <3>1, TotalParts
  <2> QED BY <2>3 DEF p, q, r
<1> QED BY <1>2, <1>3, <1>6 DEF z

\* A structure written in two pieces.
Halves(x, y, z) == \E V : x \in Seq(V) /\ y \in Seq(V) /\ z = x \o y

\* Two lists one after the other are written one after the other.
LEMMA WrittenConcat ==
    ASSUME NEW S, NEW a \in Seq(S), NEW b \in Seq(S), NEW rec,
           FieldsOK(a), FieldsOK(b), RecordOK(a, rec), RecordOK(b, rec)
    PROVE  Halves(Written(a, rec), Written(b, rec), Written(a \o b, rec))
<1> DEFINE ab == a \o b
           m == Len(a)
           n == Len(b)
           A == Members(a, rec)
           B == Members(b, rec)
           E == Members(ab, rec)
<1>1. m \in Nat /\ n \in Nat /\ DOMAIN a = 1..m /\ DOMAIN b = 1..n
  BY LenProperties
<1>2. /\ ab \in Seq(S) /\ Len(ab) = m + n
      /\ \A i \in 1..m + n : ab[i] = IF i <= m THEN a[i] ELSE b[i - m]
  BY ConcatProperties
<1>3. DOMAIN ab = 1..m + n
  BY <1>2, LenProperties
<1> HIDE DEF ab, m, n
<1>4. ASSUME NEW i \in 1..m PROVE i \in 1..m + n /\ ab[i] = a[i]
  BY <1>1, <1>2
<1>5. ASSUME NEW i \in 1..n PROVE m + i \in 1..m + n /\ ab[m + i] = b[i]
  <2>1. m + i \in 1..m + n /\ ~(m + i <= m) /\ (m + i) - m = i
    BY <1>1
  <2> QED BY <1>2, <2>1
<1>6. \A i \in 1..m + n : (\E k \in 1..m : i = k) \/ (\E k \in 1..n : i = m + k)
  <2> TAKE i \in 1..m + n
  <2>1. CASE i <= m
    BY <1>1, <2>1
  <2>2. CASE ~(i <= m)
    <3>1. i - m \in 1..n /\ i = m + (i - m)
      BY <1>1, <2>2
    <3> QED BY <3>1
  <2> QED BY <2>1, <2>2
<1>7. ASSUME NEW i \in 1..m + n PROVE FieldOK(ab[i]) /\ Storable(ab[i], rec[ab[i].name])
  <2>1. ASSUME NEW k \in 1..m, i = k PROVE FieldOK(ab[i]) /\ Storable(ab[i], rec[ab[i].name])
    BY <1>1, <1>4, <2>1 DEF FieldsOK, RecordOK
  <2>2. ASSUME NEW k \in 1..n, i = m + k PROVE FieldOK(ab[i]) /\ Storable(ab[i], rec[ab[i].name])
    BY <1>1, <1>5, <2>2 DEF FieldsOK, RecordOK
  <2> QED BY <1>6, <2>1, <2>2
<1>8. FieldsOK(ab) /\ RecordOK(ab, rec)
  BY <1>2, <1>3, <1>7 DEF FieldsOK, RecordOK, IsSequence
<1>9. PICK V, k : Flattening(V, k, E, m + n) /\ Written(ab, rec) = k[m + n]
  BY <1>2, <1>8, WrittenParts
<1>10. PICK T, g : Flattening(T, g, A, m) /\ Written(a, rec) = g[m]
  BY WrittenParts DEF m
<1>11. PICK U, h : Flattening(U, h, B, n) /\ Written(b, rec) = h[n]
  BY WrittenParts DEF n
<1>12. \A i \in 1..m : E[i] = A[i]
  BY <1>1, <1>3, <1>4 DEF Members
<1>13. \A i \in 1..n : E[m + i] = B[i]
  BY <1>1, <1>3, <1>5 DEF Members
<1> HIDE DEF E, A, B
<1>14. /\ k[0] = <<>> /\ g[0] = <<>> /\ h[0] = <<>>
       /\ \A i \in 1..m + n : k[i] = k[i - 1] \o E[i]
       /\ \A i \in 1..m : g[i] = g[i - 1] \o A[i]
       /\ \A i \in 1..n : h[i] = h[i - 1] \o B[i]
  BY <1>9, <1>10, <1>11, Zenon DEF Flattening, Flattens
<1>15. /\ \A i \in 0..m + n : k[i] \in Seq(V)
       /\ \A i \in 1..m + n : E[i] \in Seq(V)
  BY <1>9 DEF Flattening
<1>16. \A i \in Nat : i <= m => k[i] = g[i]
  <2> DEFINE P(i) == i <= m => k[i] = g[i]
             Q == {i \in Nat : P(i)}
  <2>1. 0 \in Q
    BY <1>14
  <2>2. ASSUME NEW i \in Nat, i \in Q PROVE i + 1 \in Q
    <3> SUFFICES ASSUME i + 1 <= m PROVE k[i + 1] = g[i + 1]
      OBVIOUS
    <3>1. i + 1 \in 1..m /\ i + 1 \in 1..m + n /\ (i + 1) - 1 = i /\ k[i] = g[i]
      BY <1>1, <2>2
    <3>2. k[i + 1] = k[(i + 1) - 1] \o E[i + 1] /\ g[i + 1] = g[(i + 1) - 1] \o A[i + 1]
      BY <1>14, <3>1, Zenon
    <3>3. E[i + 1] = A[i + 1]
      BY <1>12, <3>1, Zenon
    <3> QED BY <3>1, <3>2, <3>3, Zenon
  <2>3. \A i \in Nat : i \in Q
    <3> HIDE DEF Q
    <3> QED BY <2>1, <2>2, Induction
  <2> QED BY <2>3
<1>17. \A i \in Nat : i <= n => h[i] \in Seq(V) /\ k[m + i] = k[m] \o h[i]
  <2> DEFINE P(i) == h[i] \in Seq(V) /\ k[m + i] = k[m] \o h[i]
             Q == {i \in Nat : i <= n => P(i)}
  <2>10. \A i : P(i) <=> h[i] \in Seq(V) /\ k[m + i] = k[m] \o h[i]
    OBVIOUS
  <2>1. 0 \in Q
    <3>1. m + 0 = m /\ k[m] \in Seq(V)
      BY <1>1, <1>15
    <3>2. k[m] \o <<>> = k[m]
      BY <3>1, ConcatEmptySeq
    <3>3. h[0] \in Seq(V)
      BY <1>14, EmptySeq
    <3>4. k[m + 0] = k[m] \o h[0]
      BY <1>14, <3>1, <3>2, Zenon
    <3>5. P(0)
      BY <3>3, <3>4
    <3> HIDE DEF P
    <3> QED BY <3>5
  <2>2. ASSUME NEW i \in Nat, i \in Q PROVE i + 1 \in Q
    <3> HIDE DEF P
    <3> SUFFICES ASSUME i + 1 <= n PROVE P(i + 1)
      OBVIOUS
    <3>1. /\ i + 1 \in 1..n /\ m + (i + 1) \in 1..m + n /\ (i + 1) - 1 = i
          /\ (m + (i + 1)) - 1 = m + i /\ m \in 0..m + n
      BY <1>1
    <3>20. P(i)
      <4>1. i <= n
        BY <1>1, <3>1
      <4> QED BY <2>2, <4>1
    <3>2. h[i] \in Seq(V) /\ k[m + i] = k[m] \o h[i]
      BY <3>20, Zenon DEF P
    <3>3. /\ k[m + (i + 1)] = k[m + i] \o E[m + (i + 1)]
          /\ h[i + 1] = h[i] \o B[i + 1]
      BY <1>14, <3>1, Zenon
    <3>4. E[m + (i + 1)] = B[i + 1]
      BY <1>13, <3>1, Zenon
    <3>5. B[i + 1] \in Seq(V)
      BY <1>15, <3>1, <3>4, Zenon
    <3>6. h[i + 1] \in Seq(V)
      BY <3>2, <3>3, <3>5, ConcatProperties
    <3>7. (k[m] \o h[i]) \o B[i + 1] = k[m] \o (h[i] \o B[i + 1])
      <4>1. k[m] \in Seq(V) /\ h[i] \in Seq(V)
        BY <1>15, <3>1, <3>2, Zenon
      <4> DEFINE p == k[m]
                 q == h[i]
                 r == B[i + 1]
      <4>2. p \in Seq(V) /\ q \in Seq(V) /\ r \in Seq(V)
        BY <3>5, <4>1
      <4> HIDE DEF p, q, r
      <4>3. (p \o q) \o r = p \o (q \o r)
        BY <4>2, ConcatAssociative
      <4> QED BY <4>3, Zenon DEF p, q, r
    <3>8. k[m + (i + 1)] = k[m] \o h[i + 1]
      BY <3>2, <3>3, <3>4, <3>7, Zenon
    <3> QED BY <3>6, <3>8 DEF P
  <2>3. \A i \in Nat : i \in Q
    <3> HIDE DEF Q
    <3> QED BY <2>1, <2>2, Induction
  <2> HIDE DEF P
  <2>4. \A i \in Nat : i <= n => P(i)
    BY <2>3
  <2> QED BY <2>4, <2>10, Zenon
<1>18. k[m] = g[m] /\ h[n] \in Seq(V) /\ k[m + n] = k[m] \o h[n] /\ k[m] \in Seq(V)
  <2>1. m <= m /\ n <= n /\ m \in 0..m + n
    BY <1>1
  <2> QED BY <1>1, <1>15, <1>16, <1>17, <2>1, Zenon
<1>19. /\ Written(a, rec) \in Seq(V) /\ Written(b, rec) \in Seq(V)
       /\ Written(ab, rec) = Written(a, rec) \o Written(b, rec)
  BY <1>9, <1>10, <1>11, <1>18, Zenon
<1>20. Halves(Written(a, rec), Written(b, rec), Written(ab, rec))
  BY <1>19, Zenon DEF Halves
<1> QED BY <1>20 DEF ab

\* A structure of one plain member is one token.
LEMMA WrittenOne ==
    ASSUME NEW f, FieldOK(f), ~Counted(f), NEW rec, Storable(f, rec[f.name])
    PROVE  /\ FieldsOK(<<f>>) /\ RecordOK(<<f>>, rec)
           /\ Size(Written(<<f>>, rec)) = TokenSize(<<f.kind, rec[f.name]>>)
<1> DEFINE fields == <<f>>
           t == <<f.kind, rec[f.name]>>
           E == Members(fields, rec)
           W == Written(fields, rec)
<1>1. fields \in Seq({f}) /\ Len(fields) = 1 /\ fields[1] = f /\ DOMAIN fields = {1}
  OBVIOUS
<1> HIDE DEF fields
<1>2. FieldsOK(fields) /\ RecordOK(fields, rec)
  BY <1>1 DEF FieldsOK, RecordOK, IsSequence
<1>3. PICK T, g : Flattening(T, g, E, 1) /\ W = g[1]
  BY <1>1, <1>2, WrittenParts
<1>4. E[1] = Emitted(f, rec[f.name])
  BY <1>1 DEF Members
<1>5. Len(E[1]) = 1 /\ E[1][1] = t
  BY <1>4, EmittedShape
<1> HIDE DEF E, W, t
<1>6. Parts(g, E, 1)
  BY <1>3, FlattenPart
<1>7. Len(g[0]) = 0
  BY <1>3, EmptySeq DEF Flattening, Flattens
<1>8. Len(g[1]) = 1 /\ g[1][1] = t
  <2>1. /\ Len(g[1]) = Len(g[0]) + Len(E[1])
        /\ \A k \in 1..Len(E[1]) : g[1][Len(g[0]) + k] = E[1][k]
    <3>1. 1 \in 1..1 /\ 1 - 1 = 0
      OBVIOUS
    <3> QED BY <1>6, <3>1, Zenon DEF Parts
  <2> QED BY <1>5, <1>7, <2>1
<1>9. W \in Seq(T) /\ DOMAIN W = 1..1
  BY <1>3, <1>8, LenProperties DEF Flattening
<1> DEFINE w == [i \in DOMAIN W |-> TokenSize(W[i])]
<1>10. TokenSize(t) \in Nat
  BY DEF TokenSize
<1>11. w \in [1..1 -> Nat] /\ w[1] = TokenSize(t)
  BY <1>3, <1>8, <1>9, <1>10
<1>12. Size(W) = Total(w)
  BY Zenon DEF Size
<1> HIDE DEF w
<1>13. w \in Seq(Nat) /\ Len(w) = 1
  <2>1. w \in Seq(Nat)
    BY <1>11, SeqDef
  <2>2. DOMAIN w = 1..1
    BY <1>11
  <2> QED BY <2>1, <2>2, LenProperties
<1>14. PICK a \in [0..1 -> Nat] : Totals(a, w, 1) /\ Total(w) = a[1]
  BY <1>13, TotalFunction
<1>15. a[1] = TokenSize(t)
  BY <1>10, <1>11, <1>14 DEF Totals
<1> QED BY <1>2, <1>12, <1>14, <1>15 DEF fields, W, t

-----------------------------------------------------------------------------
(* Structures one after the other *)

\* The places of the elements of a concatenation.
Joins(S, a, b, x) ==
    /\ Len(a) \in Nat /\ Len(b) \in Nat /\ x \in Seq(S) /\ Len(x) = Len(a) + Len(b)
    /\ \A i \in 1..Len(a) : x[i] = a[i]
    /\ \A i \in 1..Len(b) : x[Len(a) + i] = b[i]

\* The elements of a concatenation.
LEMMA ConcatAt ==
    ASSUME NEW S, NEW a \in Seq(S), NEW b \in Seq(S), NEW x, x = a \o b
    PROVE  Joins(S, a, b, x)
<1> DEFINE m == Len(a)
           n == Len(b)
<1>1. m \in Nat /\ n \in Nat
  BY LenProperties
<1>2. /\ a \o b \in Seq(S) /\ Len(a \o b) = m + n
      /\ \A i \in 1..m + n : (a \o b)[i] = IF i <= m THEN a[i] ELSE b[i - m]
  BY ConcatProperties
<1>3. /\ x \in Seq(S) /\ Len(x) = m + n
      /\ \A i \in 1..m + n : x[i] = IF i <= m THEN a[i] ELSE b[i - m]
  BY <1>2
<1> HIDE DEF m, n
<1>4. ASSUME NEW i \in 1..m PROVE x[i] = a[i]
  BY <1>1, <1>3
<1>5. ASSUME NEW i \in 1..n PROVE x[m + i] = b[i]
  <2>1. m + i \in 1..m + n /\ ~(m + i <= m) /\ (m + i) - m = i
    BY <1>1
  <2> QED BY <1>3, <2>1
<1> QED BY <1>1, <1>3, <1>4, <1>5 DEF m, n, Joins

\* Sequences of whatever elements.
LEMMA SeqJoin ==
    ASSUME NEW a, NEW b, IsSequence(a), IsSequence(b)
    PROVE  \E U : a \in Seq(U) /\ b \in Seq(U) /\ Joins(U, a, b, a \o b)
<1>1. PICK S, T : a \in Seq(S) /\ b \in Seq(T)
  BY DEF IsSequence
<1> DEFINE U == S \cup T
<1>2. a \in Seq(U) /\ b \in Seq(U)
  <2>1. S \subseteq U /\ T \subseteq U
    OBVIOUS
  <2> HIDE DEF U
  <2> QED BY <1>1, <2>1
<1> HIDE DEF U
<1> DEFINE x == a \o b
<1>3. x = a \o b
  OBVIOUS
<1> HIDE DEF x
<1>4. Joins(U, a, b, x)
  BY <1>2, <1>3, ConcatAt
<1> QED BY <1>2, <1>3, <1>4, Zenon

\* Concatenation is associative.
LEMMA SeqAssoc ==
    ASSUME NEW a, NEW b, NEW c, IsSequence(a), IsSequence(b), IsSequence(c)
    PROVE  /\ (a \o b) \o c = a \o (b \o c)
           /\ IsSequence(a \o b) /\ IsSequence(b \o c)
           /\ a \o <<>> = a
<1>1. PICK S, T, R : a \in Seq(S) /\ b \in Seq(T) /\ c \in Seq(R)
  BY DEF IsSequence
<1> DEFINE U == S \cup T \cup R
<1>2. a \in Seq(U) /\ b \in Seq(U) /\ c \in Seq(U)
  <2>1. S \subseteq U /\ T \subseteq U /\ R \subseteq U
    OBVIOUS
  <2> HIDE DEF U
  <2> QED BY <1>1, <2>1
<1> HIDE DEF U
<1>3. (a \o b) \o c = a \o (b \o c)
  BY <1>2, ConcatAssociative
<1>4. a \o b \in Seq(U) /\ b \o c \in Seq(U)
  BY <1>2, ConcatProperties
<1>5. a \o <<>> = a
  BY <1>2, ConcatEmptySeq
<1> QED BY <1>3, <1>4, <1>5, Zenon DEF IsSequence

\* data is whole, or whole cut short.
Within(data, whole) ==
    IsSequence(data) /\ IsSequence(whole) /\ Len(data) <= Len(whole) /\ Agree(data, whole)

\* A beginning as long as the whole is the whole.
LEMMA WithinEqual ==
    ASSUME NEW data, NEW whole, Within(data, whole), Len(data) = Len(whole)
    PROVE  data = whole
<1>1. PICK S, T : data \in Seq(S) /\ whole \in Seq(T)
  BY DEF Within, IsSequence
<1> DEFINE n == Len(whole)
<1>2. n \in Nat /\ data \in [1..n -> S] /\ whole \in [1..n -> T]
  BY <1>1, LenProperties
<1>3. \A i \in 1..n : i <= n => data[i] = whole[i]
  BY Zenon DEF Within, Agree
<1> HIDE DEF n
<1>4. \A i \in 1..n : data[i] = whole[i]
  BY <1>2, <1>3
<1> QED BY <1>2, <1>4

\* The whole is a beginning of itself.
LEMMA WithinItself ==
    ASSUME NEW data, IsSequence(data)
    PROVE  Within(data, data)
<1>1. PICK S : data \in Seq(S)
  BY DEF IsSequence
<1>2. Len(data) \in Nat
  BY <1>1, LenProperties
<1>3. Len(data) <= Len(data)
  BY <1>2
<1> QED BY <1>3, Zenon DEF Within, Agree

\* r has read members, and what is left of the data is what is left of whole:
\* all of rest when the data was all of it, and else cut short.
Resumes(r, members, data, whole, rest) ==
    IF r = Thrown THEN Len(data) # Len(whole)
    ELSE /\ r.ok /\ r.out = members /\ Within(r.in, rest)
         /\ Len(r.in) = Len(rest) <=> Len(data) = Len(whole)

MembersOf(fields, rec) == [n \in Names(fields) |-> rec[n]]

\* A structure is read from the front of what was written, or from what is
\* left of it.
LEMMA StageRead ==
    ASSUME NEW fields, NEW rec, FieldsOK(fields), RecordOK(fields, rec), NEW rest, IsSequence(rest),
           NEW data, Within(data, Written(fields, rec) \o rest)
    PROVE  Resumes(ReadFields(Reader(data), fields), MembersOf(fields, rec), data,
                   Written(fields, rec) \o rest, rest)
<1> DEFINE a == Written(fields, rec)
           w == a \o rest
           r == ReadFields(Reader(data), fields)
           out == MembersOf(fields, rec)
           m == Len(a)
           l == Len(rest)
           d == Len(data)
<1>1. IsSequence(a)
  <2>1. PICK T, g : Flattening(T, g, Members(fields, rec), Len(fields)) /\ a = g[Len(fields)]
    BY WrittenParts, Zenon
  <2>2. Len(fields) \in Nat
    BY WrittenParts, Zenon
  <2> HIDE DEF a
  <2> DEFINE n == Len(fields)
  <2>3. g \in [0..n -> Seq(T)] /\ n \in 0..n
    BY <2>1, <2>2 DEF Flattening
  <2>4. g[n] \in Seq(T)
    BY <2>3
  <2> QED BY <2>1, <2>4, Zenon DEF IsSequence
<1>2. w = a \o rest
  OBVIOUS
<1>3. PICK S : data \in Seq(S)
  BY Zenon DEF Within, IsSequence
<1>4. PICK U : a \in Seq(U) /\ rest \in Seq(U) /\ Joins(U, a, rest, w)
  BY <1>1, SeqJoin
<1>5. m \in Nat /\ l \in Nat /\ d \in Nat /\ Len(w) = m + l
  <2>1. m \in Nat /\ l \in Nat /\ Len(w) = m + l
    BY <1>4, Zenon DEF Joins
  <2>2. d \in Nat
    BY <1>3, LenProperties
  <2> QED BY <2>1, <2>2
<1>6. (\A i \in 1..m : w[i] = a[i]) /\ \A i \in 1..l : w[m + i] = rest[i]
  BY <1>4, Zenon DEF Joins
<1>7. d <= Len(w) /\ \A j \in 1..d : j <= Len(w) => data[j] = w[j]
  BY Zenon DEF Within, Agree
<1>8. Agree(data, a)
  <2>1. ASSUME NEW j \in 1..d, j <= m PROVE data[j] = a[j]
    <3> HIDE DEF a, w, m, l, d
    <3>1. j \in 1..m /\ j <= Len(w)
      BY <1>5, <2>1
    <3> QED BY <1>6, <1>7, <3>1
  <2> QED BY <2>1, Zenon DEF Agree
<1>9. /\ d < m => r = Thrown
      /\ d >= m => r = [in |-> Rest(data, m), ok |-> TRUE, out |-> out]
  BY <1>3, <1>8, StructureRead, Zenon DEF MembersOf
<1> HIDE DEF a, w, r, out, m, l, d
<1>10. CASE d < m
  <2>1. r = Thrown /\ d # Len(w)
    BY <1>5, <1>9, <1>10
  <2>2. Resumes(r, out, data, w, rest)
    BY <2>1, Zenon DEF Resumes, d
  <2> QED BY <2>2 DEF r, out, w, a
<1>11. CASE ~(d < m)
  <2>1. r = [in |-> Rest(data, m), ok |-> TRUE, out |-> out]
    BY <1>5, <1>9, <1>11
  <2> DEFINE x == Rest(data, m)
  <2>2. r.in = x /\ r.ok /\ r.out = out
    <3> HIDE DEF x
    <3>1. r = [in |-> x, ok |-> TRUE, out |-> out]
      BY <2>1 DEF x
    <3> QED BY <3>1
  <2>3. r # Thrown
    BY <2>2 DEF Thrown
  <2>4. x \in Seq(S) /\ Agree(x, rest)
    <3>1. \A k \in 1..l : w[m + k] = rest[k]
      BY <1>6
    <3>2. m <= d /\ Len(w) \in Nat /\ m + l <= Len(w)
      BY <1>5, <1>11
    <3>3. Agree(data, w)
      BY Zenon DEF Within, w, a
    <3> QED BY <1>3, <1>5, <3>1, <3>2, <3>3, RestAgrees DEF d, l
  <2>5. Len(x) = d - m
    <3>1. 0 \in Nat /\ m <= d
      BY <1>5, <1>11
    <3> QED BY <1>3, <1>5, <3>1, SubSeqShift DEF Rest, d
  <2> HIDE DEF x
  <2>6. Len(x) <= l /\ (Len(x) = l <=> d = Len(w))
    BY <1>5, <1>7, <2>5
  <2>7. Within(x, rest)
    BY <2>4, <2>6, Zenon DEF Within, IsSequence, l
  <2>8. Resumes(r, out, data, w, rest)
    BY <2>2, <2>3, <2>6, <2>7, Zenon DEF Resumes, l, d
  <2> QED BY <2>8 DEF r, out, w, a
<1> QED BY <1>10, <1>11

\* Where a structure's bytes end can be told from the bytes: what was written,
\* whatever follows it, fixes the members and what follows.
FollowedBy(fields, rec, x, data) ==
    IsSequence(x) /\ IsSequence(data) /\ data = Written(fields, rec) \o x

\* Bytes that begin with one structure and also with another of the same
\* fields begin with one object: a structure shows where it ends.
LEMMA SelfDelimiting ==
    ASSUME NEW fields, NEW b, NEW c, FieldsOK(fields), RecordOK(fields, b), RecordOK(fields, c),
           NEW x, NEW y, NEW data, FollowedBy(fields, b, x, data), FollowedBy(fields, c, y, data)
    PROVE  MembersOf(fields, b) = MembersOf(fields, c) /\ x = y
<1> DEFINE v == Written(fields, b) \o x
           w == Written(fields, c) \o y
           r == ReadFields(Reader(data), fields)
<1>1. Within(data, data) /\ data = v /\ data = w /\ IsSequence(x) /\ IsSequence(y)
  BY WithinItself DEF FollowedBy
<1>2. Within(data, v) /\ Within(data, w)
  BY <1>1, Zenon
<1>3. Resumes(r, MembersOf(fields, b), data, v, x)
  BY <1>1, <1>2, StageRead
<1>4. Resumes(r, MembersOf(fields, c), data, w, y)
  BY <1>1, <1>2, StageRead
<1> HIDE DEF v, w, r
<1>5. Len(data) = Len(v) /\ Len(data) = Len(w)
  BY <1>1, Zenon
<1>6. r # Thrown
  BY <1>3, <1>5, Zenon DEF Resumes
<1>7. /\ r.out = MembersOf(fields, b) /\ Within(r.in, x) /\ Len(r.in) = Len(x)
      /\ r.out = MembersOf(fields, c) /\ Within(r.in, y) /\ Len(r.in) = Len(y)
  BY <1>3, <1>4, <1>5, <1>6, Zenon DEF Resumes
<1>8. r.in = x /\ r.in = y
  BY <1>7, WithinEqual
<1> QED BY <1>7, <1>8, Zenon

\* The first token of a structure whose first member is plain.
LEMMA FirstToken ==
    ASSUME NEW fields, NEW rec, FieldsOK(fields), RecordOK(fields, rec), Len(fields) >= 1,
           ~Counted(fields[1])
    PROVE  /\ IsSequence(Written(fields, rec)) /\ Len(Written(fields, rec)) \in Nat
           /\ Len(Written(fields, rec)) >= 1
           /\ Written(fields, rec)[1] = <<fields[1].kind, rec[fields[1].name]>>
<1> DEFINE N == Len(fields)
           E == Members(fields, rec)
           W == Written(fields, rec)
<1>1. N \in Nat /\ DOMAIN fields = 1..N
  BY WrittenParts, Zenon
<1>2. PICK T, g : Flattening(T, g, E, N) /\ W = g[N]
  BY WrittenParts, Zenon
<1>3. Parts(g, E, N)
  BY <1>2, FlattenPart
<1>4. Len(g[0]) = 0
  BY <1>2, EmptySeq DEF Flattening, Flattens
<1>5. 1 \in 1..N
  BY <1>1
<1>6. Len(E[1]) = 1 /\ E[1][1] = <<fields[1].kind, rec[fields[1].name]>>
  <2>1. E[1] = Emitted(fields[1], rec[fields[1].name])
    BY <1>1, <1>5 DEF Members
  <2>2. FieldOK(fields[1]) /\ Storable(fields[1], rec[fields[1].name])
    BY <1>1, <1>5 DEF FieldsOK, RecordOK
  <2> QED BY <2>1, <2>2, EmittedShape
<1> HIDE DEF N, E, W
<1>7. /\ Len(g[1]) = Len(g[1 - 1]) + Len(E[1])
      /\ \A k \in 1..Len(E[1]) : g[N][Len(g[1 - 1]) + k] = E[1][k]
  BY <1>3, <1>5, Zenon DEF Parts
<1>8. 1 - 1 = 0 /\ 0 + 1 = 1 /\ 1 \in 1..1
  OBVIOUS
<1>9. g[N][0 + 1] = E[1][1]
  BY <1>4, <1>6, <1>7, <1>8, Zenon
<1>10. W[1] = <<fields[1].kind, rec[fields[1].name]>>
  BY <1>2, <1>6, <1>8, <1>9, Zenon
<1>11. W \in Seq(T)
  BY <1>1, <1>2 DEF Flattening
<1>12. Len(W) \in Nat
  BY <1>11, LenProperties
<1>13. Len(W) >= 1
  <2>1. Len(g[1]) = 1
    BY <1>4, <1>6, <1>7
  <2>2. Len(g[1]) <= Len(g[N])
    BY <1>3, <1>5, Zenon DEF Parts
  <2> QED BY <1>2, <1>12, <2>1, <2>2
<1> QED BY <1>10, <1>11, <1>12, <1>13, Zenon DEF W, IsSequence

-----------------------------------------------------------------------------
(* Values that are read back as they are, and lists by their names *)

\* One token that is not an address: whatever it is.
LEMMA PlainStorable ==
    ASSUME NEW f, ~Counted(f), f.kind # "address", NEW v
    PROVE  Storable(f, v)
BY DEF Storable, Loaded

\* The names of members that are neither counted nor addresses.
LEMMA PlainNames ==
    ASSUME NEW n \in CatalogueNames,
           n \in VarintNames \cup KeyNames \cup {"view_signature", "spend_signature", "range_proof"}
    PROVE  ~Counted(FieldOf(n)) /\ FieldOf(n).kind # "address"
<1>1. FieldOf(n) \in {varint(n), key(n), signature(n), proof(n)}
  BY CatalogueFields
<1>2. \A f \in {varint(n), key(n), signature(n), proof(n)} : f.kind \in {"varint", "key", "signature", "proof"}
  BY DEF varint, key, signature, proof, Field
<1> QED BY <1>1, <1>2 DEF Counted

\* Structured elements.
LEMMA OutputElement ==
    ASSUME NEW e, NEW a, NEW c
    PROVE  ElementStorable(TransactionOutput_serialize, [public_ephemeral |-> e, amount |-> a, commitment |-> c])
<1> DEFINE of == TransactionOutput_serialize
           o == [public_ephemeral |-> e, amount |-> a, commitment |-> c]
<1>1. /\ DOMAIN of = 1..3 /\ of[1] = key("public_ephemeral") /\ of[2] = varint("amount")
      /\ of[3] = key("commitment")
  BY DEF TransactionOutput_serialize
<1>2. \A i \in 1..3 : i = 1 \/ i = 2 \/ i = 3
  OBVIOUS
<1> HIDE DEF of
<1>3. Names(of) = {"public_ephemeral", "amount", "commitment"}
  BY <1>1, <1>2, PlainFields DEF Names
<1>4. \A k \in DOMAIN of : of[k].kind # "address"
  BY <1>1, <1>2 DEF key, varint, Field
<1>5. o = [n \in {"public_ephemeral", "amount", "commitment"} |-> o[n]]
  OBVIOUS
<1> HIDE DEF o
<1>6. ElementStorable(of, o)
  BY <1>3, <1>4, <1>5, Zenon DEF ElementStorable, Loaded
<1> QED BY <1>6 DEF of, o

\* A staker output is read back as it is.
LEMMA RewardStorable ==
    ASSUME NEW i, NEW a
    PROVE  ElementStorable(StakerOutput_serialize, [staker_id |-> i, amount |-> a])
<1> DEFINE of == StakerOutput_serialize
           o == [staker_id |-> i, amount |-> a]
<1>1. DOMAIN of = 1..2 /\ of[1] = key("staker_id") /\ of[2] = varint("amount")
  BY DEF StakerOutput_serialize
<1>2. \A k \in 1..2 : k = 1 \/ k = 2
  OBVIOUS
<1> HIDE DEF of
<1>3. Names(of) = {"staker_id", "amount"}
  BY <1>1, <1>2, PlainFields DEF Names
<1>4. \A k \in DOMAIN of : of[k].kind # "address"
  BY <1>1, <1>2 DEF key, varint, Field
<1>5. o = [n \in {"staker_id", "amount"} |-> o[n]]
  OBVIOUS
<1> HIDE DEF o
<1>6. ElementStorable(of, o)
  BY <1>3, <1>4, <1>5, Zenon DEF ElementStorable, Loaded
<1> QED BY <1>6 DEF of, o

\* A vector of structures.
LEMMA StructVectorStorable ==
    ASSUME NEW n, NEW of, ElementsOK(of), NEW v, IsSequence(v),
           \A i \in DOMAIN v : ElementStorable(of, v[i])
    PROVE  Storable(vector(n, of), v)
BY VectorOK DEF Storable

\* Sequences of one and of two.
LEMMA ShortSequences ==
    ASSUME NEW a, NEW b
    PROVE  /\ IsSequence(<<>>)
           /\ IsSequence(<<a>>) /\ DOMAIN <<a>> = {1} /\ <<a>>[1] = a
           /\ IsSequence(<<a, b>>) /\ DOMAIN <<a, b>> = {1, 2}
           /\ <<a, b>>[1] = a /\ <<a, b>>[2] = b
<1>1. <<>> \in Seq({a, b}) /\ <<a>> \in Seq({a, b}) /\ <<a, b>> \in Seq({a, b})
  OBVIOUS
<1>2. IsSequence(<<>>) /\ IsSequence(<<a>>) /\ IsSequence(<<a, b>>)
  BY <1>1, Zenon DEF IsSequence
<1>3. /\ DOMAIN <<a>> = {1} /\ <<a>>[1] = a /\ DOMAIN <<a, b>> = {1, 2}
      /\ <<a, b>>[1] = a /\ <<a, b>>[2] = b
  OBVIOUS
<1> QED BY <1>2, <1>3

\* No elements at all.
LEMMA EmptyStorable ==
    ASSUME NEW f, Counted(f)
    PROVE  Storable(f, <<>>)
<1>1. IsSequence(<<>>)
  BY ShortSequences
<1>2. \A i \in DOMAIN <<>> : ElementStorable(f.of, <<>>[i])
  OBVIOUS
<1> QED BY <1>1, <1>2, Zenon DEF Storable

\* One or two elements that are read back make a vector that is.
LEMMA ShortVectors ==
    ASSUME NEW n, NEW of, ElementsOK(of), NEW a, NEW b,
           ElementStorable(of, a), ElementStorable(of, b)
    PROVE  Storable(vector(n, of), <<a>>) /\ Storable(vector(n, of), <<a, b>>)
<1> DEFINE x == <<a>>
           y == <<a, b>>
<1>1. /\ IsSequence(x) /\ DOMAIN x = {1} /\ x[1] = a
      /\ IsSequence(y) /\ DOMAIN y = {1, 2} /\ y[1] = a /\ y[2] = b
  BY ShortSequences
<1> HIDE DEF x, y
<1>2. \A i \in DOMAIN x : ElementStorable(of, x[i])
  BY <1>1, Zenon
<1>3. \A i \in DOMAIN y : ElementStorable(of, y[i])
  BY <1>1, Zenon
<1>4. Storable(vector(n, of), x) /\ Storable(vector(n, of), y)
  BY <1>1, <1>2, <1>3, StructVectorStorable
<1> QED BY <1>4 DEF x, y

\* Within the catalogue a member is known by its name alone.
LEMMA RecordByName ==
    ASSUME NEW fields \in Seq(Catalogue), NEW rec
    PROVE  /\ \A n \in Names(fields) : n \in CatalogueNames /\ FieldNamed(fields, n) = FieldOf(n)
           /\ \A i \in DOMAIN fields : /\ fields[i].name \in Names(fields)
                                       /\ fields[i] \in Catalogue
                                       /\ fields[i] = FieldOf(fields[i].name)
           /\ RecordOK(fields, rec) <=> \A n \in Names(fields) : Storable(FieldOf(n), rec[n])
<1>1. \A f \in Catalogue : f.name \in CatalogueNames /\ f = FieldOf(f.name)
  BY CatalogueOK DEF Catalogue
<1>2. ASSUME NEW i \in DOMAIN fields
      PROVE  /\ fields[i].name \in Names(fields) /\ fields[i] \in Catalogue
             /\ fields[i] = FieldOf(fields[i].name)
  <2>1. fields[i] \in Catalogue
    BY CatalogueList DEF FieldSet
  <2> QED BY <1>1, <2>1 DEF Names
<1>3. ASSUME NEW n \in Names(fields)
      PROVE  n \in CatalogueNames /\ FieldNamed(fields, n) = FieldOf(n)
  <2>1. FieldNamed(fields, n) \in FieldSet(fields) /\ FieldNamed(fields, n).name = n
    BY FieldNamedIs
  <2>2. FieldNamed(fields, n) \in Catalogue
    BY <2>1, CatalogueList
  <2> QED BY <1>1, <2>1, <2>2
<1>4. \A n \in Names(fields) : \E i \in DOMAIN fields : fields[i].name = n
  BY DEF Names
<1>5. RecordOK(fields, rec) <=> \A n \in Names(fields) : Storable(FieldOf(n), rec[n])
  BY <1>2, <1>4, Zenon DEF RecordOK
<1> QED BY <1>2, <1>3, <1>5

\* The names of two lists one after the other.
LEMMA ConcatNames ==
    ASSUME NEW S, NEW a \in Seq(S), NEW b \in Seq(S)
    PROVE  Names(a \o b) = Names(a) \cup Names(b)
<1> DEFINE x == a \o b
           m == Len(a)
           n == Len(b)
<1>1. /\ m \in Nat /\ n \in Nat /\ DOMAIN a = 1..m /\ DOMAIN b = 1..n
  BY LenProperties
<1>2. /\ x \in Seq(S) /\ Len(x) = m + n
      /\ \A i \in 1..m + n : x[i] = IF i <= m THEN a[i] ELSE b[i - m]
  BY ConcatProperties
<1>3. DOMAIN x = 1..m + n
  BY <1>2, LenProperties
<1> HIDE DEF x, m, n
<1>4. ASSUME NEW i \in 1..m PROVE i \in 1..m + n /\ x[i] = a[i]
  BY <1>1, <1>2
<1>5. ASSUME NEW i \in 1..n PROVE m + i \in 1..m + n /\ x[m + i] = b[i]
  <2>1. m + i \in 1..m + n /\ ~(m + i <= m) /\ (m + i) - m = i
    BY <1>1
  <2> QED BY <1>2, <2>1
<1>6. ASSUME NEW i \in 1..m + n PROVE (\E k \in 1..m : x[i] = a[k]) \/ (\E k \in 1..n : x[i] = b[k])
  <2>1. CASE i <= m
    BY <1>1, <1>2, <2>1
  <2>2. CASE ~(i <= m)
    <3>1. i - m \in 1..n /\ x[i] = b[i - m]
      BY <1>1, <1>2, <2>2
    <3> QED BY <3>1
  <2> QED BY <2>1, <2>2
<1>7. Names(x) = Names(a) \cup Names(b)
  <2>1. ASSUME NEW y \in Names(x) PROVE y \in Names(a) \cup Names(b)
    <3>1. PICK i \in 1..m + n : y = x[i].name
      BY <1>3 DEF Names
    <3> QED BY <1>1, <1>6, <3>1 DEF Names
  <2>2. ASSUME NEW y \in Names(a) PROVE y \in Names(x)
    BY <1>1, <1>3, <1>4 DEF Names
  <2>3. ASSUME NEW y \in Names(b) PROVE y \in Names(x)
    <3>1. PICK i \in 1..n : y = b[i].name
      BY <1>1 DEF Names
    <3>2. m + i \in DOMAIN x /\ y = x[m + i].name
      BY <1>3, <1>5, <3>1
    <3> QED BY <3>2 DEF Names
  <2> QED BY <2>1, <2>2, <2>3
<1> QED BY <1>7 DEF x

(******************************************************************************)
(* Part 2: Documents                                                          *)
(******************************************************************************)
-----------------------------------------------------------------------------
(* The lists of the structures *)

\* The four methods of a structure visit the same fields, and the bytes in
\* the same order.
MethodsOK(m) ==
    /\ m.serialize \in Seq(Catalogue)
    /\ m.deserialize = m.serialize
    /\ m.toJSON = m.serialize
    /\ FieldSet(m.fromJSON) = FieldSet(m.serialize)

\* A structure whose methods visit the same list passes MethodsOK.
LEMMA SameMethods ==
    ASSUME NEW s \in Seq(Catalogue), NEW d, d = s, NEW t, t = s, NEW f, FieldSet(f) = FieldSet(s)
    PROVE  MethodsOK(Methods(s, d, t, f))
BY DEF MethodsOK, Methods

\* So it is for the structures that are written out as one list.
LEMMA PlainStructures ==
    /\ MethodsOK(Methods(TransactionOutput_serialize, TransactionOutput_deserialize,
                         TransactionOutput_toJSON, TransactionOutput_fromJSON))
    /\ MethodsOK(Methods(StakerOutput_serialize, StakerOutput_deserialize,
                         StakerOutput_toJSON, StakerOutput_fromJSON))
    /\ MethodsOK(Methods(candidate_serialize, candidate_deserialize, candidate_toJSON, candidate_fromJSON))
    /\ MethodsOK(Methods(stake_serialize, stake_deserialize, stake_toJSON, stake_fromJSON))
    /\ MethodsOK(Methods(peer_serialize, peer_deserialize, peer_toJSON, peer_fromJSON))
    /\ MethodsOK(Methods(keepalive_serialize, keepalive_deserialize, keepalive_toJSON, keepalive_fromJSON))
    /\ MethodsOK(Methods(data_serialize, data_deserialize, data_toJSON, data_fromJSON))
<1>1. MethodsOK(Methods(TransactionOutput_serialize, TransactionOutput_deserialize,
                        TransactionOutput_toJSON, TransactionOutput_fromJSON))
  <2>1. TransactionOutput_serialize \in Seq(Catalogue)
    BY InCatalogue DEF TransactionOutput_serialize, VarintNames, KeyNames
  <2>2. /\ TransactionOutput_deserialize = TransactionOutput_serialize
        /\ TransactionOutput_toJSON = TransactionOutput_serialize
        /\ TransactionOutput_fromJSON = TransactionOutput_serialize
    BY DEF TransactionOutput_serialize, TransactionOutput_deserialize, TransactionOutput_toJSON,
       TransactionOutput_fromJSON
  <2> QED BY <2>1, <2>2, SameMethods
<1>2. MethodsOK(Methods(StakerOutput_serialize, StakerOutput_deserialize,
                        StakerOutput_toJSON, StakerOutput_fromJSON))
  <2>1. StakerOutput_serialize \in Seq(Catalogue)
    BY InCatalogue DEF StakerOutput_serialize, VarintNames, KeyNames
  <2>2. /\ StakerOutput_deserialize = StakerOutput_serialize
        /\ StakerOutput_toJSON = StakerOutput_serialize
        /\ StakerOutput_fromJSON = StakerOutput_serialize
    BY DEF StakerOutput_serialize, StakerOutput_deserialize, StakerOutput_toJSON, StakerOutput_fromJSON
  <2> QED BY <2>1, <2>2, SameMethods
<1>3. MethodsOK(Methods(candidate_serialize, candidate_deserialize, candidate_toJSON, candidate_fromJSON))
  <2>1. candidate_serialize \in Seq(Catalogue)
    BY InCatalogue DEF candidate_serialize, VarintNames, KeyNames
  <2>2. /\ candidate_deserialize = candidate_serialize
        /\ candidate_toJSON = candidate_serialize
        /\ candidate_fromJSON = candidate_serialize
    BY DEF candidate_serialize, candidate_deserialize, candidate_toJSON, candidate_fromJSON
  <2> QED BY <2>1, <2>2, SameMethods
<1>4. MethodsOK(Methods(stake_serialize, stake_deserialize, stake_toJSON, stake_fromJSON))
  <2>1. stake_serialize \in Seq(Catalogue)
    BY InCatalogue DEF stake_serialize, VarintNames, KeyNames
  <2>2. /\ stake_deserialize = stake_serialize
        /\ stake_toJSON = stake_serialize
        /\ stake_fromJSON = stake_serialize
    BY DEF stake_serialize, stake_deserialize, stake_toJSON, stake_fromJSON
  <2> QED BY <2>1, <2>2, SameMethods
<1>5. MethodsOK(Methods(peer_serialize, peer_deserialize, peer_toJSON, peer_fromJSON))
  <2>1. peer_serialize \in Seq(Catalogue)
    BY InCatalogue DEF peer_serialize, VarintNames, KeyNames
  <2>2. /\ peer_deserialize = peer_serialize /\ peer_toJSON = peer_serialize
        /\ peer_fromJSON = peer_serialize
    BY DEF peer_serialize, peer_deserialize, peer_toJSON, peer_fromJSON
  <2> QED BY <2>1, <2>2, SameMethods
<1>6. MethodsOK(Methods(keepalive_serialize, keepalive_deserialize, keepalive_toJSON, keepalive_fromJSON))
  <2>1. keepalive_serialize \in Seq(Catalogue)
    BY InCatalogue DEF keepalive_serialize, VarintNames, KeyNames
  <2>2. /\ keepalive_deserialize = keepalive_serialize /\ keepalive_toJSON = keepalive_serialize
        /\ keepalive_fromJSON = keepalive_serialize
    BY DEF keepalive_serialize, keepalive_deserialize, keepalive_toJSON, keepalive_fromJSON
  <2> QED BY <2>1, <2>2, SameMethods
<1>7. MethodsOK(Methods(data_serialize, data_deserialize, data_toJSON, data_fromJSON))
  <2>1. data_serialize \in Seq(Catalogue)
    BY InCatalogue DEF data_serialize, VarintNames, KeyNames
  <2>2. /\ data_deserialize = data_serialize /\ data_toJSON = data_serialize
        /\ data_fromJSON = data_serialize
    BY DEF data_serialize, data_deserialize, data_toJSON, data_fromJSON
  <2> QED BY <2>1, <2>2, SameMethods
<1> QED BY <1>1, <1>2, <1>3, <1>4, <1>5, <1>6, <1>7

\* fromJSON of the two packets with peers asks for network_id before
\* peer_port.
LEMMA PeerPackets ==
    /\ MethodsOK(Methods(handshake_serialize, handshake_deserialize, handshake_toJSON, handshake_fromJSON))
    /\ MethodsOK(Methods(peer_exchange_serialize, peer_exchange_deserialize,
                         peer_exchange_toJSON, peer_exchange_fromJSON))
<1> DEFINE P == vector("peers", peer_serialize)
           s == <<varint("type"), varint("version"), key("peer_id"), varint("peer_port"), key("network_id"), P>>
           f == <<varint("type"), varint("version"), key("peer_id"), key("network_id"), varint("peer_port"), P>>
<1>1. /\ handshake_serialize = s /\ handshake_deserialize = s /\ handshake_toJSON = s
      /\ peer_exchange_serialize = s /\ peer_exchange_deserialize = s /\ peer_exchange_toJSON = s
      /\ handshake_fromJSON = f /\ peer_exchange_fromJSON = f
  BY Zenon DEF handshake_serialize, handshake_deserialize, handshake_toJSON, handshake_fromJSON,
     peer_exchange_serialize, peer_exchange_deserialize, peer_exchange_toJSON, peer_exchange_fromJSON,
     peer_serialize, peer_deserialize, peer_toJSON, peer_fromJSON
<1>2. s \in Seq(Catalogue)
  BY InCatalogue DEF VarintNames, KeyNames
<1> HIDE DEF P
<1>3. FieldSet(s) = FieldSet(f)
  <2>1. /\ DOMAIN s = 1..6 /\ DOMAIN f = 1..6
    OBVIOUS
  <2>2. /\ s[1] = f[1] /\ s[2] = f[2] /\ s[3] = f[3] /\ s[4] = f[5] /\ s[5] = f[4] /\ s[6] = f[6]
    OBVIOUS
  <2> HIDE DEF s, f
  <2>3. \A i \in 1..6 : i = 1 \/ i = 2 \/ i = 3 \/ i = 4 \/ i = 5 \/ i = 6
    OBVIOUS
  <2>4. \A i \in 1..6 : (\E k \in 1..6 : s[i] = f[k]) /\ (\E k \in 1..6 : f[i] = s[k])
    BY <2>2, <2>3
  <2> QED BY <2>1, <2>4 DEF FieldSet
<1> HIDE DEF s, f
<1> QED BY <1>1, <1>2, <1>3, SameMethods

\* The parts of the user transactions: each method's is the same list.
LEMMA UserParts ==
    /\ deserialize_prefix = serialize_prefix /\ prefix_toJSON = serialize_prefix
    /\ prefix_fromJSON = serialize_prefix
    /\ deserialize_body = serialize_body /\ body_toJSON = serialize_body /\ body_fromJSON = serialize_body
    /\ deserialize_extra = serialize_extra /\ extra_toJSON = serialize_extra
    /\ extra_fromJSON = serialize_extra
    /\ deserialize_stake = serialize_stake /\ stake_data_toJSON = serialize_stake
    /\ stake_data_fromJSON = serialize_stake
    /\ deserialize_recall = serialize_recall /\ recall_data_toJSON = serialize_recall
    /\ recall_data_fromJSON = serialize_recall
    /\ deserialize_suffix = serialize_suffix /\ suffix_toJSON = serialize_suffix
    /\ suffix_fromJSON = serialize_suffix
    /\ deserialize_uncommitted_suffix = serialize_uncommitted_suffix
    /\ uncommitted_suffix_toJSON = serialize_uncommitted_suffix
    /\ uncommitted_suffix_fromJSON = serialize_uncommitted_suffix
<1>1. /\ deserialize_prefix = serialize_prefix /\ prefix_toJSON = serialize_prefix
      /\ prefix_fromJSON = serialize_prefix
  BY Zenon DEF serialize_header, deserialize_header, header_toJSON, header_fromJSON,
     serialize_prefix, deserialize_prefix, prefix_toJSON, prefix_fromJSON
<1>2. deserialize_body = serialize_body /\ body_toJSON = serialize_body /\ body_fromJSON = serialize_body
  BY Zenon DEF serialize_body, deserialize_body, body_toJSON, body_fromJSON,
     TransactionOutput_serialize, TransactionOutput_deserialize, TransactionOutput_toJSON,
     TransactionOutput_fromJSON
<1>3. /\ deserialize_extra = serialize_extra /\ extra_toJSON = serialize_extra
      /\ extra_fromJSON = serialize_extra
      /\ deserialize_stake = serialize_stake /\ stake_data_toJSON = serialize_stake
      /\ stake_data_fromJSON = serialize_stake
  BY Zenon DEF serialize_extra, deserialize_extra, extra_toJSON, extra_fromJSON,
     serialize_stake, deserialize_stake, stake_data_toJSON, stake_data_fromJSON
<1>4. /\ deserialize_recall = serialize_recall /\ recall_data_toJSON = serialize_recall
      /\ recall_data_fromJSON = serialize_recall
      /\ deserialize_suffix = serialize_suffix /\ suffix_toJSON = serialize_suffix
      /\ suffix_fromJSON = serialize_suffix
  BY Zenon DEF serialize_recall, deserialize_recall, recall_data_toJSON, recall_data_fromJSON,
     serialize_suffix, deserialize_suffix, suffix_toJSON, suffix_fromJSON
<1>5. /\ uncommitted_suffix_toJSON = deserialize_uncommitted_suffix
      /\ uncommitted_suffix_fromJSON = deserialize_uncommitted_suffix
  BY Zenon DEF deserialize_uncommitted_suffix, uncommitted_suffix_toJSON, uncommitted_suffix_fromJSON
<1>6. deserialize_uncommitted_suffix = serialize_uncommitted_suffix
  <2> DEFINE a == keyV("pseudo_commitments")
             b == keyV("ring_participants")
             c == vector("signatures", <<proof(Itself)>>)
             d == proof("range_proof")
             s == <<a, b, c>>
             t == <<d>>
             u == <<a, b, c, d>>
             C == {a, b, c, d}
  <2>1. deserialize_uncommitted_suffix = u /\ serialize_uncommitted_suffix = s \o t
    BY Zenon DEF deserialize_uncommitted_suffix, serialize_uncommitted_suffix, serialize_signatures
  <2> HIDE DEF a, b, c, d
  <2>2. /\ s \in Seq(C) /\ Len(s) = 3 /\ s[1] = a /\ s[2] = b /\ s[3] = c
        /\ t \in Seq(C) /\ Len(t) = 1 /\ t[1] = d
        /\ u \in Seq(C) /\ Len(u) = 4 /\ u[1] = a /\ u[2] = b /\ u[3] = c /\ u[4] = d
    OBVIOUS
  <2> HIDE DEF s, t, u, C
  <2>3. /\ s \o t \in Seq(C)
        /\ Len(s \o t) = Len(s) + Len(t)
        /\ \A i \in 1..Len(s) + Len(t) : (s \o t)[i] = IF i <= Len(s) THEN s[i] ELSE t[i - Len(s)]
    BY <2>2, ConcatProperties
  <2> DEFINE x == s \o t
  <2> HIDE DEF x
  <2>4. x \in Seq(C) /\ Len(x) = 4 /\ \A i \in 1..4 : x[i] = IF i <= 3 THEN s[i] ELSE t[i - 3]
    BY <2>2, <2>3 DEF x
  <2>5. x[1] = u[1] /\ x[2] = u[2] /\ x[3] = u[3] /\ x[4] = u[4]
    BY <2>2, <2>4
  <2>6. \A i \in 1..4 : i = 1 \/ i = 2 \/ i = 3 \/ i = 4
    OBVIOUS
  <2>7. \A i \in 1..Len(x) : x[i] = u[i]
    BY <2>4, <2>5, <2>6
  <2>8. x = u
    BY <2>2, <2>4, <2>7, SeqEqual
  <2> QED BY <2>1, <2>8 DEF x
<1> QED BY <1>1, <1>2, <1>3, <1>4, <1>5, <1>6

\* A user transaction: prefix, body, its own data and a suffix.
LEMMA Assembled ==
    ASSUME NEW a \in Seq(Catalogue), NEW b \in Seq(Catalogue), NEW c \in Seq(Catalogue),
           NEW d \in Seq(Catalogue)
    PROVE  /\ a \o b \o c \in Seq(Catalogue)
           /\ a \o b \o c \o d \in Seq(Catalogue)
<1>1. a \o b \in Seq(Catalogue)
  BY ConcatProperties
<1>2. (a \o b) \o c \in Seq(Catalogue)
  BY <1>1, ConcatProperties
<1>3. ((a \o b) \o c) \o d \in Seq(Catalogue)
  BY <1>2, ConcatProperties
<1> QED BY <1>2, <1>3, Zenon

\* So it is for the user transactions, which are put together from parts.
LEMMA UserTransactions ==
    /\ MethodsOK(Methods(committed_normal_serialize, committed_normal_deserialize,
                         committed_normal_toJSON, committed_normal_fromJSON))
    /\ MethodsOK(Methods(uncommitted_normal_serialize, uncommitted_normal_deserialize,
                         uncommitted_normal_toJSON, uncommitted_normal_fromJSON))
    /\ MethodsOK(Methods(committed_stake_serialize, committed_stake_deserialize,
                         committed_stake_toJSON, committed_stake_fromJSON))
    /\ MethodsOK(Methods(uncommitted_stake_serialize, uncommitted_stake_deserialize,
                         uncommitted_stake_toJSON, uncommitted_stake_fromJSON))
    /\ MethodsOK(Methods(committed_recall_serialize, committed_recall_deserialize,
                         committed_recall_toJSON, committed_recall_fromJSON))
    /\ MethodsOK(Methods(uncommitted_recall_serialize, uncommitted_recall_deserialize,
                         uncommitted_recall_toJSON, uncommitted_recall_fromJSON))
<1> DEFINE All(s, d, t, f) == s \in Seq(Catalogue) /\ d = s /\ t = s /\ f = s
<1>1. ASSUME NEW s, NEW d, NEW t, NEW f, All(s, d, t, f) PROVE MethodsOK(Methods(s, d, t, f))
  BY <1>1, SameMethods
<1>2. All(committed_normal_serialize, committed_normal_deserialize,
          committed_normal_toJSON, committed_normal_fromJSON)
  <2>1. serialize_prefix \o serialize_body \o serialize_extra \o serialize_suffix \in Seq(Catalogue)
    BY PartLists, Assembled
  <2> QED BY <2>1, UserParts, Zenon DEF committed_normal_serialize, committed_normal_digest,
          committed_normal_deserialize, committed_normal_toJSON, committed_normal_fromJSON
<1>3. All(uncommitted_normal_serialize, uncommitted_normal_deserialize,
          uncommitted_normal_toJSON, uncommitted_normal_fromJSON)
  <2>1. serialize_prefix \o serialize_body \o serialize_extra \o serialize_uncommitted_suffix
            \in Seq(Catalogue)
    BY PartLists, Assembled
  <2> QED BY <2>1, UserParts, Zenon DEF uncommitted_normal_serialize, uncommitted_normal_digest,
          uncommitted_normal_deserialize, uncommitted_normal_toJSON, uncommitted_normal_fromJSON
<1>4. All(committed_stake_serialize, committed_stake_deserialize,
          committed_stake_toJSON, committed_stake_fromJSON)
  <2>1. serialize_prefix \o serialize_body \o serialize_stake \o serialize_suffix \in Seq(Catalogue)
    BY PartLists, Assembled
  <2> QED BY <2>1, UserParts, Zenon DEF committed_stake_serialize, committed_stake_digest,
          committed_stake_deserialize, committed_stake_toJSON, committed_stake_fromJSON
<1>5. All(uncommitted_stake_serialize, uncommitted_stake_deserialize,
          uncommitted_stake_toJSON, uncommitted_stake_fromJSON)
  <2>1. serialize_prefix \o serialize_body \o serialize_stake \o serialize_uncommitted_suffix
            \in Seq(Catalogue)
    BY PartLists, Assembled
  <2> QED BY <2>1, UserParts, Zenon DEF uncommitted_stake_serialize, uncommitted_stake_digest,
          uncommitted_stake_deserialize, uncommitted_stake_toJSON, uncommitted_stake_fromJSON
<1>6. All(committed_recall_serialize, committed_recall_deserialize,
          committed_recall_toJSON, committed_recall_fromJSON)
  <2>1. serialize_prefix \o serialize_body \o serialize_recall \o serialize_suffix \in Seq(Catalogue)
    BY PartLists, Assembled
  <2> QED BY <2>1, UserParts, Zenon DEF committed_recall_serialize, committed_recall_digest,
          committed_recall_deserialize, committed_recall_toJSON, committed_recall_fromJSON
<1>7. All(uncommitted_recall_serialize, uncommitted_recall_deserialize,
          uncommitted_recall_toJSON, uncommitted_recall_fromJSON)
  <2>1. serialize_prefix \o serialize_body \o serialize_recall \o serialize_uncommitted_suffix
            \in Seq(Catalogue)
    BY PartLists, Assembled
  <2> QED BY <2>1, UserParts, Zenon DEF uncommitted_recall_serialize, uncommitted_recall_digest,
          uncommitted_recall_deserialize, uncommitted_recall_toJSON, uncommitted_recall_fromJSON
<1> HIDE DEF All
<1> QED BY <1>1, <1>2, <1>3, <1>4, <1>5, <1>6, <1>7

\* The transactions that pay a block, and the refund of a stake.
LEMMA SystemTransactions ==
    /\ MethodsOK(Methods(genesis_serialize, genesis_deserialize, genesis_toJSON, genesis_fromJSON))
    /\ MethodsOK(Methods(staker_serialize, staker_deserialize, staker_toJSON, staker_fromJSON))
    /\ MethodsOK(Methods(refund_serialize, refund_deserialize, refund_toJSON, refund_fromJSON))
<1>1. MethodsOK(Methods(genesis_serialize, genesis_deserialize, genesis_toJSON, genesis_fromJSON))
  BY RewardLists, SameMethods
<1>2. MethodsOK(Methods(staker_serialize, staker_deserialize, staker_toJSON, staker_fromJSON))
  BY RewardLists, SameMethods
<1>3. MethodsOK(Methods(refund_serialize, refund_deserialize, refund_toJSON, refund_fromJSON))
  <2>1. refund_serialize \in Seq(Catalogue)
    <3>1. <<key("secret_key"), key("recall_stake_tx"), vector("outputs", TransactionOutput_serialize)>>
            \in Seq(Catalogue)
      BY InCatalogue DEF KeyNames
    <3> QED BY <3>1, PartLists, ConcatProperties DEF refund_serialize
  <2>2. refund_deserialize = refund_serialize /\ refund_toJSON = refund_serialize
          /\ refund_fromJSON = refund_serialize
    BY UserParts, Zenon DEF refund_serialize, refund_deserialize, refund_toJSON, refund_fromJSON,
       TransactionOutput_serialize, TransactionOutput_deserialize, TransactionOutput_toJSON,
       TransactionOutput_fromJSON
  <2> QED BY <2>1, <2>2, SameMethods
<1> QED BY <1>1, <1>2, <1>3

\* Every structure.
LEMMA StructureLists == \A kind \in DOMAIN Structure : MethodsOK(Structure[kind])
BY PlainStructures, PeerPackets, UserTransactions, SystemTransactions DEF Structure

-----------------------------------------------------------------------------
(* The values members take are all read back as they are *)

\* A vector of plain values, or of bytes.
LEMMA PlainVectorStorable ==
    ASSUME NEW f, Counted(f), f.of[1].name = Itself, NEW v, IsSequence(v)
    PROVE  Storable(f, v)
BY DEF Storable, ElementStorable

\* The names of vectors whose elements are single values.
LEMMA PlainVectorNames ==
    ASSUME NEW n \in CatalogueNames, n \in KeyVectorNames \cup {"extra", "payload", "signatures"}
    PROVE  /\ Counted(FieldOf(n)) /\ FieldOf(n).of[1].name = Itself
           /\ FieldOf(n).kind = IF n \in {"extra", "payload"} THEN "bytes" ELSE "vector"
<1>1. CASE n \in KeyVectorNames
  <2>1. FieldOf(n) = vector(n, <<key(Itself)>>)
    BY <1>1, CatalogueFields, Zenon DEF keyV
  <2> QED BY <1>1, <2>1 DEF vector, key, Field, Counted, KeyVectorNames
<1>2. CASE n \in {"extra", "payload"}
  <2>1. FieldOf(n) = bytes(n)
    BY <1>2, CatalogueFields
  <2> QED BY <1>2, <2>1 DEF bytes, Field, Counted
<1>3. CASE n = "signatures"
  <2>1. FieldOf(n) = vector(n, <<proof(Itself)>>)
    BY <1>3, CatalogueFields
  <2> QED BY <1>3, <2>1 DEF vector, proof, Field, Counted
<1> QED BY <1>1, <1>2, <1>3

\* An address that has been normalized once.
Normal(a) == normalize_v4_embedded(a) = a

\* The addresses assigned are as normalize_v4_embedded leaves them.
LEMMA NormalAddresses == Normal(V4) /\ Normal(V6) /\ Normal(Default(FieldOf("address")))
<1>1. ASSUME NEW a, "IPV4_COMPAT" \notin a.flags PROVE Normal(a)
  BY <1>1 DEF Normal, normalize_v4_embedded
<1>2. "IPV4_COMPAT" \notin V4.flags
  BY DEF V4, normalize_v4_embedded
<1>3. "IPV4_COMPAT" \notin V6.flags
  BY DEF V6
<1>4. Default(FieldOf("address")) = [flags |-> {}, components |-> <<0, 0, 0, 0, 0, 0, 0, 0>>]
  <2>1. FieldOf("address").kind = "address"
    BY CatalogueFields DEF address, Field
  <2> QED BY <2>1 DEF Default
<1>5. "IPV4_COMPAT" \notin Default(FieldOf("address")).flags
  BY <1>4
<1> QED BY <1>1, <1>2, <1>3, <1>5

\* Structured elements.
LEMMA OutputStorable ==
    ASSUME NEW e, NEW a, NEW c
    PROVE  ElementStorable(TransactionOutput_serialize, output(e, a, c))
BY OutputElement DEF output

\* A network_peer_t with such an address is read back as it is.
LEMMA PeerStorable ==
    ASSUME NEW a, Normal(a)
    PROVE  ElementStorable(peer_serialize, peer(a))
<1> DEFINE of == peer_serialize
           o == peer(a)
           N == {"address", "port", "peer_id", "network_id", "last_seen"}
<1>1. /\ DOMAIN of = 1..5 /\ of[1] = address("address") /\ of[2] = varint("port")
      /\ of[3] = key("peer_id") /\ of[4] = key("network_id") /\ of[5] = varint("last_seen")
  BY DEF peer_serialize
<1>2. \A k \in 1..5 : k = 1 \/ k = 2 \/ k = 3 \/ k = 4 \/ k = 5
  OBVIOUS
<1> HIDE DEF of
<1>3. Names(of) = N
  BY <1>1, <1>2, PlainFields DEF Names
<1>4. \A k \in DOMAIN of : of[k].kind # "address" \/ of[k].name = "address"
  BY <1>1, <1>2 DEF key, varint, address, Field
<1>5. o = [n \in N |-> o[n]] /\ o["address"] = a
  BY DEF peer
<1> HIDE DEF o
<1>6. ASSUME NEW k \in DOMAIN of PROVE Loaded(of[k], o[of[k].name]) = o[of[k].name]
  <2>1. CASE of[k].kind # "address"
    BY <2>1, Zenon DEF Loaded
  <2>2. CASE of[k].kind = "address"
    BY <1>4, <1>5, <2>2 DEF Loaded, Normal
  <2> QED BY <2>1, <2>2
<1>7. ElementStorable(of, o)
  BY <1>3, <1>5, <1>6, Zenon DEF ElementStorable
<1> QED BY <1>7 DEF of, o

\* Whatever a member is assigned is read back as it is.
LEMMA ValuesStorable ==
    ASSUME NEW f \in Catalogue, NEW v \in Values(f)
    PROVE  Storable(f, v)
<1> DEFINE O1 == <<output(K1, 1, Commitment(1))>>
           O2 == <<output(K1, 1, Commitment(1)), output(K2, 2, Commitment(1))>>
           O3 == <<output(K1, 1, Commitment(1)), output(Z, 2, Z)>>
           R == <<[staker_id |-> K1, amount |-> 2]>>
           P1 == <<peer(V4)>>
           P2 == <<peer(V6), peer(V4)>>
<1>8. /\ ValuesOf["outputs"] = {O1, O2, O3}
      /\ ValuesOf["staker_outputs"] = {R} /\ ValuesOf["staker_penalties"] = {R}
      /\ ValuesOf["peers"] = {P1, P2}
      /\ DOMAIN ValuesOf = {"fee", "nonce", "secret_key", "key_images", "pseudo_commitments",
             "ring_participants", "signatures", "outputs", "staker_outputs", "staker_penalties", "peers"}
  <2> HIDE DEF O1, O2, O3, R, P1, P2
  <2> QED BY DEF ValuesOf, O1, O2, O3, R, P1, P2
<1>1. PICK n \in CatalogueNames : f = FieldOf(n) /\ f.name = n
  BY CatalogueOK DEF Catalogue
<1>2. CASE n \in VarintNames \cup KeyNames \cup {"view_signature", "spend_signature", "range_proof"}
  BY <1>1, <1>2, PlainNames, PlainStorable
<1>3. CASE n = "address"
  <2>1. f.kind = "address" /\ f.name = "address"
    BY <1>1, <1>3, CatalogueFields DEF address, Field
  <2>2. Values(f) = {V4, V6}
    <3>1. "address" \notin DOMAIN ValuesOf
      BY <1>8
    <3> HIDE DEF V4, V6
    <3> QED BY <2>1, <3>1 DEF Values
  <2>3. Loaded(f, v) = v
    BY <2>1, <2>2, NormalAddresses DEF Loaded, Normal
  <2> QED BY <2>1, <2>3 DEF Storable, Counted
<1>4. CASE n \in KeyVectorNames \cup {"extra", "payload", "signatures"}
  <2>1. /\ Counted(f) /\ f.of[1].name = Itself /\ f.name = n
        /\ f.kind = IF n \in {"extra", "payload"} THEN "bytes" ELSE "vector"
    BY <1>1, <1>4, PlainVectorNames
  <2>2. IsSequence(v)
    <3>1. CASE n \in {"extra", "payload"}
      <4>1. v \in {<<7>>, <<7, 8>>}
        BY <1>8, <2>1, <3>1 DEF Values
      <4>2. IsSequence(<<7>>) /\ IsSequence(<<7, 8>>)
        BY ShortSequences, Zenon
      <4> QED BY <4>1, <4>2, Zenon
    <3>2. CASE n \in KeyVectorNames \cup {"signatures"}
      <4>1. v \in ValuesOf[n] /\ n \in {"key_images", "pseudo_commitments", "ring_participants", "signatures"}
        <5>1. n \in {"key_images", "pseudo_commitments", "ring_participants", "signatures"}
          BY <3>2 DEF KeyVectorNames
        <5>2. n \in DOMAIN ValuesOf /\ n \notin {"type", "record_version"}
          BY <1>8, <5>1
        <5> QED BY <2>1, <5>1, <5>2, Zenon DEF Values
      <4>2. /\ ValuesOf["key_images"] = {<<K1>>, <<K1, K1>>, <<Torsion>>, <<K2, K1>>}
            /\ ValuesOf["pseudo_commitments"] = {<<Commitment(6)>>, <<Commitment(14)>>}
            /\ ValuesOf["ring_participants"] = {<<K1, K2>>}
            /\ ValuesOf["signatures"] = {<<<<"clsag", RING_SIZE>>>>, <<<<"clsag", RING_SIZE + 1>>>>}
        BY DEF ValuesOf
      <4>3. \A m \in {"key_images", "pseudo_commitments", "ring_participants", "signatures"} :
               \A w \in ValuesOf[m] : IsSequence(w)
        <5>1. /\ IsSequence(<<K1>>) /\ IsSequence(<<K1, K1>>) /\ IsSequence(<<Torsion>>)
              /\ IsSequence(<<K2, K1>>) /\ IsSequence(<<Commitment(6)>>)
              /\ IsSequence(<<Commitment(14)>>) /\ IsSequence(<<K1, K2>>)
              /\ IsSequence(<<<<"clsag", RING_SIZE>>>>) /\ IsSequence(<<<<"clsag", RING_SIZE + 1>>>>)
          BY ShortSequences, Zenon
        <5>2. \A w \in ValuesOf["key_images"] : IsSequence(w)
          BY <4>2, <5>1, Zenon
        <5>3. \A w \in ValuesOf["pseudo_commitments"] : IsSequence(w)
          BY <4>2, <5>1, Zenon
        <5>4. \A w \in ValuesOf["ring_participants"] : IsSequence(w)
          BY <4>2, <5>1, Zenon
        <5>5. \A w \in ValuesOf["signatures"] : IsSequence(w)
          BY <4>2, <5>1, Zenon
        <5> QED BY <5>2, <5>3, <5>4, <5>5
      <4> QED BY <4>1, <4>3
    <3> QED BY <1>4, <3>1, <3>2
  <2> QED BY <2>1, <2>2, PlainVectorStorable
<1>5. CASE n = "outputs"
  <2>1. f = vector("outputs", TransactionOutput_serialize) /\ f.name = "outputs" /\ f.kind = "vector"
    BY <1>1, <1>5, CatalogueFields DEF vector, Field
  <2>2. v \in {O1, O2, O3}
    BY <1>8, <2>1, Zenon DEF Values
  <2> QED BY <2>1, <2>2, ElementLists, OutputStorable, ShortVectors
<1>6. CASE n \in {"staker_outputs", "staker_penalties"}
  <2>1. f = vector(n, StakerOutput_serialize) /\ f.name = n /\ f.kind = "vector"
    BY <1>1, <1>6, CatalogueFields DEF vector, Field
  <2>2. v = R
    <3> HIDE DEF R
    <3> QED BY <1>6, <1>8, <2>1 DEF Values
  <2> QED BY <2>1, <2>2, ElementLists, RewardStorable, ShortVectors
<1>7. CASE n = "peers"
  <2>1. f = vector("peers", peer_serialize) /\ f.name = "peers" /\ f.kind = "vector"
    BY <1>1, <1>7, CatalogueFields DEF vector, Field
  <2>2. v \in {P1, P2}
    <3> HIDE DEF P1, P2
    <3> QED BY <1>8, <2>1 DEF Values
  <2> QED BY <2>1, <2>2, ElementLists, NormalAddresses, PeerStorable, ShortVectors
<1> QED BY <1>2, <1>3, <1>4, <1>5, <1>6, <1>7, Zenon DEF CatalogueNames

\* So is what the default constructors set.
LEMMA DefaultStorable ==
    ASSUME NEW n \in CatalogueNames
    PROVE  Storable(FieldOf(n), Default(FieldOf(n)))
<1> DEFINE f == FieldOf(n)
<1>1. CASE n \in VarintNames \cup KeyNames \cup {"view_signature", "spend_signature", "range_proof"}
  BY <1>1, PlainNames, PlainStorable
<1>2. CASE n = "address"
  <2>1. f.kind = "address"
    BY <1>2, CatalogueFields DEF address, Field
  <2>2. Loaded(f, Default(f)) = Default(f)
    BY <1>2, <2>1, NormalAddresses DEF Loaded, Normal
  <2> QED BY <2>1, <2>2 DEF Storable, Counted
<1>3. CASE Counted(f)
  <2>1. Default(f) = <<>>
    BY <1>3 DEF Default, Counted
  <2> QED BY <1>3, <2>1, EmptyStorable
<1>4. n \in CatalogueNames \ (VarintNames \cup KeyNames \cup {"view_signature", "spend_signature",
                                "range_proof", "address"}) => Counted(f)
  <2> SUFFICES ASSUME n \in KeyVectorNames \cup {"extra", "payload", "signatures", "outputs",
                              "staker_outputs", "staker_penalties", "peers"}
               PROVE  Counted(f)
    BY Zenon DEF CatalogueNames
  <2>1. CASE n \in KeyVectorNames \cup {"extra", "payload", "signatures"}
    BY <2>1, PlainVectorNames
  <2>2. CASE n \in {"outputs", "staker_outputs", "staker_penalties", "peers"}
    <3>1. \E of : f = vector(n, of)
      BY <2>2, CatalogueFields
    <3> QED BY <3>1 DEF vector, Field, Counted
  <2> QED BY <2>1, <2>2
<1> QED BY <1>1, <1>2, <1>3, <1>4, Zenon

\* A name that is counted.
LEMMA CountedNames ==
    ASSUME NEW n \in CatalogueNames, Counted(FieldOf(n))
    PROVE  n \in KeyVectorNames \cup {"extra", "payload", "signatures", "outputs",
                              "staker_outputs", "staker_penalties", "peers"}
<1>1. n \notin VarintNames \cup KeyNames \cup {"view_signature", "spend_signature", "range_proof"}
  BY PlainNames
<1>2. n # "address"
  BY CatalogueFields, PlainFields
<1> QED BY <1>1, <1>2, Zenon DEF CatalogueNames

-----------------------------------------------------------------------------
(* Objects by the names of their members *)

PrefixNames == {"type", "version", "unlock_block", "public_key"}
BodyNames == {"nonce", "fee", "key_images", "outputs"}
StakeNames == {"stake_amount", "candidate_public_key", "staker_public_view_key", "staker_public_spend_key"}
RecallNames == {"stake_amount", "candidate_public_key", "staker_id", "view_signature", "spend_signature"}
SuffixNames == {"signature_hash", "range_proof_hash"}
SignatureNames == {"pseudo_commitments", "ring_participants", "signatures", "range_proof"}

\* The members of each part of a user transaction.
LEMMA PartNames ==
    /\ Names(serialize_prefix) = PrefixNames /\ Names(serialize_body) = BodyNames
    /\ Names(serialize_extra) = {"extra"} /\ Names(serialize_stake) = StakeNames
    /\ Names(serialize_recall) = RecallNames /\ Names(serialize_suffix) = SuffixNames
    /\ Names(serialize_uncommitted_suffix) = SignatureNames
<1> DEFINE N(n) == FieldOf(n)
<1>1. ASSUME NEW n \in CatalogueNames PROVE FieldOf(n).name = n
  BY CatalogueOK
<1>2. ASSUME NEW n PROVE /\ varint(n).name = n /\ key(n).name = n /\ keyV(n).name = n
                         /\ signature(n).name = n /\ proof(n).name = n /\ bytes(n).name = n
  BY DEF varint, key, keyV, vector, signature, proof, bytes, Field
<1>3. ASSUME NEW n, NEW of PROVE vector(n, of).name = n
  BY DEF vector, Field
<1>4. Names(serialize_body) = BodyNames
  BY <1>2, <1>3 DEF serialize_body, BodyNames, Names
<1>5. Names(serialize_extra) = {"extra"}
  BY <1>2 DEF serialize_extra, Names
<1>6. Names(serialize_stake) = StakeNames
  BY <1>2 DEF serialize_stake, StakeNames, Names
<1>7. Names(serialize_recall) = RecallNames
  BY <1>2 DEF serialize_recall, RecallNames, Names
<1>8. Names(serialize_suffix) = SuffixNames
  BY <1>2 DEF serialize_suffix, SuffixNames, Names
<1>9. Names(serialize_uncommitted_suffix) = SignatureNames
  <2>1. Names(serialize_uncommitted_suffix) = Names(deserialize_uncommitted_suffix)
    BY UserParts
  <2> DEFINE a == keyV("pseudo_commitments")
             b == keyV("ring_participants")
             c == vector("signatures", <<proof(Itself)>>)
             d == proof("range_proof")
             u == <<a, b, c, d>>
  <2>2. /\ a.name = "pseudo_commitments" /\ b.name = "ring_participants"
        /\ c.name = "signatures" /\ d.name = "range_proof"
    BY <1>2, <1>3
  <2>3. deserialize_uncommitted_suffix = u
    BY Zenon DEF deserialize_uncommitted_suffix
  <2> HIDE DEF a, b, c, d
  <2>4. Names(u) = {a.name, b.name, c.name, d.name}
    BY DEF Names
  <2> HIDE DEF u
  <2> QED BY <2>1, <2>2, <2>3, <2>4 DEF SignatureNames
<1>10. Names(serialize_prefix) = PrefixNames
  <2> DEFINE b == <<varint("unlock_block"), key("public_key")>>
  <2>1. b \in Seq(Catalogue) /\ Names(b) = {"unlock_block", "public_key"}
    BY <1>2, InCatalogue DEF VarintNames, KeyNames, Names
  <2>2. serialize_prefix = serialize_header \o b /\ serialize_header \in Seq(Catalogue)
    BY PartLists, Zenon DEF serialize_prefix
  <2>3. Names(serialize_header) = {"type", "version"}
    BY <1>2 DEF serialize_header, Names
  <2> HIDE DEF b
  <2>4. Names(serialize_prefix) = {"type", "version"} \cup {"unlock_block", "public_key"}
    BY <2>1, <2>2, <2>3, ConcatNames
  <2> QED BY <2>4 DEF PrefixNames
<1> QED BY <1>4, <1>5, <1>6, <1>7, <1>8, <1>9, <1>10

\* The members of three and of four parts put together.
LEMMA AssembledNames ==
    ASSUME NEW a \in Seq(Catalogue), NEW b \in Seq(Catalogue), NEW c \in Seq(Catalogue),
           NEW d \in Seq(Catalogue)
    PROVE  /\ Names(a \o b \o c) = Names(a) \cup Names(b) \cup Names(c)
           /\ Names(a \o b \o c \o d) = Names(a) \cup Names(b) \cup Names(c) \cup Names(d)
<1> DEFINE x == a \o b
           y == x \o c
<1>1. x \in Seq(Catalogue) /\ Names(x) = Names(a) \cup Names(b)
  BY ConcatProperties, ConcatNames
<1> HIDE DEF x
<1>2. y \in Seq(Catalogue) /\ Names(y) = Names(x) \cup Names(c)
  BY <1>1, ConcatProperties, ConcatNames
<1> HIDE DEF y
<1>3. Names(y \o d) = Names(y) \cup Names(d)
  BY <1>2, ConcatNames
<1>4. /\ Names(y) = Names(a) \cup Names(b) \cup Names(c)
      /\ Names(y \o d) = Names(a) \cup Names(b) \cup Names(c) \cup Names(d)
  BY <1>1, <1>2, <1>3, Zenon
<1> QED BY <1>4, Zenon DEF x, y

\* The members of each user transaction.
LEMMA UserNames ==
    /\ Names(committed_normal_serialize) = PrefixNames \cup BodyNames \cup {"extra"} \cup SuffixNames
    /\ Names(committed_stake_serialize) = PrefixNames \cup BodyNames \cup StakeNames \cup SuffixNames
    /\ Names(committed_recall_serialize) = PrefixNames \cup BodyNames \cup RecallNames \cup SuffixNames
    /\ Names(uncommitted_normal_serialize) = PrefixNames \cup BodyNames \cup {"extra"} \cup SignatureNames
    /\ Names(uncommitted_stake_serialize) = PrefixNames \cup BodyNames \cup StakeNames \cup SignatureNames
    /\ Names(uncommitted_recall_serialize) = PrefixNames \cup BodyNames \cup RecallNames \cup SignatureNames
<1>1. ASSUME NEW c \in Seq(Catalogue), NEW d \in Seq(Catalogue)
      PROVE  Names(serialize_prefix \o serialize_body \o c \o d)
               = PrefixNames \cup BodyNames \cup Names(c) \cup Names(d)
  BY PartLists, PartNames, AssembledNames
<1>2. Names(committed_normal_serialize) = PrefixNames \cup BodyNames \cup {"extra"} \cup SuffixNames
  <2>1. Names(serialize_prefix \o serialize_body \o serialize_extra \o serialize_suffix)
          = PrefixNames \cup BodyNames \cup Names(serialize_extra) \cup Names(serialize_suffix)
    BY <1>1, PartLists, Zenon
  <2> QED BY <2>1, PartNames, Zenon DEF committed_normal_serialize, committed_normal_digest
<1>3. Names(committed_stake_serialize) = PrefixNames \cup BodyNames \cup StakeNames \cup SuffixNames
  <2>1. Names(serialize_prefix \o serialize_body \o serialize_stake \o serialize_suffix)
          = PrefixNames \cup BodyNames \cup Names(serialize_stake) \cup Names(serialize_suffix)
    BY <1>1, PartLists, Zenon
  <2> QED BY <2>1, PartNames, Zenon DEF committed_stake_serialize, committed_stake_digest
<1>4. Names(committed_recall_serialize) = PrefixNames \cup BodyNames \cup RecallNames \cup SuffixNames
  <2>1. Names(serialize_prefix \o serialize_body \o serialize_recall \o serialize_suffix)
          = PrefixNames \cup BodyNames \cup Names(serialize_recall) \cup Names(serialize_suffix)
    BY <1>1, PartLists, Zenon
  <2> QED BY <2>1, PartNames, Zenon DEF committed_recall_serialize, committed_recall_digest
<1>5. Names(uncommitted_normal_serialize) = PrefixNames \cup BodyNames \cup {"extra"} \cup SignatureNames
  <2>1. Names(serialize_prefix \o serialize_body \o serialize_extra \o serialize_uncommitted_suffix)
          = PrefixNames \cup BodyNames \cup Names(serialize_extra) \cup Names(serialize_uncommitted_suffix)
    BY <1>1, PartLists, Zenon
  <2> QED BY <2>1, PartNames, Zenon DEF uncommitted_normal_serialize, uncommitted_normal_digest
<1>6. Names(uncommitted_stake_serialize) = PrefixNames \cup BodyNames \cup StakeNames \cup SignatureNames
  <2>1. Names(serialize_prefix \o serialize_body \o serialize_stake \o serialize_uncommitted_suffix)
          = PrefixNames \cup BodyNames \cup Names(serialize_stake) \cup Names(serialize_uncommitted_suffix)
    BY <1>1, PartLists, Zenon
  <2> QED BY <2>1, PartNames, Zenon DEF uncommitted_stake_serialize, uncommitted_stake_digest
<1>7. Names(uncommitted_recall_serialize) = PrefixNames \cup BodyNames \cup RecallNames \cup SignatureNames
  <2>1. Names(serialize_prefix \o serialize_body \o serialize_recall \o serialize_uncommitted_suffix)
          = PrefixNames \cup BodyNames \cup Names(serialize_recall) \cup Names(serialize_uncommitted_suffix)
    BY <1>1, PartLists, Zenon
  <2> QED BY <2>1, PartNames, Zenon DEF uncommitted_recall_serialize, uncommitted_recall_digest
<1> QED BY <1>2, <1>3, <1>4, <1>5, <1>6, <1>7

-----------------------------------------------------------------------------
(* The objects a program can hold *)

Fields(kind) == Structure[kind].serialize

\* An object has the members of its structure, with values that are read back;
\* a user transaction keeps the type of its constructor.
IsObject(kind, val) ==
    /\ val = [n \in Names(Fields(kind)) |-> val[n]]
    /\ \A n \in Names(Fields(kind)) : Storable(FieldOf(n), val[n])
    /\ kind \in DOMAIN Digest => /\ val["type"] = l_type[kind]
                                 /\ val["nonce"] \in Nat /\ val["fee"] \in Nat

\* The user transactions and the names of their members.
UserKinds == {"uncommited_normal_transaction_t", "uncommitted_stake_transaction_t",
              "uncommitted_recall_stake_transaction_t", "committed_normal_transaction_t",
              "committed_stake_transaction_t", "committed_recall_stake_transaction_t"}

UserMembers == PrefixNames \cup BodyNames \cup {"extra"} \cup StakeNames \cup RecallNames
                 \cup SuffixNames \cup SignatureNames

\* The user transactions are structures, and to_committed turns each
\* uncommitted one into one of them.
LEMMA KindsOfUsers ==
    /\ DOMAIN Digest = UserKinds /\ UserKinds \subseteq DOMAIN Structure
    /\ DOMAIN Uncommitted = {"uncommited_normal_transaction_t", "uncommitted_stake_transaction_t",
                             "uncommitted_recall_stake_transaction_t"}
    /\ \A kind \in DOMAIN Uncommitted : kind \in UserKinds /\ Uncommitted[kind] \in UserKinds
    /\ \A kind \in UserKinds : Names(Fields(kind)) \subseteq UserMembers
    /\ \A kind \in UserKinds : PrefixNames \cup BodyNames \subseteq Names(Fields(kind))
<1>1. DOMAIN Digest = UserKinds
  BY DEF Digest, UserKinds
<1>2. UserKinds \subseteq DOMAIN Structure
  BY DEF Structure, UserKinds
<1>3. DOMAIN Uncommitted = {"uncommited_normal_transaction_t", "uncommitted_stake_transaction_t",
                            "uncommitted_recall_stake_transaction_t"}
  BY DEF Uncommitted
<1>4. \A kind \in DOMAIN Uncommitted : kind \in UserKinds /\ Uncommitted[kind] \in UserKinds
  BY DEF Uncommitted, UserKinds
<1>5. ASSUME NEW kind \in UserKinds
      PROVE  Names(Fields(kind)) \subseteq UserMembers
               /\ PrefixNames \cup BodyNames \subseteq Names(Fields(kind))
  <2>1. \/ Fields(kind) = uncommitted_normal_serialize
        \/ Fields(kind) = uncommitted_stake_serialize
        \/ Fields(kind) = uncommitted_recall_serialize
        \/ Fields(kind) = committed_normal_serialize
        \/ Fields(kind) = committed_stake_serialize
        \/ Fields(kind) = committed_recall_serialize
    BY DEF Fields, Structure, Methods, UserKinds
  <2> HIDE DEF Fields
  <2> QED BY <2>1, UserNames, Zenon DEF UserMembers
<1> QED BY <1>1, <1>2, <1>3, <1>4, <1>5

\* Every structure passes MethodsOK, and its list is over the catalogue.
LEMMA UserCatalogue ==
    ASSUME NEW kind \in DOMAIN Structure
    PROVE  /\ Fields(kind) \in Seq(Catalogue)
           /\ Structure[kind].deserialize = Fields(kind)
           /\ Structure[kind].toJSON = Fields(kind)
           /\ FieldSet(Structure[kind].fromJSON) = FieldSet(Fields(kind))
BY StructureLists DEF MethodsOK, Fields

\* The default constructor's object.
LEMMA NewObject ==
    ASSUME NEW kind \in DOMAIN Structure
    PROVE  IsObject(kind, New(kind))
<1> DEFINE fields == Fields(kind)
           val == New(kind)
<1>1. fields \in Seq(Catalogue)
  BY UserCatalogue
<1>2. val = [n \in Names(fields) |-> IF n = "type" THEN l_type[kind] ELSE Default(FieldNamed(fields, n))]
  BY Zenon DEF New, Fields
<1>3. \A n \in Names(fields) : n \in CatalogueNames /\ FieldNamed(fields, n) = FieldOf(n)
  BY <1>1, RecordByName
<1> HIDE DEF fields, val
<1>4. val = [n \in Names(fields) |-> val[n]]
  BY <1>2
<1>5. ASSUME NEW n \in Names(fields) PROVE Storable(FieldOf(n), val[n])
  <2>1. CASE n = "type"
    <3>1. n \in VarintNames /\ n \in CatalogueNames
      BY <1>3, <2>1 DEF VarintNames
    <3>2. ~Counted(FieldOf(n)) /\ FieldOf(n).kind # "address"
      BY <3>1, PlainNames
    <3> QED BY <3>2, PlainStorable
  <2>2. CASE n # "type"
    <3>1. val[n] = Default(FieldOf(n)) /\ n \in CatalogueNames
      BY <1>2, <1>3, <2>2
    <3> QED BY <3>1, DefaultStorable
  <2> QED BY <2>1, <2>2
<1>6. ASSUME kind \in DOMAIN Digest
      PROVE  val["type"] = l_type[kind] /\ val["nonce"] \in Nat /\ val["fee"] \in Nat
  <2>1. {"type", "nonce", "fee"} \subseteq Names(fields)
    BY <1>6, KindsOfUsers DEF fields, PrefixNames, BodyNames
  <2>2. \A n \in {"nonce", "fee"} : Default(FieldOf(n)) = 0
    <3>1. \A n \in {"nonce", "fee"} : FieldOf(n) = varint(n)
      BY CatalogueFields DEF VarintNames
    <3>2. \A n \in {"nonce", "fee"} : varint(n).kind = "varint" /\ varint(n).name = n
      BY DEF varint, Field
    <3>3. ASSUME NEW f, f.kind = "varint", f.name \notin {"version", "record_version"}
          PROVE  Default(f) = 0
      BY <3>3 DEF Default
    <3> QED BY <3>1, <3>2, <3>3
  <2> QED BY <1>2, <1>3, <2>1, <2>2
<1> QED BY <1>4, <1>5, <1>6 DEF IsObject, fields, val

\* A plain member may have any value.
LEMMA PlainMember ==
    ASSUME NEW n \in CatalogueNames, NEW v,
           n \notin KeyVectorNames \cup {"extra", "payload", "signatures", "outputs",
                              "staker_outputs", "staker_penalties", "peers", "address"}
    PROVE  Storable(FieldOf(n), v)
<1>1. n \in VarintNames \cup KeyNames \cup {"view_signature", "spend_signature", "range_proof"}
  BY Zenon DEF CatalogueNames
<1>2. ~Counted(FieldOf(n)) /\ FieldOf(n).kind # "address"
  BY <1>1, PlainNames
<1> QED BY <1>2, PlainStorable

\* The counted members of the user transactions.
LEMMA UserCounted ==
    ASSUME NEW n \in UserMembers, n \in CatalogueNames
    PROVE  \/ n \in {"key_images", "outputs", "extra", "pseudo_commitments", "ring_participants", "signatures"}
           \/ \A v : Storable(FieldOf(n), v)
<1>1. SUFFICES ASSUME n \notin {"key_images", "outputs", "extra", "pseudo_commitments",
                                "ring_participants", "signatures"}
               PROVE  n \notin KeyVectorNames \cup {"extra", "payload", "signatures", "outputs",
                              "staker_outputs", "staker_penalties", "peers", "address"}
  BY PlainMember, Zenon
<1>2. n \notin {"payload", "staker_outputs", "staker_penalties", "peers", "address"}
  BY DEF UserMembers, PrefixNames, BodyNames, StakeNames, RecallNames, SuffixNames, SignatureNames
<1> QED BY <1>1, <1>2 DEF KeyVectorNames

\* The transaction that passes every check.
LEMMA SampleObject ==
    ASSUME NEW kind \in DOMAIN Digest
    PROVE  IsObject(kind, Sample(kind))
<1> DEFINE fields == Fields(kind)
           val == Sample(kind)
           F(n) == FieldNamed(fields, n)
           O == <<output(K1, 1, Commitment(1)), output(K2, 2, Commitment(1))>>
           C == <<Commitment(14)>>
           G == <<<<"clsag", RING_SIZE>>>>
           I == <<K1>>
           Of(n) == IF n \in {"type", "version"} THEN New(kind)[n]
                    ELSE IF n \in DOMAIN SampleOf THEN SampleOf[n]
                    ELSE CASE F(n).kind = "varint" -> 1
                           [] F(n).kind \in {"key", "signature"} -> K1
                           [] OTHER -> <<>>
<1>1. kind \in UserKinds /\ kind \in DOMAIN Structure
  BY KindsOfUsers
<1>2. fields \in Seq(Catalogue)
  BY <1>1, UserCatalogue
<1>3. val = [n \in Names(fields) |-> Of(n)]
  BY Zenon DEF Sample, Fields
<1>4. \A n \in Names(fields) : n \in CatalogueNames /\ F(n) = FieldOf(n)
  BY <1>2, RecordByName
<1>5. Names(fields) \subseteq UserMembers /\ {"type", "nonce", "fee"} \subseteq Names(fields)
  BY <1>1, KindsOfUsers DEF PrefixNames, BodyNames
<1>6. IsObject(kind, New(kind))
  BY <1>1, NewObject
<1>7. /\ Storable(FieldOf("key_images"), I) /\ Storable(FieldOf("outputs"), O)
      /\ Storable(FieldOf("pseudo_commitments"), C) /\ Storable(FieldOf("signatures"), G)
  <2>1. IsSequence(I) /\ IsSequence(C) /\ IsSequence(G)
    BY ShortSequences, Zenon
  <2>2. \A n \in {"key_images", "pseudo_commitments", "signatures"} :
           n \in CatalogueNames /\ n \in KeyVectorNames \cup {"extra", "payload", "signatures"}
    BY DEF CatalogueNames, KeyVectorNames
  <2> HIDE DEF I, C, G
  <2>3. \A n \in {"key_images", "pseudo_commitments", "signatures"} :
           Counted(FieldOf(n)) /\ FieldOf(n).of[1].name = Itself
    BY <2>2, PlainVectorNames
  <2>4. Storable(FieldOf("outputs"), O)
    BY CatalogueFields, ElementLists, OutputStorable, ShortVectors
  <2> QED BY <2>1, <2>3, <2>4, PlainVectorStorable
<1>11. /\ SampleOf["fee"] = 12 /\ SampleOf["nonce"] = 1
       /\ SampleOf["key_images"] = I /\ SampleOf["outputs"] = O
       /\ SampleOf["pseudo_commitments"] = C /\ SampleOf["signatures"] = G
       /\ {"fee", "nonce", "key_images", "outputs", "pseudo_commitments", "signatures"}
             \subseteq DOMAIN SampleOf
       /\ "extra" \notin DOMAIN SampleOf /\ "ring_participants" \notin DOMAIN SampleOf
  BY DEF SampleOf
<1> HIDE DEF fields, val, F, O, C, G, I
<1>8. val = [n \in Names(fields) |-> val[n]]
  BY <1>3
<1>9. ASSUME NEW n \in Names(fields) PROVE Storable(FieldOf(n), val[n])
  <2>1. val[n] = Of(n) /\ n \in CatalogueNames /\ n \in UserMembers
    BY <1>3, <1>4, <1>5
  <2>2. CASE n \in {"key_images", "outputs", "pseudo_commitments", "signatures"}
    <3>1. Of(n) = SampleOf[n]
      BY <1>11, <2>2
    <3> HIDE DEF Of
    <3> QED BY <1>7, <1>11, <2>1, <2>2, <3>1, Zenon
  <2>3. CASE n \in {"extra", "ring_participants"}
    <3>1. n \in KeyVectorNames \cup {"extra", "payload", "signatures"}
      BY <2>3 DEF KeyVectorNames
    <3>2. Counted(FieldOf(n)) /\ FieldOf(n).kind \in {"bytes", "vector"}
      BY <2>1, <3>1, PlainVectorNames DEF Counted
    <3>3. F(n) = FieldOf(n)
      BY <1>4
    <3>4. Of(n) = <<>>
      BY <1>11, <2>3, <3>2, <3>3
    <3> QED BY <2>1, <3>2, <3>4, EmptyStorable
  <2>4. CASE n \notin {"key_images", "outputs", "extra", "pseudo_commitments", "ring_participants", "signatures"}
    BY <2>1, <2>4, UserCounted
  <2> QED BY <2>2, <2>3, <2>4
<1>10. val["type"] = l_type[kind] /\ val["nonce"] \in Nat /\ val["fee"] \in Nat
  <2>1. Of("type") = New(kind)["type"]
    OBVIOUS
  <2>2. Of("nonce") = 1 /\ Of("fee") = 12
    BY <1>11
  <2> HIDE DEF Of
  <2>3. val["type"] = New(kind)["type"] /\ val["nonce"] = 1 /\ val["fee"] = 12
    BY <1>3, <1>5, <2>1, <2>2, Zenon
  <2>4. New(kind)["type"] = l_type[kind]
    BY <1>6 DEF IsObject
  <2> QED BY <2>3, <2>4
<1> QED BY <1>8, <1>9, <1>10 DEF IsObject, fields, val

\* A member that is assigned a value for it.
LEMMA AssignedObject ==
    ASSUME NEW kind \in DOMAIN Structure, NEW val, IsObject(kind, val),
           NEW m \in Names(Fields(kind)), NEW v, Storable(FieldOf(m), v),
           kind \in DOMAIN Digest => m # "type" /\ (m \in {"nonce", "fee"} => v \in Nat)
    PROVE  IsObject(kind, [val EXCEPT ![m] = v])
<1> DEFINE S == Names(Fields(kind))
           w == [val EXCEPT ![m] = v]
<1>1. val = [n \in S |-> val[n]]
  BY DEF IsObject
<1> HIDE DEF S
<1>2. w = [n \in S |-> w[n]] /\ \A n \in S : w[n] = IF n = m THEN v ELSE val[n]
  <2>1. DOMAIN val = S
    BY <1>1
  <2> QED BY <2>1
<1> HIDE DEF w
<1>3. \A n \in S : Storable(FieldOf(n), w[n])
  BY <1>2 DEF IsObject, S
<1>4. ASSUME kind \in DOMAIN Digest
      PROVE  w["type"] = l_type[kind] /\ w["nonce"] \in Nat /\ w["fee"] \in Nat
  <2>1. {"type", "nonce", "fee"} \subseteq S
    BY <1>4, KindsOfUsers DEF S, PrefixNames, BodyNames
  <2> QED BY <1>2, <1>4, <2>1 DEF IsObject
<1>5. IsObject(kind, w)
  BY <1>2, <1>3, <1>4 DEF IsObject, S
<1> QED BY <1>5 DEF w

\* mine changes the nonce only.
LEMMA MinedObject ==
    ASSUME NEW kind \in DOMAIN Uncommitted, NEW val, IsObject(kind, val), NEW d, NEW zeros
    PROVE  IsObject(kind, mine(d, val, zeros))
<1> DEFINE at(n) == leading_zeros(uncommitted_pow_hash(d, [val EXCEPT !.nonce = n]))
           tried == {n \in 1..MaxNonce : at(n) >= zeros}
           nonce == IF tried = {} THEN MaxNonce ELSE Min(tried)
<1>1. mine(d, val, zeros) \in {val, [val EXCEPT !["nonce"] = nonce]}
  BY DEF mine
<1>2. nonce \in Nat
  <2>1. MaxNonce \in Nat
    BY ConfigAssumption
  <2> DEFINE T == tried
  <2>2. T \subseteq Nat
    BY <2>1
  <2> HIDE DEF T
  <2>3. T # {} => Min(T) \in Nat
    <3> SUFFICES ASSUME T # {} PROVE Min(T) \in T
      BY <2>2
    <3> QED BY <2>2, LeastNatural DEF Min
  <2> QED BY <2>1, <2>3 DEF T
<1> HIDE DEF nonce
<1>3. kind \in DOMAIN Structure /\ kind \in UserKinds
  BY KindsOfUsers
<1>4. "nonce" \in Names(Fields(kind)) /\ "nonce" \in VarintNames
  BY <1>3, KindsOfUsers DEF BodyNames, VarintNames
<1>5. Storable(FieldOf("nonce"), nonce)
  <2>1. "nonce" \in CatalogueNames
    BY <1>4, CatalogueFields
  <2>2. ~Counted(FieldOf("nonce")) /\ FieldOf("nonce").kind # "address"
    BY <1>4, <2>1, PlainNames
  <2> QED BY <2>2, PlainStorable
<1>6. IsObject(kind, [val EXCEPT !["nonce"] = nonce])
  BY <1>2, <1>3, <1>4, <1>5, AssignedObject
<1> QED BY <1>1, <1>6

\* What to_committed leaves as it is, and what it sets.
Carried(kind, c, tx) ==
    LET S == Names(Fields(Uncommitted[kind])) IN
    /\ c = [n \in S |-> c[n]]
    /\ \A n \in S \ {"type", "signature_hash", "range_proof_hash"} :
          n \in Names(Fields(kind)) /\ c[n] = tx[n]
    /\ c["type"] = l_type[kind] /\ l_type[Uncommitted[kind]] = l_type[kind]
    /\ c["signature_hash"] = signature_hash(tx)
    /\ c["range_proof_hash"] = range_proof_hash(tx)

\* Which members to_committed carries over.
LEMMA ToCommitted ==
    ASSUME NEW kind \in DOMAIN Uncommitted, NEW tx
    PROVE  Carried(kind, to_committed(kind, tx), tx)
<1> DEFINE c == to_committed(kind, tx)
           G == signature_hash(tx)
           P == range_proof_hash(tx)
<1>1. CASE kind = "uncommited_normal_transaction_t"
  <2>1. Uncommitted[kind] = "committed_normal_transaction_t"
    BY <1>1 DEF Uncommitted
  <2>2. /\ Fields(kind) = uncommitted_normal_serialize
        /\ Fields(Uncommitted[kind]) = committed_normal_serialize
    BY <1>1, <2>1 DEF Fields, Structure, Methods
  <2>3. l_type[kind] = TransactionType.NORMAL /\ l_type[Uncommitted[kind]] = TransactionType.NORMAL
    BY <1>1, <2>1 DEF l_type
  <2>4. c = to_committed_normal(tx)
    BY <1>1 DEF to_committed
  <2> DEFINE S == {"type", "version", "unlock_block", "public_key", "nonce", "fee", "key_images",
                   "outputs", "extra", "signature_hash", "range_proof_hash"}
  <2>5. /\ c = [n \in S |-> c[n]]
        /\ \A n \in S \ {"type", "signature_hash", "range_proof_hash"} : c[n] = tx[n]
        /\ c["type"] = TransactionType.NORMAL /\ c["signature_hash"] = G /\ c["range_proof_hash"] = P
    <3> HIDE DEF c, G, P
    <3> QED BY <2>4 DEF to_committed_normal, G, P
  <2>6. Names(Fields(Uncommitted[kind])) = S
    BY <2>2, UserNames DEF PrefixNames, BodyNames, SuffixNames
  <2>7. S \ {"type", "signature_hash", "range_proof_hash"} \subseteq Names(Fields(kind))
    BY <2>2, UserNames DEF PrefixNames, BodyNames
  <2> HIDE DEF c, G, P, S
  <2> QED BY <2>3, <2>5, <2>6, <2>7 DEF Carried, c, G, P
<1>2. CASE kind = "uncommitted_stake_transaction_t"
  <2>1. Uncommitted[kind] = "committed_stake_transaction_t"
    BY <1>2 DEF Uncommitted
  <2>2. /\ Fields(kind) = uncommitted_stake_serialize
        /\ Fields(Uncommitted[kind]) = committed_stake_serialize
    BY <1>2, <2>1 DEF Fields, Structure, Methods
  <2>3. l_type[kind] = TransactionType.STAKE /\ l_type[Uncommitted[kind]] = TransactionType.STAKE
    BY <1>2, <2>1 DEF l_type
  <2>4. c = to_committed_stake(tx)
    BY <1>2 DEF to_committed
  <2> DEFINE S == {"type", "version", "unlock_block", "public_key", "nonce", "fee", "key_images",
                   "outputs", "stake_amount", "candidate_public_key", "staker_public_view_key",
                   "staker_public_spend_key", "signature_hash", "range_proof_hash"}
  <2>5. /\ c = [n \in S |-> c[n]]
        /\ \A n \in S \ {"type", "signature_hash", "range_proof_hash"} : c[n] = tx[n]
        /\ c["type"] = TransactionType.STAKE /\ c["signature_hash"] = G /\ c["range_proof_hash"] = P
    <3> HIDE DEF c, G, P
    <3> QED BY <2>4 DEF to_committed_stake, G, P
  <2>6. Names(Fields(Uncommitted[kind])) = S
    BY <2>2, UserNames DEF PrefixNames, BodyNames, StakeNames, SuffixNames
  <2>7. S \ {"type", "signature_hash", "range_proof_hash"} \subseteq Names(Fields(kind))
    BY <2>2, UserNames DEF PrefixNames, BodyNames, StakeNames
  <2> HIDE DEF c, G, P, S
  <2> QED BY <2>3, <2>5, <2>6, <2>7 DEF Carried, c, G, P
<1>3. CASE kind = "uncommitted_recall_stake_transaction_t"
  <2>1. Uncommitted[kind] = "committed_recall_stake_transaction_t"
    BY <1>3 DEF Uncommitted
  <2>2. /\ Fields(kind) = uncommitted_recall_serialize
        /\ Fields(Uncommitted[kind]) = committed_recall_serialize
    BY <1>3, <2>1 DEF Fields, Structure, Methods
  <2>3. l_type[kind] = TransactionType.RECALL_STAKE /\ l_type[Uncommitted[kind]] = TransactionType.RECALL_STAKE
    BY <1>3, <2>1 DEF l_type
  <2>4. c = to_committed_recall(tx)
    BY <1>3 DEF to_committed
  <2> DEFINE S == {"type", "version", "unlock_block", "public_key", "nonce", "fee", "key_images",
                   "outputs", "stake_amount", "candidate_public_key", "staker_id",
                   "view_signature", "spend_signature", "signature_hash", "range_proof_hash"}
  <2>5. /\ c = [n \in S |-> c[n]]
        /\ \A n \in S \ {"type", "signature_hash", "range_proof_hash"} : c[n] = tx[n]
        /\ c["type"] = TransactionType.RECALL_STAKE /\ c["signature_hash"] = G /\ c["range_proof_hash"] = P
    <3> HIDE DEF c, G, P
    <3> QED BY <2>4 DEF to_committed_recall, G, P
  <2>6. Names(Fields(Uncommitted[kind])) = S
    BY <2>2, UserNames DEF PrefixNames, BodyNames, RecallNames, SuffixNames
  <2>7. S \ {"type", "signature_hash", "range_proof_hash"} \subseteq Names(Fields(kind))
    BY <2>2, UserNames DEF PrefixNames, BodyNames, RecallNames
  <2> HIDE DEF c, G, P, S
  <2> QED BY <2>3, <2>5, <2>6, <2>7 DEF Carried, c, G, P
<1> QED BY <1>1, <1>2, <1>3, KindsOfUsers

\* What to_committed returns is an object of the committed structure.
LEMMA CommittedObject ==
    ASSUME NEW kind \in DOMAIN Uncommitted, NEW tx, IsObject(kind, tx)
    PROVE  IsObject(Uncommitted[kind], to_committed(kind, tx))
<1> DEFINE k == Uncommitted[kind]
           c == to_committed(kind, tx)
           S == Names(Fields(k))
<1>1. Carried(kind, c, tx)
  BY ToCommitted
<1>2. kind \in UserKinds /\ k \in UserKinds /\ k \in DOMAIN Structure /\ kind \in DOMAIN Digest
  BY KindsOfUsers
<1>3. \A n \in S : n \in CatalogueNames
  <2>1. Fields(k) \in Seq(Catalogue)
    BY <1>2, UserCatalogue
  <2> QED BY <2>1, RecordByName
<1>4. {"type", "nonce", "fee"} \subseteq S
  BY <1>2, KindsOfUsers DEF PrefixNames, BodyNames
<1> HIDE DEF k, c, S
<1>5. /\ c = [n \in S |-> c[n]]
      /\ \A n \in S \ {"type", "signature_hash", "range_proof_hash"} :
            n \in Names(Fields(kind)) /\ c[n] = tx[n]
      /\ c["type"] = l_type[k]
  BY <1>1, Zenon DEF Carried, k, S
<1>6. ASSUME NEW n \in S PROVE Storable(FieldOf(n), c[n])
  <2>1. CASE n \in {"type", "signature_hash", "range_proof_hash"}
    <3>1. n \notin KeyVectorNames \cup {"extra", "payload", "signatures", "outputs",
                              "staker_outputs", "staker_penalties", "peers", "address"}
      BY <2>1 DEF KeyVectorNames
    <3> QED BY <1>3, <3>1, PlainMember
  <2>2. CASE n \notin {"type", "signature_hash", "range_proof_hash"}
    BY <1>5, <2>2 DEF IsObject
  <2> QED BY <2>1, <2>2
<1>7. c["nonce"] \in Nat /\ c["fee"] \in Nat
  <2>1. c["nonce"] = tx["nonce"] /\ c["fee"] = tx["fee"]
    BY <1>4, <1>5
  <2> QED BY <1>2, <2>1 DEF IsObject
<1>8. IsObject(k, c)
  BY <1>5, <1>6, <1>7 DEF IsObject, S
<1> QED BY <1>8 DEF k, c

-----------------------------------------------------------------------------
(* The invariant *)

\* What was written of the object, and what reading it gives.
BytesOf(kind, val) == Written(Fields(kind), val)

InBytes ==
    /\ wire.form \in {"bytes", "bytes read"}
    /\ IF wire.whole THEN wire.data = BytesOf(doc.kind, doc.val)
       ELSE \E n \in 0..(Len(BytesOf(doc.kind, doc.val)) - 1) :
               wire.data = SubSeq(BytesOf(doc.kind, doc.val), 1, n)
    /\ wire.form = "bytes read" => got = ReadFields(Reader(wire.data), Structure[doc.kind].deserialize)

InJson ==
    /\ wire.form \in {"json", "json read"}
    /\ wire.data = ToJSON(Structure[doc.kind].toJSON, doc.val)
    /\ wire.form = "json read" => got = FromJSON(Structure[doc.kind].fromJSON, wire.data)

\* The object and the bytes or the JSON that are under way.
Inv ==
    /\ doc = [kind |-> doc.kind, val |-> doc.val]
    /\ doc.kind \in DOMAIN Structure
    /\ IsObject(doc.kind, doc.val)
    /\ wire = [form |-> wire.form, data |-> wire.data, whole |-> wire.whole]
    /\ wire = Nothing \/ InBytes \/ InJson

\* An object is read back from all its bytes and from no part of them.
LEMMA BytesRead ==
    ASSUME NEW kind \in DOMAIN Structure, NEW val, IsObject(kind, val)
    PROVE  LET W == BytesOf(kind, val)
               D == Structure[kind].deserialize
           IN  /\ ReadFields(Reader(W), D) = [in |-> <<>>, ok |-> TRUE, out |-> val]
               /\ \A n \in 0..(Len(W) - 1) : ReadFields(Reader(SubSeq(W, 1, n)), D) = Thrown
<1> DEFINE fields == Fields(kind)
           W == BytesOf(kind, val)
           D == Structure[kind].deserialize
<1>1. /\ fields \in Seq(Catalogue) /\ D = fields
  BY UserCatalogue
<1>2. FieldsOK(fields)
  BY <1>1, CatalogueList
<1>3. RecordOK(fields, val)
  BY <1>1, RecordByName DEF IsObject
<1>4. val = [n \in Names(fields) |-> val[n]]
  BY DEF IsObject
<1>5. W = Written(fields, val)
  BY DEF BytesOf
<1> HIDE DEF fields, D, W
<1>6. PICK T : W \in Seq(T)
  <2>1. Len(fields) \in Nat
    BY <1>2, <1>3, WrittenParts
  <2>2. PICK T, g : Flattening(T, g, Members(fields, val), Len(fields)) /\ Written(fields, val) = g[Len(fields)]
    BY <1>2, <1>3, WrittenParts
  <2>3. g[Len(fields)] \in Seq(T)
    BY <2>1, <2>2 DEF Flattening
  <2> QED BY <1>5, <2>2, <2>3
<1>7. Len(W) \in Nat
  BY <1>6, LenProperties
<1>8. ReadFields(Reader(W), D) = [in |-> <<>>, ok |-> TRUE, out |-> val]
  <2>1. Agree(W, W)
    BY DEF Agree
  <2>2. ReadFields(Reader(W), fields) = [in |-> Rest(W, Len(W)), ok |-> TRUE,
                                          out |-> [n \in Names(fields) |-> val[n]]]
    BY <1>2, <1>3, <1>5, <1>6, <1>7, <2>1, StructureRead
  <2>3. Rest(W, Len(W)) = <<>>
    BY <1>6, <1>7, SubSeqProperties, EmptySeq DEF Rest
  <2> QED BY <1>1, <1>4, <2>2, <2>3
<1>9. ASSUME NEW n \in 0..(Len(W) - 1) PROVE ReadFields(Reader(SubSeq(W, 1, n)), D) = Thrown
  <2> DEFINE s == SubSeq(W, 1, n)
  <2>1. /\ s \in Seq(T) /\ Len(s) = n /\ \A i \in 1..n : s[i] = W[i]
    BY <1>6, <1>7, SubSeqProperties
  <2> HIDE DEF s
  <2>2. Agree(s, W)
    BY <2>1 DEF Agree
  <2>3. Len(s) < Len(W)
    BY <1>7, <2>1
  <2>4. ReadFields(Reader(s), fields) = Thrown
    BY <1>2, <1>3, <1>5, <2>1, <2>2, <2>3, StructureRead
  <2> QED BY <1>1, <2>4 DEF s
<1> QED BY <1>8, <1>9 DEF W, D

\* ... and from its JSON.
LEMMA JsonReadOf ==
    ASSUME NEW kind \in DOMAIN Structure, NEW val, IsObject(kind, val)
    PROVE  FromJSON(Structure[kind].fromJSON, ToJSON(Structure[kind].toJSON, val))
             = [in |-> <<>>, ok |-> TRUE, out |-> val]
<1> DEFINE fields == Fields(kind)
           to == Structure[kind].toJSON
           from == Structure[kind].fromJSON
<1>1. fields \in Seq(Catalogue) /\ to = fields /\ FieldSet(from) = FieldSet(fields)
  BY UserCatalogue
<1>2. FieldsOK(fields) /\ NamedOnce(FieldSet(fields))
  BY <1>1, CatalogueList
<1>3. RecordOK(fields, val)
  BY <1>1, RecordByName DEF IsObject
<1>4. val = [n \in Names(fields) |-> val[n]]
  BY DEF IsObject
<1> HIDE DEF fields, to, from
<1>5. FromJSON(from, ToJSON(to, val)) = [in |-> <<>>, ok |-> TRUE, out |-> [n \in Names(to) |-> val[n]]]
  BY <1>1, <1>2, <1>3, JsonRead
<1>6. FromJSON(from, ToJSON(to, val)) = [in |-> <<>>, ok |-> TRUE, out |-> val]
  BY <1>1, <1>4, <1>5
<1> QED BY <1>6 DEF to, from

\* Nothing written is not something to read.
LEMMA NothingForm == Nothing.form # "bytes" /\ Nothing.form # "json"
BY DEF Nothing

\* The invariant says that what was read is what was written.
LEMMA InvReads == Inv => ReadBack /\ JsonReadBack
<1> SUFFICES ASSUME Inv PROVE ReadBack /\ JsonReadBack
  OBVIOUS
<1>1. doc.kind \in DOMAIN Structure /\ IsObject(doc.kind, doc.val)
  BY DEF Inv
<1>6. Nothing.form = "none"
  BY DEF Nothing
<1>7. InBytes => wire.form \in {"bytes", "bytes read"}
  BY DEF InBytes
<1>8. InJson => wire.form \in {"json", "json read"}
  BY DEF InJson
<1>9. wire = Nothing \/ InBytes \/ InJson
  BY DEF Inv
<1> HIDE DEF InBytes, InJson, Nothing
<1>2. wire.form = "bytes read" => InBytes
  BY <1>6, <1>8, <1>9
<1>3. wire.form = "json read" => InJson
  BY <1>6, <1>7, <1>9
<1>4. ReadBack
  <2> SUFFICES ASSUME wire.form = "bytes read"
               PROVE  IF wire.whole THEN got.ok /\ got.in = <<>> /\ got.out = doc.val ELSE ~got.ok
    BY DEF ReadBack
  <2> DEFINE W == BytesOf(doc.kind, doc.val)
             D == Structure[doc.kind].deserialize
  <2>1. /\ got = ReadFields(Reader(wire.data), D)
        /\ IF wire.whole THEN wire.data = W ELSE \E n \in 0..(Len(W) - 1) : wire.data = SubSeq(W, 1, n)
    BY <1>2 DEF InBytes
  <2>2. /\ ReadFields(Reader(W), D) = [in |-> <<>>, ok |-> TRUE, out |-> doc.val]
        /\ \A n \in 0..(Len(W) - 1) : ReadFields(Reader(SubSeq(W, 1, n)), D) = Thrown
    BY <1>1, BytesRead
  <2> HIDE DEF W, D
  <2>3. CASE wire.whole
    <3>1. got = [in |-> <<>>, ok |-> TRUE, out |-> doc.val]
      BY <2>1, <2>2, <2>3
    <3> QED BY <2>3, <3>1
  <2>4. CASE ~wire.whole
    <3>1. got = Thrown
      BY <2>1, <2>2, <2>4, Zenon
    <3> QED BY <2>4, <3>1 DEF Thrown
  <2> QED BY <2>3, <2>4
<1>5. JsonReadBack
  <2> SUFFICES ASSUME wire.form = "json read" PROVE got.ok /\ got.out = doc.val
    BY DEF JsonReadBack
  <2>1. got = [in |-> <<>>, ok |-> TRUE, out |-> doc.val]
    BY <1>1, <1>3, JsonReadOf, Zenon DEF InJson
  <2> QED BY <2>1
<1> QED BY <1>4, <1>5

\* A constructed object, or the sample, satisfies the invariant.
LEMMA InitInv == Init => Inv
<1> SUFFICES ASSUME Init PROVE Inv
  OBVIOUS
<1>1. PICK kind \in DOMAIN Structure :
        doc \in [kind : {kind}, val : {New(kind)} \cup (IF kind \in DOMAIN Digest THEN {Sample(kind)} ELSE {})]
  BY DEF Init
<1>2. /\ doc = [kind |-> doc.kind, val |-> doc.val] /\ doc.kind = kind
      /\ doc.val = New(kind) \/ (kind \in DOMAIN Digest /\ doc.val = Sample(kind))
  BY <1>1
<1>3. IsObject(kind, doc.val)
  BY <1>2, NewObject, SampleObject
<1>4. wire = Nothing /\ wire = [form |-> wire.form, data |-> wire.data, whole |-> wire.whole]
  BY DEF Init, Nothing
<1> QED BY <1>2, <1>3, <1>4 DEF Inv

\* The states in which the object may be changed.
LEMMA Changeable ==
    ASSUME wire = Nothing, wire' = wire,
           doc' = [kind |-> doc'.kind, val |-> doc'.val], doc'.kind \in DOMAIN Structure,
           IsObject(doc'.kind, doc'.val)
    PROVE  Inv'
<1>1. wire' = Nothing /\ wire' = [form |-> wire'.form, data |-> wire'.data, whole |-> wire'.whole]
  BY DEF Nothing
<1> QED BY <1>1 DEF Inv

\* Assigning a public member keeps the invariant.
LEMMA AssignInv == Inv /\ assign => Inv'
<1> SUFFICES ASSUME Inv, assign PROVE Inv'
  OBVIOUS
<1> DEFINE kind == doc.kind
           val == doc.val
<1>1. kind \in DOMAIN Structure /\ IsObject(kind, val) /\ doc = [kind |-> kind, val |-> val]
  BY DEF Inv
<1>2. PICK i \in DOMAIN Fields(kind) :
        \E v \in Values(Fields(kind)[i]) : doc' = [doc EXCEPT !.val = [@ EXCEPT ![Fields(kind)[i].name] = v]]
  BY DEF assign, Fields
<1> DEFINE f == Fields(kind)[i]
<1>3. PICK v \in Values(f) : doc' = [doc EXCEPT !.val = [@ EXCEPT ![f.name] = v]]
  BY <1>2
<1>4. f \in Catalogue /\ f.name \in Names(Fields(kind)) /\ f = FieldOf(f.name)
  BY <1>1, UserCatalogue, RecordByName
<1> HIDE DEF f
<1>5. Storable(FieldOf(f.name), v)
  BY <1>4, ValuesStorable
<1>6. f.name # "type" /\ (f.name \in {"nonce", "fee"} => v \in Nat)
  <2>1. f.name # "type"
    BY <1>3 DEF Values
  <2>2. /\ ValuesOf["nonce"] = {0, 1, MaxNonce} /\ ValuesOf["fee"] = {0, 1, 4, 12}
        /\ "nonce" \in DOMAIN ValuesOf /\ "fee" \in DOMAIN ValuesOf
    BY DEF ValuesOf
  <2>3. f.name \in {"nonce", "fee"} => v \in ValuesOf[f.name]
    BY <1>3, <2>2, Zenon DEF Values
  <2> QED BY <2>1, <2>2, <2>3, ConfigAssumption
<1>7. IsObject(kind, [val EXCEPT ![f.name] = v])
  BY <1>1, <1>4, <1>5, <1>6, AssignedObject
<1>8. doc' = [kind |-> kind, val |-> [val EXCEPT ![f.name] = v]]
  BY <1>1, <1>3
<1>9. doc'.kind = kind /\ doc'.val = [val EXCEPT ![f.name] = v]
  BY <1>8
<1>10. wire = Nothing /\ wire' = wire
  BY DEF assign
<1> QED BY <1>1, <1>7, <1>8, <1>9, <1>10, Changeable

\* mine_nonce keeps the invariant.
LEMMA MineInv == Inv /\ mine_nonce => Inv'
<1> SUFFICES ASSUME Inv, mine_nonce PROVE Inv'
  OBVIOUS
<1> DEFINE kind == doc.kind
           val == doc.val
<1>1. kind \in DOMAIN Structure /\ IsObject(kind, val) /\ doc = [kind |-> kind, val |-> val]
  BY DEF Inv
<1>2. PICK zeros : doc' = [doc EXCEPT !.val = mine(Digest[kind], @, zeros)]
  BY DEF mine_nonce
<1> DEFINE m == mine(Digest[kind], val, zeros)
<1>3. kind \in DOMAIN Uncommitted /\ wire = Nothing /\ wire' = wire
  BY DEF mine_nonce
<1>4. IsObject(kind, m)
  BY <1>1, <1>3, MinedObject
<1>5. doc' = [kind |-> kind, val |-> m]
  <2> HIDE DEF m
  <2>1. doc' = [doc EXCEPT !.val = m]
    BY <1>2, Zenon DEF m
  <2> QED BY <1>1, <2>1
<1> HIDE DEF m
<1>6. doc'.kind = kind /\ doc'.val = m
  BY <1>5
<1> QED BY <1>1, <1>3, <1>4, <1>5, <1>6, Changeable

\* to_committed keeps the invariant.
LEMMA CommitInv == Inv /\ commit => Inv'
<1> SUFFICES ASSUME Inv, commit PROVE Inv'
  OBVIOUS
<1> DEFINE k == Uncommitted[doc.kind]
           c == to_committed(doc.kind, doc.val)
<1>1. doc.kind \in DOMAIN Uncommitted /\ IsObject(doc.kind, doc.val) /\ wire = Nothing /\ wire' = wire
  BY DEF Inv, commit
<1>2. doc' = [kind |-> k, val |-> c]
  BY DEF commit
<1>3. k \in DOMAIN Structure /\ IsObject(k, c)
  BY <1>1, CommittedObject, KindsOfUsers
<1> HIDE DEF k, c
<1>4. doc'.kind = k /\ doc'.val = c
  BY <1>2
<1> QED BY <1>1, <1>2, <1>3, <1>4, Changeable

\* The object stays while it is under way.
LEMMA UnderWay ==
    ASSUME Inv, doc' = doc, wire' = [form |-> wire'.form, data |-> wire'.data, whole |-> wire'.whole],
           InBytes' \/ InJson'
    PROVE  Inv'
BY DEF Inv

\* serialize and toJSON keep the invariant.
LEMMA WriteInv == Inv /\ (serialize \/ toJSON) => Inv'
<1> SUFFICES ASSUME Inv, serialize \/ toJSON PROVE Inv'
  OBVIOUS
<1> DEFINE W == Written(Structure[doc.kind].serialize, doc.val)
           J == ToJSON(Structure[doc.kind].toJSON, doc.val)
<1>1. CASE serialize
  <2>1. wire' = [form |-> "bytes", whole |-> TRUE, data |-> W] /\ doc' = doc
    BY <1>1 DEF serialize
  <2>2. W = BytesOf(doc'.kind, doc'.val)
    BY <2>1 DEF BytesOf, Fields
  <2> HIDE DEF W
  <2>3. /\ wire'.form = "bytes" /\ wire'.whole = TRUE /\ wire'.data = W
        /\ wire' = [form |-> wire'.form, data |-> wire'.data, whole |-> wire'.whole]
    BY <2>1
  <2>4. InBytes'
    BY <2>2, <2>3 DEF InBytes
  <2> QED BY <2>1, <2>3, <2>4, UnderWay
<1>2. CASE toJSON
  <2>1. wire' = [form |-> "json", whole |-> TRUE, data |-> J] /\ doc' = doc
    BY <1>2 DEF toJSON
  <2>2. J = ToJSON(Structure[doc'.kind].toJSON, doc'.val)
    BY <2>1
  <2> HIDE DEF J
  <2>3. /\ wire'.form = "json" /\ wire'.data = J
        /\ wire' = [form |-> wire'.form, data |-> wire'.data, whole |-> wire'.whole]
    BY <2>1
  <2>4. InJson'
    BY <2>2, <2>3 DEF InJson
  <2> QED BY <2>1, <2>3, <2>4, UnderWay
<1> QED BY <1>1, <1>2

\* Cutting the bytes short keeps the invariant.
LEMMA TruncateInv == Inv /\ truncate => Inv'
<1> SUFFICES ASSUME Inv, truncate PROVE Inv'
  OBVIOUS
<1> DEFINE W == BytesOf(doc.kind, doc.val)
<1>1. wire.form = "bytes" /\ wire.whole /\ doc' = doc
  BY DEF truncate
<1>2. InBytes
  <2>1. wire # Nothing
    BY <1>1, NothingForm, Zenon
  <2>2. ~InJson
    BY <1>1 DEF InJson
  <2> QED BY <2>1, <2>2 DEF Inv
<1>3. wire.data = W
  BY <1>1, <1>2 DEF InBytes
<1>4. PICK n \in 0..(Len(W) - 1) : wire' = [wire EXCEPT !.data = SubSeq(@, 1, n), !.whole = FALSE]
  BY <1>3 DEF truncate
<1>5. wire = [form |-> wire.form, data |-> wire.data, whole |-> wire.whole]
  BY DEF Inv
<1> DEFINE s == SubSeq(wire.data, 1, n)
<1> HIDE DEF W
<1>6. wire' = [form |-> "bytes", data |-> s, whole |-> FALSE]
  <2>1. wire' = [wire EXCEPT !.data = s, !.whole = FALSE]
    BY <1>4
  <2> HIDE DEF s
  <2> QED BY <1>1, <1>5, <2>1
<1> HIDE DEF s
<1>7. /\ wire'.form = "bytes" /\ wire'.whole = FALSE /\ wire'.data = s
      /\ wire' = [form |-> wire'.form, data |-> wire'.data, whole |-> wire'.whole]
  BY <1>6
<1>8. s = SubSeq(W, 1, n) /\ W = BytesOf(doc'.kind, doc'.val)
  BY <1>1, <1>3 DEF s, W
<1>9. InBytes'
  BY <1>7, <1>8 DEF InBytes
<1> QED BY <1>1, <1>7, <1>9, UnderWay

\* deserialize and fromJSON keep the invariant: StructureRead and JsonRead.
LEMMA ReadInv == Inv /\ (deserialize \/ fromJSON) => Inv'
<1> SUFFICES ASSUME Inv, deserialize \/ fromJSON PROVE Inv'
  OBVIOUS
<1>1. wire = [form |-> wire.form, data |-> wire.data, whole |-> wire.whole]
  BY DEF Inv
<1>2. CASE deserialize
  <2>1. wire.form = "bytes" /\ doc' = doc /\ wire' = [wire EXCEPT !.form = "bytes read"]
    BY <1>2 DEF deserialize
  <2>2. got' = ReadFields(Reader(wire.data), Structure[doc.kind].deserialize)
    BY <1>2 DEF deserialize
  <2>3. InBytes
    <3>1. wire # Nothing
      BY <2>1, NothingForm, Zenon
    <3>2. ~InJson
      BY <2>1 DEF InJson
    <3> QED BY <3>1, <3>2 DEF Inv
  <2>4. /\ wire'.form = "bytes read" /\ wire'.whole = wire.whole /\ wire'.data = wire.data
        /\ wire' = [form |-> wire'.form, data |-> wire'.data, whole |-> wire'.whole]
    BY <1>1, <2>1
  <2>5. InBytes'
    BY <2>1, <2>2, <2>3, <2>4, Zenon DEF InBytes
  <2> QED BY <2>1, <2>4, <2>5, UnderWay
<1>3. CASE fromJSON
  <2>1. wire.form = "json" /\ doc' = doc /\ wire' = [wire EXCEPT !.form = "json read"]
    BY <1>3 DEF fromJSON
  <2>2. got' = FromJSON(Structure[doc.kind].fromJSON, wire.data)
    BY <1>3 DEF fromJSON
  <2>3. InJson
    <3>1. wire # Nothing
      BY <2>1, NothingForm, Zenon
    <3>2. ~InBytes
      BY <2>1 DEF InBytes
    <3> QED BY <3>1, <3>2 DEF Inv
  <2>4. /\ wire'.form = "json read" /\ wire'.data = wire.data
        /\ wire' = [form |-> wire'.form, data |-> wire'.data, whole |-> wire'.whole]
    BY <1>1, <2>1
  <2>5. InJson'
    BY <2>1, <2>2, <2>3, <2>4, Zenon DEF InJson
  <2> QED BY <2>1, <2>4, <2>5, UnderWay
<1> QED BY <1>2, <1>3

\* The reader goes on with the object it read, which is the one written, or
\* keeps the one it had.
LEMMA ProceedInv == Inv /\ proceed => Inv'
<1> SUFFICES ASSUME Inv, proceed PROVE Inv'
  OBVIOUS
<1>1. wire.form \in {"bytes read", "json read"} /\ wire' = Nothing
  BY DEF proceed
<1>2. got.ok => got.out = doc.val
  BY <1>1, InvReads DEF ReadBack, JsonReadBack
<1>3. doc = [kind |-> doc.kind, val |-> doc.val]
  BY DEF Inv
<1>4. doc' = doc
  <2>1. CASE got.ok
    <3>1. doc' = [doc EXCEPT !.val = doc.val]
      BY <1>2, <2>1 DEF proceed
    <3> QED BY <1>3, <3>1
  <2>2. CASE ~got.ok
    BY <2>2 DEF proceed
  <2> QED BY <2>1, <2>2
<1>5. Nothing = [form |-> Nothing.form, data |-> Nothing.data, whole |-> Nothing.whole]
  BY DEF Nothing
<1> QED BY <1>1, <1>4, <1>5 DEF Inv

\* Every step keeps the invariant.
LEMMA NextInv == Inv /\ [Next]_vars => Inv'
<1> SUFFICES ASSUME Inv, [Next]_vars PROVE Inv'
  OBVIOUS
<1>1. CASE Next
  BY <1>1, AssignInv, MineInv, CommitInv, WriteInv, TruncateInv, ReadInv, ProceedInv DEF Next
<1>2. CASE UNCHANGED vars
  BY <1>2 DEF vars, Inv, InBytes, InJson
<1> QED BY <1>1, <1>2

\* The invariant holds in every behaviour.
LEMMA AlwaysInv == Spec => []Inv
<1>1. Init => Inv
  BY InitInv
<1>2. Inv /\ [Next]_vars => Inv'
  BY NextInv
<1> QED BY <1>1, <1>2, PTL DEF Spec

\* Bytes that arrive whole are read back, to the last byte, as the object that
\* serialize wrote, and bytes cut short anywhere are refused: whatever the
\* structure, its members and the limits of the configuration.
THEOREM ReadBackHolds == Spec => []ReadBack
<1>1. Inv => ReadBack
  BY InvReads
<1> QED BY <1>1, AlwaysInv, PTL

\* What toJSON wrote of an object, fromJSON reads back as the same object.
THEOREM JsonReadBackHolds == Spec => []JsonReadBack
<1>1. Inv => JsonReadBack
  BY InvReads
<1> QED BY <1>1, AlwaysInv, PTL

-----------------------------------------------------------------------------
(* The fee for every size and every number of zeros.  That a transaction     *)
(* cannot pay less by being larger, and that more work never costs, is what  *)
(* the integer divisions and the limits of network_fees.cpp could break.     *)

\* Integer division keeps an order.
LEMMA DivMonotone ==
    ASSUME NEW a \in Nat, NEW b \in Nat, a <= b, NEW d \in Nat \ {0}
    PROVE  a \div d \in Nat /\ b \div d \in Nat /\ a \div d <= b \div d
<1>1. a = d * (a \div d) + (a % d) /\ 0 <= a % d /\ a % d < d /\ a \div d \in Int
  OBVIOUS
<1>2. b = d * (b \div d) + (b % d) /\ 0 <= b % d /\ b % d < d /\ b \div d \in Int
  OBVIOUS
<1> QED BY <1>1, <1>2

\* A share d of a hundred of an amount is part of it, and grows by no more
\* than the amount does.
LEMMA ShareBounds ==
    ASSUME NEW a \in Nat, NEW b \in Nat, a <= b, NEW d \in 0..100
    PROVE  /\ (a * d) \div 100 \in Nat /\ (b * d) \div 100 \in Nat
           /\ (a * d) \div 100 <= a
           /\ (b * d) \div 100 - (a * d) \div 100 <= b - a
<1>1. /\ a * d \in Nat /\ b * d \in Nat /\ (b - a) * d \in Nat
      /\ a * d <= 100 * a
      /\ b * d = a * d + (b - a) * d /\ (b - a) * d <= 100 * (b - a)
  BY SMTT(60)
<1> DEFINE x == a * d
           y == b * d
<1>2. x \in Nat /\ y \in Nat /\ x <= 100 * a /\ y <= x + 100 * (b - a)
  BY <1>1
<1> HIDE DEF x, y
<1>3. /\ x \div 100 \in Nat /\ y \div 100 \in Nat
      /\ x \div 100 <= a /\ y \div 100 - x \div 100 <= b - a
  BY <1>2
<1> QED BY <1>3 DEF x, y

\* The discount is a percentage of at most 30 that grows with the zeros.
LEMMA DiscountMonotone ==
    ASSUME NEW y \in Nat, NEW z \in Nat, y <= z
    PROVE  /\ calculate_transaction_discount(y) \in 0..30
           /\ calculate_transaction_discount(z) \in 0..30
           /\ calculate_transaction_discount(y) <= calculate_transaction_discount(z)
<1>1. ASSUME NEW n \in Nat
      PROVE  /\ n <= 1 => calculate_transaction_discount(n) = 0
             /\ n >= 16 => calculate_transaction_discount(n) = 30
             /\ n > 1 /\ n < 16 => calculate_transaction_discount(n) = 2 * (n - 1)
  <2> USE DEF calculate_transaction_discount, MINIMUM_POW_ZEROS, MAXIMUM_POW_ZEROS,
              POW_ZERO_DISCOUNT_MULTIPLIER
  <2>1. CASE n <= 1
    BY <2>1
  <2>2. CASE n >= 16
    BY <2>2
  <2>3. CASE n > 1 /\ n < 16
    BY <2>3
  <2> QED BY <2>1, <2>2, <2>3
<1> QED BY <1>1

\* The base fee is at least the minimum and grows with the size.
LEMMA BaseMonotone ==
    ASSUME NEW s \in Nat, NEW t \in Nat, s <= t
    PROVE  /\ calculate_base_transaction_fee(s) \in Nat
           /\ MINIMUM_FEE <= calculate_base_transaction_fee(s)
           /\ calculate_base_transaction_fee(s) <= calculate_base_transaction_fee(t)
BY DEF calculate_base_transaction_fee, MINIMUM_FEE, CHUNK_SIZE, BASE_CHUNK_SIZE, CHUNK_FEE

\* The fee is never below the minimum nor above the fee without a discount,
\* whatever the proof of work.
THEOREM FeeBounded ==
    \A size, zeros \in Nat :
        /\ calculate_transaction_fee(size, zeros) \in Nat
        /\ MINIMUM_FEE <= calculate_transaction_fee(size, zeros)
        /\ calculate_transaction_fee(size, zeros) <= calculate_base_transaction_fee(size)
<1> SUFFICES ASSUME NEW s \in Nat, NEW z \in Nat
             PROVE  /\ calculate_transaction_fee(s, z) \in Nat
                    /\ MINIMUM_FEE <= calculate_transaction_fee(s, z)
                    /\ calculate_transaction_fee(s, z) <= calculate_base_transaction_fee(s)
  OBVIOUS
<1> DEFINE base == calculate_base_transaction_fee(s)
           d == calculate_transaction_discount(z)
           cut == (base * d) \div 100
<1>1. base \in Nat /\ MINIMUM_FEE <= base
  BY BaseMonotone
<1>2. d \in 0..100
  BY DiscountMonotone
<1> HIDE DEF base, d
<1>3. cut \in Nat /\ cut <= base
  BY <1>1, <1>2, ShareBounds
<1>4. calculate_transaction_fee(s, z) =
        IF base - cut > MINIMUM_FEE THEN base - cut ELSE MINIMUM_FEE
  BY DEF calculate_transaction_fee, base, d
<1> HIDE DEF cut
<1> QED BY <1>1, <1>3, <1>4 DEF MINIMUM_FEE, base

\* With the same proof of work a larger transaction never pays less: the
\* rounding of the discount never undoes the rounding of the chunks.
THEOREM FeeGrowsWithSize ==
    \A s, t, zeros \in Nat :
        s <= t => calculate_transaction_fee(s, zeros) <= calculate_transaction_fee(t, zeros)
<1> SUFFICES ASSUME NEW s \in Nat, NEW t \in Nat, NEW z \in Nat, s <= t
             PROVE  calculate_transaction_fee(s, z) <= calculate_transaction_fee(t, z)
  OBVIOUS
<1> DEFINE a == calculate_base_transaction_fee(s)
           b == calculate_base_transaction_fee(t)
           d == calculate_transaction_discount(z)
           x == (a * d) \div 100
           y == (b * d) \div 100
<1>1. a \in Nat /\ b \in Nat /\ a <= b
  BY BaseMonotone
<1>2. d \in 0..100
  BY DiscountMonotone
<1> HIDE DEF a, b, d
<1>3. x \in Nat /\ y \in Nat /\ y - x <= b - a
  BY <1>1, <1>2, ShareBounds
<1>4. /\ calculate_transaction_fee(s, z) = IF a - x > MINIMUM_FEE THEN a - x ELSE MINIMUM_FEE
      /\ calculate_transaction_fee(t, z) = IF b - y > MINIMUM_FEE THEN b - y ELSE MINIMUM_FEE
  BY DEF calculate_transaction_fee, a, b, d
<1> HIDE DEF x, y
<1> QED BY <1>1, <1>3, <1>4 DEF MINIMUM_FEE

\* More leading zeros never make a transaction dearer.
THEOREM FeeFallsWithWork ==
    \A size, y, z \in Nat :
        y <= z => calculate_transaction_fee(size, z) <= calculate_transaction_fee(size, y)
<1> SUFFICES ASSUME NEW s \in Nat, NEW y \in Nat, NEW z \in Nat, y <= z
             PROVE  calculate_transaction_fee(s, z) <= calculate_transaction_fee(s, y)
  OBVIOUS
<1> DEFINE base == calculate_base_transaction_fee(s)
           d == calculate_transaction_discount(y)
           e == calculate_transaction_discount(z)
           u == (base * d) \div 100
           v == (base * e) \div 100
<1>1. base \in Nat
  BY BaseMonotone
<1>2. d \in Nat /\ e \in Nat /\ d <= e
  BY DiscountMonotone
<1> HIDE DEF base, d, e
<1>3. base * d \in Nat /\ base * e \in Nat /\ base * d <= base * e
  BY <1>1, <1>2
<1>4. u \in Nat /\ v \in Nat /\ u <= v
  BY <1>3, DivMonotone
<1>5. /\ calculate_transaction_fee(s, y) = IF base - u > MINIMUM_FEE THEN base - u ELSE MINIMUM_FEE
      /\ calculate_transaction_fee(s, z) = IF base - v > MINIMUM_FEE THEN base - v ELSE MINIMUM_FEE
  BY DEF calculate_transaction_fee, base, d, e
<1> HIDE DEF u, v
<1> QED BY <1>1, <1>4, <1>5 DEF MINIMUM_FEE

-----------------------------------------------------------------------------
(* A transaction and its committed form *)

\* The bytes depend on the members that are written only.
LEMMA SameWritten ==
    ASSUME NEW fields, NEW c, NEW tx, \A n \in Names(fields) : c[n] = tx[n]
    PROVE  Written(fields, c) = Written(fields, tx)
<1>1. \A i \in DOMAIN fields : c[fields[i].name] = tx[fields[i].name]
  BY DEF Names
<1>2. [i \in DOMAIN fields |-> Emitted(fields[i], c[fields[i].name])]
        = [i \in DOMAIN fields |-> Emitted(fields[i], tx[fields[i].name])]
  BY <1>1
<1> QED BY <1>2, Zenon DEF Written

\* What is digested of a transaction, what follows it in its bytes and in
\* those of its committed form.
Laid(kind, d, own) ==
    /\ Digest[kind] = d /\ Digest[Uncommitted[kind]] = d
    /\ own \in Seq(Catalogue) /\ d \in Seq(Catalogue)
    /\ d = serialize_prefix \o serialize_body \o own
    /\ Fields(kind) = d \o serialize_uncommitted_suffix
    /\ Fields(Uncommitted[kind]) = d \o serialize_suffix

\* Each user transaction is its digest, followed by its own suffix.
LEMMA Layout ==
    ASSUME NEW kind \in DOMAIN Uncommitted
    PROVE  \E d, own : Laid(kind, d, own)
<1> DEFINE d(own) == serialize_prefix \o serialize_body \o own
<1>1. ASSUME NEW own \in Seq(Catalogue) PROVE d(own) \in Seq(Catalogue)
  BY PartLists, Assembled
<1>2. CASE kind = "uncommited_normal_transaction_t"
  <2>1. Uncommitted[kind] = "committed_normal_transaction_t"
    BY <1>2 DEF Uncommitted
  <2>2. Digest[kind] = uncommitted_normal_digest /\ Digest[Uncommitted[kind]] = committed_normal_digest
    BY <1>2, <2>1 DEF Digest
  <2>3. /\ Fields(kind) = uncommitted_normal_serialize
        /\ Fields(Uncommitted[kind]) = committed_normal_serialize
    BY <1>2, <2>1 DEF Fields, Structure, Methods
  <2>4. Laid(kind, d(serialize_extra), serialize_extra)
    BY <1>1, <2>2, <2>3, PartLists, Zenon DEF Laid, uncommitted_normal_digest, committed_normal_digest,
       uncommitted_normal_serialize, committed_normal_serialize
  <2> QED BY <2>4, Zenon
<1>3. CASE kind = "uncommitted_stake_transaction_t"
  <2>1. Uncommitted[kind] = "committed_stake_transaction_t"
    BY <1>3 DEF Uncommitted
  <2>2. Digest[kind] = uncommitted_stake_digest /\ Digest[Uncommitted[kind]] = committed_stake_digest
    BY <1>3, <2>1 DEF Digest
  <2>3. /\ Fields(kind) = uncommitted_stake_serialize
        /\ Fields(Uncommitted[kind]) = committed_stake_serialize
    BY <1>3, <2>1 DEF Fields, Structure, Methods
  <2>4. Laid(kind, d(serialize_stake), serialize_stake)
    BY <1>1, <2>2, <2>3, PartLists, Zenon DEF Laid, uncommitted_stake_digest, committed_stake_digest,
       uncommitted_stake_serialize, committed_stake_serialize
  <2> QED BY <2>4, Zenon
<1>4. CASE kind = "uncommitted_recall_stake_transaction_t"
  <2>1. Uncommitted[kind] = "committed_recall_stake_transaction_t"
    BY <1>4 DEF Uncommitted
  <2>2. Digest[kind] = uncommitted_recall_digest /\ Digest[Uncommitted[kind]] = committed_recall_digest
    BY <1>4, <2>1 DEF Digest
  <2>3. /\ Fields(kind) = uncommitted_recall_serialize
        /\ Fields(Uncommitted[kind]) = committed_recall_serialize
    BY <1>4, <2>1 DEF Fields, Structure, Methods
  <2>4. Laid(kind, d(serialize_recall), serialize_recall)
    BY <1>1, <2>2, <2>3, PartLists, Zenon DEF Laid, uncommitted_recall_digest, committed_recall_digest,
       uncommitted_recall_serialize, committed_recall_serialize
  <2> QED BY <2>4, Zenon
<1> QED BY <1>2, <1>3, <1>4, KindsOfUsers

\* The members that are digested are those that to_committed carries over.
LEMMA DigestedSame ==
    ASSUME NEW kind \in DOMAIN Uncommitted, NEW tx, IsObject(kind, tx), NEW d, NEW own, Laid(kind, d, own)
    PROVE  /\ Names(d) \subseteq Names(Fields(kind))
           /\ Names(d) \subseteq Names(Fields(Uncommitted[kind]))
           /\ Written(d, to_committed(kind, tx)) = Written(d, tx)
<1> DEFINE c == to_committed(kind, tx)
           k == Uncommitted[kind]
<1>1. /\ Names(Fields(kind)) = Names(d) \cup Names(serialize_uncommitted_suffix)
      /\ Names(Fields(k)) = Names(d) \cup Names(serialize_suffix)
  <2>3. d \in Seq(Catalogue)
    BY Zenon DEF Laid
  <2>1. Names(d \o serialize_uncommitted_suffix) = Names(d) \cup Names(serialize_uncommitted_suffix)
    BY <2>3, PartLists, ConcatNames
  <2>2. Names(d \o serialize_suffix) = Names(d) \cup Names(serialize_suffix)
    BY <2>3, PartLists, ConcatNames
  <2> QED BY <2>1, <2>2, Zenon DEF Laid
<1>2. kind \in UserKinds /\ kind \in DOMAIN Digest
  BY KindsOfUsers
<1>3. Names(d) \cap SuffixNames = {}
  <2>1. Names(d) = Names(serialize_prefix) \cup Names(serialize_body) \cup Names(own)
    <3>1. Names(serialize_prefix \o serialize_body \o own)
            = Names(serialize_prefix) \cup Names(serialize_body) \cup Names(own)
      BY PartLists, AssembledNames DEF Laid
    <3> QED BY <3>1, Zenon DEF Laid
  <2>2. \/ Fields(kind) = uncommitted_normal_serialize
        \/ Fields(kind) = uncommitted_stake_serialize
        \/ Fields(kind) = uncommitted_recall_serialize
    BY KindsOfUsers DEF Fields, Structure, Methods
  <2>3. Names(Fields(kind)) \cap SuffixNames = {}
    <3>1. Names(Fields(kind)) \subseteq
            PrefixNames \cup BodyNames \cup {"extra"} \cup StakeNames \cup RecallNames \cup SignatureNames
      BY <2>2, UserNames, Zenon
    <3> QED BY <3>1 DEF PrefixNames, BodyNames, StakeNames, RecallNames, SignatureNames, SuffixNames
  <2> QED BY <1>1, <2>3
<1>4. Carried(kind, c, tx)
  BY ToCommitted
<1> HIDE DEF c
<1>5. ASSUME NEW n \in Names(d) PROVE c[n] = tx[n]
  <2>1. n \in Names(Fields(k)) /\ n \notin {"signature_hash", "range_proof_hash"}
    BY <1>1, <1>3 DEF SuffixNames
  <2>2. CASE n = "type"
    BY <1>2, <1>4, <2>2 DEF Carried, IsObject
  <2>3. CASE n # "type"
    BY <1>4, <2>1, <2>3 DEF Carried
  <2> QED BY <2>2, <2>3
<1>6. Written(d, c) = Written(d, tx)
  BY <1>5, SameWritten
<1> QED BY <1>1, <1>6 DEF c

\* Both forms have one hash and one proof of work.
LEMMA OneHash ==
    ASSUME NEW kind \in DOMAIN Uncommitted, NEW tx, IsObject(kind, tx)
    PROVE  LET k == Uncommitted[kind]
               c == to_committed(kind, tx)
           IN  /\ committed_hash(Digest[k], c) = uncommitted_hash(Digest[kind], tx)
               /\ committed_pow_hash(Digest[k], c) = uncommitted_pow_hash(Digest[kind], tx)
<1> DEFINE c == to_committed(kind, tx)
           k == Uncommitted[kind]
<1>1. PICK d, own : Laid(kind, d, own)
  BY Layout
<1>2. Digest[kind] = d /\ Digest[k] = d
  BY <1>1, Zenon DEF Laid
<1>3. Written(d, c) = Written(d, tx)
  BY <1>1, DigestedSame
<1>4. c.signature_hash = signature_hash(tx) /\ c.range_proof_hash = range_proof_hash(tx)
  BY ToCommitted, Zenon DEF Carried
<1> HIDE DEF c, k
<1>5. /\ committed_hash(d, c) = uncommitted_hash(d, tx)
      /\ committed_pow_hash(d, c) = uncommitted_pow_hash(d, tx)
  BY <1>3, <1>4, Zenon DEF committed_hash, uncommitted_hash, digest, committed_pow_hash, uncommitted_pow_hash
<1> QED BY <1>2, <1>5 DEF c, k

\* A list and a member of the catalogue: what they write.
AllStorable(a, rec) == \A n \in Names(a) : Storable(FieldOf(n), rec[n])

\* An object whose members can be stored can be written.
LEMMA CatalogueRecord ==
    ASSUME NEW a \in Seq(Catalogue), NEW rec, AllStorable(a, rec)
    PROVE  FieldsOK(a) /\ RecordOK(a, rec)
BY CatalogueList, RecordByName DEF AllStorable

\* Two lists, one after the other.
LEMMA SizeConcat ==
    ASSUME NEW a \in Seq(Catalogue), NEW b \in Seq(Catalogue), NEW rec,
           AllStorable(a, rec), AllStorable(b, rec)
    PROVE  /\ Size(Written(a, rec)) \in Nat /\ Size(Written(b, rec)) \in Nat
           /\ Size(Written(a \o b, rec)) = Size(Written(a, rec)) + Size(Written(b, rec))
<1>1. FieldsOK(a) /\ FieldsOK(b) /\ RecordOK(a, rec) /\ RecordOK(b, rec)
  BY CatalogueRecord
<1>2. Halves(Written(a, rec), Written(b, rec), Written(a \o b, rec))
  BY <1>1, WrittenConcat
<1> DEFINE x == Written(a, rec)
           y == Written(b, rec)
           z == Written(a \o b, rec)
<1>3. PICK V : x \in Seq(V) /\ y \in Seq(V) /\ z = x \o y
  BY <1>2, Zenon DEF Halves
<1> HIDE DEF x, y, z
<1>4. Size(x) \in Nat /\ Size(y) \in Nat /\ Size(x \o y) = Size(x) + Size(y)
  BY <1>3, SizeParts
<1>5. Size(x) \in Nat /\ Size(y) \in Nat /\ Size(z) = Size(x) + Size(y)
  BY <1>3, <1>4, Zenon
<1> QED BY <1>5 DEF x, y, z

\* One member that is a key, or a proof.
LEMMA SizeOne ==
    ASSUME NEW n \in CatalogueNames, NEW rec, Storable(FieldOf(n), rec[n]),
           n \in KeyNames \cup {"range_proof"}
    PROVE  /\ <<FieldOf(n)>> \in Seq(Catalogue) /\ Names(<<FieldOf(n)>>) = {n}
           /\ Size(Written(<<FieldOf(n)>>, rec)) = IF n = "range_proof" THEN 96 ELSE 32
<1> DEFINE f == FieldOf(n)
<1>1. f.name = n /\ FieldOK(f) /\ f \in Catalogue
  BY CatalogueOK
<1>2. ~Counted(f)
  BY PlainNames
<1>3. f.kind = IF n = "range_proof" THEN "proof" ELSE "key"
  <2>1. CASE n = "range_proof"
    BY <2>1, CatalogueFields DEF proof, Field
  <2>2. CASE n # "range_proof"
    BY <2>2, CatalogueFields DEF key, Field
  <2> QED BY <2>1, <2>2
<1> HIDE DEF f
<1>4. Size(Written(<<f>>, rec)) = TokenSize(<<f.kind, rec[f.name]>>)
  <2>1. Storable(f, rec[f.name])
    BY <1>1 DEF f
  <2> QED BY <1>1, <1>2, <2>1, WrittenOne
<1>5. TokenSize(<<f.kind, rec[f.name]>>) = IF n = "range_proof" THEN 96 ELSE 32
  BY <1>3 DEF TokenSize
<1>6. <<f>> \in Seq(Catalogue) /\ Names(<<f>>) = {f.name}
  BY <1>1 DEF Names
<1> QED BY <1>1, <1>4, <1>5, <1>6 DEF f

\* The committed form has the size that committed_size announced, which is
\* less than that of the transaction itself.
LEMMA Sizes ==
    ASSUME NEW kind \in DOMAIN Uncommitted, NEW tx, IsObject(kind, tx)
    PROVE  LET k == Uncommitted[kind]
               c == to_committed(kind, tx)
               committed == Size(Written(Fields(k), c))
               uncommitted == Size(Written(Fields(kind), tx))
           IN  /\ committed = committed_size(Digest[kind], tx)
               /\ committed \in Nat /\ uncommitted \in Nat /\ committed <= uncommitted
<1> DEFINE c == to_committed(kind, tx)
           k == Uncommitted[kind]
<1>1. PICK d, own : Laid(kind, d, own)
  BY Layout
<1>2. /\ Digest[kind] = d /\ d \in Seq(Catalogue) /\ Fields(kind) = d \o serialize_uncommitted_suffix
      /\ Fields(k) = d \o serialize_suffix
  BY <1>1, Zenon DEF Laid
<1>3. /\ Names(d) \subseteq Names(Fields(kind)) /\ Names(d) \subseteq Names(Fields(k))
      /\ Written(d, c) = Written(d, tx)
  BY <1>1, DigestedSame
<1>4. IsObject(k, c)
  BY CommittedObject
<1>5. /\ Names(Fields(kind)) = Names(d) \cup Names(serialize_uncommitted_suffix)
      /\ Names(Fields(k)) = Names(d) \cup Names(serialize_suffix)
  BY <1>2, PartLists, ConcatNames
<1>6. /\ \A n \in Names(Fields(kind)) : Storable(FieldOf(n), tx[n])
      /\ \A n \in Names(Fields(k)) : Storable(FieldOf(n), c[n])
  BY <1>4 DEF IsObject
<1> HIDE DEF c, k
<1> DEFINE W == Size(Written(d, tx))
<1>7. /\ W \in Nat
      /\ Size(Written(Fields(kind), tx)) = W + Size(Written(serialize_uncommitted_suffix, tx))
      /\ Size(Written(Fields(k), c)) = W + Size(Written(serialize_suffix, c))
  <2>1. /\ AllStorable(d, tx) /\ AllStorable(d, c)
        /\ AllStorable(serialize_uncommitted_suffix, tx) /\ AllStorable(serialize_suffix, c)
    BY <1>5, <1>6 DEF AllStorable
  <2>2. /\ Size(Written(d, tx)) \in Nat
        /\ Size(Written(d \o serialize_uncommitted_suffix, tx))
             = Size(Written(d, tx)) + Size(Written(serialize_uncommitted_suffix, tx))
    BY <1>2, <2>1, PartLists, SizeConcat
  <2>3. Size(Written(d \o serialize_suffix, c)) = Size(Written(d, c)) + Size(Written(serialize_suffix, c))
    BY <1>2, <2>1, PartLists, SizeConcat
  <2> QED BY <1>2, <1>3, <2>2, <2>3, Zenon
<1>8. Size(Written(serialize_suffix, c)) = 64
  <2> DEFINE a == <<FieldOf("signature_hash")>>
             b == <<FieldOf("range_proof_hash")>>
  <2>1. {"signature_hash", "range_proof_hash"} \subseteq KeyNames /\ KeyNames \subseteq CatalogueNames
    BY CatalogueFields DEF KeyNames
  <2>2. Storable(FieldOf("signature_hash"), c["signature_hash"])
          /\ Storable(FieldOf("range_proof_hash"), c["range_proof_hash"])
    <3>1. Names(serialize_suffix) = {"signature_hash", "range_proof_hash"}
      BY PartNames DEF SuffixNames
    <3> QED BY <1>5, <1>6, <3>1
  <2>3. /\ a \in Seq(Catalogue) /\ Names(a) = {"signature_hash"} /\ Size(Written(a, c)) = 32
        /\ b \in Seq(Catalogue) /\ Names(b) = {"range_proof_hash"} /\ Size(Written(b, c)) = 32
    BY <2>1, <2>2, SizeOne
  <2>4. serialize_suffix = a \o b
    <3>1. serialize_suffix = <<FieldOf("signature_hash"), FieldOf("range_proof_hash")>>
      BY <2>1, CatalogueFields DEF serialize_suffix
    <3> QED BY <3>1
  <2> HIDE DEF a, b
  <2>5. Size(Written(a \o b, c)) = Size(Written(a, c)) + Size(Written(b, c))
    <3>1. AllStorable(a, c) /\ AllStorable(b, c)
      BY <2>2, <2>3 DEF AllStorable
    <3> QED BY <2>3, <3>1, SizeConcat
  <2> QED BY <2>3, <2>4, <2>5
<1>9. /\ Size(Written(serialize_uncommitted_suffix, tx)) \in Nat
      /\ Size(Written(serialize_uncommitted_suffix, tx)) >= 96
  <2> DEFINE a == serialize_signatures
             b == <<FieldOf("range_proof")>>
  <2>1. "range_proof" \in CatalogueNames
    BY DEF CatalogueNames
  <2>2. serialize_uncommitted_suffix = a \o b
    BY CatalogueFields, Zenon DEF serialize_uncommitted_suffix
  <2>3. Names(serialize_uncommitted_suffix) = SignatureNames
    BY PartNames
  <2>4. \A n \in SignatureNames : Storable(FieldOf(n), tx[n])
    BY <1>5, <1>6, <2>3
  <2>5. /\ b \in Seq(Catalogue) /\ Names(b) = {"range_proof"} /\ Size(Written(b, tx)) = 96
    BY <2>1, <2>4, SizeOne DEF SignatureNames
  <2>6. a \in Seq(Catalogue)
    BY PartLists
  <2> HIDE DEF a, b
  <2>7. Names(a \o b) = Names(a) \cup Names(b)
    BY <2>5, <2>6, ConcatNames
  <2>8. AllStorable(a, tx) /\ AllStorable(b, tx)
    BY <2>2, <2>3, <2>4, <2>7, Zenon DEF AllStorable
  <2>9. /\ Size(Written(a, tx)) \in Nat
        /\ Size(Written(a \o b, tx)) = Size(Written(a, tx)) + Size(Written(b, tx))
    BY <2>5, <2>6, <2>8, SizeConcat
  <2>10. Size(Written(serialize_uncommitted_suffix, tx)) = Size(Written(a, tx)) + 96
    BY <2>2, <2>5, <2>9, Zenon
  <2> QED BY <2>9, <2>10
<1>10. committed_size(Digest[kind], tx) = W + 64
  <2>1. committed_size(d, tx) = W + 32 + 32
    BY Zenon DEF committed_size
  <2> QED BY <1>2, <1>7, <2>1
<1> HIDE DEF W
<1> QED BY <1>7, <1>8, <1>9, <1>10 DEF c, k

BeginsWith(S, p, b, d) ==
    /\ d \in Seq(S) /\ Len(d) \in Nat /\ Len(d) >= 5 /\ DOMAIN d = 1..Len(d)
    /\ \A i \in 1..4 : d[i] = p[i]
    /\ d[5] = b[1]

\* Prefix and body are the first eight members of a digest.
LEMMA FrontFields ==
    ASSUME NEW S, NEW p \in Seq(S), NEW b \in Seq(S), NEW own \in Seq(S), Len(p) = 4, Len(b) = 4,
           NEW pb, pb = p \o b, NEW d, d = pb \o own
    PROVE  BeginsWith(S, p, b, d)
<1>1. /\ pb \in Seq(S) /\ Len(pb) = 8 /\ (\A i \in 1..4 : pb[i] = p[i]) /\ pb[5] = b[1]
  <2>1. /\ pb \in Seq(S) /\ Len(pb) = Len(p) + Len(b) /\ (\A i \in 1..Len(p) : pb[i] = p[i])
        /\ \A i \in 1..Len(b) : pb[Len(p) + i] = b[i]
    <3>1. Joins(S, p, b, pb)
      BY ConcatAt
    <3> QED BY <3>1, Zenon DEF Joins
  <2>2. pb[4 + 1] = b[1]
    BY <2>1
  <2> QED BY <2>1, <2>2
<1>2. /\ d \in Seq(S) /\ Len(own) \in Nat /\ Len(d) = Len(pb) + Len(own)
      /\ \A i \in 1..Len(pb) : d[i] = pb[i]
  <2>1. Joins(S, pb, own, d)
    BY <1>1, ConcatAt
  <2> QED BY <2>1, Zenon DEF Joins
<1>3. Len(d) \in Nat /\ Len(d) >= 5 /\ \A i \in 1..5 : d[i] = pb[i]
  BY <1>1, <1>2
<1>4. DOMAIN d = 1..Len(d)
  BY <1>2, LenProperties
<1>5. \A i \in 1..4 : i \in 1..5
  OBVIOUS
<1>6. 5 \in 1..5
  OBVIOUS
<1> QED BY <1>1, <1>2, <1>3, <1>4, <1>5, <1>6, Zenon DEF BeginsWith

\* The nonce is the fifth token of what is digested: leading_zeros is a number.
LEMMA FirstFields ==
    ASSUME NEW own \in Seq(Catalogue)
    PROVE  LET d == serialize_prefix \o serialize_body \o own
           IN  /\ d \in Seq(Catalogue) /\ Len(d) \in Nat /\ Len(d) >= 5 /\ DOMAIN d = 1..Len(d)
               /\ d[1] = varint("type") /\ d[2] = varint("version") /\ d[3] = varint("unlock_block")
               /\ d[4] = key("public_key") /\ d[5] = varint("nonce")
<1> DEFINE h == serialize_header
           u == <<varint("unlock_block"), key("public_key")>>
           p == serialize_prefix
           b == serialize_body
           pb == p \o b
           d == pb \o own
<1>1. /\ h \in Seq(Catalogue) /\ Len(h) = 2 /\ h[1] = varint("type") /\ h[2] = varint("version")
  BY PartLists DEF serialize_header
<1>2. /\ u \in Seq(Catalogue) /\ Len(u) = 2 /\ u[1] = varint("unlock_block") /\ u[2] = key("public_key")
  BY InCatalogue DEF VarintNames, KeyNames
<1>3. p = h \o u
  BY Zenon DEF serialize_prefix
<1>4. b \in Seq(Catalogue) /\ Len(b) = 4 /\ b[1] = varint("nonce")
  BY PartLists DEF serialize_body
<1> HIDE DEF h, u, p, b
<1>5. /\ p \in Seq(Catalogue) /\ Len(p) = Len(h) + Len(u) /\ (\A i \in 1..Len(h) : p[i] = h[i])
      /\ \A i \in 1..Len(u) : p[Len(h) + i] = u[i]
  <2>1. Joins(Catalogue, h, u, p)
    BY <1>1, <1>2, <1>3, ConcatAt
  <2> QED BY <2>1, Zenon DEF Joins
<1>6. Len(p) = 4 /\ p[1] = h[1] /\ p[2] = h[2] /\ p[3] = u[1] /\ p[4] = u[2]
  <2>1. p[2 + 1] = u[1] /\ p[2 + 2] = u[2]
    BY <1>1, <1>2, <1>5
  <2> QED BY <1>1, <1>2, <1>5, <2>1
<1>7. /\ d \in Seq(Catalogue) /\ Len(d) \in Nat /\ Len(d) >= 5 /\ DOMAIN d = 1..Len(d)
      /\ (\A i \in 1..4 : d[i] = p[i]) /\ d[5] = b[1]
  <2>1. d = pb \o own /\ pb = p \o b
    OBVIOUS
  <2> HIDE DEF d, pb
  <2>2. BeginsWith(Catalogue, p, b, d)
    BY <1>4, <1>5, <1>6, <2>1, FrontFields
  <2> QED BY <2>2, Zenon DEF BeginsWith
<1> HIDE DEF d
<1>8. d[1] = p[1] /\ d[2] = p[2] /\ d[3] = p[3] /\ d[4] = p[4]
  BY <1>7
<1>9. /\ d[1] = varint("type") /\ d[2] = varint("version") /\ d[3] = varint("unlock_block")
      /\ d[4] = key("public_key") /\ d[5] = varint("nonce")
  BY <1>1, <1>2, <1>4, <1>6, <1>7, <1>8, Zenon
<1>10. d = serialize_prefix \o serialize_body \o own
  BY Zenon DEF d, pb, p, b
<1> QED BY <1>7, <1>9, <1>10, Zenon

\* A proof of work has a number of leading zeros.
LEMMA NonceZeros ==
    ASSUME NEW kind \in DOMAIN Uncommitted, NEW tx, IsObject(kind, tx)
    PROVE  leading_zeros(uncommitted_pow_hash(Digest[kind], tx)) \in Nat
<1>1. PICK d, own : Laid(kind, d, own)
  BY Layout
<1>2. Digest[kind] = d /\ own \in Seq(Catalogue) /\ d = serialize_prefix \o serialize_body \o own
  BY <1>1, Zenon DEF Laid
<1>3. /\ d \in Seq(Catalogue) /\ Len(d) \in Nat /\ Len(d) >= 5 /\ DOMAIN d = 1..Len(d)
      /\ d[1] = varint("type") /\ d[2] = varint("version") /\ d[3] = varint("unlock_block")
      /\ d[4] = key("public_key") /\ d[5] = varint("nonce")
  <2>1. own \in Seq(Catalogue)
    BY <1>2
  <2> DEFINE x == serialize_prefix \o serialize_body \o own
  <2>2. /\ x \in Seq(Catalogue) /\ Len(x) \in Nat /\ Len(x) >= 5 /\ DOMAIN x = 1..Len(x)
        /\ x[1] = varint("type") /\ x[2] = varint("version") /\ x[3] = varint("unlock_block")
        /\ x[4] = key("public_key") /\ x[5] = varint("nonce")
    BY <2>1, FirstFields, Zenon
  <2>3. d = x
    BY <1>2, Zenon
  <2> HIDE DEF x
  <2> QED BY <2>2, <2>3, Zenon
<1>4. FieldsOK(d) /\ RecordOK(d, tx)
  <2>1. Names(d) \subseteq Names(Fields(kind))
    BY <1>1, DigestedSame
  <2>2. AllStorable(d, tx)
    BY <2>1 DEF IsObject, AllStorable
  <2> QED BY <1>3, <2>2, CatalogueRecord
<1> DEFINE N == Len(d)
           E == Members(d, tx)
           W == Written(d, tx)
<1>5. PICK T, g : Flattening(T, g, E, N) /\ W = g[N]
  BY <1>4, WrittenParts
<1>6. Parts(g, E, N)
  BY <1>5, FlattenPart
<1>7. Len(g[0]) = 0
  BY <1>5, EmptySeq DEF Flattening, Flattens
<1>8. ASSUME NEW i \in 1..5
      PROVE  Len(E[i]) = 1 /\ E[i][1] = <<d[i].kind, tx[d[i].name]>>
  <2>1. i \in DOMAIN d
    BY <1>3
  <2>2. E[i] = Emitted(d[i], tx[d[i].name])
    BY <2>1 DEF Members
  <2>3. ~Counted(d[i])
    <3>1. i = 1 \/ i = 2 \/ i = 3 \/ i = 4 \/ i = 5
      OBVIOUS
    <3> QED BY <1>3, <3>1, PlainFields
  <2>4. FieldOK(d[i]) /\ Storable(d[i], tx[d[i].name])
    BY <1>4, <2>1 DEF FieldsOK, RecordOK
  <2> QED BY <2>2, <2>3, <2>4, EmittedShape
<1> HIDE DEF N, E, W
<1>9. N \in Nat /\ N >= 5
  BY <1>3 DEF N
<1>10. \A i \in 1..5 : /\ Len(g[i]) = Len(g[i - 1]) + Len(E[i])
                       /\ \A k \in 1..Len(E[i]) : g[N][Len(g[i - 1]) + k] = E[i][k]
  <2>1. \A i \in 1..5 : i \in 1..N
    BY <1>9
  <2> QED BY <1>6, <2>1, Zenon DEF Parts
<1>11. Len(g[1]) = 1 /\ Len(g[2]) = 2 /\ Len(g[3]) = 3 /\ Len(g[4]) = 4
  <2> DEFINE L(i) == Len(g[i])
  <2>1. L(0) = 0
    BY <1>7
  <2>2. \A i \in 1..5 : L(i) = L(i - 1) + 1
    BY <1>8, <1>10, Zenon
  <2> HIDE DEF L
  <2>3. L(1) = L(1 - 1) + 1 /\ L(2) = L(2 - 1) + 1 /\ L(3) = L(3 - 1) + 1 /\ L(4) = L(4 - 1) + 1
    BY <2>2
  <2>4. 1 - 1 = 0 /\ 2 - 1 = 1 /\ 3 - 1 = 2 /\ 4 - 1 = 3
    OBVIOUS
  <2>5. L(1) = L(0) + 1 /\ L(2) = L(1) + 1 /\ L(3) = L(2) + 1 /\ L(4) = L(3) + 1
    BY <2>3, <2>4, Zenon
  <2>6. L(1) = 1
    BY <2>1, <2>5
  <2>7. L(2) = 2
    BY <2>6, <2>5
  <2>8. L(3) = 3
    BY <2>7, <2>5
  <2>9. L(4) = 4
    BY <2>8, <2>5
  <2> QED BY <2>6, <2>7, <2>8, <2>9, Zenon DEF L
<1>12. g[N][5] = E[5][1]
  <2>1. Len(E[5]) = 1 /\ 5 - 1 = 4
    BY <1>8
  <2>2. 5 \in 1..5 /\ 1 \in 1..1 /\ 4 + 1 = 5
    OBVIOUS
  <2>3. \A k \in 1..Len(E[5]) : g[N][Len(g[5 - 1]) + k] = E[5][k]
    BY <1>10, <2>2, Zenon
  <2>4. g[N][4 + 1] = E[5][1]
    BY <1>11, <2>1, <2>2, <2>3, Zenon
  <2> QED BY <2>2, <2>4, Zenon
<1>13. W[5] = <<"varint", tx["nonce"]>>
  <2>1. d[5].kind = "varint" /\ d[5].name = "nonce"
    BY <1>3 DEF varint, Field
  <2> QED BY <1>5, <1>8, <1>12, <2>1
<1>14. leading_zeros(uncommitted_pow_hash(d, tx)) = W[5][2]
  <2> DEFINE x == range_proof_hash(tx)
  <2>1. uncommitted_pow_hash(d, tx) = argon2id(sha3(<<W, x>>))
    BY Zenon DEF uncommitted_pow_hash, W
  <2> HIDE DEF x
  <2> DEFINE r == <<W, x>>
  <2>2. r[1] = W
    OBVIOUS
  <2> HIDE DEF r
  <2>3. argon2id(sha3(r))[2][2] = r
    BY DEF argon2id, sha3
  <2>4. leading_zeros(argon2id(sha3(r))) = r[1][5][2]
    BY <2>3, Zenon DEF leading_zeros
  <2> QED BY <2>1, <2>2, <2>4, Zenon DEF r
<1>15. W[5][2] = tx["nonce"]
  BY <1>13
<1>16. tx["nonce"] \in Nat
  BY KindsOfUsers DEF IsObject
<1> QED BY <1>2, <1>14, <1>15, <1>16

\* Lists of checks: each one that fails has an error to name.
Named(checks) == \A i \in DOMAIN checks : checks[i][1] => checks[i][2] # "SUCCESS"

IsChecks(checks) == IsSequence(checks) /\ Named(checks)

\* Two lists of checks, one after the other.
LEMMA ChecksConcat ==
    ASSUME NEW a, NEW b, IsChecks(a), IsChecks(b)
    PROVE  IsChecks(a \o b) /\ (FirstError(a \o b) = "SUCCESS" => FirstError(a) = "SUCCESS")
<1>1. PICK S, T : a \in Seq(S) /\ b \in Seq(T)
  BY DEF IsChecks, IsSequence
<1> DEFINE U == S \cup T
           x == a \o b
<1>2. a \in Seq(U) /\ b \in Seq(U)
  <2>1. S \subseteq U /\ T \subseteq U
    OBVIOUS
  <2> HIDE DEF U
  <2> QED BY <1>1, <2>1
<1>3. x = a \o b
  OBVIOUS
<1> HIDE DEF U, x
<1>4. Joins(U, a, b, x)
  BY <1>2, <1>3, ConcatAt
<1> DEFINE m == Len(a)
           n == Len(b)
<1>5. /\ m \in Nat /\ n \in Nat /\ x \in Seq(U) /\ Len(x) = m + n
      /\ \A i \in 1..m : x[i] = a[i]
      /\ \A i \in 1..n : x[m + i] = b[i]
  BY <1>4, Zenon DEF Joins
<1>6. DOMAIN a = 1..m /\ DOMAIN b = 1..n /\ DOMAIN x = 1..(m + n)
  BY <1>2, <1>5, LenProperties
<1> HIDE DEF m, n
<1>7. Named(x)
  <2> SUFFICES ASSUME NEW i \in DOMAIN x, x[i][1] PROVE x[i][2] # "SUCCESS"
    BY Zenon DEF Named
  <2>1. CASE i \in 1..m
    <3>1. x[i] = a[i] /\ i \in DOMAIN a
      BY <1>5, <1>6, <2>1
    <3> QED BY <3>1, Zenon DEF Named, IsChecks
  <2>2. CASE i \notin 1..m
    <3>1. i - m \in 1..n /\ m + (i - m) = i
      BY <1>5, <1>6, <2>2
    <3>2. x[i] = b[i - m] /\ i - m \in DOMAIN b
      BY <1>5, <1>6, <3>1
    <3> QED BY <3>2, Zenon DEF Named, IsChecks
  <2> QED BY <2>1, <2>2
<1>8. IsChecks(x)
  BY <1>5, <1>7, Zenon DEF IsChecks, IsSequence
<1>9. ASSUME FirstError(x) = "SUCCESS" PROVE FirstError(a) = "SUCCESS"
  <2> DEFINE failed == {i \in DOMAIN x : x[i][1]}
  <2>1. FirstError(x) = IF failed = {} THEN "SUCCESS" ELSE x[Min(failed)][2]
    BY Zenon DEF FirstError
  <2>2. failed \subseteq Nat
    BY <1>5, <1>6
  <2>3. \A i \in failed : i \in DOMAIN x /\ x[i][1]
    OBVIOUS
  <2> HIDE DEF failed
  <2>4. failed = {}
    <3> SUFFICES ASSUME failed # {} PROVE FALSE
      OBVIOUS
    <3>1. Min(failed) \in failed
      BY <2>2, LeastNatural DEF Min
    <3>2. x[Min(failed)][2] # "SUCCESS"
      BY <1>7, <2>3, <3>1, Zenon DEF Named
    <3> QED BY <1>9, <2>1, <3>2, Zenon
  <2>5. \A i \in DOMAIN x : ~x[i][1]
    BY <2>4, Zenon DEF failed
  <2>6. \A i \in DOMAIN a : ~a[i][1]
    <3>1. \A i \in 1..m : i \in 1..(m + n)
      BY <1>5
    <3> QED BY <1>5, <1>6, <2>5, <3>1, Zenon
  <2>7. {i \in DOMAIN a : a[i][1]} = {}
    BY <2>6, Zenon
  <2> QED BY <2>7, Zenon DEF FirstError
<1> QED BY <1>3, <1>8, <1>9, Zenon

\* The lists of checks are lists of checks.
LEMMA OneCheck ==
    ASSUME NEW p, NEW e, e # "SUCCESS" PROVE IsChecks(<<<<p, e>>>>)
<1> DEFINE s == <<<<p, e>>>>
<1>1. s \in Seq({<<p, e>>}) /\ DOMAIN s = 1..1 /\ s[1] = <<p, e>>
  OBVIOUS
<1> HIDE DEF s
<1>2. \A i \in DOMAIN s : s[i][2] # "SUCCESS"
  <2>1. \A i \in DOMAIN s : i = 1
    BY <1>1
  <2> QED BY <1>1, <2>1
<1> QED BY <1>1, <1>2, Zenon DEF IsChecks, IsSequence, Named, s

\* Four checks in a row are a list of checks.
LEMMA FourChecks ==
    ASSUME NEW p, NEW q, NEW r, NEW s, NEW a, NEW b, NEW c, NEW d,
           "SUCCESS" \notin {a, b, c, d}
    PROVE  IsChecks(<<<<p, a>>, <<q, b>>, <<r, c>>, <<s, d>>>>)
<1> DEFINE x == <<<<p, a>>, <<q, b>>, <<r, c>>, <<s, d>>>>
<1>1. /\ x \in Seq({<<p, a>>, <<q, b>>, <<r, c>>, <<s, d>>}) /\ DOMAIN x = 1..4
      /\ x[1] = <<p, a>> /\ x[2] = <<q, b>> /\ x[3] = <<r, c>> /\ x[4] = <<s, d>>
  OBVIOUS
<1> HIDE DEF x
<1>2. \A i \in DOMAIN x : x[i][2] # "SUCCESS"
  <2>1. \A i \in DOMAIN x : i = 1 \/ i = 2 \/ i = 3 \/ i = 4
    BY <1>1
  <2> QED BY <1>1, <2>1
<1> QED BY <1>1, <1>2, Zenon DEF IsChecks, IsSequence, Named, x

\* Five checks in a row are a list of checks.
LEMMA FiveChecks ==
    ASSUME NEW p, NEW q, NEW r, NEW s, NEW t, NEW a, NEW b, NEW c, NEW d, NEW e,
           "SUCCESS" \notin {a, b, c, d, e}
    PROVE  IsChecks(<<<<p, a>>, <<q, b>>, <<r, c>>, <<s, d>>, <<t, e>>>>)
<1> DEFINE x == <<<<p, a>>, <<q, b>>, <<r, c>>, <<s, d>>, <<t, e>>>>
<1>1. /\ x \in Seq({<<p, a>>, <<q, b>>, <<r, c>>, <<s, d>>, <<t, e>>}) /\ DOMAIN x = 1..5
      /\ x[1] = <<p, a>> /\ x[2] = <<q, b>> /\ x[3] = <<r, c>> /\ x[4] = <<s, d>> /\ x[5] = <<t, e>>
  OBVIOUS
<1> HIDE DEF x
<1>2. \A i \in DOMAIN x : x[i][2] # "SUCCESS"
  <2>1. \A i \in DOMAIN x : i = 1 \/ i = 2 \/ i = 3 \/ i = 4 \/ i = 5
    BY <1>1
  <2> QED BY <1>1, <2>1
<1> QED BY <1>1, <1>2, Zenon DEF IsChecks, IsSequence, Named, x

\* Seven checks in a row are a list of checks.
LEMMA SevenChecks ==
    ASSUME NEW p, NEW q, NEW r, NEW s, NEW t, NEW u, NEW v,
           NEW a, NEW b, NEW c, NEW d, NEW e, NEW f, NEW g,
           "SUCCESS" \notin {a, b, c, d, e, f, g}
    PROVE  IsChecks(<<<<p, a>>, <<q, b>>, <<r, c>>, <<s, d>>, <<t, e>>, <<u, f>>, <<v, g>>>>)
<1> DEFINE x == <<<<p, a>>, <<q, b>>, <<r, c>>, <<s, d>>, <<t, e>>, <<u, f>>, <<v, g>>>>
<1>1. /\ x \in Seq({<<p, a>>, <<q, b>>, <<r, c>>, <<s, d>>, <<t, e>>, <<u, f>>, <<v, g>>})
      /\ DOMAIN x = 1..7
      /\ x[1] = <<p, a>> /\ x[2] = <<q, b>> /\ x[3] = <<r, c>> /\ x[4] = <<s, d>> /\ x[5] = <<t, e>>
      /\ x[6] = <<u, f>> /\ x[7] = <<v, g>>
  OBVIOUS
<1> HIDE DEF x
<1>2. \A i \in DOMAIN x : x[i][2] # "SUCCESS"
  <2>1. \A i \in DOMAIN x : i = 1 \/ i = 2 \/ i = 3 \/ i = 4 \/ i = 5 \/ i = 6 \/ i = 7
    BY <1>1
  <2> QED BY <1>1, <2>1
<1> QED BY <1>1, <1>2, Zenon DEF IsChecks, IsSequence, Named, x

\* So are the checks of the outputs, four for each output.
LEMMA ChecksOfOutputs ==
    ASSUME NEW outputs, IsSequence(outputs)
    PROVE  IsChecks(OutputChecks(outputs))
<1>1. PICK V : outputs \in Seq(V)
  BY DEF IsSequence
<1> DEFINE D == DOMAIN outputs
           e(i) == TransactionOutput_check(outputs[i])
           x == [i \in D |-> <<e(i) # "SUCCESS", e(i)>>]
<1>2. Len(outputs) \in Nat /\ D = 1..Len(outputs)
  BY <1>1, LenProperties
<1>3. OutputChecks(outputs) = x
  BY Zenon DEF OutputChecks
<1> HIDE DEF e
<1>4. Named(x)
  BY DEF Named
<1>5. x \in Seq({x[i] : i \in D})
  <2> DEFINE R == {x[i] : i \in D}
             n == Len(outputs)
  <2>1. x \in [D -> R]
    BY Zenon
  <2> HIDE DEF x, R
  <2>2. x \in [1..n -> R]
    BY <1>2, <2>1, Zenon
  <2> HIDE DEF n
  <2>3. n \in Nat
    BY <1>2 DEF n
  <2> QED BY <2>2, <2>3, SeqDef DEF R
<1> QED BY <1>3, <1>4, <1>5, Zenon DEF IsChecks, IsSequence

\* So are the checks all user transactions share.
LEMMA UserChecksOK ==
    ASSUME NEW tx, NEW versions, IsSequence(tx.outputs)
    PROVE  IsChecks(UserChecks(tx, versions))
<1> DEFINE p == tx.version \notin versions
           q == tx.public_key = Z
           r == tx.fee = 0
           s == Len(tx.key_images) \notin 1..MAXIMUM_INPUTS
           t == Torsion \in ToSet(tx.key_images)
           u == Cardinality(ToSet(tx.key_images)) # Len(tx.key_images)
           v == Len(tx.outputs) \notin MINIMUM_OUTPUTS..MAXIMUM_OUTPUTS
           first == << <<p, "TX_INVALID_VERSION">>, <<q, "TX_PUBLIC_KEY">>, <<r, "TX_MISSING_FEE">>,
                       <<s, "TX_INVALID_INPUT_COUNT">>, <<t, "TX_INVALID_KEY_IMAGE">>,
                       <<u, "TX_DUPLICATE_KEY_IMAGE">>, <<v, "TX_INVALID_OUTPUT_COUNT">> >>
<1>1. UserChecks(tx, versions) = first \o OutputChecks(tx.outputs)
  BY Zenon DEF UserChecks
<1> HIDE DEF p, q, r, s, t, u, v
<1>2. IsChecks(first)
  BY SevenChecks
<1> HIDE DEF first
<1>3. IsChecks(OutputChecks(tx.outputs))
  BY ChecksOfOutputs
<1> QED BY <1>1, <1>2, <1>3, ChecksConcat

\* So are the checks each user transaction adds.
LEMMA OwnChecksOK ==
    ASSUME NEW tx
    PROVE  /\ IsChecks(ExtraChecks(tx)) /\ IsChecks(StakeChecks(tx)) /\ IsChecks(RecallChecks(tx))
           /\ IsChecks(KeyReuseChecks(tx)) /\ IsChecks(SignatureChecks(tx))
<1>1. IsChecks(ExtraChecks(tx))
  <2> DEFINE p == Len(tx.extra) > MAXIMUM_EXTRA_SIZE
  <2>1. ExtraChecks(tx) = << <<p, "TX_EXTRA_TOO_LARGE">> >>
    BY Zenon DEF ExtraChecks
  <2> HIDE DEF p
  <2> QED BY <2>1, OneCheck
<1>2. IsChecks(StakeChecks(tx))
  <2> DEFINE p == tx.stake_amount = 0
             q == tx.candidate_public_key = Z
             r == tx.staker_public_view_key = Z
             s == tx.staker_public_spend_key = Z
  <2>1. StakeChecks(tx) = << <<p, "TX_STAKE_NO_AMOUNT">>, <<q, "STAKING_CANDIDATE_NOT_FOUND">>,
                             <<r, "TX_PUBLIC_VIEW_KEY_NOT_FOUND">>, <<s, "TX_PUBLIC_SPEND_KEY_NOT_FOUND">> >>
    BY Zenon DEF StakeChecks
  <2> HIDE DEF p, q, r, s
  <2> QED BY <2>1, FourChecks
<1>3. IsChecks(RecallChecks(tx))
  <2> DEFINE p == tx.stake_amount = 0
             q == tx.candidate_public_key = Z
             r == tx.staker_id = Z
             s == tx.view_signature = Z
             t == tx.spend_signature = Z
  <2>1. RecallChecks(tx) = << <<p, "TX_STAKE_NO_AMOUNT">>, <<q, "STAKING_CANDIDATE_NOT_FOUND">>,
                              <<r, "TX_STAKER_ID">>, <<s, "TX_RECALL_VIEW_SIGNATURE">>,
                              <<t, "TX_RECALL_SPEND_SIGNATURE">> >>
    BY Zenon DEF RecallChecks
  <2> HIDE DEF p, q, r, s, t
  <2> QED BY <2>1, FiveChecks
<1>4. IsChecks(KeyReuseChecks(tx))
  <2> DEFINE p == \/ tx.candidate_public_key = tx.staker_public_view_key
                  \/ tx.candidate_public_key = tx.staker_public_spend_key
                  \/ tx.staker_public_view_key = tx.staker_public_view_key
  <2>1. KeyReuseChecks(tx) = << <<p, "TX_STAKING_PUBLIC_KEYS_REUSE">> >>
    BY Zenon DEF KeyReuseChecks
  <2> HIDE DEF p
  <2> QED BY <2>1, OneCheck
<1>5. IsChecks(SignatureChecks(tx))
  <2> DEFINE p == Len(tx.key_images) # Len(tx.pseudo_commitments)
             q == ~check_commitments_parity(tx.pseudo_commitments,
                     [i \in DOMAIN tx.outputs |-> tx.outputs[i].commitment], tx.fee)
             r == ~tx.range_proof[2]
             s == Len(tx.key_images) # Len(tx.signatures)
             t == \E i \in DOMAIN tx.signatures : tx.signatures[i][2] # RING_SIZE
  <2>1. SignatureChecks(tx) = << <<p, "TX_INVALID_PSEUDO_COMMITMENT_COUNT">>,
                                 <<q, "TX_COMMITMENTS_DO_NOT_BALANCE">>, <<r, "TX_INVALID_RANGE_PROOF">>,
                                 <<s, "TX_SIG_SIZE_MISMATCH">>, <<t, "TX_INVALID_SIGNATURE">> >>
    BY Zenon DEF SignatureChecks
  <2> HIDE DEF p, q, r, s, t
  <2> QED BY <2>1, FiveChecks
<1> QED BY <1>1, <1>2, <1>3, <1>4, <1>5

\* The checks of the committed form are checks of the transaction.
LEMMA CarriedMember ==
    ASSUME NEW kind \in DOMAIN Uncommitted, NEW tx, NEW n \in Names(Fields(Uncommitted[kind])),
           n \notin {"type", "signature_hash", "range_proof_hash"}
    PROVE  to_committed(kind, tx)[n] = tx[n]
<1>1. Carried(kind, to_committed(kind, tx), tx)
  BY ToCommitted
<1> QED BY <1>1, Zenon DEF Carried

\* The shared checks look at members that to_committed carries over only.
LEMMA SameUserChecks ==
    ASSUME NEW kind \in DOMAIN Uncommitted, NEW tx, NEW versions
    PROVE  UserChecks(to_committed(kind, tx), versions) = UserChecks(tx, versions)
<1> DEFINE c == to_committed(kind, tx)
<1>1. {"version", "public_key", "fee", "key_images", "outputs"} \subseteq Names(Fields(Uncommitted[kind]))
  BY KindsOfUsers DEF PrefixNames, BodyNames
<1>2. /\ c["version"] = tx["version"] /\ c["public_key"] = tx["public_key"] /\ c["fee"] = tx["fee"]
      /\ c["key_images"] = tx["key_images"] /\ c["outputs"] = tx["outputs"]
  BY <1>1, CarriedMember
<1> HIDE DEF c
<1> DEFINE U(version, public_key, fee, key_images, outputs) == <<
             <<version \notin versions, "TX_INVALID_VERSION">>,
             <<public_key = Z, "TX_PUBLIC_KEY">>,
             <<fee = 0, "TX_MISSING_FEE">>,
             <<Len(key_images) \notin 1..MAXIMUM_INPUTS, "TX_INVALID_INPUT_COUNT">>,
             <<Torsion \in ToSet(key_images), "TX_INVALID_KEY_IMAGE">>,
             <<Cardinality(ToSet(key_images)) # Len(key_images), "TX_DUPLICATE_KEY_IMAGE">>,
             <<Len(outputs) \notin MINIMUM_OUTPUTS..MAXIMUM_OUTPUTS, "TX_INVALID_OUTPUT_COUNT">> >>
             \o OutputChecks(outputs)
<1>3. /\ UserChecks(c, versions) = U(c["version"], c["public_key"], c["fee"], c["key_images"], c["outputs"])
      /\ UserChecks(tx, versions) = U(tx["version"], tx["public_key"], tx["fee"], tx["key_images"], tx["outputs"])
  BY Zenon DEF UserChecks
<1> HIDE DEF U
<1> QED BY <1>2, <1>3, Zenon DEF c

\* A committed form fails no check of its construction that the uncommitted
\* form passed.
LEMMA ConstructionAgrees ==
    ASSUME NEW kind \in DOMAIN Uncommitted, NEW tx, IsObject(kind, tx),
           check_construction(kind, tx) = "SUCCESS"
    PROVE  check_construction(Uncommitted[kind], to_committed(kind, tx)) = "SUCCESS"
<1> DEFINE c == to_committed(kind, tx)
           k == Uncommitted[kind]
<1>1. IsSequence(tx.outputs)
  <2>1. kind \in UserKinds /\ "outputs" \in Names(Fields(kind))
    BY KindsOfUsers DEF BodyNames
  <2>2. Storable(FieldOf("outputs"), tx["outputs"])
    BY <2>1, Zenon DEF IsObject
  <2>3. Counted(FieldOf("outputs"))
    <3>1. FieldOf("outputs") = vector("outputs", TransactionOutput_serialize)
      BY CatalogueFields, Zenon
    <3>2. FieldOf("outputs").kind = "vector"
      BY <3>1 DEF vector, Field
    <3> QED BY <3>2, Zenon DEF Counted
  <2> QED BY <2>2, <2>3, Zenon DEF Storable
<1>2. \A v : IsChecks(UserChecks(tx, v)) /\ UserChecks(c, v) = UserChecks(tx, v)
  BY <1>1, UserChecksOK, SameUserChecks
<1>3. /\ IsChecks(ExtraChecks(tx)) /\ IsChecks(StakeChecks(tx)) /\ IsChecks(RecallChecks(tx))
      /\ IsChecks(KeyReuseChecks(tx)) /\ IsChecks(SignatureChecks(tx))
  BY OwnChecksOK
<1>4. ASSUME NEW a, NEW b, IsChecks(a), IsChecks(b)
      PROVE  IsChecks(a \o b) /\ (FirstError(a \o b) = "SUCCESS" => FirstError(a) = "SUCCESS")
  BY <1>4, ChecksConcat
<1>5. CASE kind = "uncommited_normal_transaction_t"
  <2>1. k = "committed_normal_transaction_t"
    BY <1>5 DEF Uncommitted
  <2>2. "extra" \in Names(Fields(k))
    BY <2>1, UserNames DEF Fields, Structure, Methods
  <2>3. c["extra"] = tx["extra"]
    BY <2>2, CarriedMember
  <2> HIDE DEF c
  <2>4. ExtraChecks(c) = ExtraChecks(tx)
    BY <2>3, Zenon DEF ExtraChecks
  <2>5. check_construction(kind, tx) = uncommitted_normal_check(tx)
    BY <1>5 DEF check_construction
  <2>6. check_construction(k, c) = committed_normal_check(c)
    BY <2>1 DEF check_construction
  <2> DEFINE a == UserChecks(tx, {1}) \o ExtraChecks(tx)
  <2>7. IsChecks(a)
    BY <1>2, <1>3, <1>4, Zenon
  <2>8. committed_normal_check(c) = FirstError(a)
    BY <1>2, <2>4, Zenon DEF committed_normal_check
  <2>9. uncommitted_normal_check(tx) = FirstError(a \o SignatureChecks(tx))
    BY Zenon DEF uncommitted_normal_check
  <2> HIDE DEF a
  <2>10. FirstError(a) = "SUCCESS"
    BY <1>3, <1>4, <2>5, <2>7, <2>9, Zenon
  <2> QED BY <2>6, <2>8, <2>10, Zenon DEF c
<1>6. CASE kind = "uncommitted_stake_transaction_t"
  <2>1. k = "committed_stake_transaction_t"
    BY <1>6 DEF Uncommitted
  <2>2. StakeNames \subseteq Names(Fields(k))
    BY <2>1, UserNames DEF Fields, Structure, Methods
  <2>3. /\ c["stake_amount"] = tx["stake_amount"]
        /\ c["candidate_public_key"] = tx["candidate_public_key"]
        /\ c["staker_public_view_key"] = tx["staker_public_view_key"]
        /\ c["staker_public_spend_key"] = tx["staker_public_spend_key"]
    BY <2>2, CarriedMember DEF StakeNames
  <2> HIDE DEF c
  <2>4. StakeChecks(c) = StakeChecks(tx)
    BY <2>3, Zenon DEF StakeChecks
  <2>5. check_construction(kind, tx) = uncommitted_stake_check(tx)
    BY <1>6 DEF check_construction
  <2>6. check_construction(k, c) = committed_stake_check(c)
    BY <2>1 DEF check_construction
  <2> DEFINE a == UserChecks(tx, {1, 2}) \o StakeChecks(tx)
             b == a \o KeyReuseChecks(tx)
  <2>7. IsChecks(a)
    BY <1>2, <1>3, <1>4, Zenon
  <2>8. committed_stake_check(c) = FirstError(a)
    BY <1>2, <2>4, Zenon DEF committed_stake_check
  <2>9. uncommitted_stake_check(tx) = FirstError(b \o SignatureChecks(tx))
    BY Zenon DEF uncommitted_stake_check
  <2> HIDE DEF a
  <2>10. IsChecks(b) /\ (FirstError(b) = "SUCCESS" => FirstError(a) = "SUCCESS")
    BY <1>3, <1>4, <2>7, Zenon
  <2> HIDE DEF b
  <2>11. FirstError(b) = "SUCCESS"
    BY <1>3, <1>4, <2>5, <2>9, <2>10, Zenon
  <2> QED BY <2>6, <2>8, <2>10, <2>11, Zenon DEF c
<1>7. CASE kind = "uncommitted_recall_stake_transaction_t"
  <2>1. k = "committed_recall_stake_transaction_t"
    BY <1>7 DEF Uncommitted
  <2>2. RecallNames \subseteq Names(Fields(k))
    BY <2>1, UserNames DEF Fields, Structure, Methods
  <2>3. /\ c["stake_amount"] = tx["stake_amount"]
        /\ c["candidate_public_key"] = tx["candidate_public_key"]
        /\ c["staker_id"] = tx["staker_id"]
        /\ c["view_signature"] = tx["view_signature"]
        /\ c["spend_signature"] = tx["spend_signature"]
    BY <2>2, CarriedMember DEF RecallNames
  <2> HIDE DEF c
  <2>4. RecallChecks(c) = RecallChecks(tx)
    BY <2>3, Zenon DEF RecallChecks
  <2>5. check_construction(kind, tx) = uncommitted_recall_check(tx)
    BY <1>7 DEF check_construction
  <2>6. check_construction(k, c) = committed_recall_check(c)
    BY <2>1 DEF check_construction
  <2> DEFINE a == UserChecks(tx, {1, 2}) \o RecallChecks(tx)
  <2>7. IsChecks(a)
    BY <1>2, <1>3, <1>4, Zenon
  <2>8. committed_recall_check(c) = FirstError(a)
    BY <1>2, <2>4, Zenon DEF committed_recall_check
  <2>9. uncommitted_recall_check(tx) = FirstError(a \o SignatureChecks(tx))
    BY Zenon DEF uncommitted_recall_check
  <2> HIDE DEF a
  <2>10. FirstError(a) = "SUCCESS"
    BY <1>3, <1>4, <2>5, <2>7, <2>9, Zenon
  <2> QED BY <2>6, <2>8, <2>10, Zenon DEF c
<1> QED BY <1>5, <1>6, <1>7, KindsOfUsers

\* A smaller transaction with the same fee and work is paid for.
LEMMA PaidForSmaller ==
    ASSUME NEW tx, NEW c, c.fee = tx.fee, tx.fee \in Nat, NEW s \in Nat, NEW t \in Nat, s <= t,
           NEW zeros \in Nat, PaidFor(tx, t, zeros) = "SUCCESS"
    PROVE  PaidFor(c, s, zeros) = "SUCCESS"
<1> DEFINE x == calculate_transaction_fee(s, zeros)
           y == calculate_transaction_fee(t, zeros)
           fee == tx.fee
<1>1. x \in Nat /\ y \in Nat /\ x <= y
  BY FeeBounded, FeeGrowsWithSize
<1>2. PaidFor(tx, t, zeros) = IF check_pow_zeros(zeros) # "SUCCESS" THEN check_pow_zeros(zeros)
                              ELSE IF fee < y THEN "TX_LOW_FEE" ELSE "SUCCESS"
  BY Zenon DEF PaidFor
<1>3. PaidFor(c, s, zeros) = IF check_pow_zeros(zeros) # "SUCCESS" THEN check_pow_zeros(zeros)
                             ELSE IF fee < x THEN "TX_LOW_FEE" ELSE "SUCCESS"
  BY Zenon DEF PaidFor
<1>4. fee \in Nat
  OBVIOUS
<1> HIDE DEF x, y, fee
<1>5. check_pow_zeros(zeros) = "SUCCESS"
  BY <1>2
<1>6. ~(fee < y)
  BY <1>2, <1>5
<1>7. ~(fee < x)
  BY <1>1, <1>4, <1>6
<1> QED BY <1>3, <1>5, <1>7

\* A transaction that passes the validator's check still does when committed.
LEMMA CheckAgrees ==
    ASSUME NEW kind \in DOMAIN Uncommitted, NEW tx, IsObject(kind, tx), check(kind, tx) = "SUCCESS"
    PROVE  check(Uncommitted[kind], to_committed(kind, tx)) = "SUCCESS"
<1> DEFINE c == to_committed(kind, tx)
           k == Uncommitted[kind]
           e == check_construction(kind, tx)
           f == check_construction(k, c)
           s == Size(Written(Fields(k), c))
           t == Size(Written(Fields(kind), tx))
           zeros == leading_zeros(uncommitted_pow_hash(Digest[kind], tx))
<1>1. k \notin DOMAIN Uncommitted /\ Fields(kind) = Structure[kind].serialize
        /\ Fields(k) = Structure[k].serialize
  BY DEF Uncommitted, Fields
<1>2. /\ s \in Nat /\ t \in Nat /\ s <= t
  BY Sizes, Zenon
<1>3. zeros \in Nat
  BY NonceZeros
<1>4. leading_zeros(committed_pow_hash(Digest[k], c)) = zeros
  BY OneHash, Zenon
<1>5. check(kind, tx) = IF e # "SUCCESS" THEN e ELSE PaidFor(tx, t, zeros)
  BY <1>1, Zenon DEF check, check_uncommitted
<1>6. check(k, c) = IF f # "SUCCESS" THEN f ELSE PaidFor(c, s, zeros)
  BY <1>1, <1>4, Zenon DEF check, check_committed
<1>7. c.fee = tx.fee /\ tx.fee \in Nat
  <2>1. kind \in UserKinds /\ k \in UserKinds /\ kind \in DOMAIN Digest /\ "fee" \in Names(Fields(k))
    BY KindsOfUsers DEF BodyNames
  <2>2. c["fee"] = tx["fee"]
    BY <2>1, CarriedMember
  <2>3. tx["fee"] \in Nat
    BY <2>1, Zenon DEF IsObject
  <2> QED BY <2>2, <2>3, Zenon
<1>8. e = "SUCCESS" => f = "SUCCESS"
  BY ConstructionAgrees
<1> HIDE DEF c, k, e, f, s, t, zeros
<1>9. e = "SUCCESS" /\ PaidFor(tx, t, zeros) = "SUCCESS"
  BY <1>5, Zenon
<1>10. PaidFor(c, s, zeros) = "SUCCESS"
  BY <1>2, <1>3, <1>7, <1>9, PaidForSmaller
<1> QED BY <1>6, <1>8, <1>9, <1>10 DEF c, k

\* CommittedAgrees of every object.
LEMMA InvAgrees == Inv => CommittedAgrees
<1> SUFFICES ASSUME Inv, doc.kind \in DOMAIN Uncommitted PROVE CommittedAgrees
  BY Zenon DEF CommittedAgrees
<1> DEFINE kind == doc.kind
           tx == doc.val
           k == Uncommitted[kind]
           c == to_committed(kind, tx)
<1>1. IsObject(kind, tx)
  BY Zenon DEF Inv
<1>2. /\ committed_hash(Digest[k], c) = uncommitted_hash(Digest[kind], tx)
      /\ committed_pow_hash(Digest[k], c) = uncommitted_pow_hash(Digest[kind], tx)
  BY <1>1, OneHash, Zenon
<1>3. Size(Written(Structure[k].serialize, c)) = committed_size(Digest[kind], tx)
  <2>1. Size(Written(Fields(k), c)) = committed_size(Digest[kind], tx)
    BY <1>1, Sizes, Zenon
  <2> QED BY <2>1, Zenon DEF Fields
<1>4. check(kind, tx) = "SUCCESS" => check(k, c) = "SUCCESS"
  BY <1>1, CheckAgrees
<1> QED BY <1>2, <1>3, <1>4, Zenon DEF CommittedAgrees

\* to_committed keeps a transaction's hash, its proof of work and the size that
\* committed_size announced, and what TransactionValidator::check accepts of
\* the uncommitted form it accepts of the committed one, whatever was assigned.
THEOREM CommittedAgreesHolds == Spec => []CommittedAgrees
BY AlwaysInv, InvAgrees, PTL

(******************************************************************************)
(* Part 3: BlockSigning                                                       *)
(******************************************************************************)
-----------------------------------------------------------------------------
(* Containers as sequences *)

\* A finite set in its order: every element once.
LEMMA OrderedSet ==
    ASSUME NEW S, IsFiniteSet(S)
    PROVE  /\ Ordered(S) \in Seq(S)
           /\ ToSet(Ordered(S)) = S
<1> DEFINE n == Cardinality(S)
           D == 1..n
           f == SetToSeq(S)
<1>1. n \in Nat /\ ExistsBijection(D, S)
  BY FS_CardinalityType
<1>2. IsFiniteSet(D) /\ Cardinality(D) = n
  <2>1. 1 \in Int /\ n \in Int
    BY <1>1
  <2>2. IsFiniteSet(1..n) /\ Cardinality(1..n) = IF 1 > n THEN 0 ELSE n - 1 + 1
    BY <2>1, FS_Interval
  <2> QED BY <1>1, <2>2
<1>3. \E g \in [D -> S] : IsInjective(g)
  BY <1>1 DEF ExistsBijection, Bijection, Injection
<1>4. f \in [D -> S] /\ IsInjective(f)
  BY <1>3 DEF SetToSeq
<1>5. f \in Injection(D, S)
  BY <1>4 DEF Injection
<1>6. f \in Surjection(D, S)
  BY <1>2, <1>5, FS_Injection
<1>7. \A t \in S : \E s \in D : f[s] = t
  BY <1>6 DEF Surjection
<1> HIDE DEF n, f
<1>8. f \in Seq(S)
  BY <1>1, <1>4, SeqDef DEF n
<1>9. ToSet(f) = S
  BY <1>4, <1>7, Zenon DEF ToSet
<1> QED BY <1>8, <1>9 DEF Ordered, f

\* A map's entries in the order of its keys, and the map of them.
VotesOK(votes) == votes = [k \in DOMAIN votes |-> votes[k]] /\ IsFiniteSet(DOMAIN votes)

\* The map of the validator signatures is read back from its pairs.
LEMMA VotesOfMap ==
    ASSUME NEW b, VotesOK(b.validator_signatures)
    PROVE  /\ IsSequence(Votes(b))
           /\ \A i \in DOMAIN Votes(b) :
                 Votes(b)[i] = [public_key |-> Votes(b)[i].public_key, signature |-> Votes(b)[i].signature]
           /\ MapOf(Votes(b)) = b.validator_signatures
<1> DEFINE m == b.validator_signatures
           keys == Ordered(DOMAIN m)
           e(i) == [public_key |-> keys[i], signature |-> m[keys[i]]]
           v == [i \in DOMAIN keys |-> e(i)]
<1>1. Votes(b) = v
  BY Zenon DEF Votes
<1>2. m = [k \in DOMAIN m |-> m[k]] /\ keys \in Seq(DOMAIN m) /\ ToSet(keys) = DOMAIN m
  BY OrderedSet DEF VotesOK
<1> HIDE DEF keys, m
<1>3. Len(keys) \in Nat /\ DOMAIN keys = 1..Len(keys)
  BY <1>2, LenProperties
<1>4. \A i \in DOMAIN keys : e(i).public_key = keys[i] /\ e(i).signature = m[keys[i]]
  OBVIOUS
<1>5. ASSUME NEW i \in DOMAIN v
      PROVE  /\ v[i] = e(i) /\ v[i] = [public_key |-> v[i].public_key, signature |-> v[i].signature]
             /\ v[i].public_key = keys[i] /\ v[i].signature = m[keys[i]]
  <2>1. v[i] = e(i)
    BY <1>5
  <2> HIDE DEF v
  <2>2. e(i).public_key = keys[i] /\ e(i).signature = m[keys[i]]
          /\ e(i) = [public_key |-> e(i).public_key, signature |-> e(i).signature]
    OBVIOUS
  <2> HIDE DEF e
  <2> QED BY <2>1, <2>2, Zenon
<1>6. DOMAIN v = DOMAIN keys
  OBVIOUS
<1>7. IsSequence(v)
  <2> DEFINE R == {v[i] : i \in DOMAIN v}
             n == Len(keys)
  <2>1. v \in [DOMAIN keys -> R]
    BY <1>6, Zenon
  <2> HIDE DEF v, R
  <2>2. v \in [1..n -> R]
    BY <1>3, <2>1, Zenon
  <2> HIDE DEF n
  <2>3. n \in Nat
    BY <1>3 DEF n
  <2>4. v \in Seq(R)
    BY <2>2, <2>3, SeqDef
  <2> QED BY <2>4, Zenon DEF IsSequence
<1> HIDE DEF v, e
<1>8. {v[i].public_key : i \in DOMAIN v} = DOMAIN m
  <2>1. {v[i].public_key : i \in DOMAIN v} = {keys[i] : i \in DOMAIN keys}
    BY <1>5, <1>6
  <2> QED BY <1>2, <2>1, Zenon DEF ToSet
<1>9. ASSUME NEW k \in DOMAIN m
      PROVE  v[Min({i \in DOMAIN v : v[i].public_key = k})].signature = m[k]
  <2> DEFINE P == {i \in DOMAIN v : v[i].public_key = k}
  <2>1. P # {}
    BY <1>8
  <2>2. P \subseteq Nat
    BY <1>3, <1>6
  <2> HIDE DEF P
  <2>3. Min(P) \in P
    BY <2>1, <2>2, LeastNatural DEF Min
  <2>4. Min(P) \in DOMAIN v /\ v[Min(P)].public_key = k
    BY <2>3 DEF P
  <2>5. v[Min(P)].signature = m[k]
    BY <1>5, <2>4
  <2> QED BY <2>5 DEF P
<1>10. MapOf(v) = [k \in DOMAIN m |-> m[k]]
  BY <1>8, <1>9, Zenon DEF MapOf
<1>11. MapOf(v) = m
  BY <1>2, <1>10, Zenon
<1> QED BY <1>1, <1>5, <1>7, <1>11, Zenon DEF m

-----------------------------------------------------------------------------
(* The lists of a block's fields *)

\* A list without vectors and addresses can be written whatever the object.
LEMMA PlainList ==
    ASSUME NEW fields, IsSequence(fields),
           \A i \in DOMAIN fields : ~Counted(fields[i]) /\ fields[i].kind # "address"
    PROVE  FieldsOK(fields) /\ \A rec : RecordOK(fields, rec)
BY Zenon DEF FieldsOK, RecordOK, FieldOK, Storable, Loaded

\* The kinds of the single fields.
LEMMA PlainKinds ==
    ASSUME NEW n
    PROVE  /\ ~Counted(varint(n)) /\ varint(n).kind = "varint" /\ varint(n).name = n
           /\ ~Counted(key(n)) /\ key(n).kind = "key" /\ key(n).name = n
           /\ ~Counted(signature(n)) /\ signature(n).kind = "signature" /\ signature(n).name = n
           /\ ~Counted(boolean(n)) /\ boolean(n).kind = "boolean" /\ boolean(n).name = n
BY DEF Counted, Field, varint, key, signature, boolean

HeaderNames == {"version", "previous_blockhash", "timestamp", "block_index"}

\* The list of a block's header.
LEMMA HeaderList ==
    /\ FieldsOK(block_fields) /\ \A rec : RecordOK(block_fields, rec)
    /\ Names(block_fields) = HeaderNames
<1> DEFINE f == block_fields
           P == {varint("version"), key("previous_blockhash"), varint("timestamp"), varint("block_index")}
<1>1. /\ f \in Seq(P) /\ DOMAIN f = 1..4 /\ f[1] = varint("version") /\ f[2] = key("previous_blockhash")
      /\ f[3] = varint("timestamp") /\ f[4] = varint("block_index")
  BY DEF block_fields
<1>2. \A i \in 1..4 : i = 1 \/ i = 2 \/ i = 3 \/ i = 4
  OBVIOUS
<1> HIDE DEF f, P
<1>3. IsSequence(f)
  BY <1>1, Zenon DEF IsSequence
<1>4. \A i \in DOMAIN f : ~Counted(f[i]) /\ f[i].kind # "address"
  BY <1>1, <1>2, PlainKinds
<1>5. Names(f) = HeaderNames
  BY <1>1, <1>2, PlainKinds DEF Names, HeaderNames
<1> QED BY <1>3, <1>4, <1>5, PlainList DEF f

\* The flag that says whether a producer follows.
LEMMA FlagList ==
    /\ FieldsOK(producer_flag) /\ (\A rec : RecordOK(producer_flag, rec))
    /\ Names(producer_flag) = {"has_producer"}
    /\ Len(producer_flag) = 1 /\ ~Counted(producer_flag[1])
<1> DEFINE f == producer_flag
<1>1. f \in Seq({boolean("has_producer")}) /\ DOMAIN f = 1..1 /\ f[1] = boolean("has_producer") /\ Len(f) = 1
  BY DEF producer_flag
<1>2. \A i \in 1..1 : i = 1
  OBVIOUS
<1> HIDE DEF f
<1>3. IsSequence(f)
  BY <1>1, Zenon DEF IsSequence
<1>4. \A i \in DOMAIN f : ~Counted(f[i]) /\ f[i].kind # "address"
  BY <1>1, <1>2, PlainKinds
<1>5. Names(f) = {"has_producer"}
  BY <1>1, <1>2, PlainKinds DEF Names
<1>6. ~Counted(f[1])
  BY <1>1, PlainKinds
<1> QED BY <1>1, <1>3, <1>4, <1>5, <1>6, PlainList DEF f

MakerNames == {"producer_public_key", "producer_signature"}

\* The producer, when there is one.
LEMMA MakerList ==
    ASSUME NEW has
    PROVE  /\ FieldsOK(producer_fields(has)) /\ \A rec : RecordOK(producer_fields(has), rec)
           /\ has => Names(producer_fields(has)) = MakerNames
<1>1. CASE has
  <2> DEFINE f == producer_fields(has)
             P == {key("producer_public_key"), signature("producer_signature")}
  <2>1. /\ f \in Seq(P) /\ DOMAIN f = 1..2 /\ f[1] = key("producer_public_key")
        /\ f[2] = signature("producer_signature")
    <3>1. f = <<key("producer_public_key"), signature("producer_signature")>>
      BY <1>1, Zenon DEF producer_fields
    <3> HIDE DEF f
    <3> QED BY <3>1
  <2>2. \A i \in 1..2 : i = 1 \/ i = 2
    OBVIOUS
  <2> HIDE DEF f, P
  <2>3. IsSequence(f)
    BY <2>1, Zenon DEF IsSequence
  <2>4. \A i \in DOMAIN f : ~Counted(f[i]) /\ f[i].kind # "address"
    BY <2>1, <2>2, PlainKinds
  <2>5. Names(f) = MakerNames
    BY <2>1, <2>2, PlainKinds DEF Names, MakerNames
  <2> QED BY <2>3, <2>4, <2>5, PlainList DEF f
<1>2. CASE ~has
  <2>1. producer_fields(has) = <<>>
    BY <1>2, Zenon DEF producer_fields
  <2>2. <<>> \in Seq({}) /\ DOMAIN <<>> = {}
    OBVIOUS
  <2>3. IsSequence(<<>>) /\ \A i \in DOMAIN <<>> : ~Counted(<<>>[i]) /\ <<>>[i].kind # "address"
    BY <2>2, Zenon DEF IsSequence
  <2> QED BY <1>2, <2>1, <2>3, PlainList
<1> QED BY <1>1, <1>2

\* A vector alone.
LEMMA VectorList ==
    ASSUME NEW n, NEW of, ElementsOK(of)
    PROVE  /\ FieldsOK(<<vector(n, of)>>) /\ Names(<<vector(n, of)>>) = {n}
           /\ \A rec : /\ IsSequence(rec[n]) /\ (\A i \in DOMAIN rec[n] : ElementStorable(of, rec[n][i]))
                       => RecordOK(<<vector(n, of)>>, rec)
<1> DEFINE v == vector(n, of)
           f == <<v>>
<1>1. FieldOK(v) /\ Counted(v) /\ v.name = n /\ v.of = of
  BY VectorOK
<1> HIDE DEF v
<1>2. f \in Seq({v}) /\ DOMAIN f = {1} /\ f[1] = v
  OBVIOUS
<1> HIDE DEF f
<1>3. IsSequence(f)
  BY <1>2, Zenon DEF IsSequence
<1>4. FieldsOK(f)
  BY <1>1, <1>2, <1>3 DEF FieldsOK
<1>5. Names(f) = {n}
  BY <1>1, <1>2 DEF Names
<1>6. ASSUME NEW rec, IsSequence(rec[n]), \A i \in DOMAIN rec[n] : ElementStorable(of, rec[n][i])
      PROVE  RecordOK(f, rec)
  <2>1. Storable(v, rec[n])
    BY <1>1, <1>6, Zenon DEF Storable
  <2> QED BY <1>1, <1>2, <2>1, Zenon DEF RecordOK
<1> QED BY <1>4, <1>5, <1>6 DEF f, v

\* The transaction hashes.
LEMMA TransactionList ==
    /\ FieldsOK(transaction_fields) /\ Names(transaction_fields) = {"transactions"}
    /\ \A s : IsSequence(s) => RecordOK(transaction_fields, [transactions |-> s])
<1> DEFINE of == <<key(Itself)>>
<1>1. ElementsOK(of) /\ of[1].name = Itself
  BY ElementLists, PlainKinds
<1>2. transaction_fields = <<vector("transactions", of)>>
  BY Zenon DEF transaction_fields, keyV
<1> HIDE DEF of
<1>3. ASSUME NEW s, IsSequence(s) PROVE RecordOK(transaction_fields, [transactions |-> s])
  <2> DEFINE rec == [transactions |-> s]
  <2>1. rec["transactions"] = s
    OBVIOUS
  <2> HIDE DEF rec
  <2>2. \A i \in DOMAIN s : ElementStorable(of, s[i])
    BY <1>1, Zenon DEF ElementStorable
  <2>3. RecordOK(<<vector("transactions", of)>>, rec)
    BY <1>1, <1>3, <2>1, <2>2, VectorList
  <2> QED BY <1>2, <2>3 DEF rec
<1> QED BY <1>1, <1>2, <1>3, VectorList

\* The validator signatures.
LEMMA VoteList ==
    /\ FieldsOK(vote_fields) /\ Names(vote_fields) = {"votes"}
    /\ \A s : /\ IsSequence(s)
              /\ \A i \in DOMAIN s : s[i] = [public_key |-> s[i].public_key, signature |-> s[i].signature]
              => RecordOK(vote_fields, [votes |-> s])
<1> DEFINE of == validator_fields
           P == {key("public_key"), signature("signature")}
<1>1. /\ of \in Seq(P) /\ Len(of) = 2 /\ DOMAIN of = 1..2 /\ of[1] = key("public_key")
      /\ of[2] = signature("signature")
  BY DEF validator_fields
<1>2. \A i \in 1..2 : i = 1 \/ i = 2
  OBVIOUS
<1>3. vote_fields = <<vector("votes", of)>>
  BY Zenon DEF vote_fields
<1> HIDE DEF of, P
<1>4. of[1].name = "public_key" /\ of[2].name = "signature"
        /\ \A k \in DOMAIN of : of[k].kind # "address"
  BY <1>1, <1>2, PlainKinds
<1>5. Names(of) = {"public_key", "signature"}
  BY <1>1, <1>2, <1>4 DEF Names
<1>6. ElementsOK(of)
  <2>1. IsSequence(of)
    BY <1>1, Zenon DEF IsSequence
  <2>2. Len(of) >= 1 /\ of[1].name # Itself /\ \A i \in DOMAIN of : of[i].name # Itself
    BY <1>1, <1>2, <1>4 DEF Itself
  <2>3. \A i, j \in DOMAIN of : of[i].name = of[j].name => i = j
    BY <1>1, <1>2, <1>4
  <2> QED BY <2>1, <2>2, <2>3, Zenon DEF ElementsOK
<1>7. ASSUME NEW s, IsSequence(s),
             \A i \in DOMAIN s : s[i] = [public_key |-> s[i].public_key, signature |-> s[i].signature]
      PROVE  RecordOK(vote_fields, [votes |-> s])
  <2> DEFINE rec == [votes |-> s]
  <2>1. rec["votes"] = s
    OBVIOUS
  <2> HIDE DEF rec
  <2>2. ASSUME NEW i \in DOMAIN s PROVE ElementStorable(of, s[i])
    <3> DEFINE e == s[i]
    <3>1. e = [public_key |-> e.public_key, signature |-> e.signature]
      BY <1>7, <2>2
    <3> HIDE DEF e
    <3>2. e = [n \in {"public_key", "signature"} |-> e[n]]
      BY <3>1
    <3>3. ElementStorable(of, e)
      BY <1>4, <1>5, <3>2, Zenon DEF ElementStorable, Loaded
    <3> QED BY <3>3 DEF e
  <2>3. RecordOK(<<vector("votes", of)>>, rec)
    BY <1>6, <1>7, <2>1, <2>2, VectorList
  <2> QED BY <1>3, <2>3 DEF rec
<1> QED BY <1>3, <1>6, <1>7, VectorList

\* The reward transactions: their type comes first.
LEMMA RewardList ==
    ASSUME NEW type \in {TransactionType.GENESIS, TransactionType.STAKER}
    PROVE  /\ FieldsOK(RewardFields(type)) /\ RewardFields(type) \in Seq(Catalogue)
           /\ Len(RewardFields(type)) >= 1
           /\ RewardFields(type)[1] = varint("type") /\ RewardFields(type) # <<>>
           /\ "type" \in Names(RewardFields(type))
<1> DEFINE f == RewardFields(type)
           h == serialize_header
<1>1. f = genesis_serialize \/ f = staker_serialize
  BY Zenon DEF RewardFields
<1>2. f \in Seq(Catalogue)
  BY <1>1, RewardLists, Zenon
<1>3. h \in Seq(Catalogue) /\ Len(h) = 2 /\ h[1] = varint("type")
  BY PartLists DEF serialize_header
<1>4. \E x \in Seq(Catalogue) : f = h \o x
  <2> DEFINE u == <<varint("unlock_block"), key("public_key")>>
             s == <<vector("staker_outputs", StakerOutput_serialize),
                    vector("staker_penalties", StakerOutput_serialize)>>
             g == <<key("secret_key"), vector("outputs", TransactionOutput_serialize)>>
  <2>1. u \in Seq(Catalogue) /\ s \in Seq(Catalogue) /\ g \in Seq(Catalogue)
    BY InCatalogue DEF VarintNames, KeyNames
  <2>2. genesis_serialize = (h \o u) \o g /\ staker_serialize = h \o s
    BY Zenon DEF genesis_serialize, staker_serialize, serialize_prefix
  <2> HIDE DEF h, u, s, g
  <2>3. (h \o u) \o g = h \o (u \o g)
    <3>1. IsSequence(h) /\ IsSequence(u) /\ IsSequence(g)
      BY <1>3, <2>1, Zenon DEF IsSequence
    <3> QED BY <3>1, SeqAssoc
  <2>4. u \o g \in Seq(Catalogue)
    BY <2>1, ConcatProperties
  <2> QED BY <1>1, <2>1, <2>2, <2>3, <2>4, Zenon
<1>5. PICK x \in Seq(Catalogue) : f = h \o x
  BY <1>4
<1> HIDE DEF f, h
<1>6. Joins(Catalogue, h, x, f)
  BY <1>3, <1>5, ConcatAt
<1>7. Len(x) \in Nat /\ Len(f) = Len(h) + Len(x) /\ \A i \in 1..Len(h) : f[i] = h[i]
  BY <1>6, Zenon DEF Joins
<1>8. Len(f) >= 1 /\ f[1] = varint("type") /\ Len(f) \in Nat
  BY <1>3, <1>7
<1>9. f # <<>>
  BY <1>8, EmptySeq
<1>10. FieldsOK(f)
  BY <1>2, CatalogueList
<1>11. "type" \in Names(f)
  <2>1. DOMAIN f = 1..Len(f)
    BY <1>2, LenProperties
  <2>2. 1 \in DOMAIN f /\ f[1].name = "type"
    BY <1>8, <2>1, PlainKinds
  <2> QED BY <2>2 DEF Names
<1> QED BY <1>2, <1>8, <1>9, <1>10, <1>11 DEF f

-----------------------------------------------------------------------------
(* Well formed blocks and their bytes *)

RewardOK(r) ==
    /\ r.type \in {TransactionType.GENESIS, TransactionType.STAKER}
    /\ r = MembersOf(RewardFields(r.type), r)
    /\ RecordOK(RewardFields(r.type), r)

\* What a signature covers, of a block or on its own.
ContentOK(b) == RewardOK(b.reward_tx) /\ IsFiniteSet(b.transactions)

BlockOK(b) ==
    /\ b = Block(b, b.reward_tx, b.transactions, b.producer_public_key, b.producer_signature,
                 b.validator_signatures)
    /\ ContentOK(b)
    /\ VotesOK(b.validator_signatures)

\* The pieces of a block's bytes.
HeaderBytes(b) == Written(block_fields, b)
RewardBytes(b) == Written(RewardFields(b.reward_tx.type), b.reward_tx)
TransactionRecord(b) == [transactions |-> Ordered(b.transactions)]
TransactionBytes(b) == Written(transaction_fields, TransactionRecord(b))
FlagRecord(b) == [has_producer |-> has_producer(b)]
FlagBytes(b) == Written(producer_flag, FlagRecord(b))
MakerBytes(b) == Written(producer_fields(has_producer(b)), b)
VoteRecord(b) == [votes |-> Votes(b)]
VoteBytes(b) == Written(vote_fields, VoteRecord(b))

\* What is written is a sequence.
LEMMA WrittenSequence ==
    ASSUME NEW fields, NEW rec, FieldsOK(fields), RecordOK(fields, rec)
    PROVE  IsSequence(Written(fields, rec))
<1> DEFINE n == Len(fields)
           a == Written(fields, rec)
<1>1. PICK T, g : Flattening(T, g, Members(fields, rec), n) /\ a = g[n]
  BY WrittenParts, Zenon
<1>2. n \in Nat
  BY WrittenParts, Zenon
<1> HIDE DEF a, n
<1>3. g \in [0..n -> Seq(T)] /\ n \in 0..n
  BY <1>1, <1>2 DEF Flattening
<1>4. g[n] \in Seq(T)
  BY <1>3
<1> QED BY <1>1, <1>4, Zenon DEF IsSequence, a

\* Each piece can be read back, and is a sequence.
ContentPieces(b) ==
    /\ RecordOK(block_fields, b) /\ RecordOK(RewardFields(b.reward_tx.type), b.reward_tx)
    /\ RecordOK(transaction_fields, TransactionRecord(b))
    /\ IsSequence(HeaderBytes(b)) /\ IsSequence(RewardBytes(b)) /\ IsSequence(TransactionBytes(b))

MakerPieces(b) ==
    /\ RecordOK(producer_flag, FlagRecord(b)) /\ RecordOK(producer_fields(has_producer(b)), b)
    /\ IsSequence(FlagBytes(b)) /\ IsSequence(MakerBytes(b))

\* The content of a block, piece by piece.
LEMMA ContentWritten ==
    ASSUME NEW b, ContentOK(b)
    PROVE  /\ ContentPieces(b)
           /\ content(b) = (HeaderBytes(b) \o RewardBytes(b)) \o TransactionBytes(b)
<1>1. /\ FieldsOK(block_fields) /\ RecordOK(block_fields, b)
  BY HeaderList, Zenon
<1>2. /\ FieldsOK(RewardFields(b.reward_tx.type)) /\ RecordOK(RewardFields(b.reward_tx.type), b.reward_tx)
  <2>1. b.reward_tx.type \in {TransactionType.GENESIS, TransactionType.STAKER}
          /\ RecordOK(RewardFields(b.reward_tx.type), b.reward_tx)
    BY Zenon DEF ContentOK, RewardOK
  <2> QED BY <2>1, RewardList
<1>3. /\ FieldsOK(transaction_fields) /\ RecordOK(transaction_fields, TransactionRecord(b))
  <2>1. Ordered(b.transactions) \in Seq(b.transactions)
    BY OrderedSet DEF ContentOK
  <2>2. IsSequence(Ordered(b.transactions))
    BY <2>1, Zenon DEF IsSequence
  <2> QED BY <2>2, TransactionList, Zenon DEF TransactionRecord
<1>4. IsSequence(HeaderBytes(b)) /\ IsSequence(RewardBytes(b)) /\ IsSequence(TransactionBytes(b))
  BY <1>1, <1>2, <1>3, WrittenSequence DEF HeaderBytes, RewardBytes, TransactionBytes
<1>5. content(b) = (HeaderBytes(b) \o RewardBytes(b)) \o TransactionBytes(b)
  BY Zenon DEF content, HeaderBytes, RewardBytes, TransactionBytes, TransactionRecord
<1> QED BY <1>1, <1>2, <1>3, <1>4, <1>5, Zenon DEF ContentPieces

\* The producer of a block, piece by piece.
LEMMA MakerWritten ==
    ASSUME NEW b
    PROVE  MakerPieces(b) /\ producer(b) = FlagBytes(b) \o MakerBytes(b)
<1> DEFINE h == has_producer(b)
<1>1. /\ FieldsOK(producer_flag) /\ RecordOK(producer_flag, FlagRecord(b))
  BY FlagList, Zenon
<1>2. producer(b) = FlagBytes(b) \o MakerBytes(b)
  BY Zenon DEF producer, FlagBytes, MakerBytes, FlagRecord
<1> HIDE DEF h
<1>3. /\ FieldsOK(producer_fields(h)) /\ RecordOK(producer_fields(h), b)
  BY MakerList
<1>4. IsSequence(FlagBytes(b)) /\ IsSequence(Written(producer_fields(h), b))
  BY <1>1, <1>3, WrittenSequence DEF FlagBytes
<1> QED BY <1>1, <1>2, <1>3, <1>4, Zenon DEF MakerPieces, MakerBytes, h

\* The validator signatures of a block.
LEMMA VotesWritten ==
    ASSUME NEW b, VotesOK(b.validator_signatures)
    PROVE  /\ RecordOK(vote_fields, VoteRecord(b)) /\ IsSequence(VoteBytes(b))
           /\ validators(b) = VoteBytes(b)
<1>1. RecordOK(vote_fields, VoteRecord(b))
  BY VotesOfMap, VoteList, Zenon DEF VoteRecord
<1>2. IsSequence(VoteBytes(b))
  BY <1>1, VoteList, WrittenSequence DEF VoteBytes
<1>3. validators(b) = VoteBytes(b)
  BY Zenon DEF validators, VoteBytes, VoteRecord
<1> QED BY <1>1, <1>2, <1>3

\* content, followed by something, one piece after the other.
LEMMA ContentThen ==
    ASSUME NEW b, ContentOK(b), NEW x, IsSequence(x)
    PROVE  /\ IsSequence(TransactionBytes(b) \o x)
           /\ IsSequence(RewardBytes(b) \o (TransactionBytes(b) \o x))
           /\ IsSequence(HeaderBytes(b) \o (RewardBytes(b) \o (TransactionBytes(b) \o x)))
           /\ content(b) \o x = HeaderBytes(b) \o (RewardBytes(b) \o (TransactionBytes(b) \o x))
<1> DEFINE h == HeaderBytes(b)
           r == RewardBytes(b)
           t == TransactionBytes(b)
           c == content(b)
<1>1. IsSequence(h) /\ IsSequence(r) /\ IsSequence(t)
  BY ContentWritten, Zenon DEF ContentPieces
<1>2. c = (h \o r) \o t
  BY ContentWritten, Zenon
<1> HIDE DEF h, r, t, c
<1>3. IsSequence(h \o r) /\ IsSequence(t \o x)
  BY <1>1, SeqAssoc
<1>4. ((h \o r) \o t) \o x = (h \o r) \o (t \o x)
  BY <1>1, <1>3, SeqAssoc
<1>5. (h \o r) \o (t \o x) = h \o (r \o (t \o x)) /\ IsSequence(r \o (t \o x))
  BY <1>1, <1>3, SeqAssoc
<1>6. IsSequence(h \o (r \o (t \o x)))
  BY <1>1, <1>5, SeqAssoc
<1> QED BY <1>2, <1>3, <1>4, <1>5, <1>6, Zenon DEF h, r, t, c

RewardStarts(r) ==
    LET start == Written(RewardFields(r.type), r)
    IN  IsSequence(start) /\ Len(start) \in Nat /\ Len(start) >= 1 /\ start[1] = <<"varint", r.type>>

\* A reward transaction's bytes start with its type.
LEMMA RewardFirst ==
    ASSUME NEW r, RewardOK(r)
    PROVE  RewardStarts(r)
<1> DEFINE f == RewardFields(r.type)
<1>1. r.type \in {TransactionType.GENESIS, TransactionType.STAKER} /\ RecordOK(f, r)
  BY Zenon DEF RewardOK
<1>2. FieldsOK(f) /\ Len(f) >= 1 /\ f[1] = varint("type")
  BY <1>1, RewardList
<1> HIDE DEF f
<1>3. ~Counted(f[1]) /\ f[1].kind = "varint" /\ f[1].name = "type"
  BY <1>2, PlainKinds
<1>4. /\ IsSequence(Written(f, r)) /\ Len(Written(f, r)) \in Nat /\ Len(Written(f, r)) >= 1
      /\ Written(f, r)[1] = <<f[1].kind, r[f[1].name]>>
  BY <1>1, <1>2, <1>3, FirstToken
<1> QED BY <1>3, <1>4, Zenon DEF f, RewardStarts

SameBytes(b, x, c, y) == content(b) \o x = content(c) \o y

\* The bytes of content, whatever follows them, fix the content and what
\* follows: a digest is of one content only.
LEMMA ContentFixed ==
    ASSUME NEW b, NEW c, ContentOK(b), ContentOK(c), NEW x, NEW y, IsSequence(x), IsSequence(y),
           SameBytes(b, x, c, y)
    PROVE  Content(b) = Content(c) /\ x = y
<1> DEFINE X3 == TransactionBytes(b) \o x
           Y3 == TransactionBytes(c) \o y
           X2 == RewardBytes(b) \o X3
           Y2 == RewardBytes(c) \o Y3
           X1 == HeaderBytes(b) \o X2
           Y1 == HeaderBytes(c) \o Y2
<1>1. /\ IsSequence(X3) /\ IsSequence(X2) /\ IsSequence(X1) /\ content(b) \o x = X1
      /\ IsSequence(Y3) /\ IsSequence(Y2) /\ IsSequence(Y1) /\ content(c) \o y = Y1
  BY ContentThen
<1>2. X1 = Y1
  BY <1>1, Zenon DEF SameBytes
<1>3. /\ ContentPieces(b) /\ ContentPieces(c)
  BY ContentWritten
<1>4. MembersOf(block_fields, b) = MembersOf(block_fields, c) /\ X2 = Y2
  <2>1. RecordOK(block_fields, b) /\ RecordOK(block_fields, c) /\ FieldsOK(block_fields)
    BY HeaderList, Zenon
  <2>2. FollowedBy(block_fields, b, X2, X1) /\ FollowedBy(block_fields, c, Y2, X1)
    BY <1>1, <1>2, Zenon DEF FollowedBy, HeaderBytes
  <2> HIDE DEF X1, X2, Y2
  <2> QED BY <2>1, <2>2, SelfDelimiting
<1>5. \A n \in HeaderNames : b[n] = c[n]
  <2>1. MembersOf(block_fields, b) = [n \in HeaderNames |-> b[n]]
          /\ MembersOf(block_fields, c) = [n \in HeaderNames |-> c[n]]
    BY HeaderList, Zenon DEF MembersOf
  <2> DEFINE u == [n \in HeaderNames |-> b[n]]
             v == [n \in HeaderNames |-> c[n]]
  <2>2. u = v
    BY <1>4, <2>1, Zenon
  <2>3. \A n \in HeaderNames : u[n] = b[n] /\ v[n] = c[n]
    OBVIOUS
  <2> HIDE DEF u, v
  <2> QED BY <2>2, <2>3, Zenon
<1> DEFINE r == b.reward_tx
           s == c.reward_tx
<1>6. /\ r.type \in {TransactionType.GENESIS, TransactionType.STAKER}
      /\ s.type \in {TransactionType.GENESIS, TransactionType.STAKER}
      /\ r = MembersOf(RewardFields(r.type), r) /\ s = MembersOf(RewardFields(s.type), s)
      /\ RecordOK(RewardFields(r.type), r) /\ RecordOK(RewardFields(s.type), s)
  BY Zenon DEF ContentOK, RewardOK
<1>7. RewardBytes(b) = Written(RewardFields(r.type), r) /\ RewardBytes(c) = Written(RewardFields(s.type), s)
  BY Zenon DEF RewardBytes
<1> HIDE DEF r, s
<1>8. r.type = s.type
  <2>1. /\ Len(RewardBytes(b)) >= 1 /\ RewardBytes(b)[1] = <<"varint", r.type>> /\ IsSequence(RewardBytes(b))
        /\ Len(RewardBytes(c)) >= 1 /\ RewardBytes(c)[1] = <<"varint", s.type>> /\ IsSequence(RewardBytes(c))
    <3>1. RewardStarts(r) /\ RewardStarts(s)
      BY RewardFirst DEF ContentOK, r, s
    <3> QED BY <1>7, <3>1, Zenon DEF RewardStarts
  <2>2. ASSUME NEW a, NEW z, IsSequence(a), IsSequence(z), Len(a) >= 1 PROVE (a \o z)[1] = a[1]
    <3> DEFINE w == a \o z
    <3>1. PICK U : Joins(U, a, z, w)
      BY <2>2, SeqJoin, Zenon
    <3> HIDE DEF w
    <3>2. Len(a) \in Nat /\ \A i \in 1..Len(a) : w[i] = a[i]
      BY <3>1, Zenon DEF Joins
    <3>3. 1 \in 1..Len(a)
      BY <2>2, <3>2
    <3>4. w[1] = a[1]
      BY <3>2, <3>3, Zenon
    <3> QED BY <3>4 DEF w
  <2>3. X2[1] = <<"varint", r.type>> /\ Y2[1] = <<"varint", s.type>>
    <3> HIDE DEF X3, Y3
    <3> QED BY <1>1, <2>1, <2>2, Zenon
  <2> HIDE DEF X2, Y2
  <2> QED BY <1>4, <2>3
<1>9. r = s /\ X3 = Y3
  <2> DEFINE f == RewardFields(r.type)
  <2>1. FieldsOK(f)
    BY <1>6, RewardList
  <2>2. /\ RecordOK(f, r) /\ RecordOK(f, s) /\ r = MembersOf(f, r) /\ s = MembersOf(f, s)
        /\ RewardBytes(b) = Written(f, r) /\ RewardBytes(c) = Written(f, s)
    BY <1>6, <1>7, <1>8, Zenon
  <2> HIDE DEF f, X3, Y3
  <2>3. FollowedBy(f, r, X3, X2) /\ FollowedBy(f, s, Y3, X2)
    BY <1>1, <1>4, <2>2, Zenon DEF FollowedBy
  <2> HIDE DEF X2
  <2>4. MembersOf(f, r) = MembersOf(f, s) /\ X3 = Y3
    BY <2>1, <2>2, <2>3, SelfDelimiting
  <2> QED BY <2>2, <2>4, Zenon
<1>10. Ordered(b.transactions) = Ordered(c.transactions) /\ x = y
  <2> DEFINE f == transaction_fields
             u == TransactionRecord(b)
             v == TransactionRecord(c)
  <2>1. FieldsOK(f) /\ RecordOK(f, u) /\ RecordOK(f, v) /\ "transactions" \in Names(f)
    BY <1>3, TransactionList, Zenon DEF ContentPieces
  <2>2. FollowedBy(f, u, x, X3) /\ FollowedBy(f, v, y, X3)
    BY <1>1, <1>9, Zenon DEF TransactionBytes, FollowedBy
  <2>3. u["transactions"] = Ordered(b.transactions) /\ v["transactions"] = Ordered(c.transactions)
    BY DEF TransactionRecord
  <2> HIDE DEF f, u, v, X3
  <2>4. MembersOf(f, u) = MembersOf(f, v) /\ x = y
    BY <2>1, <2>2, SelfDelimiting
  <2>5. MembersOf(f, u)["transactions"] = u["transactions"]
          /\ MembersOf(f, v)["transactions"] = v["transactions"]
    BY <2>1 DEF MembersOf
  <2> QED BY <2>3, <2>4, <2>5, Zenon
<1>11. b.transactions = c.transactions
  <2>1. ToSet(Ordered(b.transactions)) = b.transactions /\ ToSet(Ordered(c.transactions)) = c.transactions
    BY OrderedSet DEF ContentOK
  <2> QED BY <1>10, <2>1, Zenon
<1>12. /\ b.version = c.version /\ b.previous_blockhash = c.previous_blockhash
       /\ b.timestamp = c.timestamp /\ b.block_index = c.block_index
  <2>1. /\ "version" \in HeaderNames /\ "previous_blockhash" \in HeaderNames
        /\ "timestamp" \in HeaderNames /\ "block_index" \in HeaderNames
    BY DEF HeaderNames
  <2> QED BY <1>5, <2>1, Zenon
<1>13. b.reward_tx = c.reward_tx
  BY <1>9 DEF r, s
<1>14. Content(b) = Content(c)
  BY <1>11, <1>12, <1>13, Zenon DEF Content
<1> QED BY <1>10, <1>14

-----------------------------------------------------------------------------
(* A block's bytes read back *)

\* What is read of a member.
LEMMA MemberOf ==
    ASSUME NEW fields, NEW rec, NEW n \in Names(fields)
    PROVE  MembersOf(fields, rec)[n] = rec[n]
BY DEF MembersOf

\* The reward transaction is read as what it was written as.
LEMMA RewardFieldsRead ==
    ASSUME NEW b, ContentOK(b), NEW rest, IsSequence(rest), NEW in, Within(in, RewardBytes(b) \o rest)
    PROVE  /\ reward_fields(in) = <<>> => Len(in) # Len(RewardBytes(b) \o rest)
           /\ reward_fields(in) # <<>> => reward_fields(in) = RewardFields(b.reward_tx.type)
<1> DEFINE r == b.reward_tx
           a == RewardBytes(b)
           w == a \o rest
<1>1. RewardOK(r) /\ IsSequence(a) /\ Len(a) \in Nat /\ Len(a) >= 1 /\ a[1] = <<"varint", r.type>>
  <2>1. RewardOK(r) /\ RewardStarts(r)
    BY RewardFirst DEF ContentOK
  <2> QED BY <2>1, Zenon DEF RewardStarts, RewardBytes
<1>2. PICK U : Joins(U, a, rest, w)
  BY <1>1, SeqJoin, Zenon
<1>3. Within(in, w)
  OBVIOUS
<1> HIDE DEF a, w, r
<1>4. Len(rest) \in Nat /\ Len(w) = Len(a) + Len(rest) /\ \A i \in 1..Len(a) : w[i] = a[i]
  BY <1>2, Zenon DEF Joins
<1>5. Len(w) \in Nat /\ Len(w) >= 1 /\ w[1] = <<"varint", r.type>>
  BY <1>1, <1>4
<1>6. PICK S : in \in Seq(S)
  BY <1>3, Zenon DEF Within, IsSequence
<1>7. Len(in) \in Nat
  BY <1>6, LenProperties
<1>8. r.type = TransactionType.GENESIS \/ r.type = TransactionType.STAKER
  BY <1>1 DEF RewardOK
<1>9. CASE in = <<>>
  <2>1. Len(in) = 0
    BY <1>9
  <2>2. Len(in) # Len(w)
    BY <1>5, <2>1
  <2>3. reward_fields(in) = <<>>
    BY <1>9 DEF reward_fields
  <2> QED BY <2>2, <2>3 DEF w, a
<1>10. CASE in # <<>>
  <2>1. Len(in) >= 1
    BY <1>6, <1>7, <1>10, EmptySeq
  <2>2. Head(in) = in[1]
    BY <1>6, <1>10
  <2>3. in[1] = w[1]
    <3>1. \A j \in 1..Len(in) : j <= Len(w) => in[j] = w[j]
      BY <1>3, Zenon DEF Within, Agree
    <3> QED BY <1>5, <1>7, <2>1, <3>1
  <2>4. Head(in) = <<"varint", r.type>>
    BY <1>5, <2>2, <2>3, Zenon
  <2>5. reward_fields(in) = RewardFields(r.type)
    <3> DEFINE t == Head(in)
    <3>1. t = <<"varint", r.type>>
      BY <2>4
    <3>2. reward_fields(in) = CASE t = <<"varint", TransactionType.GENESIS>> -> genesis_deserialize
                                [] t = <<"varint", TransactionType.STAKER>> -> staker_deserialize
                                [] OTHER -> <<>>
      BY <1>10, Zenon DEF reward_fields
    <3> HIDE DEF t
    <3>3. TransactionType.GENESIS = 0 /\ TransactionType.STAKER = 1
      BY DEF TransactionType
    <3>4. genesis_deserialize = genesis_serialize /\ staker_deserialize = staker_serialize
      BY RewardLists, Zenon
    <3> HIDE DEF genesis_deserialize, staker_deserialize, genesis_serialize, staker_serialize
    <3>5. CASE r.type = TransactionType.GENESIS
      <4>1. t = <<"varint", 0>>
        BY <3>1, <3>3, <3>5
      <4>2. reward_fields(in) = genesis_deserialize
        BY <3>2, <3>3, <4>1
      <4> QED BY <3>4, <3>5, <4>2 DEF RewardFields
    <3>6. CASE r.type = TransactionType.STAKER
      <4>1. t = <<"varint", 1>> /\ r.type # TransactionType.GENESIS
        BY <3>1, <3>3, <3>6
      <4>2. reward_fields(in) = staker_deserialize
        BY <3>2, <3>3, <4>1
      <4> QED BY <3>4, <4>1, <4>2 DEF RewardFields
    <3> QED BY <1>8, <3>5, <3>6
  <2>6. RewardFields(r.type) # <<>>
    BY <1>1, RewardList DEF RewardOK
  <2> QED BY <2>5, <2>6 DEF r
<1> QED BY <1>9, <1>10

\* All the bytes, one piece after the other.
Rest5(b) == VoteBytes(b) \o <<>>
Rest4(b) == MakerBytes(b) \o Rest5(b)
Rest3(b) == FlagBytes(b) \o Rest4(b)
Rest2(b) == TransactionBytes(b) \o Rest3(b)
Rest1(b) == RewardBytes(b) \o Rest2(b)
Rest0(b) == HeaderBytes(b) \o Rest1(b)

\* A block's bytes, from each piece on to the end.
LEMMA BlockBytes ==
    ASSUME NEW b, BlockOK(b)
    PROVE  /\ IsSequence(Rest5(b)) /\ IsSequence(Rest4(b)) /\ IsSequence(Rest3(b))
           /\ IsSequence(Rest2(b)) /\ IsSequence(Rest1(b)) /\ IsSequence(Rest0(b))
           /\ block_serialize(b, BLOCK_DIGEST_FULL) = Rest0(b)
<1> DEFINE f == FlagBytes(b)
           m == MakerBytes(b)
           v == VoteBytes(b)
           c == content(b)
           p == producer(b)
<1>1. IsSequence(f) /\ IsSequence(m) /\ p = f \o m
  BY MakerWritten, Zenon DEF MakerPieces
<1>2. IsSequence(v) /\ validators(b) = v
  BY VotesWritten DEF BlockOK
<1>3. ContentOK(b)
  BY Zenon DEF BlockOK
<1>4. block_serialize(b, BLOCK_DIGEST_FULL) = (c \o p) \o v
  BY <1>2 DEF block_serialize, BLOCK_DIGEST_FULL, BLOCK_DIGEST_PRODUCER, BLOCK_DIGEST_VALIDATOR
<1>5. IsSequence(c)
  <2> DEFINE h == HeaderBytes(b)
             r == RewardBytes(b)
             t == TransactionBytes(b)
  <2>1. IsSequence(h) /\ IsSequence(r) /\ IsSequence(t) /\ c = (h \o r) \o t
    BY <1>3, ContentWritten, Zenon DEF ContentPieces
  <2> HIDE DEF h, r, t, c
  <2>2. IsSequence(h \o r)
    BY <2>1, SeqAssoc
  <2>3. IsSequence((h \o r) \o t)
    BY <2>1, <2>2, SeqAssoc
  <2> QED BY <2>1, <2>3, Zenon
<1>6. Rest5(b) = v \o <<>> /\ Rest4(b) = m \o Rest5(b) /\ Rest3(b) = f \o Rest4(b)
  BY Zenon DEF Rest5, Rest4, Rest3
<1> HIDE DEF f, m, v, c, p
<1>7. Rest5(b) = v /\ IsSequence(Rest5(b))
  <2>1. v \o <<>> = v
    BY <1>2, SeqAssoc
  <2> QED BY <1>2, <1>6, <2>1, Zenon
<1>8. IsSequence(m \o v) /\ IsSequence(f \o m) /\ (f \o m) \o v = f \o (m \o v)
  <2>1. IsSequence(f) /\ IsSequence(m) /\ IsSequence(v)
    BY <1>1, <1>2
  <2> QED BY <2>1, SeqAssoc
<1>9. IsSequence(f \o (m \o v))
  BY <1>1, <1>8, SeqAssoc
<1>10. Rest4(b) = m \o v /\ Rest3(b) = f \o (m \o v) /\ Rest3(b) = p \o v
  BY <1>1, <1>6, <1>7, <1>8, Zenon
<1>11. IsSequence(Rest4(b)) /\ IsSequence(Rest3(b)) /\ IsSequence(p)
  BY <1>1, <1>8, <1>9, <1>10, Zenon
<1>12. (c \o p) \o v = c \o (p \o v)
  BY <1>2, <1>5, <1>11, SeqAssoc
<1>13. block_serialize(b, BLOCK_DIGEST_FULL) = c \o Rest3(b)
  BY <1>4, <1>10, <1>12, Zenon
<1>14. /\ IsSequence(Rest2(b)) /\ IsSequence(Rest1(b)) /\ IsSequence(Rest0(b))
       /\ c \o Rest3(b) = Rest0(b)
  BY <1>3, <1>11, ContentThen, Zenon DEF Rest2, Rest1, Rest0, c
<1> QED BY <1>7, <1>11, <1>13, <1>14, Zenon

\* A producer is written and read whole, or not at all.
LEMMA WrittenMaker ==
    ASSUME NEW b
    PROVE  /\ has_producer(b) => AsWritten(b) = b
           /\ ~has_producer(b) =>
                 /\ AsWritten(b) = Block(b, b.reward_tx, b.transactions, Z, Z, b.validator_signatures)
                 /\ AsWritten(b).producer_public_key = Z /\ AsWritten(b).producer_signature = Z
<1> DEFINE a == Block(b, b.reward_tx, b.transactions, Z, Z, b.validator_signatures)
<1>1. a.producer_public_key = Z /\ a.producer_signature = Z
  BY DEF Block
<1> HIDE DEF a
<1>2. AsWritten(b) = IF has_producer(b) THEN b ELSE a
  BY Zenon DEF AsWritten, a
<1> QED BY <1>1, <1>2, Zenon DEF a

\* The whole of a block's bytes is read back as the block, to the last byte,
\* but for half a producer; bytes cut short anywhere are refused.
LEMMA BlockRead ==
    ASSUME NEW b, BlockOK(b), NEW data, Within(data, block_serialize(b, BLOCK_DIGEST_FULL))
    PROVE  IF Len(data) = Len(block_serialize(b, BLOCK_DIGEST_FULL))
           THEN block_deserialize(data) = [ok |-> TRUE, in |-> <<>>, out |-> AsWritten(b)]
           ELSE ~block_deserialize(data).ok
<1> DEFINE header == ReadFields(Reader(data), block_fields)
           rf == reward_fields(header.in)
           reward == ReadFields(Reader(header.in), rf)
           txs == ReadFields(Reader(reward.in), transaction_fields)
           flag == ReadFields(Reader(txs.in), producer_flag)
           has == flag.ok /\ flag.out.has_producer
           maker == ReadFields(Reader(flag.in), producer_fields(has))
           votes == ReadFields(Reader(maker.in), vote_fields)
           cond == header.ok /\ rf # <<>> /\ reward.ok /\ txs.ok /\ flag.ok /\ maker.ok /\ votes.ok
           public_key == IF has THEN maker.out.producer_public_key ELSE Z
           sig == IF has THEN maker.out.producer_signature ELSE Z
           out == Block(header.out, reward.out, ToSet(txs.out.transactions), public_key, sig,
                        MapOf(votes.out.votes))
           w == block_serialize(b, BLOCK_DIGEST_FULL)
           E == Len(data) = Len(w)
           Goal == IF E THEN block_deserialize(data) = [ok |-> TRUE, in |-> <<>>, out |-> AsWritten(b)]
                   ELSE ~block_deserialize(data).ok
<1> SUFFICES Goal
  OBVIOUS
<1>1. block_deserialize(data) = IF cond THEN [ok |-> TRUE, in |-> votes.in, out |-> out] ELSE Thrown
  BY Zenon DEF block_deserialize
<1>2. ~Thrown.ok
  BY DEF Thrown
<1>3. ASSUME ~cond, ~E PROVE Goal
  BY <1>1, <1>2, <1>3, Zenon
<1>4. /\ ContentOK(b) /\ ContentPieces(b) /\ MakerPieces(b) /\ RecordOK(vote_fields, VoteRecord(b))
      /\ VotesOK(b.validator_signatures)
  BY ContentWritten, MakerWritten, VotesWritten DEF BlockOK
<1>5. /\ IsSequence(Rest5(b)) /\ IsSequence(Rest4(b)) /\ IsSequence(Rest3(b))
      /\ IsSequence(Rest2(b)) /\ IsSequence(Rest1(b)) /\ w = Rest0(b)
  BY BlockBytes, Zenon
<1> HIDE DEF w
<1>6. Within(data, Rest0(b))
  BY <1>5, Zenon DEF w
<1>7. E <=> Len(data) = Len(Rest0(b))
  BY <1>5, Zenon
<1> HIDE DEF E
<1>8. Resumes(header, MembersOf(block_fields, b), data, Rest0(b), Rest1(b))
  <2>1. FieldsOK(block_fields) /\ RecordOK(block_fields, b)
    BY HeaderList, Zenon
  <2>2. Within(data, Written(block_fields, b) \o Rest1(b))
    BY <1>6, Zenon DEF Rest0, HeaderBytes
  <2>3. Resumes(header, MembersOf(block_fields, b), data, Written(block_fields, b) \o Rest1(b), Rest1(b))
    BY <1>5, <2>1, <2>2, StageRead, Zenon
  <2> QED BY <2>3, Zenon DEF Rest0, HeaderBytes
<1> HIDE DEF header, Goal
<1>9. SUFFICES ASSUME header # Thrown PROVE Goal
  <2>1. ASSUME header = Thrown PROVE ~cond /\ ~E
    BY <1>2, <1>7, <1>8, <2>1, Zenon DEF Resumes
  <2> QED BY <1>3, <2>1
<1>10. /\ header.ok /\ header.out = MembersOf(block_fields, b) /\ Within(header.in, Rest1(b))
       /\ E <=> Len(header.in) = Len(Rest1(b))
  BY <1>7, <1>8, <1>9, Zenon DEF Resumes
<1>11. /\ rf = <<>> => Len(header.in) # Len(Rest1(b))
       /\ rf # <<>> => rf = RewardFields(b.reward_tx.type)
  <2>1. Within(header.in, RewardBytes(b) \o Rest2(b))
    BY <1>10, Zenon DEF Rest1
  <2>2. /\ rf = <<>> => Len(header.in) # Len(RewardBytes(b) \o Rest2(b))
        /\ rf # <<>> => rf = RewardFields(b.reward_tx.type)
    BY <1>4, <1>5, <2>1, RewardFieldsRead
  <2> QED BY <2>2, Zenon DEF Rest1
<1> HIDE DEF rf
<1>12. SUFFICES ASSUME rf # <<>> PROVE Goal
  <2>1. ASSUME rf = <<>> PROVE ~cond /\ ~E
    BY <1>10, <1>11, <2>1, Zenon
  <2> QED BY <1>3, <2>1
<1>13. Resumes(reward, MembersOf(rf, b.reward_tx), header.in, Rest1(b), Rest2(b))
  <2>1. rf = RewardFields(b.reward_tx.type)
    BY <1>11, <1>12
  <2>2. FieldsOK(rf) /\ RecordOK(rf, b.reward_tx)
    <3>1. b.reward_tx.type \in {TransactionType.GENESIS, TransactionType.STAKER}
      BY <1>4, Zenon DEF ContentOK, RewardOK
    <3>2. FieldsOK(RewardFields(b.reward_tx.type))
      BY <3>1, RewardList
    <3> QED BY <1>4, <2>1, <3>2, Zenon DEF ContentPieces
  <2>3. Rest1(b) = Written(rf, b.reward_tx) \o Rest2(b)
    BY <2>1, Zenon DEF Rest1, RewardBytes
  <2>4. Within(header.in, Written(rf, b.reward_tx) \o Rest2(b))
    BY <1>10, <2>3, Zenon
  <2>5. Resumes(reward, MembersOf(rf, b.reward_tx), header.in, Written(rf, b.reward_tx) \o Rest2(b), Rest2(b))
    BY <1>5, <2>2, <2>4, StageRead, Zenon
  <2> QED BY <2>3, <2>5, Zenon
<1> HIDE DEF reward
<1>14. SUFFICES ASSUME reward # Thrown PROVE Goal
  <2>1. ASSUME reward = Thrown PROVE ~cond /\ ~E
    BY <1>2, <1>10, <1>13, <2>1, Zenon DEF Resumes
  <2> QED BY <1>3, <2>1
<1>15. /\ reward.ok /\ reward.out = b.reward_tx /\ Within(reward.in, Rest2(b))
       /\ E <=> Len(reward.in) = Len(Rest2(b))
  <2>1. b.reward_tx = MembersOf(rf, b.reward_tx)
    BY <1>4, <1>11, <1>12, Zenon DEF ContentOK, RewardOK
  <2> QED BY <1>10, <1>13, <1>14, <2>1, Zenon DEF Resumes
<1>16. Resumes(txs, MembersOf(transaction_fields, TransactionRecord(b)), reward.in, Rest2(b), Rest3(b))
  <2>1. FieldsOK(transaction_fields) /\ RecordOK(transaction_fields, TransactionRecord(b))
    BY <1>4, TransactionList, Zenon DEF ContentPieces
  <2>2. Rest2(b) = Written(transaction_fields, TransactionRecord(b)) \o Rest3(b)
    BY Zenon DEF Rest2, TransactionBytes
  <2>3. Within(reward.in, Written(transaction_fields, TransactionRecord(b)) \o Rest3(b))
    BY <1>15, <2>2, Zenon
  <2>4. Resumes(txs, MembersOf(transaction_fields, TransactionRecord(b)), reward.in,
                Written(transaction_fields, TransactionRecord(b)) \o Rest3(b), Rest3(b))
    BY <1>5, <2>1, <2>3, StageRead, Zenon
  <2> QED BY <2>2, <2>4, Zenon
<1> HIDE DEF txs
<1>17. SUFFICES ASSUME txs # Thrown PROVE Goal
  <2>1. ASSUME txs = Thrown PROVE ~cond /\ ~E
    BY <1>2, <1>15, <1>16, <2>1, Zenon DEF Resumes
  <2> QED BY <1>3, <2>1
<1>18. /\ txs.ok /\ txs.out = MembersOf(transaction_fields, TransactionRecord(b)) /\ Within(txs.in, Rest3(b))
       /\ E <=> Len(txs.in) = Len(Rest3(b))
  BY <1>15, <1>16, <1>17, Zenon DEF Resumes
<1>19. Resumes(flag, MembersOf(producer_flag, FlagRecord(b)), txs.in, Rest3(b), Rest4(b))
  <2>1. FieldsOK(producer_flag) /\ RecordOK(producer_flag, FlagRecord(b))
    BY FlagList, Zenon
  <2>2. Rest3(b) = Written(producer_flag, FlagRecord(b)) \o Rest4(b)
    BY Zenon DEF Rest3, FlagBytes
  <2>3. Within(txs.in, Written(producer_flag, FlagRecord(b)) \o Rest4(b))
    BY <1>18, <2>2, Zenon
  <2>4. Resumes(flag, MembersOf(producer_flag, FlagRecord(b)), txs.in,
                Written(producer_flag, FlagRecord(b)) \o Rest4(b), Rest4(b))
    BY <1>5, <2>1, <2>3, StageRead, Zenon
  <2> QED BY <2>2, <2>4, Zenon
<1> HIDE DEF flag
<1>20. SUFFICES ASSUME flag # Thrown PROVE Goal
  <2>1. ASSUME flag = Thrown PROVE ~cond /\ ~E
    BY <1>2, <1>18, <1>19, <2>1, Zenon DEF Resumes
  <2> QED BY <1>3, <2>1
<1>21. /\ flag.ok /\ flag.out = MembersOf(producer_flag, FlagRecord(b)) /\ Within(flag.in, Rest4(b))
       /\ E <=> Len(flag.in) = Len(Rest4(b))
  BY <1>18, <1>19, <1>20, Zenon DEF Resumes
<1>22. has <=> has_producer(b)
  <2>1. "has_producer" \in Names(producer_flag)
    BY FlagList
  <2>2. MembersOf(producer_flag, FlagRecord(b))["has_producer"] = FlagRecord(b)["has_producer"]
    BY <2>1, MemberOf
  <2>3. FlagRecord(b)["has_producer"] = has_producer(b)
    BY DEF FlagRecord
  <2> QED BY <1>21, <2>2, <2>3, Zenon
<1> HIDE DEF has
<1>23. producer_fields(has) = producer_fields(has_producer(b))
  BY <1>22, Zenon DEF producer_fields
<1> DEFINE pf == producer_fields(has_producer(b))
<1>24. Resumes(maker, MembersOf(pf, b), flag.in, Rest4(b), Rest5(b))
  <2>1. FieldsOK(pf) /\ RecordOK(pf, b)
    <3> DEFINE h == has_producer(b)
    <3> HIDE DEF h
    <3>1. FieldsOK(producer_fields(h)) /\ RecordOK(producer_fields(h), b)
      BY MakerList
    <3> QED BY <3>1 DEF h
  <2>2. Rest4(b) = Written(pf, b) \o Rest5(b)
    BY Zenon DEF Rest4, MakerBytes
  <2>3. Within(flag.in, Written(pf, b) \o Rest5(b))
    BY <1>21, <2>2, Zenon
  <2> HIDE DEF pf
  <2>4. Resumes(ReadFields(Reader(flag.in), pf), MembersOf(pf, b), flag.in, Written(pf, b) \o Rest5(b), Rest5(b))
    BY <1>5, <2>1, <2>3, StageRead, Zenon
  <2>5. maker = ReadFields(Reader(flag.in), pf)
    BY <1>23, Zenon DEF pf
  <2> HIDE DEF maker
  <2> QED BY <2>2, <2>4, <2>5, Zenon
<1> HIDE DEF maker
<1>25. SUFFICES ASSUME maker # Thrown PROVE Goal
  <2>1. ASSUME maker = Thrown PROVE ~cond /\ ~E
    BY <1>2, <1>21, <1>24, <2>1, Zenon DEF Resumes
  <2> QED BY <1>3, <2>1
<1>26. /\ maker.ok /\ maker.out = MembersOf(pf, b) /\ Within(maker.in, Rest5(b))
       /\ E <=> Len(maker.in) = Len(Rest5(b))
  BY <1>21, <1>24, <1>25, Zenon DEF Resumes
<1>27. /\ has_producer(b) => public_key = b.producer_public_key /\ sig = b.producer_signature
       /\ ~has_producer(b) => public_key = Z /\ sig = Z
  <2>1. CASE has_producer(b)
    <3>1. Names(pf) = MakerNames
      <4> DEFINE h == has_producer(b)
      <4>1. h
        BY <2>1
      <4> HIDE DEF h
      <4>2. Names(producer_fields(h)) = MakerNames
        BY <4>1, MakerList
      <4> QED BY <4>2 DEF h
    <3>2. "producer_public_key" \in MakerNames /\ "producer_signature" \in MakerNames
      BY DEF MakerNames
    <3> HIDE DEF pf
    <3>3. /\ MembersOf(pf, b)["producer_public_key"] = b["producer_public_key"]
          /\ MembersOf(pf, b)["producer_signature"] = b["producer_signature"]
      BY <3>1, <3>2, MemberOf
    <3> QED BY <1>22, <1>26, <2>1, <3>3, Zenon
  <2>2. CASE ~has_producer(b)
    BY <1>22, <2>2, Zenon
  <2> QED BY <2>1, <2>2
<1> HIDE DEF public_key, sig, pf
<1>28. Resumes(votes, MembersOf(vote_fields, VoteRecord(b)), maker.in, Rest5(b), <<>>)
  <2>1. FieldsOK(vote_fields) /\ IsSequence(<<>>)
    <3>1. <<>> \in Seq({})
      OBVIOUS
    <3> QED BY <3>1, VoteList, Zenon DEF IsSequence
  <2>2. Rest5(b) = Written(vote_fields, VoteRecord(b)) \o <<>>
    BY Zenon DEF Rest5, VoteBytes
  <2>3. Within(maker.in, Written(vote_fields, VoteRecord(b)) \o <<>>)
    BY <1>26, <2>2, Zenon
  <2>4. Resumes(votes, MembersOf(vote_fields, VoteRecord(b)), maker.in,
                Written(vote_fields, VoteRecord(b)) \o <<>>, <<>>)
    BY <1>4, <2>1, <2>3, StageRead, Zenon
  <2> QED BY <2>2, <2>4, Zenon
<1> HIDE DEF votes
<1>29. SUFFICES ASSUME votes # Thrown PROVE Goal
  <2>1. ASSUME votes = Thrown PROVE ~cond /\ ~E
    BY <1>2, <1>26, <1>28, <2>1, Zenon DEF Resumes
  <2> QED BY <1>3, <2>1
<1>30. /\ votes.ok /\ votes.out = MembersOf(vote_fields, VoteRecord(b)) /\ Within(votes.in, <<>>)
       /\ E <=> Len(votes.in) = Len(<<>>)
  BY <1>26, <1>28, <1>29, Zenon DEF Resumes
<1>31. E /\ votes.in = <<>>
  <2>1. PICK S : votes.in \in Seq(S)
    BY <1>30, Zenon DEF Within, IsSequence
  <2>2. Len(votes.in) \in Nat /\ Len(<<>>) = 0
    BY <2>1, LenProperties
  <2>3. Len(votes.in) <= Len(<<>>)
    BY <1>30, Zenon DEF Within
  <2>4. Len(votes.in) = Len(<<>>)
    BY <2>2, <2>3
  <2>5. votes.in = <<>>
    BY <1>30, <2>4, WithinEqual
  <2> QED BY <1>30, <2>4, <2>5
<1>32. out = AsWritten(b)
  <2>1. ToSet(txs.out.transactions) = b.transactions
    <3>1. MembersOf(transaction_fields, TransactionRecord(b))["transactions"]
            = TransactionRecord(b)["transactions"]
      BY TransactionList, MemberOf
    <3>2. TransactionRecord(b)["transactions"] = Ordered(b.transactions)
      BY DEF TransactionRecord
    <3>3. ToSet(Ordered(b.transactions)) = b.transactions
      BY <1>4, OrderedSet DEF ContentOK
    <3> QED BY <1>18, <3>1, <3>2, <3>3, Zenon
  <2>2. MapOf(votes.out.votes) = b.validator_signatures
    <3>1. MembersOf(vote_fields, VoteRecord(b))["votes"] = VoteRecord(b)["votes"]
      BY VoteList, MemberOf
    <3>2. VoteRecord(b)["votes"] = Votes(b)
      BY DEF VoteRecord
    <3>3. MapOf(Votes(b)) = b.validator_signatures
      BY <1>4, VotesOfMap
    <3> QED BY <1>30, <3>1, <3>2, <3>3, Zenon
  <2>3. /\ header.out.version = b.version /\ header.out.previous_blockhash = b.previous_blockhash
        /\ header.out.timestamp = b.timestamp /\ header.out.block_index = b.block_index
    <3>1. \A n \in HeaderNames : MembersOf(block_fields, b)[n] = b[n]
      BY HeaderList, MemberOf
    <3>2. /\ "version" \in HeaderNames /\ "previous_blockhash" \in HeaderNames
          /\ "timestamp" \in HeaderNames /\ "block_index" \in HeaderNames
      BY DEF HeaderNames
    <3> QED BY <1>10, <3>1, <3>2, Zenon
  <2>4. out = Block(b, b.reward_tx, b.transactions, public_key, sig, b.validator_signatures)
    BY <1>15, <2>1, <2>2, <2>3, Zenon DEF Block
  <2> HIDE DEF out
  <2>5. CASE has_producer(b)
    <3>1. out = Block(b, b.reward_tx, b.transactions, b.producer_public_key, b.producer_signature,
                      b.validator_signatures)
      BY <1>27, <2>4, <2>5, Zenon
    <3>2. out = b
      BY <3>1, Zenon DEF BlockOK
    <3> QED BY <2>5, <3>2, WrittenMaker
  <2>6. CASE ~has_producer(b)
    <3>1. out = Block(b, b.reward_tx, b.transactions, Z, Z, b.validator_signatures)
      BY <1>27, <2>4, <2>6, Zenon
    <3> QED BY <2>6, <3>1, WrittenMaker, Zenon
  <2> QED BY <2>5, <2>6
<1> HIDE DEF out
<1>33. block_deserialize(data) = [ok |-> TRUE, in |-> <<>>, out |-> AsWritten(b)]
  BY <1>1, <1>10, <1>12, <1>15, <1>18, <1>21, <1>26, <1>30, <1>31, <1>32, Zenon
<1> QED BY <1>31, <1>33, Zenon DEF Goal

-----------------------------------------------------------------------------
(* The blocks of Init *)

\* The members of the two reward transactions.
LEMMA RewardNames ==
    /\ Names(genesis_serialize) = {"type", "version", "unlock_block", "public_key", "secret_key", "outputs"}
    /\ Names(staker_serialize) = {"type", "version", "staker_outputs", "staker_penalties"}
<1> DEFINE h == serialize_header
           u == <<varint("unlock_block"), key("public_key")>>
           s == <<vector("staker_outputs", StakerOutput_serialize),
                  vector("staker_penalties", StakerOutput_serialize)>>
           g == <<key("secret_key"), vector("outputs", TransactionOutput_serialize)>>
<1>1. ASSUME NEW n PROVE varint(n).name = n /\ key(n).name = n
  BY DEF varint, key, Field
<1>2. ASSUME NEW n, NEW of PROVE vector(n, of).name = n
  BY DEF vector, Field
<1>3. Names(h) = {"type", "version"} /\ h \in Seq(Catalogue)
  BY <1>1, PartLists DEF serialize_header, Names
<1>4. Names(u) = {"unlock_block", "public_key"} /\ u \in Seq(Catalogue)
  BY <1>1, InCatalogue DEF VarintNames, KeyNames, Names
<1>5. Names(s) = {"staker_outputs", "staker_penalties"} /\ s \in Seq(Catalogue)
  <2>1. s \in Seq(Catalogue)
    BY InCatalogue
  <2> DEFINE a == vector("staker_outputs", StakerOutput_serialize)
             b == vector("staker_penalties", StakerOutput_serialize)
  <2>2. s = <<a, b>> /\ a.name = "staker_outputs" /\ b.name = "staker_penalties"
    BY <1>2, Zenon
  <2> HIDE DEF a, b, s
  <2> QED BY <2>1, <2>2 DEF Names
<1>6. Names(g) = {"secret_key", "outputs"} /\ g \in Seq(Catalogue)
  <2>1. g \in Seq(Catalogue)
    BY InCatalogue DEF KeyNames
  <2> DEFINE a == key("secret_key")
             b == vector("outputs", TransactionOutput_serialize)
  <2>2. g = <<a, b>> /\ a.name = "secret_key" /\ b.name = "outputs"
    BY <1>1, <1>2, Zenon
  <2> HIDE DEF a, b, g
  <2> QED BY <2>1, <2>2 DEF Names
<1>7. genesis_serialize = (h \o u) \o g /\ staker_serialize = h \o s
  BY Zenon DEF genesis_serialize, staker_serialize, serialize_prefix
<1> HIDE DEF h, u, s, g
<1>8. h \o u \in Seq(Catalogue) /\ Names(h \o u) = Names(h) \cup Names(u)
  BY <1>3, <1>4, ConcatProperties, ConcatNames
<1>9. Names((h \o u) \o g) = Names(h \o u) \cup Names(g) /\ Names(h \o s) = Names(h) \cup Names(s)
  <2> DEFINE x == h \o u
  <2>1. x \in Seq(Catalogue)
    BY <1>8
  <2> HIDE DEF x
  <2>2. Names(x \o g) = Names(x) \cup Names(g) /\ Names(h \o s) = Names(h) \cup Names(s)
    BY <1>3, <1>5, <1>6, <2>1, ConcatNames
  <2> QED BY <2>2 DEF x
<1>10. /\ Names(genesis_serialize) = (Names(h) \cup Names(u)) \cup Names(g)
       /\ Names(staker_serialize) = Names(h) \cup Names(s)
  BY <1>7, <1>8, <1>9, Zenon
<1> QED BY <1>3, <1>4, <1>5, <1>6, <1>10

\* The genesis transaction of BlockInit is read back as it is.
LEMMA GenesisOK == RewardOK(Genesis)
<1> DEFINE r == Genesis
           f == genesis_serialize
           N == {"type", "version", "unlock_block", "public_key", "secret_key", "outputs"}
           e == [public_ephemeral |-> <<"e">>, amount |-> 1, commitment |-> <<"c">>]
<1>1. r.type = TransactionType.GENESIS /\ r.outputs = <<e>>
  BY DEF Genesis
<1>2. r = [n \in N |-> r[n]]
  BY DEF Genesis
<1>3. RewardFields(r.type) = f
  BY <1>1 DEF RewardFields
<1>4. f \in Seq(Catalogue) /\ Names(f) = N
  BY RewardLists, RewardNames
<1>5. Storable(FieldOf("outputs"), <<e>>)
  <2>1. ElementStorable(TransactionOutput_serialize, e)
    BY OutputElement
  <2> HIDE DEF e
  <2>2. Storable(vector("outputs", TransactionOutput_serialize), <<e>>)
    BY <2>1, ElementLists, ShortVectors
  <2> QED BY <2>2, CatalogueFields, Zenon
<1> HIDE DEF r, f, N, e
<1>6. ASSUME NEW n \in N PROVE Storable(FieldOf(n), r[n])
  <2>1. CASE n = "outputs"
    BY <1>1, <1>5, <2>1, Zenon
  <2>2. CASE n # "outputs"
    <3>1. n \in VarintNames \cup KeyNames
      BY <2>2 DEF N, VarintNames, KeyNames
    <3>2. n \in CatalogueNames
      BY <3>1, Zenon DEF CatalogueNames
    <3> QED BY <3>1, <3>2, PlainNames, PlainStorable
  <2> QED BY <2>1, <2>2
<1>7. RecordOK(f, r)
  BY <1>4, <1>6, RecordByName
<1>8. r = MembersOf(f, r)
  BY <1>2, <1>4, Zenon DEF MembersOf
<1>9. RewardOK(r)
  BY <1>1, <1>3, <1>7, <1>8, Zenon DEF RewardOK
<1> QED BY <1>9 DEF r

\* The staker transaction of BlockInit is read back as it is.
LEMMA StakerOK == RewardOK(FirstStaker)
<1> DEFINE r == FirstStaker
           f == staker_serialize
           N == {"type", "version", "staker_outputs", "staker_penalties"}
           e == [staker_id |-> <<"i">>, amount |-> 1]
<1>1. r.type = TransactionType.STAKER /\ r.staker_outputs = <<e>> /\ r.staker_penalties = <<>>
  BY DEF FirstStaker, Staker
<1>2. r = [n \in N |-> r[n]]
  BY DEF FirstStaker, Staker
<1>3. RewardFields(r.type) = f
  BY <1>1 DEF RewardFields, TransactionType
<1>4. f \in Seq(Catalogue) /\ Names(f) = N
  BY RewardLists, RewardNames
<1>5. Storable(FieldOf("staker_outputs"), <<e>>)
  <2>1. ElementStorable(StakerOutput_serialize, e)
    BY RewardStorable
  <2> HIDE DEF e
  <2>2. Storable(vector("staker_outputs", StakerOutput_serialize), <<e>>)
    BY <2>1, ElementLists, ShortVectors
  <2> QED BY <2>2, CatalogueFields
<1>6. Storable(FieldOf("staker_penalties"), <<>>)
  <2>1. FieldOf("staker_penalties") = vector("staker_penalties", StakerOutput_serialize)
    BY CatalogueFields
  <2>2. Counted(vector("staker_penalties", StakerOutput_serialize))
    BY ElementLists, VectorOK
  <2> QED BY <2>1, <2>2, EmptyStorable
<1> HIDE DEF r, f, N, e
<1>7. ASSUME NEW n \in N PROVE Storable(FieldOf(n), r[n])
  <2>1. CASE n = "staker_outputs"
    BY <1>1, <1>5, <2>1, Zenon
  <2>2. CASE n = "staker_penalties"
    BY <1>1, <1>6, <2>2, Zenon
  <2>3. CASE n # "staker_outputs" /\ n # "staker_penalties"
    <3>1. n \in VarintNames \cup KeyNames
      BY <2>3 DEF N, VarintNames, KeyNames
    <3>2. n \in CatalogueNames
      BY <3>1, Zenon DEF CatalogueNames
    <3> QED BY <3>1, <3>2, PlainNames, PlainStorable
  <2> QED BY <2>1, <2>2, <2>3
<1>8. RecordOK(f, r)
  BY <1>4, <1>7, RecordByName
<1>9. r = MembersOf(f, r)
  BY <1>2, <1>4, Zenon DEF MembersOf
<1>10. RewardOK(r)
  BY <1>1, <1>3, <1>8, <1>9, Zenon DEF RewardOK
<1> QED BY <1>10 DEF r

\* A block put together from its parts.
PartsOK(reward, transactions, votes) ==
    RewardOK(reward) /\ IsFiniteSet(transactions) /\ VotesOK(votes)

\* A block put together from well formed parts is well formed.
LEMMA BuiltOK ==
    ASSUME NEW header, NEW reward, NEW transactions, NEW public_key, NEW sig, NEW votes,
           PartsOK(reward, transactions, votes)
    PROVE  LET b == Block(header, reward, transactions, public_key, sig, votes)
           IN  /\ BlockOK(b) /\ b.reward_tx = reward /\ b.transactions = transactions
               /\ b.producer_public_key = public_key /\ b.producer_signature = sig
               /\ b.validator_signatures = votes
<1> DEFINE b == Block(header, reward, transactions, public_key, sig, votes)
<1>1. /\ b.reward_tx = reward /\ b.transactions = transactions /\ b.producer_public_key = public_key
      /\ b.producer_signature = sig /\ b.validator_signatures = votes
  BY DEF Block
<1>2. b = Block(b, reward, transactions, public_key, sig, votes)
  BY DEF Block
<1> HIDE DEF b
<1>3. BlockOK(b)
  <2>1. ContentOK(b)
    BY <1>1, Zenon DEF PartsOK, ContentOK
  <2> QED BY <1>1, <1>2, <2>1, Zenon DEF PartsOK, BlockOK
<1> QED BY <1>1, <1>3 DEF b

-----------------------------------------------------------------------------
(* What digests tell apart *)

\* The bytes of content are those of Content alone.
LEMMA ContentOnly ==
    ASSUME NEW b, ContentOK(b)
    PROVE  /\ content(Content(b)) = content(b) /\ Content(Content(b)) = Content(b)
           /\ ContentOK(Content(b))
<1> DEFINE c == Content(b)
<1>1. /\ c.version = b.version /\ c.previous_blockhash = b.previous_blockhash
      /\ c.timestamp = b.timestamp /\ c.block_index = b.block_index
      /\ c.reward_tx = b.reward_tx /\ c.transactions = b.transactions
  BY DEF Content
<1>2. Content(c) = c
  BY DEF Content
<1> HIDE DEF c
<1>3. ContentOK(c)
  BY <1>1, Zenon DEF ContentOK
<1>4. Written(block_fields, c) = Written(block_fields, b)
  <2> DEFINE f == block_fields
  <2>1. \A i \in DOMAIN f : f[i].name \in HeaderNames
    BY HeaderList, Zenon DEF Names
  <2>2. c["version"] = b["version"] /\ c["previous_blockhash"] = b["previous_blockhash"]
          /\ c["timestamp"] = b["timestamp"] /\ c["block_index"] = b["block_index"]
    BY <1>1
  <2>3. \A n \in HeaderNames : c[n] = b[n]
    BY <2>2, Zenon DEF HeaderNames
  <2> HIDE DEF f
  <2>4. \A i \in DOMAIN f : Emitted(f[i], c[f[i].name]) = Emitted(f[i], b[f[i].name])
    BY <2>1, <2>3, Zenon
  <2>5. [i \in DOMAIN f |-> Emitted(f[i], c[f[i].name])] = [i \in DOMAIN f |-> Emitted(f[i], b[f[i].name])]
    BY <2>4, Zenon
  <2> QED BY <2>5, Zenon DEF Written, f
<1>5. content(c) = content(b)
  BY <1>1, <1>4, Zenon DEF content
<1> QED BY <1>2, <1>3, <1>5 DEF c

\* The bytes of producer are those of its key and signature alone.
Maker(k, s) == [producer_public_key |-> k, producer_signature |-> s]

\* The producer's bytes depend on its key and its signature only.
LEMMA MakerOnly ==
    ASSUME NEW b
    PROVE  LET m == Maker(b.producer_public_key, b.producer_signature)
           IN  producer(m) = producer(b)
<1> DEFINE m == Maker(b.producer_public_key, b.producer_signature)
           h == has_producer(b)
           f == producer_fields(h)
<1>1. m.producer_public_key = b.producer_public_key /\ m.producer_signature = b.producer_signature
  BY DEF Maker
<1> HIDE DEF m
<1>2. has_producer(m) = h
  BY <1>1, Zenon DEF has_producer
<1>3. Written(f, m) = Written(f, b)
  <2>1. CASE h
    <3>1. Names(f) = MakerNames
      <4> HIDE DEF h
      <4> QED BY <2>1, MakerList
    <3> HIDE DEF f
    <3>2. \A n \in MakerNames : m[n] = b[n]
      <4>1. m["producer_public_key"] = b["producer_public_key"] /\ m["producer_signature"] = b["producer_signature"]
        BY <1>1
      <4> QED BY <4>1, Zenon DEF MakerNames
    <3>3. \A i \in DOMAIN f : Emitted(f[i], m[f[i].name]) = Emitted(f[i], b[f[i].name])
      BY <3>1, <3>2, Zenon DEF Names
    <3>4. [i \in DOMAIN f |-> Emitted(f[i], m[f[i].name])] = [i \in DOMAIN f |-> Emitted(f[i], b[f[i].name])]
      BY <3>3, Zenon
    <3> QED BY <3>4, Zenon DEF Written
  <2>2. CASE ~h
    <3>1. f = <<>>
      BY <2>2, Zenon DEF producer_fields
    <3>2. DOMAIN <<>> = {}
      OBVIOUS
    <3> HIDE DEF f
    <3>3. \A i \in DOMAIN f : Emitted(f[i], m[f[i].name]) = Emitted(f[i], b[f[i].name])
      BY <3>1, <3>2, Zenon
    <3>4. [i \in DOMAIN f |-> Emitted(f[i], m[f[i].name])] = [i \in DOMAIN f |-> Emitted(f[i], b[f[i].name])]
      BY <3>3, Zenon
    <3> QED BY <3>4, Zenon DEF Written
  <2> QED BY <2>1, <2>2
<1>4. producer(m) = producer(b)
  BY <1>2, <1>3, Zenon DEF producer
<1> QED BY <1>4 DEF m

\* A producer is never written as no bytes.
LEMMA ProducerSomething ==
    ASSUME NEW b
    PROVE  IsSequence(producer(b)) /\ producer(b) # <<>>
<1> DEFINE f == FlagBytes(b)
           m == MakerBytes(b)
           p == producer(b)
<1>1. IsSequence(f) /\ IsSequence(m) /\ p = f \o m
  BY MakerWritten, Zenon DEF MakerPieces
<1>2. Len(f) \in Nat /\ Len(f) >= 1
  <2>1. /\ FieldsOK(producer_flag) /\ RecordOK(producer_flag, FlagRecord(b)) /\ Len(producer_flag) >= 1
        /\ ~Counted(producer_flag[1])
    <3>1. 1 >= 1
      OBVIOUS
    <3> QED BY <3>1, FlagList, Zenon
  <2>2. Len(Written(producer_flag, FlagRecord(b))) \in Nat /\ Len(Written(producer_flag, FlagRecord(b))) >= 1
    BY <2>1, FirstToken
  <2> QED BY <2>2, Zenon DEF FlagBytes
<1> HIDE DEF f, m, p
<1>3. PICK U : Joins(U, f, m, p)
  BY <1>1, SeqJoin, Zenon
<1>4. p \in Seq(U) /\ Len(p) = Len(f) + Len(m) /\ Len(m) \in Nat
  BY <1>3, Zenon DEF Joins
<1>5. Len(p) >= 1
  BY <1>2, <1>4
<1>6. p # <<>>
  BY <1>5
<1> QED BY <1>4, <1>6, Zenon DEF p, IsSequence

\* A producer that is there is fixed by its bytes.
LEMMA ProducerFixed ==
    ASSUME NEW b, NEW c, has_producer(b), producer(b) = producer(c)
    PROVE  b.producer_public_key = c.producer_public_key
<1> DEFINE p == producer(b)
           mb == MakerBytes(b)
           mc == MakerBytes(c)
<1>1. /\ FollowedBy(producer_flag, FlagRecord(b), mb, p) /\ FollowedBy(producer_flag, FlagRecord(c), mc, p)
      /\ FieldsOK(producer_flag) /\ RecordOK(producer_flag, FlagRecord(b))
      /\ RecordOK(producer_flag, FlagRecord(c))
  <2>1. MakerPieces(b) /\ p = FlagBytes(b) \o mb /\ MakerPieces(c) /\ p = FlagBytes(c) \o mc
    BY MakerWritten
  <2>2. IsSequence(p)
    BY ProducerSomething
  <2> QED BY <2>1, <2>2, FlagList, Zenon DEF MakerPieces, FollowedBy, FlagBytes
<1> HIDE DEF mb, mc, p
<1>2. MembersOf(producer_flag, FlagRecord(b)) = MembersOf(producer_flag, FlagRecord(c)) /\ mb = mc
  BY <1>1, SelfDelimiting
<1>3. has_producer(c)
  <2>1. "has_producer" \in Names(producer_flag)
    BY FlagList
  <2>2. /\ MembersOf(producer_flag, FlagRecord(b))["has_producer"] = FlagRecord(b)["has_producer"]
        /\ MembersOf(producer_flag, FlagRecord(c))["has_producer"] = FlagRecord(c)["has_producer"]
    BY <2>1, MemberOf
  <2>3. FlagRecord(b)["has_producer"] = has_producer(b) /\ FlagRecord(c)["has_producer"] = has_producer(c)
    BY DEF FlagRecord
  <2> QED BY <1>2, <2>2, <2>3, Zenon
<1> DEFINE f == producer_fields(TRUE)
<1>4. producer_fields(has_producer(b)) = f /\ producer_fields(has_producer(c)) = f
  BY <1>3, Zenon DEF producer_fields
<1>5. FieldsOK(f) /\ RecordOK(f, b) /\ RecordOK(f, c) /\ Names(f) = MakerNames
  <2> DEFINE t == TRUE
  <2>1. t
    OBVIOUS
  <2> HIDE DEF t
  <2>2. FieldsOK(producer_fields(t)) /\ (\A rec : RecordOK(producer_fields(t), rec))
          /\ Names(producer_fields(t)) = MakerNames
    BY <2>1, MakerList
  <2> QED BY <2>2 DEF t
<1> HIDE DEF f
<1>6. FollowedBy(f, b, <<>>, mb) /\ FollowedBy(f, c, <<>>, mb)
  <2>1. IsSequence(MakerBytes(b)) /\ IsSequence(MakerBytes(c))
    BY MakerWritten, Zenon DEF MakerPieces
  <2>2. IsSequence(<<>>)
    BY ShortSequences
  <2>3. mb = Written(f, b) /\ mb = Written(f, c) /\ IsSequence(mb)
    BY <1>2, <1>4, <2>1, Zenon DEF MakerBytes, mb, mc
  <2>4. mb \o <<>> = mb
    BY <2>2, <2>3, SeqAssoc
  <2> QED BY <2>2, <2>3, <2>4, Zenon DEF FollowedBy
<1>7. MembersOf(f, b) = MembersOf(f, c)
  BY <1>5, <1>6, SelfDelimiting
<1>8. "producer_public_key" \in Names(f)
  BY <1>5 DEF MakerNames
<1>9. MembersOf(f, b)["producer_public_key"] = b["producer_public_key"]
        /\ MembersOf(f, c)["producer_public_key"] = c["producer_public_key"]
  BY <1>8, MemberOf
<1> QED BY <1>7, <1>9, Zenon

\* The digest of a producer is never that of a validator.
LEMMA RolesApart ==
    ASSUME NEW b, NEW c, NEW m, ContentOK(b), ContentOK(c)
    PROVE  content(b) # content(c) \o producer(m)
<1> SUFFICES ASSUME content(b) = content(c) \o producer(m) PROVE FALSE
  OBVIOUS
<1>1. IsSequence(content(b)) /\ IsSequence(<<>>)
  <2> DEFINE h == HeaderBytes(b)
             r == RewardBytes(b)
             t == TransactionBytes(b)
  <2>1. IsSequence(h) /\ IsSequence(r) /\ IsSequence(t) /\ content(b) = (h \o r) \o t
    BY ContentWritten, Zenon DEF ContentPieces
  <2> HIDE DEF h, r, t
  <2>2. IsSequence(h \o r)
    BY <2>1, SeqAssoc
  <2>3. IsSequence((h \o r) \o t)
    BY <2>1, <2>2, SeqAssoc
  <2> QED BY <2>1, <2>3, ShortSequences, Zenon
<1>2. content(b) \o <<>> = content(b)
  <2> DEFINE x == content(b)
  <2> HIDE DEF x
  <2>1. x \o <<>> = x
    BY <1>1, SeqAssoc DEF x
  <2> QED BY <2>1 DEF x
<1>3. content(b) \o <<>> = content(c) \o producer(m)
  BY <1>2, Zenon
<1>4. IsSequence(producer(m)) /\ producer(m) # <<>>
  BY ProducerSomething
<1>5. <<>> = producer(m)
  <2> DEFINE y == producer(m)
             e == <<>>
  <2>1. SameBytes(b, e, c, y) /\ IsSequence(e) /\ IsSequence(y)
    BY <1>1, <1>3, <1>4, Zenon DEF SameBytes
  <2> HIDE DEF y, e
  <2>2. e = y
    BY <2>1, ContentFixed
  <2> QED BY <2>2 DEF y, e
<1> QED BY <1>4, <1>5, Zenon

-----------------------------------------------------------------------------
(* A block's JSON read back: only the votes are not what was written *)

\* Members that a reader does not ask for are nothing to it.
LEMMA FromJsonOf ==
    ASSUME NEW fields, NEW j, NEW k,
           \A n \in Names(fields) : n \in DOMAIN j /\ n \in DOMAIN k /\ j[n] = k[n]
    PROVE  FromJSON(fields, j) = FromJSON(fields, k)
<1>1. \A i \in DOMAIN fields : fields[i].name \in Names(fields)
  BY Zenon DEF Names
<1>2. HasMembers(fields, j) <=> HasMembers(fields, k)
  BY <1>1, Zenon DEF HasMembers
<1>3. Readable(fields, j) <=> Readable(fields, k)
  BY <1>1, <1>2, Zenon DEF Readable
<1>4. \A n \in Names(fields) : Imported(FieldNamed(fields, n), j[n][2]) = Imported(FieldNamed(fields, n), k[n][2])
  BY Zenon
<1> DEFINE out(x) == [n \in Names(fields) |-> Imported(FieldNamed(fields, n), x[n][2])]
<1>5. out(j) = out(k)
  BY <1>4, Zenon
<1>6. ASSUME NEW x
      PROVE  FromJSON(fields, x) = IF ~Readable(fields, x) THEN Thrown
                                   ELSE [in |-> <<>>, ok |-> TRUE, out |-> out(x)]
  BY Zenon DEF FromJSON, Imported
<1> HIDE DEF out
<1> QED BY <1>3, <1>5, <1>6, Zenon

\* No two members of a header have one name.
LEMMA HeaderOnce == NamedOnce(FieldSet(block_fields))
<1> DEFINE f == block_fields
<1>1. /\ DOMAIN f = 1..4 /\ f[1] = varint("version") /\ f[2] = key("previous_blockhash")
      /\ f[3] = varint("timestamp") /\ f[4] = varint("block_index")
  BY DEF block_fields
<1>2. \A i \in 1..4 : i = 1 \/ i = 2 \/ i = 3 \/ i = 4
  OBVIOUS
<1> HIDE DEF f
<1>3. f[1].name = "version" /\ f[2].name = "previous_blockhash" /\ f[3].name = "timestamp"
        /\ f[4].name = "block_index"
  BY <1>1, PlainKinds
<1>4. \A i, k \in 1..4 : f[i].name = f[k].name => f[i] = f[k]
  BY <1>2, <1>3
<1>5. NamedOnce(FieldSet(f))
  BY <1>1, <1>4, Zenon DEF NamedOnce, FieldSet
<1> QED BY <1>5 DEF f

\* A key and a signature.
LEMMA PairRead ==
    ASSUME NEW k, NEW s
    PROVE  FromJSON(validator_fields, JsonPair(k, s)).out = [public_key |-> k, signature |-> s]
<1> DEFINE f == validator_fields
           P == {key("public_key"), signature("signature")}
           rec == [public_key |-> k, signature |-> s]
<1>1. f \in Seq(P) /\ DOMAIN f = 1..2 /\ f[1] = key("public_key") /\ f[2] = signature("signature")
  BY DEF validator_fields
<1>2. \A i \in 1..2 : i = 1 \/ i = 2
  OBVIOUS
<1>3. JsonPair(k, s) = ToJSON(f, rec)
  BY Zenon DEF JsonPair
<1>4. rec = [n \in {"public_key", "signature"} |-> rec[n]]
  OBVIOUS
<1> HIDE DEF f, P, rec
<1>5. f[1].name = "public_key" /\ f[2].name = "signature"
  BY <1>1, PlainKinds
<1>6. IsSequence(f)
  BY <1>1, Zenon DEF IsSequence
<1>7. \A i \in DOMAIN f : ~Counted(f[i]) /\ f[i].kind # "address"
  BY <1>1, <1>2, PlainKinds
<1>8. FieldsOK(f) /\ RecordOK(f, rec)
  BY <1>6, <1>7, PlainList
<1>9. Names(f) = {"public_key", "signature"}
  BY <1>1, <1>2, <1>5 DEF Names
<1>10. \A i, m \in 1..2 : f[i].name = f[m].name => f[i] = f[m]
  BY <1>2, <1>5
<1>11. NamedOnce(FieldSet(f))
  BY <1>1, <1>10, Zenon DEF NamedOnce, FieldSet
<1>12. FromJSON(f, ToJSON(f, rec)) = [in |-> <<>>, ok |-> TRUE, out |-> [n \in Names(f) |-> rec[n]]]
  BY <1>8, <1>11, JsonRead
<1> DEFINE o == [n \in Names(f) |-> rec[n]]
<1>13. o = rec
  BY <1>4, <1>9, Zenon
<1> HIDE DEF o
<1>14. FromJSON(f, ToJSON(f, rec)).out = o
  BY <1>12 DEF o
<1> QED BY <1>3, <1>13, <1>14 DEF f, rec

\* The reward transaction, with its type to be looked at first.
LEMMA RewardJson ==
    ASSUME NEW r, RewardOK(r)
    PROVE  /\ (IF r.type = TransactionType.GENESIS THEN genesis_toJSON ELSE staker_toJSON) = RewardFields(r.type)
           /\ (IF r.type = TransactionType.GENESIS THEN genesis_fromJSON ELSE staker_fromJSON) = RewardFields(r.type)
           /\ ToJSON(RewardFields(r.type), r).type[2] = r.type
           /\ FromJSON(RewardFields(r.type), ToJSON(RewardFields(r.type), r))
                = [in |-> <<>>, ok |-> TRUE, out |-> r]
<1> DEFINE f == RewardFields(r.type)
<1>1. /\ (IF r.type = TransactionType.GENESIS THEN genesis_toJSON ELSE staker_toJSON) = f
      /\ (IF r.type = TransactionType.GENESIS THEN genesis_fromJSON ELSE staker_fromJSON) = f
  BY RewardLists, Zenon DEF RewardFields
<1>2. r.type \in {TransactionType.GENESIS, TransactionType.STAKER} /\ r = MembersOf(f, r) /\ RecordOK(f, r)
  BY Zenon DEF RewardOK
<1>3. FieldsOK(f) /\ f \in Seq(Catalogue) /\ "type" \in Names(f)
  BY <1>2, RewardList
<1> HIDE DEF f
<1>4. NamedOnce(FieldSet(f))
  BY <1>3, CatalogueList
<1>5. FromJSON(f, ToJSON(f, r)) = [in |-> <<>>, ok |-> TRUE, out |-> [n \in Names(f) |-> r[n]]]
  BY <1>2, <1>3, <1>4, JsonRead
<1>6. FromJSON(f, ToJSON(f, r)) = [in |-> <<>>, ok |-> TRUE, out |-> r]
  BY <1>2, <1>5, Zenon DEF MembersOf
<1>7. ToJSON(f, r)["type"][2] = r["type"]
  <2>1. FieldNamed(f, "type") = varint("type")
    <3>1. "type" \in VarintNames
      BY DEF VarintNames
    <3>2. FieldNamed(f, "type") = FieldOf("type")
      BY <1>3, RecordByName
    <3> QED BY <3>1, <3>2, CatalogueFields
  <2>2. varint("type").kind # "vector"
    BY PlainKinds
  <2> DEFINE g(n) == Exported(FieldNamed(f, n), r[n])
  <2>3. ToJSON(f, r) = [n \in Names(f) |-> g(n)]
    BY Zenon DEF ToJSON, Exported
  <2>4. ToJSON(f, r)["type"] = g("type")
    BY <1>3, <2>3, Zenon
  <2>5. g("type") = <<JsonType(varint("type")), r["type"]>>
    BY <2>1, <2>2, Zenon DEF Exported
  <2> DEFINE t == JsonType(varint("type"))
             v == r["type"]
             w == ToJSON(f, r)["type"]
  <2>6. w = <<t, v>>
    BY <2>4, <2>5
  <2> HIDE DEF t, v, w
  <2>7. w[2] = v
    BY <2>6
  <2> QED BY <2>7 DEF w, v
<1> QED BY <1>1, <1>6, <1>7, Zenon DEF f

\* What toJSON writes, member by member.
JsonMembers(b, j) ==
    /\ \A n \in HeaderNames : n \in DOMAIN j /\ j[n] = ToJSON(block_fields, b)[n]
    /\ j.reward_tx = <<"object", IF b.reward_tx.type = TransactionType.GENESIS
                                 THEN ToJSON(genesis_toJSON, b.reward_tx)
                                 ELSE ToJSON(staker_toJSON, b.reward_tx)>>
    /\ j.transactions = <<"array", Ordered(b.transactions)>>
    /\ IF "producer_signature" \in DOMAIN j
       THEN /\ has_producer(b)
            /\ j.producer_signature = <<"object", JsonPair(b.producer_public_key, b.producer_signature)>>
       ELSE ~has_producer(b)
    /\ "validator_signatures" \in DOMAIN j =>
          j.validator_signatures =
              <<"array", [i \in DOMAIN Votes(b) |-> JsonPair(b.producer_public_key, b.producer_signature)]>>

\* The members block_toJSON writes.
LEMMA JsonWritten ==
    ASSUME NEW b
    PROVE  JsonMembers(b, block_toJSON(b))
<1> DEFINE members == Names(block_fields) \cup {"reward_tx", "transactions"}
                     \cup (IF has_producer(b) THEN {"producer_signature"} ELSE {})
                     \cup (IF b.validator_signatures # <<>> THEN {"validator_signatures"} ELSE {})
           pair == JsonPair(b.producer_public_key, b.producer_signature)
           reward == <<"object", IF b.reward_tx.type = TransactionType.GENESIS
                                 THEN ToJSON(genesis_toJSON, b.reward_tx)
                                 ELSE ToJSON(staker_toJSON, b.reward_tx)>>
           txs == <<"array", Ordered(b.transactions)>>
           maker == <<"object", pair>>
           votes == <<"array", [i \in DOMAIN Votes(b) |-> pair]>>
           head == ToJSON(block_fields, b)
           value(n) == CASE n = "reward_tx" -> reward
                         [] n = "transactions" -> txs
                         [] n = "producer_signature" -> maker
                         [] n = "validator_signatures" -> votes
                         [] OTHER -> head[n]
           j == block_toJSON(b)
           has == has_producer(b)
<1>1. j = [n \in members |-> value(n)]
  BY Zenon DEF block_toJSON
<1>2. members = HeaderNames \cup {"reward_tx", "transactions"}
                  \cup (IF has THEN {"producer_signature"} ELSE {})
                  \cup (IF b.validator_signatures # <<>> THEN {"validator_signatures"} ELSE {})
  BY HeaderList, Zenon
<1> HIDE DEF pair, reward, txs, maker, votes, head, has, members, j
<1>3. /\ value("reward_tx") = reward /\ value("transactions") = txs /\ value("producer_signature") = maker
      /\ value("validator_signatures") = votes /\ \A n \in HeaderNames : value(n) = head[n]
  BY DEF HeaderNames
<1> HIDE DEF value
<1>4. /\ "reward_tx" \in members /\ "transactions" \in members /\ HeaderNames \subseteq members
      /\ ("producer_signature" \in members) <=> has
  <2> DEFINE R == b.validator_signatures # <<>>
  <2> HIDE DEF R
  <2>1. members = HeaderNames \cup {"reward_tx", "transactions"} \cup (IF has THEN {"producer_signature"} ELSE {})
                    \cup (IF R THEN {"validator_signatures"} ELSE {})
    BY <1>2 DEF R
  <2> QED BY <2>1 DEF HeaderNames
<1>5. DOMAIN j = members /\ \A n \in members : j[n] = value(n)
  BY <1>1, Zenon
<1>6. /\ j.reward_tx = reward /\ j.transactions = txs
      /\ \A n \in HeaderNames : n \in DOMAIN j /\ j[n] = head[n]
  BY <1>3, <1>4, <1>5, Zenon
<1>7. IF "producer_signature" \in DOMAIN j THEN has /\ j.producer_signature = maker ELSE ~has
  BY <1>3, <1>4, <1>5, Zenon
<1>8. "validator_signatures" \in DOMAIN j => j.validator_signatures = votes
  BY <1>3, <1>5, Zenon
<1>9. JsonMembers(b, j)
  BY <1>6, <1>7, <1>8, Zenon DEF JsonMembers, reward, txs, maker, votes, head, has, pair
<1> QED BY <1>9 DEF j

\* Votes that are all the same.
LEMMA SameVotes ==
    ASSUME NEW votes, DOMAIN votes \subseteq Nat, NEW k, NEW s,
           \A i \in DOMAIN votes : votes[i].public_key = k /\ votes[i].signature = s
    PROVE  VotesOK(MapOf(votes)) /\ \A x \in DOMAIN MapOf(votes) : MapOf(votes)[x] = s
<1> DEFINE D == {votes[i].public_key : i \in DOMAIN votes}
           v(x) == votes[Min({i \in DOMAIN votes : votes[i].public_key = x})].signature
           m == MapOf(votes)
<1>1. m = [x \in D |-> v(x)]
  BY Zenon DEF MapOf
<1>2. ASSUME NEW x \in D PROVE v(x) = s
  <2> DEFINE P == {i \in DOMAIN votes : votes[i].public_key = x}
  <2>1. P # {} /\ P \subseteq Nat
    BY <1>2
  <2> HIDE DEF P
  <2>2. Min(P) \in P
    BY <2>1, LeastNatural DEF Min
  <2>3. Min(P) \in DOMAIN votes
    BY <2>2 DEF P
  <2>4. votes[Min(P)].signature = s
    BY <2>3
  <2> QED BY <2>4 DEF P
<1>3. D \subseteq {k}
  BY Zenon
<1> HIDE DEF D, v, m
<1>4. IsFiniteSet(D)
  <2>1. IsFiniteSet({k})
    BY FS_Singleton
  <2> QED BY <1>3, <2>1, FS_Subset
<1>5. DOMAIN m = D /\ m = [x \in DOMAIN m |-> m[x]] /\ \A x \in D : m[x] = v(x)
  BY <1>1
<1>6. VotesOK(m)
  BY <1>4, <1>5, Zenon DEF VotesOK
<1>7. \A x \in DOMAIN m : m[x] = s
  BY <1>2, <1>5, Zenon
<1> QED BY <1>6, <1>7 DEF m

\* What JSON makes of a block: the votes are all its producer's.
JsonCopy(b, o) ==
    \E m : /\ VotesOK(m) /\ (\A x \in DOMAIN m : m[x] = b.producer_signature)
           /\ o = Block(b, b.reward_tx, b.transactions, AsWritten(b).producer_public_key,
                        AsWritten(b).producer_signature, m)

\* A block read back from its JSON has all but the votes of the block written.
LEMMA BlockJson ==
    ASSUME NEW b, BlockOK(b)
    PROVE  block_fromJSON(block_toJSON(b)).ok /\ JsonCopy(b, block_fromJSON(block_toJSON(b)).out)
<1> DEFINE j == block_toJSON(b)
           header == FromJSON(block_fields, j)
           rj == j.reward_tx[2]
           reward == FromJSON(IF rj.type[2] = TransactionType.GENESIS
                              THEN genesis_fromJSON ELSE staker_fromJSON, rj)
           maker == IF "producer_signature" \in DOMAIN j
                       THEN FromJSON(validator_fields, j.producer_signature[2]).out
                       ELSE [public_key |-> Z, signature |-> Z]
           votes == IF "validator_signatures" \in DOMAIN j
                    THEN [i \in DOMAIN j.validator_signatures[2] |->
                             FromJSON(validator_fields, j.validator_signatures[2][i]).out]
                    ELSE <<>>
           out == Block(header.out, reward.out, ToSet(j.transactions[2]),
                        maker.public_key, maker.signature, MapOf(votes))
           r == b.reward_tx
           pk == b.producer_public_key
           ps == b.producer_signature
           mk == AsWritten(b).producer_public_key
           ms == AsWritten(b).producer_signature
           pair == JsonPair(pk, ps)
<1>1. block_fromJSON(j) = [ok |-> header.ok /\ reward.ok, in |-> <<>>, out |-> out]
  BY Zenon DEF block_fromJSON
<1>2. JsonMembers(b, j)
  BY JsonWritten
<1>3. /\ ContentOK(b) /\ RewardOK(r) /\ IsFiniteSet(b.transactions)
      /\ VotesOK(b.validator_signatures)
  BY Zenon DEF BlockOK, ContentOK
<1> HIDE DEF j
<1>4. header.ok /\ header.out = MembersOf(block_fields, b)
  <2> DEFINE k == ToJSON(block_fields, b)
  <2>1. DOMAIN k = HeaderNames /\ Names(block_fields) = HeaderNames
    <3>1. DOMAIN k = Names(block_fields)
      BY Zenon DEF ToJSON
    <3> QED BY <3>1, HeaderList, Zenon
  <2>2. \A n \in HeaderNames : n \in DOMAIN j /\ j[n] = k[n]
    BY <1>2, Zenon DEF JsonMembers
  <2>3. FieldsOK(block_fields) /\ RecordOK(block_fields, b) /\ NamedOnce(FieldSet(block_fields))
    BY HeaderList, HeaderOnce, Zenon
  <2>4. FromJSON(block_fields, k) = [in |-> <<>>, ok |-> TRUE, out |-> [n \in Names(block_fields) |-> b[n]]]
    BY <2>3, JsonRead
  <2> HIDE DEF k
  <2>5. header = FromJSON(block_fields, k)
    BY <2>1, <2>2, FromJsonOf
  <2> HIDE DEF header
  <2>6. header = [in |-> <<>>, ok |-> TRUE, out |-> MembersOf(block_fields, b)]
    BY <2>4, <2>5, Zenon DEF MembersOf
  <2> QED BY <2>6
<1> HIDE DEF header
<1>5. reward.ok /\ reward.out = r
  <2> DEFINE f == RewardFields(r.type)
             k == ToJSON(f, r)
  <2>1. /\ (IF r.type = TransactionType.GENESIS THEN genesis_toJSON ELSE staker_toJSON) = f
        /\ (IF r.type = TransactionType.GENESIS THEN genesis_fromJSON ELSE staker_fromJSON) = f
        /\ k.type[2] = r.type /\ FromJSON(f, k) = [in |-> <<>>, ok |-> TRUE, out |-> r]
    BY <1>3, RewardJson
  <2>2. rj = k
    <3> DEFINE w == j.reward_tx
    <3>1. w = <<"object", IF r.type = TransactionType.GENESIS
                          THEN ToJSON(genesis_toJSON, r) ELSE ToJSON(staker_toJSON, r)>>
      BY <1>2, Zenon DEF JsonMembers
    <3>2. (IF r.type = TransactionType.GENESIS THEN ToJSON(genesis_toJSON, r) ELSE ToJSON(staker_toJSON, r)) = k
      BY <2>1, Zenon
    <3> HIDE DEF k, w
    <3>3. w = <<"object", k>>
      BY <3>1, <3>2, Zenon
    <3>4. w[2] = k
      BY <3>3
    <3> QED BY <3>4 DEF w
  <2> HIDE DEF rj, k
  <2>3. reward = FromJSON(f, k)
    BY <2>1, <2>2, Zenon
  <2> HIDE DEF reward, f
  <2>4. reward = [in |-> <<>>, ok |-> TRUE, out |-> r]
    BY <2>1, <2>3, Zenon
  <2> QED BY <2>4
<1> HIDE DEF reward
<1>6. ToSet(j.transactions[2]) = b.transactions
  <2> DEFINE w == j.transactions
             o == Ordered(b.transactions)
  <2>1. w = <<"array", o>>
    BY <1>2, Zenon DEF JsonMembers
  <2>2. ToSet(o) = b.transactions
    BY <1>3, OrderedSet
  <2> HIDE DEF w, o
  <2>3. w[2] = o
    BY <2>1
  <2> QED BY <2>2, <2>3, Zenon DEF w
<1>7. FromJSON(validator_fields, pair).out = [public_key |-> pk, signature |-> ps]
  <2> HIDE DEF pk, ps
  <2> QED BY PairRead
<1> HIDE DEF pair
<1>8. maker.public_key = mk /\ maker.signature = ms
  <2>1. CASE "producer_signature" \in DOMAIN j
    <3> DEFINE w == j.producer_signature
    <3>1. w = <<"object", pair>>
      BY <1>2, <2>1, Zenon DEF JsonMembers, pair
    <3> HIDE DEF w
    <3>2. w[2] = pair
      BY <3>1
    <3>3. maker = [public_key |-> pk, signature |-> ps]
      BY <1>7, <2>1, <3>2, Zenon DEF w
    <3>4. mk = pk /\ ms = ps
      <4>1. has_producer(b)
        BY <1>2, <2>1, Zenon DEF JsonMembers
      <4> QED BY <4>1, WrittenMaker, Zenon
    <3> HIDE DEF maker, pk, ps, mk, ms
    <3> QED BY <3>3, <3>4
  <2>2. CASE "producer_signature" \notin DOMAIN j
    <3>1. ~has_producer(b)
      BY <1>2, <2>2, Zenon DEF JsonMembers
    <3>2. mk = Z /\ ms = Z
      BY <3>1, WrittenMaker, Zenon
    <3>3. maker = [public_key |-> Z, signature |-> Z]
      BY <2>2, Zenon
    <3> HIDE DEF maker, mk, ms
    <3>4. maker.public_key = Z /\ maker.signature = Z
      BY <3>3
    <3> QED BY <3>2, <3>4
  <2> QED BY <2>1, <2>2
<1> HIDE DEF maker
<1>9. DOMAIN votes \subseteq Nat /\ \A i \in DOMAIN votes : votes[i].public_key = pk /\ votes[i].signature = ps
  <2>1. CASE "validator_signatures" \in DOMAIN j
    <3> DEFINE w == j.validator_signatures
               D == DOMAIN Votes(b)
               a == [i \in D |-> pair]
    <3>1. w = <<"array", a>>
      BY <1>2, <2>1, Zenon DEF JsonMembers, pair
    <3>2. IsSequence(Votes(b))
      BY <1>3, VotesOfMap
    <3>3. PICK V : Votes(b) \in Seq(V)
      BY <3>2 DEF IsSequence
    <3>4. D \subseteq Nat
      BY <3>3, LenProperties
    <3>5. votes = [i \in DOMAIN w[2] |-> FromJSON(validator_fields, w[2][i]).out]
      BY <2>1, Zenon
    <3> HIDE DEF w, votes, D
    <3>6. w[2] = a /\ DOMAIN a = D /\ \A i \in D : a[i] = pair
      BY <3>1
    <3> DEFINE e == [public_key |-> pk, signature |-> ps]
    <3>7. e.public_key = pk /\ e.signature = ps
      OBVIOUS
    <3> HIDE DEF a, e
    <3>8. DOMAIN votes = D /\ \A i \in D : votes[i] = e
      BY <1>7, <3>5, <3>6, Zenon DEF e
    <3> QED BY <3>4, <3>7, <3>8, Zenon
  <2>2. CASE "validator_signatures" \notin DOMAIN j
    <3>1. votes = <<>>
      BY <2>2, Zenon
    <3> HIDE DEF votes
    <3>2. DOMAIN votes = {}
      BY <3>1
    <3> QED BY <3>2
  <2> QED BY <2>1, <2>2
<1> HIDE DEF votes, pk, ps, mk, ms
<1> DEFINE m == MapOf(votes)
<1>10. VotesOK(m) /\ \A x \in DOMAIN m : m[x] = ps
  BY <1>9, SameVotes
<1> HIDE DEF m
<1>11. out = Block(b, r, b.transactions, mk, ms, m)
  <2>1. /\ header.out.version = b.version /\ header.out.previous_blockhash = b.previous_blockhash
        /\ header.out.timestamp = b.timestamp /\ header.out.block_index = b.block_index
    <3>1. \A n \in HeaderNames : MembersOf(block_fields, b)[n] = b[n]
      BY HeaderList, MemberOf
    <3>2. /\ "version" \in HeaderNames /\ "previous_blockhash" \in HeaderNames
          /\ "timestamp" \in HeaderNames /\ "block_index" \in HeaderNames
      BY DEF HeaderNames
    <3> QED BY <1>4, <3>1, <3>2, Zenon
  <2> QED BY <1>5, <1>6, <1>8, <2>1, Zenon DEF Block, m
<1> HIDE DEF out, r
<1>12. JsonCopy(b, out)
  BY <1>10, <1>11, Zenon DEF JsonCopy, r, ps, mk, ms
<1> DEFINE fj == block_fromJSON(j)
<1>13. fj = [ok |-> TRUE, in |-> <<>>, out |-> out]
  BY <1>1, <1>4, <1>5, Zenon
<1> HIDE DEF fj
<1>14. fj.ok /\ fj.out = out
  BY <1>13
<1> QED BY <1>12, <1>14, Zenon DEF fj, j

-----------------------------------------------------------------------------
(* The inductive invariant *)

\* The signatures a block can carry: none, or one that can be assigned to it.
Known(S) == {Z} \cup Assignable(S)

Good(b, S) ==
    /\ BlockOK(b) /\ b.producer_signature \in Known(S)
    /\ \A k \in DOMAIN b.validator_signatures : b.validator_signatures[k] \in Known(S)

CopiesOK(c, S) == c = [p \in Nodes |-> c[p]] /\ \A p \in Nodes : Good(c[p], S)

\* v was returned by the signing that r records.
ProducerMade(v, r) ==
    /\ r = [key |-> v.public_key, role |-> "producer", content |-> r.content, producer |-> v.public_key]
    /\ v.signature = generate_signature(sha3(content(r.content)), v.public_key)

ValidatorMade(v, r, S) ==
    /\ r = [key |-> v.public_key, role |-> "validator", content |-> r.content, producer |-> r.producer]
    /\ \E s \in Known(S) :
          v.signature = generate_signature(sha3(content(r.content) \o producer(Maker(r.producer, s))),
                                           v.public_key)

Made(v, S, R) ==
    \E r \in R : /\ ContentOK(r.content) /\ r.content = Content(r.content)
                 /\ ProducerMade(v, r) \/ ValidatorMade(v, r, S)

ArrivalOK(arrival, S) == arrival.ok => Good(arrival.out, S)

\* Every copy is well formed and carries only signatures that were returned;
\* each of those was made over the content of a recorded signing.
BlockInv ==
    /\ CopiesOK(blk, sigs)
    /\ \A v \in sigs : Made(v, sigs, signed)
    /\ ArrivalOK(copy.got, sigs)
    /\ BlockReadBack

\* A signature is not lost again.
LEMMA GoodMore ==
    ASSUME NEW b, NEW S, NEW T, S \subseteq T, Good(b, S)
    PROVE  Good(b, T)
<1>1. Known(S) \subseteq Known(T)
  BY DEF Known, Assignable
<1> QED BY <1>1 DEF Good

\* A signature that was made stays made.
LEMMA MadeMore ==
    ASSUME NEW v, NEW S, NEW T, S \subseteq T, NEW R, NEW Q, R \subseteq Q, Made(v, S, R)
    PROVE  Made(v, T, Q)
<1>1. Known(S) \subseteq Known(T)
  BY DEF Known, Assignable
<1>2. \A r : ValidatorMade(v, r, S) => ValidatorMade(v, r, T)
  BY <1>1, Zenon DEF ValidatorMade
<1> QED BY <1>2, Zenon DEF Made

\* One node's copy is replaced.
LEMMA CopyReplaced ==
    ASSUME NEW c, NEW S, NEW T, S \subseteq T, CopiesOK(c, S), NEW p \in Nodes, NEW b, Good(b, T)
    PROVE  CopiesOK([c EXCEPT ![p] = b], T)
<1> DEFINE d == [c EXCEPT ![p] = b]
<1>1. c = [q \in Nodes |-> c[q]] /\ \A q \in Nodes : Good(c[q], T)
  BY GoodMore DEF CopiesOK
<1>2. d = [q \in Nodes |-> IF q = p THEN b ELSE c[q]]
  BY <1>1
<1> HIDE DEF d
<1>3. d = [q \in Nodes |-> d[q]] /\ \A q \in Nodes : d[q] = IF q = p THEN b ELSE c[q]
  BY <1>2
<1>4. \A q \in Nodes : Good(d[q], T)
  BY <1>1, <1>3, Zenon
<1>5. CopiesOK(d, T)
  BY <1>3, <1>4, Zenon DEF CopiesOK
<1> QED BY <1>5 DEF d

\* The changes that the operations make to a block.
TransactionAdded(c, p, h) ==
    [c EXCEPT ![p].transactions = @ \cup {h}]
      = [c EXCEPT ![p] = Block(c[p], c[p].reward_tx, c[p].transactions \cup {h}, c[p].producer_public_key,
                               c[p].producer_signature, c[p].validator_signatures)]
ProducerSet(c, p, k, s) ==
    [c EXCEPT ![p].producer_public_key = k, ![p].producer_signature = s]
      = [c EXCEPT ![p] = Block(c[p], c[p].reward_tx, c[p].transactions, k, s, c[p].validator_signatures)]
VoteAdded(c, p, k, s) ==
    [c EXCEPT ![p].validator_signatures = inserted(@, k, s)]
      = [c EXCEPT ![p] = Block(c[p], c[p].reward_tx, c[p].transactions, c[p].producer_public_key,
                               c[p].producer_signature, inserted(c[p].validator_signatures, k, s))]

\* What each change of a copy does to its members.
LEMMA BlockChanges ==
    ASSUME NEW c, NEW p \in Nodes, c = [q \in Nodes |-> c[q]], BlockOK(c[p]),
           NEW h, NEW k, NEW s
    PROVE  TransactionAdded(c, p, h) /\ ProducerSet(c, p, k, s) /\ VoteAdded(c, p, k, s)
<1> DEFINE b == c[p]
<1>1. b = Block(b, b.reward_tx, b.transactions, b.producer_public_key, b.producer_signature,
                b.validator_signatures)
  BY Zenon DEF BlockOK
<1> DEFINE m == inserted(b.validator_signatures, k, s)
           t == b.transactions \cup {h}
<1> HIDE DEF b
<1>2. [b EXCEPT !.transactions = t]
        = Block(b, b.reward_tx, t, b.producer_public_key, b.producer_signature, b.validator_signatures)
  BY <1>1 DEF Block
<1>3. [[b EXCEPT !.producer_public_key = k] EXCEPT !.producer_signature = s]
        = Block(b, b.reward_tx, b.transactions, k, s, b.validator_signatures)
  <2> DEFINE a == [b EXCEPT !.producer_public_key = k]
  <2>1. a = Block(b, b.reward_tx, b.transactions, k, b.producer_signature, b.validator_signatures)
    BY <1>1 DEF Block
  <2> HIDE DEF a
  <2>2. [a EXCEPT !.producer_signature = s]
          = Block(b, b.reward_tx, b.transactions, k, s, b.validator_signatures)
    BY <2>1 DEF Block
  <2> QED BY <2>2 DEF a
<1>4. [b EXCEPT !.validator_signatures = m]
        = Block(b, b.reward_tx, b.transactions, b.producer_public_key, b.producer_signature, m)
  <2> HIDE DEF m
  <2> QED BY <1>1 DEF Block
<1>5. [c EXCEPT ![p].transactions = @ \cup {h}] = [c EXCEPT ![p] = [b EXCEPT !.transactions = t]]
  BY DEF b
<1>6. [c EXCEPT ![p].producer_public_key = k, ![p].producer_signature = s]
        = [c EXCEPT ![p] = [[b EXCEPT !.producer_public_key = k] EXCEPT !.producer_signature = s]]
  BY DEF b
<1>7. [c EXCEPT ![p].validator_signatures = inserted(@, k, s)]
        = [c EXCEPT ![p] = [b EXCEPT !.validator_signatures = m]]
  BY DEF b
<1> QED BY <1>2, <1>3, <1>4, <1>5, <1>6, <1>7, Zenon DEF b, TransactionAdded, ProducerSet, VoteAdded

\* What is signed: a producer signs the content, a validator the producer too.
LEMMA Signed ==
    ASSUME NEW b
    PROVE  /\ message_digest(b, BLOCK_DIGEST_PRODUCER) = sha3(content(b))
           /\ message_digest(b, BLOCK_DIGEST_VALIDATOR) = sha3(content(b) \o producer(b))
<1> DEFINE c == content(b)
           d == c \o producer(b)
           e == d \o validators(b)
           z(mode) == CASE mode = BLOCK_DIGEST_PRODUCER -> c
                        [] mode = BLOCK_DIGEST_VALIDATOR -> d
                        [] mode = BLOCK_DIGEST_FULL -> e
<1>1. \A mode : block_serialize(b, mode) = z(mode)
  BY Zenon DEF block_serialize
<1> HIDE DEF c, d, e
<1>2. z(BLOCK_DIGEST_PRODUCER) = c /\ z(BLOCK_DIGEST_VALIDATOR) = d
  BY DEF BLOCK_DIGEST_PRODUCER, BLOCK_DIGEST_VALIDATOR, BLOCK_DIGEST_FULL
<1> HIDE DEF z
<1> QED BY <1>1, <1>2, Zenon DEF message_digest, c, d

\* No signature is the unset signature, or one of random scalars.
LEMMA SignatureSomething ==
    ASSUME NEW d, NEW k
    PROVE  generate_signature(d, k) # Z /\ generate_signature(d, k) # <<"random">>
BY DEF generate_signature, Z

\* A digest fixes the bytes it was taken of.
LEMMA DigestFixes ==
    ASSUME NEW d, NEW e, sha3(d) = sha3(e)
    PROVE  d = e
<1>1. <<"sha3", d>> = <<"sha3", e>>
  BY Zenon DEF sha3
<1>2. <<"sha3", d>>[2] = d /\ <<"sha3", e>>[2] = e
  OBVIOUS
<1> QED BY <1>1, <1>2

\* The fields of a signature are those of one signing.
LEMMA SignatureParts ==
    ASSUME NEW d, NEW k, NEW e, NEW j, generate_signature(sha3(d), k) = generate_signature(sha3(e), j)
    PROVE  d = e /\ k = j
<1> DEFINE x == sha3(d)
           y == sha3(e)
<1>1. x = y /\ k = j
  <2> HIDE DEF x, y
  <2> QED BY DEF generate_signature, x, y
<1> QED BY <1>1, DigestFixes

\* Inserting a vote keeps the map well formed and its signatures known.
LEMMA InsertedOK ==
    ASSUME NEW votes, VotesOK(votes), NEW k, NEW s, NEW K, s \in K, \A x \in DOMAIN votes : votes[x] \in K
    PROVE  VotesOK(inserted(votes, k, s)) /\ \A x \in DOMAIN inserted(votes, k, s) : inserted(votes, k, s)[x] \in K
<1> DEFINE D == DOMAIN votes \cup {k}
           m == inserted(votes, k, s)
<1>1. m = [x \in D |-> IF x \in DOMAIN votes THEN votes[x] ELSE s]
  BY Zenon DEF inserted
<1>2. IsFiniteSet(D)
  <2>1. IsFiniteSet(DOMAIN votes)
    BY Zenon DEF VotesOK
  <2> QED BY <2>1, FS_AddElement
<1> HIDE DEF m, D
<1>3. DOMAIN m = D /\ m = [x \in DOMAIN m |-> m[x]]
  BY <1>1
<1>4. \A x \in DOMAIN m : m[x] \in K
  BY <1>1, <1>3
<1>5. VotesOK(m)
  BY <1>2, <1>3, Zenon DEF VotesOK
<1> QED BY <1>4, <1>5 DEF m

\* A block put together from good parts.
LEMMA BuiltGood ==
    ASSUME NEW S, NEW header, NEW reward, NEW transactions, NEW public_key, NEW sig, NEW votes,
           PartsOK(reward, transactions, votes),
           sig \in Known(S), \A x \in DOMAIN votes : votes[x] \in Known(S)
    PROVE  Good(Block(header, reward, transactions, public_key, sig, votes), S)
<1> DEFINE b == Block(header, reward, transactions, public_key, sig, votes)
<1>1. BlockOK(b) /\ b.producer_signature = sig /\ b.validator_signatures = votes
  BY BuiltOK
<1> HIDE DEF b
<1>2. Good(b, S)
  BY <1>1, Zenon DEF Good
<1> QED BY <1>2 DEF b

\* What is written of a good block is a good block.
LEMMA WrittenGood ==
    ASSUME NEW S, NEW b, Good(b, S)
    PROVE  Good(AsWritten(b), S)
<1>1. CASE has_producer(b)
  BY <1>1, WrittenMaker
<1>2. CASE ~has_producer(b)
  <2>1. /\ PartsOK(b.reward_tx, b.transactions, b.validator_signatures) /\ Z \in Known(S)
        /\ \A x \in DOMAIN b.validator_signatures : b.validator_signatures[x] \in Known(S)
    BY Zenon DEF Good, BlockOK, ContentOK, PartsOK, Known
  <2>2. Good(Block(b, b.reward_tx, b.transactions, Z, Z, b.validator_signatures), S)
    BY <2>1, BuiltGood
  <2> QED BY <1>2, <2>2, WrittenMaker, Zenon
<1> QED BY <1>1, <1>2

\* The new blocks satisfy the invariant.
LEMMA BlockInitInv == BlockInit => BlockInv
<1> SUFFICES ASSUME BlockInit PROVE BlockInv
  OBVIOUS
<1> DEFINE r == FirstStaker
<1>1. blk = [p \in Nodes |-> Block(NewHeader, r, {}, Z, Z, <<>>)]
  BY Zenon DEF BlockInit
<1>2. RewardOK(r)
  BY StakerOK
<1> HIDE DEF r
<1> DEFINE b == Block(NewHeader, r, {}, Z, Z, <<>>)
<1>3. Good(b, sigs)
  <2> DEFINE e == <<>>
  <2>1. DOMAIN e = {} /\ e = [k \in DOMAIN e |-> e[k]]
    OBVIOUS
  <2>2. IsFiniteSet({})
    BY FS_EmptySet
  <2> HIDE DEF e
  <2>3. VotesOK(e) /\ (\A x \in DOMAIN e : e[x] \in Known(sigs)) /\ Z \in Known(sigs)
    BY <2>1, <2>2, Zenon DEF VotesOK, Known
  <2>4. PartsOK(r, {}, e)
    BY <1>2, <2>2, <2>3, Zenon DEF PartsOK
  <2>5. Good(Block(NewHeader, r, {}, Z, Z, e), sigs)
    BY <2>3, <2>4, BuiltGood
  <2> QED BY <2>5 DEF e
<1> HIDE DEF b
<1>4. CopiesOK(blk, sigs)
  <2>1. blk = [p \in Nodes |-> b]
    BY <1>1 DEF b
  <2>2. blk = [p \in Nodes |-> blk[p]] /\ \A p \in Nodes : blk[p] = b
    BY <2>1
  <2> QED BY <1>3, <2>2, Zenon DEF CopiesOK
<1>5. sigs = {} /\ copy = NoCopy
  BY DEF BlockInit
<1>6. ~NoCopy.got.ok /\ NoCopy.form # "bytes"
  BY DEF NoCopy, Thrown
<1>7. ArrivalOK(copy.got, sigs) /\ BlockReadBack
  BY <1>5, <1>6, Zenon DEF ArrivalOK, BlockReadBack
<1>8. \A v \in sigs : Made(v, sigs, signed)
  BY <1>5, Zenon
<1> QED BY <1>4, <1>7, <1>8 DEF BlockInv

\* Nothing more is known of a node's copy.
LEMMA GoodParts ==
    ASSUME BlockInv, NEW p \in Nodes
    PROVE  /\ Good(blk[p], sigs) /\ BlockOK(blk[p]) /\ ContentOK(blk[p])
           /\ PartsOK(blk[p].reward_tx, blk[p].transactions, blk[p].validator_signatures)
           /\ blk[p].producer_signature \in Known(sigs)
           /\ \A x \in DOMAIN blk[p].validator_signatures : blk[p].validator_signatures[x] \in Known(sigs)
           /\ blk = [q \in Nodes |-> blk[q]]
<1>1. Good(blk[p], sigs) /\ blk = [q \in Nodes |-> blk[q]]
  BY Zenon DEF BlockInv, CopiesOK
<1>2. BlockOK(blk[p])
  BY <1>1, Zenon DEF Good
<1>3. PartsOK(blk[p].reward_tx, blk[p].transactions, blk[p].validator_signatures) /\ ContentOK(blk[p])
  BY <1>2, Zenon DEF BlockOK, ContentOK, PartsOK
<1> QED BY <1>1, <1>2, <1>3, Zenon DEF Good

\* append_transaction_hash keeps the invariant: the signatures of the copy were
\* made all the same, if of another content.
LEMMA AppendTransactionInv ==
    ASSUME BlockInv, NEW p \in Nodes, NEW h, append_transaction_hash(p, h)
    PROVE  BlockInv'
<1> DEFINE b == blk[p]
           t == b.transactions \cup {h}
           d == Block(b, b.reward_tx, t, b.producer_public_key, b.producer_signature, b.validator_signatures)
<1>1. /\ Good(b, sigs) /\ BlockOK(b) /\ b.producer_signature \in Known(sigs)
      /\ PartsOK(b.reward_tx, b.transactions, b.validator_signatures)
      /\ \A x \in DOMAIN b.validator_signatures : b.validator_signatures[x] \in Known(sigs)
      /\ blk = [q \in Nodes |-> blk[q]]
  BY GoodParts
<1>2. blk' = [blk EXCEPT ![p] = d]
  <2>1. blk' = [blk EXCEPT ![p].transactions = @ \cup {h}]
    BY DEF append_transaction_hash
  <2>2. TransactionAdded(blk, p, h)
    BY <1>1, BlockChanges
  <2> QED BY <2>1, <2>2, Zenon DEF TransactionAdded
<1>3. sigs' = sigs /\ signed' = signed /\ copy' = copy
  BY DEF append_transaction_hash
<1> HIDE DEF b
<1>4. PartsOK(b.reward_tx, t, b.validator_signatures)
  <2>1. IsFiniteSet(b.transactions)
    BY <1>1, Zenon DEF PartsOK
  <2>2. IsFiniteSet(t)
    BY <2>1, FS_AddElement
  <2> QED BY <1>1, <2>2, Zenon DEF PartsOK
<1>5. Good(d, sigs)
  <2> HIDE DEF t
  <2> QED BY <1>1, <1>4, BuiltGood
<1> HIDE DEF d
<1>6. CopiesOK(blk, sigs) /\ sigs \subseteq sigs
  BY DEF BlockInv
<1>7. CopiesOK([blk EXCEPT ![p] = d], sigs)
  BY <1>5, <1>6, CopyReplaced
<1>8. CopiesOK(blk', sigs')
  BY <1>2, <1>3, <1>7, Zenon
<1> QED BY <1>3, <1>8 DEF BlockInv, BlockReadBack

\* A copy whose members are assigned stays good, if of another content or with
\* signatures of another block.
LEMMA AssignedInv ==
    ASSUME BlockInv, NEW p \in Nodes, NEW b, assign_member(p, b), Good(b, sigs)
    PROVE  BlockInv'
<1>1. blk' = [blk EXCEPT ![p] = b] /\ sigs' = sigs /\ signed' = signed /\ copy' = copy
  BY DEF assign_member
<1>2. CopiesOK(blk, sigs) /\ sigs \subseteq sigs
  BY DEF BlockInv
<1>3. CopiesOK([blk EXCEPT ![p] = b], sigs)
  BY <1>2, CopyReplaced
<1>4. CopiesOK(blk', sigs')
  BY <1>1, <1>3, Zenon
<1> QED BY <1>1, <1>4 DEF BlockInv, BlockReadBack

\* Assigning a member keeps the invariant, whichever it is.
LEMMA AssignMemberInv ==
    ASSUME BlockInv, NEW p \in Nodes,
           \/ \E n \in DOMAIN Header : assign_header(p, n)
           \/ \E r \in Rewards : assign_reward_tx(p, r)
           \/ \E k \in Keys : assign_producer_public_key(p, k)
           \/ \E s \in Assignable(sigs) : assign_producer_signature(p, s)
    PROVE  BlockInv'
<1> DEFINE b == blk[p]
           made(h, r, k, s) == Block(h, r, b.transactions, k, s, b.validator_signatures)
<1>1. /\ PartsOK(b.reward_tx, b.transactions, b.validator_signatures)
      /\ b.producer_signature \in Known(sigs)
      /\ \A x \in DOMAIN b.validator_signatures : b.validator_signatures[x] \in Known(sigs)
  BY GoodParts
<1>2. PICK h, r, k, s : /\ assign_member(p, made(h, r, k, s))
                        /\ r = b.reward_tx \/ r \in Rewards
                        /\ s = b.producer_signature \/ s \in Assignable(sigs)
  BY Zenon DEF assign_header, assign_reward_tx, assign_producer_public_key, assign_producer_signature
<1>3. PartsOK(r, b.transactions, b.validator_signatures)
  <2>1. RewardOK(Genesis) /\ RewardOK(FirstStaker)
    BY GenesisOK, StakerOK
  <2> QED BY <1>1, <1>2, <2>1, Zenon DEF PartsOK, Rewards
<1>4. s \in Known(sigs)
  BY <1>1, <1>2 DEF Known
<1> HIDE DEF b
<1>5. Good(made(h, r, k, s), sigs)
  BY <1>1, <1>3, <1>4, BuiltGood
<1> HIDE DEF made
<1> QED BY <1>2, <1>5, AssignedInv

\* The content that is signed, as the record of the signing keeps it.
LEMMA SignedContent ==
    ASSUME BlockInv, NEW p \in Nodes
    PROVE  /\ ContentOK(Content(blk[p])) /\ Content(blk[p]) = Content(Content(blk[p]))
           /\ content(Content(blk[p])) = content(blk[p])
BY GoodParts, ContentOnly

ProducerSigned(b, k) == [key |-> k, role |-> "producer", content |-> Content(b), producer |-> k]
ValidatorSigned(b, k) ==
    [key |-> k, role |-> "validator", content |-> Content(b), producer |-> b.producer_public_key]
Handed(k, s) == [public_key |-> k, signature |-> s]

\* producer_sign keeps the invariant: what it adds to sigs is in signed.
LEMMA ProducerSignInv ==
    ASSUME BlockInv, NEW p \in Nodes, NEW k \in Keys, producer_sign(p, k)
    PROVE  BlockInv'
<1> DEFINE b == blk[p]
           s == generate_signature(message_digest(b, BLOCK_DIGEST_PRODUCER), k)
           v == Handed(k, s)
           r == ProducerSigned(b, k)
           d == Block(b, b.reward_tx, b.transactions, k, s, b.validator_signatures)
<1>1. /\ Good(b, sigs) /\ BlockOK(b)
      /\ PartsOK(b.reward_tx, b.transactions, b.validator_signatures)
      /\ \A x \in DOMAIN b.validator_signatures : b.validator_signatures[x] \in Known(sigs)
      /\ blk = [q \in Nodes |-> blk[q]]
  BY GoodParts
<1>2. blk' = [blk EXCEPT ![p] = d]
  <2>1. blk' = [blk EXCEPT ![p].producer_public_key = k, ![p].producer_signature = s]
    BY Zenon DEF producer_sign
  <2> HIDE DEF s
  <2>2. ProducerSet(blk, p, k, s)
    BY <1>1, BlockChanges
  <2> QED BY <2>1, <2>2, Zenon DEF ProducerSet
<1>3. sigs' = sigs \cup {v} /\ signed' = signed \cup {r} /\ copy' = copy
  BY Zenon DEF producer_sign, Handed, ProducerSigned
<1>4. s = generate_signature(sha3(content(b)), k)
  BY Signed, Zenon
<1>5. v.public_key = k /\ v.signature = s
  BY DEF Handed
<1>6. r.content = Content(b) /\ r = [key |-> k, role |-> "producer", content |-> r.content, producer |-> k]
  BY DEF ProducerSigned
<1>7. /\ ContentOK(Content(b)) /\ Content(b) = Content(Content(b)) /\ content(Content(b)) = content(b)
  BY SignedContent
<1> HIDE DEF b, s, v, r
<1>8. Made(v, sigs', signed')
  <2>1. ProducerMade(v, r)
    BY <1>4, <1>5, <1>6, <1>7, Zenon DEF ProducerMade
  <2>2. r \in signed'
    BY <1>3, Zenon
  <2> QED BY <1>6, <1>7, <2>1, <2>2, Zenon DEF Made
<1>9. sigs \subseteq sigs' /\ signed \subseteq signed'
  BY <1>3
<1>10. \A x \in sigs' : Made(x, sigs', signed')
  <2>1. \A x \in sigs : Made(x, sigs, signed)
    BY Zenon DEF BlockInv
  <2>2. \A x \in sigs : Made(x, sigs', signed')
    BY <1>9, <2>1, MadeMore
  <2> QED BY <1>3, <1>8, <2>2, Zenon
<1>11. Known(sigs) \subseteq Known(sigs') /\ s \in Known(sigs')
  BY <1>3, <1>5 DEF Known, Assignable
<1>12. Good(d, sigs')
  <2>2. PartsOK(b.reward_tx, b.transactions, b.validator_signatures)
    BY <1>1, Zenon DEF PartsOK
  <2>3. \A x \in DOMAIN b.validator_signatures : b.validator_signatures[x] \in Known(sigs')
    BY <1>1, <1>11
  <2> QED BY <1>11, <2>2, <2>3, BuiltGood
<1> HIDE DEF d
<1>13. CopiesOK(blk', sigs')
  <2>1. CopiesOK(blk, sigs)
    BY Zenon DEF BlockInv
  <2>2. CopiesOK([blk EXCEPT ![p] = d], sigs')
    BY <1>9, <1>12, <2>1, CopyReplaced
  <2> QED BY <1>2, <2>2, Zenon
<1>14. ArrivalOK(copy'.got, sigs')
  <2>1. ArrivalOK(copy.got, sigs)
    BY Zenon DEF BlockInv
  <2> QED BY <1>3, <1>9, <2>1, GoodMore DEF ArrivalOK
<1>15. BlockReadBack'
  BY <1>3 DEF BlockInv, BlockReadBack
<1> QED BY <1>10, <1>13, <1>14, <1>15 DEF BlockInv

\* validator_sign keeps the invariant: what it adds to sigs is in signed.
LEMMA ValidatorSignInv ==
    ASSUME BlockInv, NEW p \in Nodes, NEW k \in Keys, validator_sign(p, k)
    PROVE  BlockInv'
<1> DEFINE b == blk[p]
           s == generate_signature(message_digest(b, BLOCK_DIGEST_VALIDATOR), k)
           v == Handed(k, s)
           r == ValidatorSigned(b, k)
           m == inserted(b.validator_signatures, k, s)
           d == Block(b, b.reward_tx, b.transactions, b.producer_public_key, b.producer_signature, m)
<1>1. /\ Good(b, sigs) /\ BlockOK(b) /\ b.producer_signature \in Known(sigs)
      /\ PartsOK(b.reward_tx, b.transactions, b.validator_signatures)
      /\ \A x \in DOMAIN b.validator_signatures : b.validator_signatures[x] \in Known(sigs)
      /\ blk = [q \in Nodes |-> blk[q]]
  BY GoodParts
<1>2. blk' = [blk EXCEPT ![p] = d]
  <2>1. blk' = [blk EXCEPT ![p].validator_signatures = inserted(@, k, s)]
    BY Zenon DEF validator_sign
  <2> HIDE DEF s
  <2>2. VoteAdded(blk, p, k, s)
    BY <1>1, BlockChanges
  <2> QED BY <2>1, <2>2, Zenon DEF VoteAdded
<1>3. sigs' = sigs \cup {v} /\ signed' = signed \cup {r} /\ copy' = copy
  BY Zenon DEF validator_sign, Handed, ValidatorSigned
<1>4. s = generate_signature(sha3(content(b) \o producer(b)), k)
  BY Signed, Zenon
<1>5. v.public_key = k /\ v.signature = s
  BY DEF Handed
<1>6. /\ r.content = Content(b) /\ r.producer = b.producer_public_key
      /\ r = [key |-> k, role |-> "validator", content |-> r.content, producer |-> r.producer]
  BY DEF ValidatorSigned
<1>7. /\ ContentOK(Content(b)) /\ Content(b) = Content(Content(b)) /\ content(Content(b)) = content(b)
  BY SignedContent
<1> HIDE DEF b, s, v, r
<1>8. Known(sigs) \subseteq Known(sigs') /\ s \in Known(sigs')
  BY <1>3, <1>5 DEF Known, Assignable
<1>9. Made(v, sigs', signed')
  <2> DEFINE q == b.producer_signature
  <2>1. producer(Maker(r.producer, q)) = producer(b)
    BY <1>6, MakerOnly, Zenon
  <2>2. q \in Known(sigs')
    BY <1>1, <1>8
  <2>3. v.signature = generate_signature(sha3(content(r.content) \o producer(Maker(r.producer, q))), v.public_key)
    BY <1>4, <1>5, <1>6, <1>7, <2>1, Zenon
  <2> HIDE DEF q
  <2>4. ValidatorMade(v, r, sigs')
    BY <1>5, <1>6, <2>2, <2>3, Zenon DEF ValidatorMade
  <2>5. r \in signed'
    BY <1>3, Zenon
  <2> QED BY <1>6, <1>7, <2>4, <2>5, Zenon DEF Made
<1>10. sigs \subseteq sigs' /\ signed \subseteq signed'
  BY <1>3
<1>11. \A x \in sigs' : Made(x, sigs', signed')
  <2>1. \A x \in sigs : Made(x, sigs, signed)
    BY Zenon DEF BlockInv
  <2>2. \A x \in sigs : Made(x, sigs', signed')
    BY <1>10, <2>1, MadeMore
  <2> QED BY <1>3, <1>9, <2>2, Zenon
<1>12. Good(d, sigs')
  <2>1. VotesOK(b.validator_signatures) /\ \A x \in DOMAIN b.validator_signatures : b.validator_signatures[x] \in Known(sigs')
    BY <1>1, <1>8 DEF PartsOK
  <2>2. VotesOK(m) /\ \A x \in DOMAIN m : m[x] \in Known(sigs')
    BY <1>8, <2>1, InsertedOK
  <2> HIDE DEF m
  <2>3. PartsOK(b.reward_tx, b.transactions, m)
    BY <1>1, <2>2, Zenon DEF PartsOK
  <2>4. b.producer_signature \in Known(sigs')
    BY <1>1, <1>8
  <2> QED BY <2>2, <2>3, <2>4, BuiltGood
<1> HIDE DEF d
<1>13. CopiesOK(blk', sigs')
  <2>1. CopiesOK(blk, sigs)
    BY Zenon DEF BlockInv
  <2>2. CopiesOK([blk EXCEPT ![p] = d], sigs')
    BY <1>10, <1>12, <2>1, CopyReplaced
  <2> QED BY <1>2, <2>2, Zenon
<1>14. ArrivalOK(copy'.got, sigs')
  <2>1. ArrivalOK(copy.got, sigs)
    BY Zenon DEF BlockInv
  <2> QED BY <1>3, <1>10, <2>1, GoodMore DEF ArrivalOK
<1>15. BlockReadBack'
  BY <1>3 DEF BlockInv, BlockReadBack
<1> QED BY <1>11, <1>13, <1>14, <1>15 DEF BlockInv

\* append_validator_signature keeps the invariant.
LEMMA AppendSignatureInv ==
    ASSUME BlockInv, NEW p \in Nodes, NEW v \in sigs, append_validator_signature(p, v)
    PROVE  BlockInv'
<1> DEFINE b == blk[p]
           k == v.public_key
           s == v.signature
           m == inserted(b.validator_signatures, k, s)
           d == Block(b, b.reward_tx, b.transactions, b.producer_public_key, b.producer_signature, m)
<1>1. /\ Good(b, sigs) /\ BlockOK(b) /\ b.producer_signature \in Known(sigs)
      /\ PartsOK(b.reward_tx, b.transactions, b.validator_signatures)
      /\ \A x \in DOMAIN b.validator_signatures : b.validator_signatures[x] \in Known(sigs)
      /\ blk = [q \in Nodes |-> blk[q]]
  BY GoodParts
<1>2. blk' = [blk EXCEPT ![p] = d]
  <2>1. blk' = [blk EXCEPT ![p].validator_signatures = inserted(@, k, s)]
    BY Zenon DEF append_validator_signature
  <2> HIDE DEF s, k
  <2>2. VoteAdded(blk, p, k, s)
    BY <1>1, BlockChanges
  <2> QED BY <2>1, <2>2, Zenon DEF VoteAdded
<1>3. sigs' = sigs /\ signed' = signed /\ copy' = copy
  BY DEF append_validator_signature
<1>4. s \in Known(sigs)
  BY Zenon DEF Known, Assignable
<1> HIDE DEF b, k, s
<1>5. Good(d, sigs)
  <2>1. VotesOK(b.validator_signatures)
    BY <1>1 DEF PartsOK
  <2>2. VotesOK(m) /\ \A x \in DOMAIN m : m[x] \in Known(sigs)
    BY <1>1, <1>4, <2>1, InsertedOK
  <2> HIDE DEF m
  <2>3. PartsOK(b.reward_tx, b.transactions, m)
    BY <1>1, <2>2, Zenon DEF PartsOK
  <2> QED BY <1>1, <2>2, <2>3, BuiltGood
<1> HIDE DEF d
<1>6. CopiesOK(blk, sigs) /\ sigs \subseteq sigs
  BY DEF BlockInv
<1>7. CopiesOK([blk EXCEPT ![p] = d], sigs)
  BY <1>5, <1>6, CopyReplaced
<1>8. CopiesOK(blk', sigs')
  BY <1>2, <1>3, <1>7, Zenon
<1> QED BY <1>3, <1>8 DEF BlockInv, BlockReadBack

\* The lengths at which what is left of a copy would be read: none.
LEMMA NoneShorter ==
    ASSUME NEW b, BlockOK(b)
    PROVE  LET data == block_serialize(b, BLOCK_DIGEST_FULL)
           IN  /\ block_deserialize(data) = [ok |-> TRUE, in |-> <<>>, out |-> AsWritten(b)]
               /\ {n \in 0..(Len(data) - 1) : block_deserialize(SubSeq(data, 1, n)).ok} = {}
<1> DEFINE data == block_serialize(b, BLOCK_DIGEST_FULL)
<1>1. IsSequence(data)
  BY BlockBytes, Zenon
<1>2. ASSUME NEW x, Within(x, data)
      PROVE  IF Len(x) = Len(data)
             THEN block_deserialize(x) = [ok |-> TRUE, in |-> <<>>, out |-> AsWritten(b)]
             ELSE ~block_deserialize(x).ok
  BY <1>2, BlockRead
<1> HIDE DEF data
<1>3. block_deserialize(data) = [ok |-> TRUE, in |-> <<>>, out |-> AsWritten(b)]
  BY <1>1, <1>2, WithinItself, Zenon
<1>4. PICK S : data \in Seq(S)
  BY <1>1 DEF IsSequence
<1>5. Len(data) \in Nat
  BY <1>4, LenProperties
<1>6. ASSUME NEW n \in 0..(Len(data) - 1) PROVE ~block_deserialize(SubSeq(data, 1, n)).ok
  <2> DEFINE x == SubSeq(data, 1, n)
             L == Len(data)
  <2>1. n \in Nat /\ n <= L /\ n # L /\ 1 \in Nat
    BY <1>5
  <2>2. /\ x \in Seq(S) /\ Len(x) = n /\ \A i \in 1..n : x[i] = data[i]
    BY <1>4, <1>5, <2>1
  <2> HIDE DEF x
  <2>3. Len(x) <= Len(data) /\ Len(x) # Len(data)
    BY <2>1, <2>2
  <2>4. IsSequence(x) /\ Agree(x, data)
    BY <2>2, Zenon DEF IsSequence, Agree
  <2>5. Within(x, data)
    BY <1>1, <2>3, <2>4 DEF Within
  <2>6. ~block_deserialize(x).ok
    BY <1>2, <2>3, <2>5, Zenon
  <2> QED BY <2>6 DEF x
<1>7. {n \in 0..(Len(data) - 1) : block_deserialize(SubSeq(data, 1, n)).ok} = {}
  BY <1>6, Zenon
<1> QED BY <1>3, <1>7 DEF data

\* Sending a copy as bytes keeps the invariant.
LEMMA SendBytesInv ==
    ASSUME BlockInv, NEW p \in Nodes, send_bytes(p)
    PROVE  BlockInv'
<1> DEFINE b == blk[p]
           data == block_serialize(b, BLOCK_DIGEST_FULL)
           arrival == block_deserialize(data)
           cut == {n \in 0..(Len(data) - 1) : block_deserialize(SubSeq(data, 1, n)).ok}
<1>1. Good(AsWritten(b), sigs) /\ BlockOK(b)
  BY GoodParts, WrittenGood
<1>2. copy' = [form |-> "bytes", of |-> b, got |-> arrival, cut |-> cut] /\ blk' = blk /\ sigs' = sigs /\ signed' = signed
  BY DEF send_bytes
<1>3. arrival = [ok |-> TRUE, in |-> <<>>, out |-> AsWritten(b)] /\ cut = {}
  BY <1>1, NoneShorter
<1> HIDE DEF b, arrival, cut
<1>4. arrival.ok /\ arrival.in = <<>> /\ arrival.out = AsWritten(b)
  BY <1>3
<1>5. copy'.form = "bytes" /\ copy'.of = b /\ copy'.got = arrival /\ copy'.cut = cut
  BY <1>2
<1>6. ArrivalOK(copy'.got, sigs')
  BY <1>1, <1>2, <1>4, <1>5, Zenon DEF ArrivalOK
<1>7. BlockReadBack'
  BY <1>3, <1>4, <1>5, Zenon DEF BlockReadBack
<1> QED BY <1>2, <1>6, <1>7 DEF BlockInv

\* Sending a copy as JSON keeps the invariant: its votes are signatures that
\* were made, if not by those keys.
LEMMA SendJsonInv ==
    ASSUME BlockInv, NEW p \in Nodes, send_JSON(p)
    PROVE  BlockInv'
<1> DEFINE b == blk[p]
           arrival == block_fromJSON(block_toJSON(b))
<1>1. /\ Good(b, sigs) /\ BlockOK(b) /\ b.producer_signature \in Known(sigs)
      /\ PartsOK(b.reward_tx, b.transactions, b.validator_signatures)
  BY GoodParts
<1> DEFINE a == AsWritten(b)
<1>a. a.producer_signature \in Known(sigs)
  BY <1>1, WrittenGood, Zenon DEF Good
<1>2. copy' = [form |-> "json", of |-> b, got |-> arrival, cut |-> {}] /\ blk' = blk /\ sigs' = sigs /\ signed' = signed
  BY DEF send_JSON
<1>3. JsonCopy(b, arrival.out)
  BY <1>1, BlockJson
<1> HIDE DEF b, arrival, a
<1>4. PICK m : /\ VotesOK(m) /\ (\A x \in DOMAIN m : m[x] = b.producer_signature)
               /\ arrival.out = Block(b, b.reward_tx, b.transactions, a.producer_public_key,
                                      a.producer_signature, m)
  BY <1>3, Zenon DEF JsonCopy, a
<1>5. Good(arrival.out, sigs)
  <2>1. PartsOK(b.reward_tx, b.transactions, m)
    BY <1>1, <1>4, Zenon DEF PartsOK
  <2>2. \A x \in DOMAIN m : m[x] \in Known(sigs)
    BY <1>1, <1>4, Zenon
  <2>3. Good(Block(b, b.reward_tx, b.transactions, a.producer_public_key, a.producer_signature, m), sigs)
    BY <1>a, <2>1, <2>2, BuiltGood
  <2> QED BY <1>4, <2>3, Zenon
<1>6. copy'.form = "json" /\ copy'.got = arrival
  BY <1>2
<1>7. ArrivalOK(copy'.got, sigs')
  BY <1>2, <1>5, <1>6, Zenon DEF ArrivalOK
<1>8. copy'.form # "bytes"
  BY <1>6
<1>9. BlockReadBack'
  BY <1>8, Zenon DEF BlockReadBack
<1> QED BY <1>2, <1>7, <1>9 DEF BlockInv

\* Taking over a copy that arrived keeps the invariant.
LEMMA TakeInv ==
    ASSUME BlockInv, NEW p \in Nodes, take(p)
    PROVE  BlockInv'
<1>1. /\ blk' = (IF copy.got.ok THEN [blk EXCEPT ![p] = copy.got.out] ELSE blk)
      /\ copy' = NoCopy /\ sigs' = sigs /\ signed' = signed
  BY DEF take
<1>2. CopiesOK(blk, sigs) /\ ArrivalOK(copy.got, sigs) /\ sigs \subseteq sigs
  BY DEF BlockInv
<1>3. CopiesOK(blk', sigs')
  <2>1. CASE copy.got.ok
    <3> DEFINE b == copy.got.out
    <3>1. Good(b, sigs)
      BY <1>2, <2>1, Zenon DEF ArrivalOK
    <3> HIDE DEF b
    <3>2. CopiesOK([blk EXCEPT ![p] = b], sigs)
      BY <1>2, <3>1, CopyReplaced
    <3> QED BY <1>1, <2>1, <3>2, Zenon DEF b
  <2>2. CASE ~copy.got.ok
    BY <1>1, <1>2, <2>2, Zenon
  <2> QED BY <2>1, <2>2
<1>4. ~NoCopy.got.ok /\ NoCopy.form # "bytes"
  BY DEF NoCopy, Thrown
<1>5. ArrivalOK(copy'.got, sigs') /\ BlockReadBack'
  BY <1>1, <1>4, Zenon DEF ArrivalOK, BlockReadBack
<1> QED BY <1>1, <1>3, <1>5 DEF BlockInv

\* Every step keeps the invariant.
LEMMA BlockNextInv == BlockInv /\ [BlockNext]_block_vars => BlockInv'
<1> SUFFICES ASSUME BlockInv, [BlockNext]_block_vars PROVE BlockInv'
  OBVIOUS
<1>1. CASE BlockNext
  <2>1. PICK p \in Nodes :
          \/ \E h \in Hashes : append_transaction_hash(p, h)
          \/ \E k \in Keys : producer_sign(p, k)
          \/ \E k \in Keys : validator_sign(p, k)
          \/ \E v \in sigs : append_validator_signature(p, v)
          \/ \/ \E n \in DOMAIN Header : assign_header(p, n)
             \/ \E r \in Rewards : assign_reward_tx(p, r)
             \/ \E k \in Keys : assign_producer_public_key(p, k)
             \/ \E s \in Assignable(sigs) : assign_producer_signature(p, s)
          \/ send_bytes(p)
          \/ send_JSON(p)
          \/ take(p)
    BY <1>1, Zenon DEF BlockNext
  <2> QED BY <2>1, AppendTransactionInv, ProducerSignInv, ValidatorSignInv, AppendSignatureInv,
             AssignMemberInv, SendBytesInv, SendJsonInv, TakeInv
<1>2. CASE UNCHANGED block_vars
  BY <1>2 DEF block_vars, BlockInv, BlockReadBack
<1> QED BY <1>1, <1>2

\* The invariant holds in every behaviour.
LEMMA BlockAlwaysInv == BlockSpec => []BlockInv
<1> QED BY BlockInitInv, BlockNextInv, PTL DEF BlockSpec

-----------------------------------------------------------------------------
(* The properties *)

\* A copy that arrives whole as bytes is the block that was sent, but for half a
\* producer, and cut short anywhere deserialize refuses it: for every set of
\* nodes, keys and hashes and every sequence of calls.
THEOREM BlockReadBackHolds == BlockSpec => []BlockReadBack
<1>1. BlockInv => BlockReadBack
  BY DEF BlockInv
<1> QED BY <1>1, BlockAlwaysInv, PTL

\* The hash of a block (BLOCK_DIGEST_FULL) fixes what is written of the block,
\* signatures included: it can be the key under which blocks are stored and found.
LEMMA InvFixes == BlockInv => HashFixesBlock
<1> SUFFICES ASSUME BlockInv, NEW p \in Nodes, NEW q \in Nodes, hash(blk[p]) = hash(blk[q])
             PROVE  AsWritten(blk[p]) = AsWritten(blk[q])
  BY DEF HashFixesBlock
<1> DEFINE b == blk[p]
           c == blk[q]
           d == block_serialize(b, BLOCK_DIGEST_FULL)
           e == block_serialize(c, BLOCK_DIGEST_FULL)
<1>1. BlockOK(b) /\ BlockOK(c)
  BY GoodParts
<1>2. d = e
  <2>1. sha3(d) = sha3(e)
    BY Zenon DEF hash, message_digest
  <2> HIDE DEF d, e
  <2> QED BY <2>1, DigestFixes
<1>3. /\ block_deserialize(d) = [ok |-> TRUE, in |-> <<>>, out |-> AsWritten(b)]
      /\ block_deserialize(e) = [ok |-> TRUE, in |-> <<>>, out |-> AsWritten(c)]
  BY <1>1, NoneShorter
<1> HIDE DEF b, c, d, e
<1>4. block_deserialize(d).out = AsWritten(b) /\ block_deserialize(e).out = AsWritten(c)
  BY <1>3
<1>5. AsWritten(b) = AsWritten(c)
  BY <1>2, <1>4, Zenon
<1> QED BY <1>5 DEF b, c

\* Copies with one hash are written as one block, signatures included, whatever
\* was done to them: hash takes the digest of all that deserialize reads back.
THEOREM HashFixesBlockHolds == BlockSpec => []HashFixesBlock
BY InvFixes, BlockAlwaysInv, PTL

\* A signature that fits a producer's digest, or a validator's, comes from the
\* signing it says it comes from.
LEMMA ProducerGenuine ==
    ASSUME NEW b, ContentOK(b), NEW k, NEW S, NEW R, NEW v, Made(v, S, R),
           v.signature = generate_signature(sha3(content(b)), k)
    PROVE  [key |-> k, role |-> "producer", content |-> Content(b), producer |-> k] \in R
<1>1. PICK r \in R : /\ ContentOK(r.content) /\ r.content = Content(r.content)
                     /\ ProducerMade(v, r) \/ ValidatorMade(v, r, S)
  BY Zenon DEF Made
<1>2. CASE ProducerMade(v, r)
  <2>1. /\ r = [key |-> v.public_key, role |-> "producer", content |-> r.content, producer |-> v.public_key]
        /\ v.signature = generate_signature(sha3(content(r.content)), v.public_key)
    BY <1>2, Zenon DEF ProducerMade
  <2> DEFINE x == content(b)
             c == r.content
             y == content(c)
  <2>2. x = y /\ k = v.public_key
    <3>1. generate_signature(sha3(x), k) = generate_signature(sha3(y), v.public_key)
      BY <2>1, Zenon
    <3> HIDE DEF x, y
    <3> QED BY <3>1, SignatureParts
  <2>3. Content(b) = Content(c)
    <3> DEFINE e == <<>>
    <3>1. SameBytes(b, e, c, e)
      BY <2>2, Zenon DEF SameBytes
    <3>2. IsSequence(e)
      BY ShortSequences
    <3> HIDE DEF e, c
    <3> QED BY <1>1, <3>1, <3>2, ContentFixed DEF c
  <2> QED BY <1>1, <2>1, <2>2, <2>3, Zenon
<1>3. CASE ValidatorMade(v, r, S)
  <2>1. PICK s : v.signature = generate_signature(sha3(content(r.content) \o producer(Maker(r.producer, s))),
                                                  v.public_key)
    BY <1>3, Zenon DEF ValidatorMade
  <2> DEFINE x == content(b)
             y == content(r.content) \o producer(Maker(r.producer, s))
  <2>2. x = y
    <3>1. generate_signature(sha3(x), k) = generate_signature(sha3(y), v.public_key)
      BY <2>1, Zenon
    <3> HIDE DEF x, y
    <3> QED BY <3>1, SignatureParts
  <2> QED BY <1>1, <2>2, RolesApart, Zenon
<1> QED BY <1>1, <1>2, <1>3

\* A signature that fits a block and its producer was made for that content
\* under that producer.
LEMMA ValidatorGenuine ==
    ASSUME NEW b, ContentOK(b), has_producer(b), NEW k, NEW S, NEW R, NEW v, Made(v, S, R),
           v.signature = generate_signature(sha3(content(b) \o producer(b)), k)
    PROVE  [key |-> k, role |-> "validator", content |-> Content(b), producer |-> b.producer_public_key] \in R
<1>1. PICK r \in R : /\ ContentOK(r.content) /\ r.content = Content(r.content)
                     /\ ProducerMade(v, r) \/ ValidatorMade(v, r, S)
  BY Zenon DEF Made
<1> DEFINE x == content(b) \o producer(b)
<1>2. CASE ProducerMade(v, r)
  <2>1. v.signature = generate_signature(sha3(content(r.content)), v.public_key)
    BY <1>2, Zenon DEF ProducerMade
  <2> DEFINE y == content(r.content)
  <2>2. y = x
    <3>1. generate_signature(sha3(y), v.public_key) = generate_signature(sha3(x), k)
      BY <2>1, Zenon
    <3> HIDE DEF x, y
    <3> QED BY <3>1, SignatureParts
  <2> QED BY <1>1, <2>2, RolesApart, Zenon
<1>3. CASE ValidatorMade(v, r, S)
  <2>1. PICK s : v.signature = generate_signature(sha3(content(r.content) \o producer(Maker(r.producer, s))),
                                                  v.public_key)
    BY <1>3, Zenon DEF ValidatorMade
  <2>2. r = [key |-> v.public_key, role |-> "validator", content |-> r.content, producer |-> r.producer]
    BY <1>3, Zenon DEF ValidatorMade
  <2> DEFINE c == r.content
             m == Maker(r.producer, s)
             y == content(c) \o producer(m)
  <2>3. x = y /\ k = v.public_key
    <3>1. generate_signature(sha3(x), k) = generate_signature(sha3(y), v.public_key)
      BY <2>1, Zenon
    <3> HIDE DEF x, y
    <3> QED BY <3>1, SignatureParts
  <2>4. Content(b) = Content(c) /\ producer(b) = producer(m)
    <3> DEFINE u == producer(b)
               w == producer(m)
    <3>1. SameBytes(b, u, c, w)
      BY <2>3, Zenon DEF SameBytes
    <3>2. IsSequence(u) /\ IsSequence(w)
      BY ProducerSomething
    <3> HIDE DEF u, w, c
    <3>3. Content(b) = Content(c) /\ u = w
      BY <1>1, <3>1, <3>2, ContentFixed DEF c
    <3> QED BY <3>3 DEF u, w
  <2>5. b.producer_public_key = r.producer
    <3>1. m.producer_public_key = r.producer
      BY DEF Maker
    <3>2. b.producer_public_key = m.producer_public_key
      BY <2>4, ProducerFixed
    <3> QED BY <3>1, <3>2, Zenon
  <2> QED BY <1>1, <2>2, <2>3, <2>4, <2>5, Zenon
<1> QED BY <1>1, <1>2, <1>3

\* The invariant says who signed a block that validate_construction accepts.
LEMMA InvSigned == BlockInv => ValidIsSigned
<1> SUFFICES ASSUME BlockInv, NEW p \in Nodes, validate_construction(blk[p])
             PROVE  /\ [key |-> blk[p].producer_public_key, role |-> "producer", content |-> Content(blk[p]),
                        producer |-> blk[p].producer_public_key] \in signed
                    /\ \A k \in DOMAIN blk[p].validator_signatures :
                          /\ [key |-> k, role |-> "validator", content |-> Content(blk[p]),
                              producer |-> blk[p].producer_public_key] \in signed
                          /\ k # blk[p].producer_public_key
  BY Zenon DEF ValidIsSigned
<1> DEFINE b == blk[p]
           pk == b.producer_public_key
           ps == b.producer_signature
           votes == b.validator_signatures
<1>1. ContentOK(b) /\ ps \in Known(sigs) /\ \A k \in DOMAIN votes : votes[k] \in Known(sigs)
  BY GoodParts
<1>2. \A v \in sigs : Made(v, sigs, signed)
  BY Zenon DEF BlockInv
<1>3. ps = generate_signature(sha3(content(b)), pk)
  BY Signed, Zenon DEF validate_construction, validate_producer_signature, check_signature
<1>4. /\ pk \notin DOMAIN votes /\ has_producer(b)
      /\ \A k \in DOMAIN votes : votes[k] = generate_signature(sha3(content(b) \o producer(b)), k)
  BY Signed, Zenon DEF validate_construction, validate_validator_signatures, can_digest, check_signature
<1>5. \A d, k : generate_signature(d, k) \in Known(sigs) => \E v \in sigs : v.signature = generate_signature(d, k)
  BY SignatureSomething, Zenon DEF Known, Assignable
<1>6. [key |-> pk, role |-> "producer", content |-> Content(b), producer |-> pk] \in signed
  <2>1. PICK v \in sigs : v.signature = generate_signature(sha3(content(b)), pk)
    BY <1>1, <1>3, <1>5, Zenon
  <2> HIDE DEF b, pk
  <2> QED BY <1>1, <1>2, <2>1, ProducerGenuine
<1>7. ASSUME NEW k \in DOMAIN votes
      PROVE  /\ [key |-> k, role |-> "validator", content |-> Content(b), producer |-> pk] \in signed
             /\ k # pk
  <2>1. PICK v \in sigs : v.signature = generate_signature(sha3(content(b) \o producer(b)), k)
    BY <1>1, <1>4, <1>5, <1>7, Zenon
  <2>2. [key |-> k, role |-> "validator", content |-> Content(b), producer |-> b.producer_public_key] \in signed
    <3> HIDE DEF b, pk, votes
    <3> QED BY <1>1, <1>2, <1>4, <2>1, ValidatorGenuine
  <2>3. k # pk
    BY <1>4, <1>7, Zenon
  <2> QED BY <2>2, <2>3
<1> QED BY <1>6, <1>7

\* A copy that validate_construction accepts was signed as it stands by its
\* producer, and by each validator after that producer: no signature from
\* before the last change, under another producer or in the other role passes.
THEOREM ValidIsSignedHolds == BlockSpec => []ValidIsSigned
BY InvSigned, BlockAlwaysInv, PTL
=============================================================================
