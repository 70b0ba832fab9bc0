----------------------------- MODULE SeqLemmas -----------------------------
(***************************************************************************)
(* Facts about minima, maxima, sequences and sums over finite sets that    *)
(* the proofs of the other modules rest on.  Nothing in here is about HTTP.*)
(***************************************************************************)
EXTENDS Integers, SequencesExt, SequenceTheorems, FiniteSetTheorems, WellFoundedInduction, TLAPS

\* A set of naturals that is not empty has a least element, and Min is it.
LEMMA MinOfNats ==
  ASSUME NEW T, T \subseteq Nat, T # {}
  PROVE  Min(T) \in T /\ \A y \in T : Min(T) <= y
<1>. DEFINE R == OpToRel(<, Nat)
<1>1. IsWellFoundedOn(R, Nat)
  BY NatLessThanWellFounded, Zenon
<1>2. \A a, b \in Nat : a < b => <<a, b>> \in R
  BY Zenon DEF OpToRel
<1>. HIDE DEF R
<1>3. PICK x \in T : \A y \in T : ~(<<y, x>> \in R)
  BY <1>1, WFMin, Zenon
<1>4. \A y \in T : ~(y < x)
  BY <1>2, <1>3, Zenon
<1>5. \A y \in T : x <= y
  BY <1>4
<1>. QED  BY <1>5, Zenon DEF Min

\* A set of naturals that is not empty and has a bound has a greatest
\* element, and Max is it.
LEMMA MaxOfNats ==
  ASSUME NEW T, NEW n \in Nat, T \subseteq 0 .. n, T # {}
  PROVE  Max(T) \in T /\ \A y \in T : Max(T) >= y
<1>. DEFINE U == {n - y : y \in T}
<1>1. U \subseteq Nat /\ U # {}
  <2>1. \A y \in T : n - y \in Nat
    OBVIOUS
  <2>. QED  BY <2>1, Zenon
<1>2. Min(U) \in U /\ \A z \in U : Min(U) <= z
  <2>. HIDE DEF U
  <2>. QED  BY <1>1, MinOfNats, Zenon
<1>3. PICK x \in T : Min(U) = n - x
  BY <1>2, Zenon
<1>4. \A y \in T : n - y \in U /\ Min(U) <= n - y
  BY <1>2, Zenon
<1>5. \A y \in T : x >= y
  <2>. HIDE DEF U
  <2>. QED  BY <1>3, <1>4
<1>. QED  BY <1>5, Zenon DEF Max

\* The elements of Append(s, e) are those of s, and e.
LEMMA AppendElements ==
  ASSUME NEW X, NEW s \in Seq(X), NEW e \in X
  PROVE  \A j \in 1 .. Len(s) + 1 :
           \/ j \in 1 .. Len(s) /\ Append(s, e)[j] = s[j]
           \/ j = Len(s) + 1 /\ Append(s, e)[j] = e
<1>1. \A j \in 1 .. Len(s) + 1 : j \in 1 .. Len(s) \/ j = Len(s) + 1
  OBVIOUS
<1>2. \A j \in 1 .. Len(s) : Append(s, e)[j] = s[j]
  BY AppendProperties
<1>3. Append(s, e)[Len(s) + 1] = e
  BY AppendProperties
<1>. QED  BY <1>1, <1>2, <1>3, Zenon

\* The elements of a suffix of q with e appended are elements of q, and e.
LEMMA SuffixAppend ==
  ASSUME NEW X, NEW q \in Seq(X), NEW i \in 1 .. Len(q), NEW e \in X
  PROVE  LET r == Append(SubSeq(q, i, Len(q)), e)
         IN  /\ r \in Seq(X)
             /\ \A j \in 1 .. Len(r) : r[j] = e \/ \E m \in 1 .. Len(q) : r[j] = q[m]
<1>. DEFINE s == SubSeq(q, i, Len(q))
<1>1. s \in Seq(X) /\ Len(s) = Len(q) - i + 1
  OBVIOUS
<1>2. \A j \in 1 .. Len(s) : s[j] = q[j + i - 1] /\ j + i - 1 \in 1 .. Len(q)
  BY <1>1
<1>. HIDE DEF s
<1>3. Append(s, e) \in Seq(X) /\ Len(Append(s, e)) = Len(s) + 1
  BY <1>1
<1>4. \A j \in 1 .. Len(s) + 1 :
          Append(s, e)[j] = e \/ \E m \in 1 .. Len(q) : Append(s, e)[j] = q[m]
  <2>1. \A j \in 1 .. Len(s) + 1 : Append(s, e)[j] = e \/ (j \in 1 .. Len(s) /\ Append(s, e)[j] = s[j])
    BY <1>1, AppendElements
  <2>. QED  BY <1>2, <2>1
<1>. QED  BY <1>3, <1>4 DEF s

\* Removing the first occurrence of e leaves a sequence over the same set.
LEMMA RemoveFirstType ==
  ASSUME NEW X, NEW q \in Seq(X), NEW e
  PROVE  RemoveFirst(q, e) \in Seq(X)
<1>. DEFINE I == {i \in 1 .. Len(q) : q[i] = e}
<1>1. CASE I # {}
  <2>1. Min(I) \in I
    <3>1. I \subseteq Nat
      OBVIOUS
    <3>. HIDE DEF I
    <3>. QED  BY <1>1, <3>1, MinOfNats, Zenon
  <2>2. Min(I) \in 1 .. Len(q)
    BY <2>1, Zenon
  <2>3. RemoveFirst(q, e) = SubSeq(q, 1, Min(I) - 1) \o SubSeq(q, Min(I) + 1, Len(q))
    BY <1>1 DEF RemoveFirst, RemoveAt, SelectInSeq
  <2>. HIDE DEF I
  <2>4. SubSeq(q, 1, Min(I) - 1) \in Seq(X) /\ SubSeq(q, Min(I) + 1, Len(q)) \in Seq(X)
    BY <2>2
  <2>. QED  BY <2>3, <2>4
<1>2. CASE I = {}
  BY <1>2 DEF RemoveFirst
<1>. QED  BY <1>1, <1>2

\* There is nothing to remove from the empty sequence.
LEMMA RemoveFirstEmpty ==
  ASSUME NEW e
  PROVE  RemoveFirst(<<>>, e) = <<>>
BY DEF RemoveFirst

----------------------------------------------------------------------------
(* The elements of a sequence, and sequences without duplicates            *)

\* ToSet and IsInjective, with the positions of a sequence for its domain.
LEMMA ElementsOf ==
  ASSUME NEW X, NEW s \in Seq(X)
  PROVE  /\ \A x : x \in ToSet(s) <=> \E i \in 1 .. Len(s) : s[i] = x
         /\ IsInjective(s) <=> \A i, j \in 1 .. Len(s) : s[i] = s[j] => i = j
         /\ ToSet(s) \subseteq X
<1>1. DOMAIN s = 1 .. Len(s) /\ \A i \in 1 .. Len(s) : s[i] \in X
  OBVIOUS
<1>2. \A x : x \in ToSet(s) <=> \E i \in 1 .. Len(s) : s[i] = x
  BY <1>1, Zenon DEF ToSet
<1>3. IsInjective(s) <=> \A i, j \in 1 .. Len(s) : s[i] = s[j] => i = j
  BY <1>1, Zenon DEF IsInjective
<1>4. ToSet(s) \subseteq X
  BY <1>1, <1>2
<1>. QED  BY <1>2, <1>3, <1>4, Zenon

\* The empty sequence has no elements.
LEMMA EmptyElements == ToSet(<<>>) = {} /\ IsInjective(<<>>)
BY DEF ToSet, IsInjective

\* Appending an element that is not in the sequence makes no duplicate.
LEMMA AppendSet ==
  ASSUME NEW X, NEW s \in Seq(X), NEW e \in X
  PROVE  /\ Append(s, e) \in Seq(X) /\ Len(Append(s, e)) = Len(s) + 1
         /\ ToSet(Append(s, e)) = ToSet(s) \cup {e}
         /\ IsInjective(s) /\ e \notin ToSet(s) => IsInjective(Append(s, e))
<1>. DEFINE r == Append(s, e)
<1>1. /\ r \in Seq(X) /\ Len(r) = Len(s) + 1 /\ Len(s) \in Nat
      /\ \A i \in 1 .. Len(s) : r[i] = s[i]
      /\ r[Len(s) + 1] = e
  BY AppendProperties
<1>. HIDE DEF r
<1>2. \A i \in 1 .. Len(r) : i \in 1 .. Len(s) \/ i = Len(s) + 1
  BY <1>1
<1>3. Len(s) + 1 \in 1 .. Len(r) /\ \A i \in 1 .. Len(s) : i \in 1 .. Len(r)
  BY <1>1
<1>4. ToSet(r) = ToSet(s) \cup {e}
  <2>1. \A x : x \in ToSet(r) <=> \E i \in 1 .. Len(r) : r[i] = x
    BY <1>1, ElementsOf, Zenon
  <2>2. \A x : x \in ToSet(s) <=> \E i \in 1 .. Len(s) : s[i] = x
    BY ElementsOf, Zenon
  <2>3. ASSUME NEW x \in ToSet(r)  PROVE x \in ToSet(s) \cup {e}
    BY <1>1, <1>2, <2>1, <2>2, <2>3, Zenon
  <2>4. ASSUME NEW x \in ToSet(s) \cup {e}  PROVE x \in ToSet(r)
    BY <1>1, <1>3, <2>1, <2>2, <2>4, Zenon
  <2>. QED  BY <2>3, <2>4
<1>5. ASSUME IsInjective(s), e \notin ToSet(s)  PROVE IsInjective(r)
  <2>1. \A i, j \in 1 .. Len(s) : s[i] = s[j] => i = j
    BY <1>5, ElementsOf, Zenon
  <2>2. \A i \in 1 .. Len(s) : s[i] # e
    BY <1>5, ElementsOf, Zenon
  <2>3. \A i, j \in 1 .. Len(r) : r[i] = r[j] => i = j
    BY <1>1, <1>2, <2>1, <2>2, Zenon
  <2>. QED  BY <1>1, <2>3, ElementsOf, Zenon
<1>. QED  BY <1>1, <1>4, <1>5 DEF r

\* A part of a sequence has some of its elements, and no more duplicates; if
\* there are none, what is outside the part is not in it.
LEMMA SubSeqSet ==
  ASSUME NEW X, NEW s \in Seq(X), NEW a \in 1 .. Len(s) + 1, NEW b \in 0 .. Len(s)
  PROVE  LET r == SubSeq(s, a, b)
         IN  /\ r \in Seq(X) /\ Len(r) <= Len(s) /\ ToSet(r) \subseteq ToSet(s)
             /\ \A i \in a .. b : s[i] \in ToSet(r)
             /\ IsInjective(s) => IsInjective(r)
             /\ IsInjective(s) => \A i \in 1 .. Len(s) : i < a \/ i > b => s[i] \notin ToSet(r)
<1>. DEFINE r == SubSeq(s, a, b)
<1>0. a \in Int /\ b \in Int /\ Len(s) \in Nat /\ \A i \in a .. b : i \in 1 .. Len(s) /\ s[i] \in X
  OBVIOUS
<1>1. /\ r \in Seq(X) /\ Len(r) = IF a <= b THEN b - a + 1 ELSE 0
      /\ \A i \in 1 .. b - a + 1 : r[i] = s[a + i - 1]
  BY <1>0, SubSeqProperties
<1>. HIDE DEF r
<1>2. \A i \in 1 .. Len(r) : r[i] = s[a + i - 1] /\ a + i - 1 \in a .. b /\ a + i - 1 \in 1 .. Len(s)
  BY <1>0, <1>1
<1>3. Len(r) <= Len(s)
  BY <1>0, <1>1
<1>4. \A x : x \in ToSet(r) <=> \E i \in 1 .. Len(r) : r[i] = x
  BY <1>1, ElementsOf, Zenon
<1>5. \A x : x \in ToSet(s) <=> \E i \in 1 .. Len(s) : s[i] = x
  BY ElementsOf, Zenon
<1>6. ToSet(r) \subseteq ToSet(s)
  BY <1>2, <1>4, <1>5, Zenon
<1>7. \A i \in a .. b : s[i] \in ToSet(r)
  <2>1. \A i \in a .. b : i - a + 1 \in 1 .. Len(r) /\ a + (i - a + 1) - 1 = i
    BY <1>0, <1>1
  <2>. QED  BY <1>2, <1>4, <2>1
<1>8. ASSUME IsInjective(s)  PROVE IsInjective(r)
  <2>1. \A i, j \in 1 .. Len(s) : s[i] = s[j] => i = j
    BY <1>8, ElementsOf, Zenon
  <2>2. \A i, j \in 1 .. Len(r) : r[i] = r[j] => a + i - 1 = a + j - 1
    BY <1>2, <2>1, Zenon
  <2>3. \A i, j \in 1 .. Len(r) : r[i] = r[j] => i = j
    <3>1. \A i, j \in Nat : a + i - 1 = a + j - 1 => i = j
      BY <1>0
    <3>2. \A i \in 1 .. Len(r) : i \in Nat
      BY <1>1
    <3>. QED  BY <2>2, <3>1, <3>2, Zenon
  <2>. QED  BY <1>1, <2>3, ElementsOf, Zenon
<1>9. ASSUME IsInjective(s), NEW i \in 1 .. Len(s), i < a \/ i > b
      PROVE  s[i] \notin ToSet(r)
  <2>1. \A j, m \in 1 .. Len(s) : s[j] = s[m] => j = m
    BY <1>9, ElementsOf, Zenon
  <2>2. i \notin a .. b
    BY <1>0, <1>9
  <2>3. SUFFICES ASSUME NEW j \in 1 .. Len(r), r[j] = s[i]  PROVE FALSE
    BY <1>4, Zenon
  <2>4. s[a + j - 1] = s[i] /\ a + j - 1 \in a .. b /\ a + j - 1 \in 1 .. Len(s)
    BY <1>2, <2>3
  <2>5. a + j - 1 = i
    BY <2>1, <2>4, Zenon
  <2>. QED  BY <2>2, <2>4, <2>5
<1>. QED  BY <1>1, <1>3, <1>6, <1>7, <1>8, <1>9 DEF r

\* The tail of a sequence without duplicates has all elements but the first.
LEMMA TailSet ==
  ASSUME NEW X, NEW s \in Seq(X), s # <<>>, IsInjective(s)
  PROVE  /\ Tail(s) \in Seq(X) /\ Len(Tail(s)) = Len(s) - 1 /\ IsInjective(Tail(s))
         /\ Head(s) \in ToSet(s) /\ ToSet(Tail(s)) = ToSet(s) \ {Head(s)}
<1>1. /\ Tail(s) \in Seq(X) /\ Len(s) \in Nat /\ Len(s) >= 1 /\ Len(Tail(s)) = Len(s) - 1
      /\ Head(s) = s[1]
      /\ \A i \in 1 .. Len(s) - 1 : Tail(s)[i] = s[i + 1]
  OBVIOUS
<1>2. \A i, j \in 1 .. Len(s) : s[i] = s[j] => i = j
  BY ElementsOf, Zenon
<1>3. \A x : x \in ToSet(s) <=> \E i \in 1 .. Len(s) : s[i] = x
  BY ElementsOf, Zenon
<1>4. \A x : x \in ToSet(Tail(s)) <=> \E i \in 1 .. Len(Tail(s)) : Tail(s)[i] = x
  BY <1>1, ElementsOf, Zenon
<1>5. 1 \in 1 .. Len(s) /\ \A i \in 1 .. Len(s) - 1 : i + 1 \in 1 .. Len(s) /\ i + 1 # 1
  BY <1>1
<1>6. \A i \in 1 .. Len(s) : i # 1 => i - 1 \in 1 .. Len(s) - 1 /\ (i - 1) + 1 = i
  BY <1>1
<1>7. Head(s) \in ToSet(s)
  BY <1>1, <1>3, <1>5, Zenon
<1>8. ASSUME NEW x \in ToSet(Tail(s))  PROVE x \in ToSet(s) \ {Head(s)}
  <2>1. PICK i \in 1 .. Len(s) - 1 : s[i + 1] = x
    BY <1>1, <1>4, <1>8
  <2>2. i + 1 \in 1 .. Len(s) /\ i + 1 # 1
    BY <1>5
  <2>. QED  BY <1>1, <1>2, <1>3, <1>5, <2>1, <2>2, Zenon
<1>9. ASSUME NEW x \in ToSet(s) \ {Head(s)}  PROVE x \in ToSet(Tail(s))
  <2>1. PICK i \in 1 .. Len(s) : s[i] = x
    BY <1>3, <1>9, Zenon
  <2>2. i # 1
    BY <1>1, <1>9, <2>1
  <2>3. i - 1 \in 1 .. Len(s) - 1 /\ Tail(s)[i - 1] = x
    BY <1>1, <1>6, <2>1, <2>2
  <2>. QED  BY <1>1, <1>4, <2>3
<1>10. IsInjective(Tail(s))
  <2>1. \A i, j \in 1 .. Len(s) - 1 : Tail(s)[i] = Tail(s)[j] => i = j
    BY <1>1, <1>2, <1>5
  <2>. QED  BY <1>1, <2>1, ElementsOf
<1>. QED  BY <1>1, <1>7, <1>8, <1>9, <1>10

\* Removing e from a sequence without duplicates leaves the other elements.
LEMMA RemoveFirstSet ==
  ASSUME NEW X, NEW s \in Seq(X), NEW e, IsInjective(s)
  PROVE  LET r == RemoveFirst(s, e)
         IN  /\ r \in Seq(X) /\ Len(r) <= Len(s)
             /\ ToSet(r) = ToSet(s) \ {e} /\ IsInjective(r)
<1>. DEFINE I == {i \in 1 .. Len(s) : s[i] = e}
            r == RemoveFirst(s, e)
<1>1. \A i, j \in 1 .. Len(s) : s[i] = s[j] => i = j
  BY ElementsOf, Zenon
<1>2. \A x : x \in ToSet(s) <=> \E i \in 1 .. Len(s) : s[i] = x
  BY ElementsOf, Zenon
<1>3. CASE I = {}
  <2>1. r = s
    BY <1>3 DEF RemoveFirst
  <2>2. e \notin ToSet(s)
    BY <1>2, <1>3
  <2>. HIDE DEF r
  <2>. QED  BY <2>1, <2>2 DEF r
<1>4. CASE I # {}
  <2>. DEFINE m == Min(I)
  <2>1. m \in I
    <3>1. I \subseteq Nat
      OBVIOUS
    <3>. HIDE DEF I
    <3>. QED  BY <1>4, <3>1, MinOfNats, Zenon
  <2>2. m \in 1 .. Len(s) /\ s[m] = e
    BY <2>1, Zenon
  <2>3. r = SubSeq(s, 1, m - 1) \o SubSeq(s, m + 1, Len(s))
    BY <1>4 DEF RemoveFirst, RemoveAt, SelectInSeq
  <2>. HIDE DEF I, m, r
  <2>. DEFINE a == SubSeq(s, 1, m - 1)
              b == SubSeq(s, m + 1, Len(s))
  <2>4. /\ a \in Seq(X) /\ b \in Seq(X) /\ Len(s) \in Nat
        /\ Len(a) = m - 1 /\ Len(b) = Len(s) - m
        /\ \A i \in 1 .. m - 1 : a[i] = s[i]
        /\ \A i \in 1 .. Len(s) - m : b[i] = s[m + i]
    BY <2>2
  <2>. HIDE DEF a, b
  <2>5. /\ r \in Seq(X) /\ Len(r) = Len(a) + Len(b)
        /\ \A i \in 1 .. Len(a) + Len(b) : r[i] = IF i <= Len(a) THEN a[i] ELSE b[i - Len(a)]
    BY <2>3, <2>4, ConcatProperties DEF a, b
  <2>. DEFINE at(i) == IF i < m THEN i ELSE i + 1
  <2>6. Len(r) = Len(s) - 1
    BY <2>2, <2>4, <2>5
  <2>7. \A i \in 1 .. Len(r) : r[i] = s[at(i)] /\ at(i) \in 1 .. Len(s) /\ at(i) # m
    BY <2>2, <2>4, <2>5, <2>6
  <2>8. \A i \in 1 .. Len(s) : i # m => \E j \in 1 .. Len(r) : at(j) = i
    <3>. SUFFICES ASSUME NEW i \in 1 .. Len(s), i # m  PROVE \E j \in 1 .. Len(r) : at(j) = i
      OBVIOUS
    <3>1. CASE i < m
      <4>1. i \in 1 .. Len(r) /\ at(i) = i
        BY <2>2, <2>4, <2>6, <3>1
      <4>. QED  BY <4>1
    <3>2. CASE i > m
      <4>1. i - 1 \in 1 .. Len(r) /\ at(i - 1) = i
        BY <2>2, <2>4, <2>6, <3>2
      <4>. QED  BY <4>1
    <3>. QED  BY <2>2, <3>1, <3>2
  <2>9. \A i, j \in 1 .. Len(r) : at(i) = at(j) => i = j
    BY <2>2, <2>4, <2>6
  <2>. HIDE DEF at
  <2>10. \A x : x \in ToSet(r) <=> \E i \in 1 .. Len(r) : r[i] = x
    BY <2>5, ElementsOf, Zenon
  <2>11. ASSUME NEW x \in ToSet(r)  PROVE x \in ToSet(s) \ {e}
    <3>1. PICK i \in 1 .. Len(r) : r[i] = x
      BY <2>10, <2>11, Zenon
    <3>2. s[at(i)] = x /\ at(i) \in 1 .. Len(s) /\ at(i) # m
      BY <2>7, <3>1, Zenon
    <3>3. x # e
      BY <1>1, <2>2, <3>2, Zenon
    <3>. QED  BY <1>2, <3>2, <3>3, Zenon
  <2>12. ASSUME NEW x \in ToSet(s) \ {e}  PROVE x \in ToSet(r)
    <3>1. PICK i \in 1 .. Len(s) : s[i] = x
      BY <1>2, <2>12, Zenon
    <3>2. i # m
      BY <2>2, <2>12, <3>1, Zenon
    <3>3. PICK j \in 1 .. Len(r) : at(j) = i
      BY <2>8, <3>2, Zenon
    <3>. QED  BY <2>7, <2>10, <3>1, <3>3, Zenon
  <2>13. IsInjective(r)
    <3>1. \A i, j \in 1 .. Len(r) : r[i] = r[j] => i = j
      BY <1>1, <2>7, <2>9, Zenon
    <3>. QED  BY <2>5, <3>1, ElementsOf, Zenon
  <2>14. Len(r) <= Len(s)
    BY <2>4, <2>6
  <2>15. ToSet(r) = ToSet(s) \ {e}
    BY <2>11, <2>12
  <2>. QED  BY <2>5, <2>13, <2>14, <2>15 DEF r
<1>. QED  BY <1>3, <1>4

-----------------------------------------------------------------------------
\* The recursion of MapThenSumSet.
Pick(s) == CHOOSE x \in s : TRUE
IsSum(it, f, S) == it = [s \in SUBSET S |-> IF s = {} THEN 0 ELSE f[Pick(s)] + it[s \ {Pick(s)}]]

\* The rest of a finite set after one of its elements is taken is smaller.
LEMMA Picked ==
  ASSUME NEW s, IsFiniteSet(s), s # {}
  PROVE  /\ Pick(s) \in s
         /\ \A x \in s : /\ IsFiniteSet(s \ {x}) /\ Cardinality(s \ {x}) \in Nat
                         /\ Cardinality(s) = Cardinality(s \ {x}) + 1
<1>1. Pick(s) \in s
  BY Zenon DEF Pick
<1>2. Cardinality(s) \in Nat
  BY FS_CardinalityType
<1>3. \A x \in s : IsFiniteSet(s \ {x}) /\ Cardinality(s \ {x}) = Cardinality(s) - 1
  BY FS_RemoveElement, Zenon
<1>4. \A x \in s : Cardinality(s \ {x}) \in Nat
  BY <1>3, FS_CardinalityType
<1>. QED  BY <1>1, <1>2, <1>3, <1>4

\* The recursion has a solution on every finite set.
LEMMA SumExists ==
  ASSUME NEW f, NEW S, IsFiniteSet(S)
  PROVE  \E it : IsSum(it, f, S)
<1>. DEFINE D(n) == {s \in SUBSET S : Cardinality(s) <= n}
            Up(it, s) == IF s = {} THEN 0 ELSE f[Pick(s)] + it[s \ {Pick(s)}]
            Holds(n) == \E it : it = [s \in D(n) |-> Up(it, s)]
            T == {n \in Nat : ~Holds(n)}
<1>0. \A s \in SUBSET S : IsFiniteSet(s) /\ Cardinality(s) \in Nat
  BY FS_Subset, FS_CardinalityType, Zenon
<1>1. ASSUME T # {}  PROVE FALSE
  <2>. DEFINE m == Min(T)
  <2>1. m \in T /\ \A y \in T : m <= y
    <3>1. T \subseteq Nat
      OBVIOUS
    <3>. HIDE DEF T
    <3>. QED  BY <1>1, <3>1, MinOfNats, Zenon
  <2>2. m \in Nat /\ ~Holds(m)
    BY <2>1
  <2>. HIDE DEF m
  <2>3. CASE m = 0
    <3>. DEFINE it == [s \in D(m) |-> 0]
    <3>1. \A s \in D(m) : s = {}
      BY <1>0, <2>3, FS_EmptySet
    <3>2. it = [s \in D(m) |-> Up(it, s)]
      <4>1. \A s \in D(m) : Up(it, s) = 0
        BY <3>1, Zenon
      <4>. HIDE DEF D, Up
      <4>. QED  BY <4>1
    <3>3. Holds(m)
      <4>. HIDE DEF it
      <4>. QED  BY <3>2, Zenon
    <3>. QED  BY <2>2, <3>3, Zenon
  <2>4. CASE m # 0
    <3>1. m - 1 \in Nat /\ ~(m - 1 \in T)
      <4>. HIDE DEF T
      <4>. QED  BY <2>1, <2>2, <2>4
    <3>2. PICK it : it = [s \in D(m - 1) |-> Up(it, s)]
      BY <3>1, Zenon
    <3>. DEFINE jt == [s \in D(m) |-> Up(it, s)]
    <3>3. \A s \in D(m - 1) : s \in D(m) /\ it[s] = Up(it, s)
      <4>1. \A s \in D(m - 1) : s \in D(m)
        BY <1>0, <2>2
      <4>. HIDE DEF D, Up
      <4>. QED  BY <3>2, <4>1
    <3>4. \A s \in D(m - 1) : jt[s] = it[s]
      <4>. HIDE DEF D, Up
      <4>. QED  BY <3>3
    <3>5. \A s \in D(m) : s # {} => s \ {Pick(s)} \in D(m - 1)
      BY <1>0, <2>2, Picked
    <3>6. \A s \in D(m) : Up(it, s) = Up(jt, s)
      <4>. HIDE DEF D, jt
      <4>. QED  BY <3>4, <3>5, Zenon
    <3>7. jt = [s \in D(m) |-> Up(jt, s)]
      <4>. HIDE DEF D, Up
      <4>. QED  BY <3>6
    <3>8. Holds(m)
      <4>. HIDE DEF jt
      <4>. QED  BY <3>7, Zenon
    <3>. QED  BY <2>2, <3>8, Zenon
  <2>. QED  BY <2>3, <2>4, Zenon
<1>2. Cardinality(S) \in Nat
  BY FS_CardinalityType
<1>3. Holds(Cardinality(S))
  BY <1>1, <1>2, Zenon
<1>4. D(Cardinality(S)) = SUBSET S
  <2>1. \A s \in SUBSET S : Cardinality(s) <= Cardinality(S)
    BY FS_Subset, Zenon
  <2>. QED  BY <2>1, Zenon
<1>. QED  BY <1>3, <1>4, Zenon DEF IsSum

\* Any element may be taken out first.
LEMMA SumAnyOrder ==
  ASSUME NEW f, NEW S, IsFiniteSet(S), \A x \in S : f[x] \in Int, NEW it, IsSum(it, f, S)
  PROVE  \A s \in SUBSET S : it[s] \in Int /\ \A x \in s : it[s] = f[x] + it[s \ {x}]
<1>. DEFINE Good(s) == it[s] \in Int /\ \A x \in s : it[s] = f[x] + it[s \ {x}]
            T == {n \in Nat : \E s \in SUBSET S : Cardinality(s) = n /\ ~Good(s)}
<1>0. \A s \in SUBSET S : IsFiniteSet(s) /\ Cardinality(s) \in Nat
  BY FS_Subset, FS_CardinalityType, Zenon
<1>1. \A s \in SUBSET S : it[s] = IF s = {} THEN 0 ELSE f[Pick(s)] + it[s \ {Pick(s)}]
  BY DEF IsSum
<1>2. ASSUME T # {}  PROVE FALSE
  <2>. DEFINE m == Min(T)
  <2>1. m \in T /\ \A y \in T : m <= y
    <3>1. T \subseteq Nat
      OBVIOUS
    <3>. HIDE DEF T
    <3>. QED  BY <1>2, <3>1, MinOfNats, Zenon
  <2>2. m \in Nat
    BY <2>1
  <2>3. PICK s \in SUBSET S : Cardinality(s) = m /\ ~Good(s)
    BY <2>1, Zenon
  <2>4. \A u \in SUBSET S : Cardinality(u) < m => Good(u)
    <3>1. \A u \in SUBSET S : Cardinality(u) < m => ~(Cardinality(u) \in T)
      <4>. HIDE DEF T, m
      <4>. QED  BY <1>0, <2>1, <2>2
    <3>. QED  BY <1>0, <3>1, Zenon
  <2>. HIDE DEF m, T
  <2>5. s # {}
    BY <1>1, <2>3
  <2>. DEFINE p == Pick(s)
  <2>6. p \in s /\ \A x \in s : s \ {x} \in SUBSET S /\ Cardinality(s \ {x}) < m
    BY <1>0, <2>2, <2>3, <2>5, Picked
  <2>7. it[s] = f[p] + it[s \ {p}]
    BY <1>1, <2>5, Zenon
  <2>. HIDE DEF p
  <2>8. \A x \in s : Good(s \ {x})
    BY <2>4, <2>6, Zenon
  <2>9. it[s] \in Int
    BY <2>6, <2>7, <2>8
  <2>10. ASSUME NEW x \in s, x # p  PROVE it[s] = f[x] + it[s \ {x}]
    <3>1. it[s \ {p}] = f[x] + it[(s \ {p}) \ {x}]
      BY <2>6, <2>8, <2>10, Zenon
    <3>2. it[s \ {x}] = f[p] + it[(s \ {x}) \ {p}]
      BY <2>6, <2>8, <2>10, Zenon
    <3>3. (s \ {p}) \ {x} = (s \ {x}) \ {p}
      BY Zenon
    <3>4. (s \ {x}) \ {p} \in SUBSET S /\ Cardinality((s \ {x}) \ {p}) < m
      <4>1. p \in s \ {x} /\ s \ {x} \in SUBSET S /\ Cardinality(s \ {x}) < m
        BY <2>6, <2>10
      <4>2. /\ Cardinality((s \ {x}) \ {p}) \in Nat
            /\ Cardinality(s \ {x}) = Cardinality((s \ {x}) \ {p}) + 1
        BY <1>0, <4>1, Picked
      <4>3. Cardinality((s \ {x}) \ {p}) < m
        BY <2>2, <4>1, <4>2
      <4>. QED  BY <4>1, <4>3, Zenon
    <3>5. it[(s \ {x}) \ {p}] \in Int /\ f[x] \in Int /\ f[p] \in Int
      BY <2>4, <2>6, <3>4, Zenon
    <3>6. it[s] = f[p] + (f[x] + it[(s \ {x}) \ {p}])
      BY <2>7, <3>1, <3>3, Zenon
    <3>7. ASSUME NEW i \in Int, NEW j \in Int, NEW k \in Int
          PROVE  i + (j + k) = j + (i + k)
      OBVIOUS
    <3>8. f[p] + (f[x] + it[(s \ {x}) \ {p}]) = f[x] + (f[p] + it[(s \ {x}) \ {p}])
      BY <3>5, <3>7, Zenon
    <3>. QED  BY <3>2, <3>6, <3>8, Zenon
  <2>11. Good(s)
    BY <2>7, <2>9, <2>10, Zenon
  <2>. QED  BY <2>3, <2>11, Zenon
<1>. QED  BY <1>0, <1>2, Zenon

\* The sum depends on the values of the elements only.
LEMMA SumUnique ==
  ASSUME NEW f, NEW g, NEW S, IsFiniteSet(S), \A x \in S : f[x] = g[x],
         NEW R, S \subseteq R, NEW it, NEW jt, IsSum(it, f, S), IsSum(jt, g, R)
  PROVE  \A s \in SUBSET S : it[s] = jt[s]
<1>. DEFINE T == {n \in Nat : \E s \in SUBSET S : Cardinality(s) = n /\ it[s] # jt[s]}
<1>0. \A s \in SUBSET S : IsFiniteSet(s) /\ Cardinality(s) \in Nat
  BY FS_Subset, FS_CardinalityType, Zenon
<1>1. \A s \in SUBSET S : /\ it[s] = IF s = {} THEN 0 ELSE f[Pick(s)] + it[s \ {Pick(s)}]
                          /\ jt[s] = IF s = {} THEN 0 ELSE g[Pick(s)] + jt[s \ {Pick(s)}]
  BY DEF IsSum
<1>2. ASSUME T # {}  PROVE FALSE
  <2>. DEFINE m == Min(T)
  <2>1. m \in T /\ \A y \in T : m <= y
    <3>1. T \subseteq Nat
      OBVIOUS
    <3>. HIDE DEF T
    <3>. QED  BY <1>2, <3>1, MinOfNats, Zenon
  <2>2. m \in Nat
    BY <2>1
  <2>3. PICK s \in SUBSET S : Cardinality(s) = m /\ it[s] # jt[s]
    BY <2>1, Zenon
  <2>4. \A u \in SUBSET S : Cardinality(u) < m => it[u] = jt[u]
    <3>1. \A u \in SUBSET S : Cardinality(u) < m => ~(Cardinality(u) \in T)
      <4>. HIDE DEF T, m
      <4>. QED  BY <1>0, <2>1, <2>2
    <3>. QED  BY <1>0, <3>1, Zenon
  <2>. HIDE DEF m, T
  <2>5. s # {}
    BY <1>1, <2>3
  <2>6. Pick(s) \in s /\ s \ {Pick(s)} \in SUBSET S /\ Cardinality(s \ {Pick(s)}) < m
    BY <1>0, <2>2, <2>3, <2>5, Picked
  <2>7. it[s \ {Pick(s)}] = jt[s \ {Pick(s)}] /\ f[Pick(s)] = g[Pick(s)]
    BY <2>4, <2>6, Zenon
  <2>. QED  BY <1>1, <2>3, <2>5, <2>7, Zenon
<1>. QED  BY <1>0, <1>2, Zenon

\* The sum over a part is that of the recursion on the whole.
LEMMA SumRestricts ==
  ASSUME NEW f, NEW S, NEW R, IsFiniteSet(R), R \subseteq S,
         NEW it, NEW jt, IsSum(it, f, S), IsSum(jt, f, R)
  PROVE  jt[R] = it[R]
<1>1. \A x \in R : f[x] = f[x]
  OBVIOUS
<1>2. \A s \in SUBSET R : jt[s] = it[s]
  BY <1>1, SumUnique
<1>. QED  BY <1>2, Zenon

\* The sum of f over a finite set.
Total(f, S) == MapThenSumSet(LAMBDA x : f[x], S)

\* Total is what the recursion computes.
LEMMA TotalIsSum ==
  ASSUME NEW f, NEW S, IsFiniteSet(S)
  PROVE  \E it : IsSum(it, f, S) /\ Total(f, S) = it[S]
<1>. DEFINE jt == CHOOSE it : IsSum(it, f, S)
<1>1. Total(f, S) = jt[S]
  BY Zenon DEF Total, MapThenSumSet, MapThenFoldSet, IsSum, Pick
<1>2. IsSum(jt, f, S)
  BY SumExists, Zenon
<1>. QED  BY <1>1, <1>2, Zenon

\* A total is a number, and any element may be taken apart from it.
LEMMA TotalSplit ==
  ASSUME NEW f, NEW S, IsFiniteSet(S), \A x \in S : f[x] \in Int
  PROVE  /\ Total(f, S) \in Int
         /\ \A x \in S : Total(f, S) = f[x] + Total(f, S \ {x})
<1>1. PICK it : IsSum(it, f, S) /\ Total(f, S) = it[S]
  BY TotalIsSum, Zenon
<1>2. S \in SUBSET S /\ it[S] \in Int /\ \A x \in S : it[S] = f[x] + it[S \ {x}]
  <2>1. \A s \in SUBSET S : it[s] \in Int /\ \A x \in s : it[s] = f[x] + it[s \ {x}]
    BY <1>1, SumAnyOrder
  <2>. QED  BY <2>1, Zenon
<1>3. ASSUME NEW R, IsFiniteSet(R), R \subseteq S
      PROVE  Total(f, R) = it[R]
  <2>1. PICK jt : IsSum(jt, f, R) /\ Total(f, R) = jt[R]
    BY <1>3, TotalIsSum, Zenon
  <2>2. jt[R] = it[R]
    BY <1>1, <1>3, <2>1, SumRestricts
  <2>. QED  BY <2>1, <2>2, Zenon
<1>4. ASSUME NEW x \in S  PROVE Total(f, S \ {x}) = it[S \ {x}]
  <2>1. IsFiniteSet(S \ {x}) /\ S \ {x} \subseteq S
    BY FS_RemoveElement, Zenon
  <2>. QED  BY <1>3, <2>1, Zenon
<1>. QED  BY <1>1, <1>2, <1>4, Zenon

\* A total depends on the values of the elements only.
LEMMA TotalSame ==
  ASSUME NEW f, NEW g, NEW S, IsFiniteSet(S), \A x \in S : f[x] = g[x]
  PROVE  Total(f, S) = Total(g, S)
<1>1. PICK it : IsSum(it, f, S) /\ Total(f, S) = it[S]
  BY TotalIsSum, Zenon
<1>2. PICK jt : IsSum(jt, g, S) /\ Total(g, S) = jt[S]
  BY TotalIsSum, Zenon
<1>3. \A s \in SUBSET S : it[s] = jt[s]
  BY <1>1, <1>2, SumUnique
<1>. QED  BY <1>1, <1>2, <1>3, Zenon

\* The total over no elements.
LEMMA TotalEmpty == ASSUME NEW f PROVE Total(f, {}) = 0
<1>1. PICK it : IsSum(it, f, {}) /\ Total(f, {}) = it[{}]
  BY TotalIsSum, FS_EmptySet, Zenon
<1>. QED  BY <1>1, Zenon DEF IsSum
----------------------------------------------------------------------------
(* Lists, of whatever elements                                             *)

\* A sequence of its own elements.
List(s) == s \in Seq(ToSet(s))

\* A list has an element at each position.
LEMMA ListElements ==
  ASSUME NEW s, List(s)
  PROVE  /\ Len(s) \in Nat /\ DOMAIN s = 1 .. Len(s) /\ (s # <<>> <=> Len(s) > 0)
         /\ \A x : x \in ToSet(s) <=> \E i \in 1 .. Len(s) : s[i] = x
<1>1. s \in Seq(ToSet(s))
  BY DEF List
<1>2. Len(s) \in Nat /\ DOMAIN s = 1 .. Len(s) /\ (s # <<>> <=> Len(s) > 0)
  BY <1>1
<1>. QED  BY <1>1, <1>2, ElementsOf, Zenon

\* Any sequence is a list.
LEMMA ListOf ==
  ASSUME NEW X, NEW s \in Seq(X)
  PROVE  List(s) /\ ToSet(s) \subseteq X
<1>1. ToSet(s) \subseteq X /\ \A x : x \in ToSet(s) <=> \E i \in 1 .. Len(s) : s[i] = x
  BY ElementsOf, Zenon
<1>2. \A i \in 1 .. Len(s) : s[i] \in ToSet(s)
  BY <1>1
<1>3. DOMAIN s = 1 .. Len(s) /\ Len(s) \in Nat /\ s = [i \in 1 .. Len(s) |-> s[i]]
  OBVIOUS
<1>4. s \in [1 .. Len(s) -> ToSet(s)]
  BY <1>2, <1>3
<1>. QED  BY <1>1, <1>3, <1>4 DEF List

\* Short lists.
LEMMA ListShort ==
  /\ List(<<>>) /\ ToSet(<<>>) = {}
  /\ \A a : List(<<a>>) /\ ToSet(<<a>>) = {a}
  /\ \A a, b : List(<<a, b>>) /\ ToSet(<<a, b>>) = {a, b}
<1>1. List(<<>>) /\ ToSet(<<>>) = {}
  BY EmptyElements DEF List
<1>2. ASSUME NEW a PROVE List(<<a>>) /\ ToSet(<<a>>) = {a}
  <2>. DEFINE s == <<a>>
  <2>1. s \in Seq({a}) /\ Len(s) = 1 /\ s[1] = a
    OBVIOUS
  <2>. HIDE DEF s
  <2>2. \A x : x \in ToSet(s) <=> \E i \in 1 .. Len(s) : s[i] = x
    BY <2>1, ElementsOf, Zenon
  <2>3. \A i : i \in 1 .. 1 <=> i = 1
    OBVIOUS
  <2>4. ToSet(s) = {a}
    BY <2>1, <2>2, <2>3
  <2>. QED  BY <2>1, <2>4, ListOf DEF s
<1>3. ASSUME NEW a, NEW b PROVE List(<<a, b>>) /\ ToSet(<<a, b>>) = {a, b}
  <2>. DEFINE s == <<a, b>>
  <2>1. s \in Seq({a, b}) /\ Len(s) = 2 /\ s[1] = a /\ s[2] = b
    OBVIOUS
  <2>. HIDE DEF s
  <2>2. \A x : x \in ToSet(s) <=> \E i \in 1 .. Len(s) : s[i] = x
    BY <2>1, ElementsOf, Zenon
  <2>3. \A i : i \in 1 .. 2 <=> i = 1 \/ i = 2
    OBVIOUS
  <2>4. ToSet(s) = {a, b}
    BY <2>1, <2>2, <2>3
  <2>. QED  BY <2>1, <2>4, ListOf DEF s
<1>. QED  BY <1>1, <1>2, <1>3

\* A list with one element more.
LEMMA ListAppend ==
  ASSUME NEW s, List(s), NEW e
  PROVE  /\ List(Append(s, e)) /\ ToSet(Append(s, e)) = ToSet(s) \cup {e}
         /\ Len(Append(s, e)) = Len(s) + 1 /\ Append(s, e) # <<>>
         /\ \A i \in 1 .. Len(s) : Append(s, e)[i] = s[i]
         /\ Append(s, e)[Len(s) + 1] = e
<1>. DEFINE X == ToSet(s) \cup {e}
<1>1. s \in Seq(X) /\ e \in X
  BY DEF List
<1>. HIDE DEF X
<1>2. /\ Append(s, e) \in Seq(X) /\ Len(Append(s, e)) = Len(s) + 1
      /\ ToSet(Append(s, e)) = ToSet(s) \cup {e}
  BY <1>1, AppendSet
<1>3. List(Append(s, e))
  BY <1>2, ListOf, Zenon
<1>4. /\ \A i \in 1 .. Len(s) : Append(s, e)[i] = s[i]
      /\ Append(s, e)[Len(s) + 1] = e
  BY <1>1, AppendProperties
<1>5. Append(s, e) # <<>>
  BY <1>1, AppendProperties
<1>. QED  BY <1>2, <1>3, <1>4, <1>5

\* A list without its first element.
LEMMA ListTail ==
  ASSUME NEW s, List(s), s # <<>>
  PROVE  /\ List(Tail(s)) /\ ToSet(s) = {Head(s)} \cup ToSet(Tail(s))
         /\ Len(Tail(s)) = Len(s) - 1 /\ Len(s) \in Nat \ {0} /\ Head(s) = s[1]
         /\ \A i \in 1 .. Len(s) - 1 : Tail(s)[i] = s[i + 1]
<1>1. s \in Seq(ToSet(s)) /\ Len(s) \in Nat
  BY DEF List
<1>. DEFINE t == Tail(s)
<1>2. /\ t \in Seq(ToSet(s)) /\ Len(t) = Len(s) - 1 /\ Len(s) > 0 /\ Head(s) = s[1]
      /\ \A i \in 1 .. Len(s) - 1 : t[i] = s[i + 1]
  BY <1>1
<1>. HIDE DEF t
<1>3. \A x : x \in ToSet(s) <=> \E i \in 1 .. Len(s) : s[i] = x
  BY <1>1, ElementsOf, Zenon
<1>4. \A x : x \in ToSet(t) <=> \E i \in 1 .. Len(t) : t[i] = x
  BY <1>2, ElementsOf, Zenon
<1>5. ToSet(s) \subseteq {Head(s)} \cup ToSet(t)
  <2>1. SUFFICES ASSUME NEW i \in 1 .. Len(s) PROVE s[i] = s[1] \/ s[i] \in ToSet(t)
    BY <1>2, <1>3
  <2>2. CASE i # 1
    <3>1. i - 1 \in 1 .. Len(s) - 1 /\ (i - 1) + 1 = i
      BY <1>1, <2>2
    <3>2. t[i - 1] = s[i]
      BY <1>2, <3>1
    <3>. QED  BY <1>2, <1>4, <3>1, <3>2
  <2>. QED  BY <2>2
<1>6. Head(s) \in ToSet(s)
  BY <1>1, <1>2, <1>3
<1>7. ToSet(t) \subseteq ToSet(s)
  BY <1>2, ElementsOf, Zenon
<1>8. List(t)
  BY <1>2, ListOf, Zenon
<1>. QED  BY <1>1, <1>2, <1>5, <1>6, <1>7, <1>8 DEF t

\* A list after another.
LEMMA ListConcat ==
  ASSUME NEW s, NEW t, List(s), List(t)
  PROVE  /\ List(s \o t) /\ ToSet(s \o t) = ToSet(s) \cup ToSet(t)
         /\ Len(s \o t) = Len(s) + Len(t)
         /\ (s = <<>> => s \o t = t)
         /\ (s # <<>> => s \o t # <<>> /\ Head(s \o t) = Head(s))
<1>. DEFINE X == ToSet(s) \cup ToSet(t)
            r == s \o t
<1>1. s \in Seq(X) /\ t \in Seq(X)
  BY DEF List
<1>. HIDE DEF X
<1>2. /\ r \in Seq(X) /\ Len(r) = Len(s) + Len(t) /\ Len(s) \in Nat /\ Len(t) \in Nat
      /\ \A i \in 1 .. Len(s) : r[i] = s[i]
      /\ \A i \in 1 .. Len(t) : r[Len(s) + i] = t[i]
  BY <1>1, ConcatProperties
<1>3. s = <<>> => r = t
  BY <1>1
<1>4. s # <<>> => r # <<>> /\ Head(r) = Head(s)
  BY <1>1
<1>. HIDE DEF r
<1>5. /\ \A x : x \in ToSet(s) <=> \E i \in 1 .. Len(s) : s[i] = x
      /\ \A x : x \in ToSet(t) <=> \E i \in 1 .. Len(t) : t[i] = x
      /\ \A x : x \in ToSet(r) <=> \E i \in 1 .. Len(r) : r[i] = x
  BY <1>1, <1>2, ElementsOf, Zenon
<1>6. ASSUME NEW x \in ToSet(r) PROVE x \in ToSet(s) \cup ToSet(t)
  <2>1. PICK i \in 1 .. Len(r) : r[i] = x
    BY <1>5, <1>6
  <2>2. CASE i \in 1 .. Len(s)
    BY <1>2, <1>5, <2>1, <2>2
  <2>3. CASE i \notin 1 .. Len(s)
    <3>1. i - Len(s) \in 1 .. Len(t) /\ Len(s) + (i - Len(s)) = i
      BY <1>2, <2>3
    <3>2. t[i - Len(s)] = x
      BY <1>2, <2>1, <3>1
    <3>. QED  BY <1>5, <3>1, <3>2
  <2>. QED  BY <2>2, <2>3
<1>7. ASSUME NEW x \in ToSet(s) \cup ToSet(t) PROVE x \in ToSet(r)
  <2>1. CASE x \in ToSet(s)
    <3>1. PICK i \in 1 .. Len(s) : s[i] = x
      BY <1>5, <2>1
    <3>2. i \in 1 .. Len(r) /\ r[i] = x
      BY <1>2, <3>1
    <3>. QED  BY <1>5, <3>2
  <2>2. CASE x \in ToSet(t)
    <3>1. PICK i \in 1 .. Len(t) : t[i] = x
      BY <1>5, <2>2
    <3>2. Len(s) + i \in 1 .. Len(r) /\ r[Len(s) + i] = x
      BY <1>2, <3>1
    <3>. QED  BY <1>5, <3>2
  <2>. QED  BY <1>7, <2>1, <2>2
<1>8. ToSet(r) = ToSet(s) \cup ToSet(t)
  BY <1>6, <1>7
<1>9. List(r)
  BY <1>2, ListOf, Zenon
<1>. QED  BY <1>2, <1>3, <1>4, <1>8, <1>9 DEF r

\* The end of a list.
LEMMA ListFrom ==
  ASSUME NEW s, List(s), NEW n \in 0 .. Len(s)
  PROVE  LET r == SubSeq(s, n + 1, Len(s))
         IN  /\ List(r) /\ Len(r) = Len(s) - n
             /\ \A i \in 1 .. Len(r) : r[i] = s[n + i] /\ n + i \in 1 .. Len(s)
<1>. DEFINE r == SubSeq(s, n + 1, Len(s))
<1>1. s \in Seq(ToSet(s)) /\ Len(s) \in Nat /\ n \in Nat /\ n <= Len(s)
  BY DEF List
<1>2. n + 1 \in 1 .. Len(s) + 1 /\ Len(s) \in 0 .. Len(s)
  BY <1>1
<1>3. r \in Seq(ToSet(s))
  BY <1>1, <1>2, SubSeqSet, Zenon
<1>4. Len(r) = Len(s) - n
  BY <1>1, SubSeqProperties
<1>5. \A i \in 1 .. Len(s) - n : r[i] = s[n + i] /\ n + i \in 1 .. Len(s)
  BY <1>1, SubSeqProperties
<1>6. List(r)
  BY <1>3, ListOf, Zenon
<1>. QED  BY <1>4, <1>5, <1>6 DEF r

=============================================================================
