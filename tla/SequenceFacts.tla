---------------------------- MODULE SequenceFacts ----------------------------
(***************************************************************************)
(* What the proofs need to know of queues: which elements a queue has, in  *)
(* what order and how many, after something was put in or taken out.  Used *)
(* for IVC frames (Vblk), fence lists (Fence) and the sync queue (Cdma).   *)
(***************************************************************************)
EXTENDS Integers, Sequences, FiniteSets, SequencesExt, FiniteSetTheorems, SequenceTheorems, TLAPS

Elems(q) == {q[i] : i \in 1..Len(q)}
Distinct(q) == \A i, j \in 1..Len(q) : q[i] = q[j] => i = j

\* The empty queue.
LEMMA EmptyFacts == Elems(<<>>) = {} /\ Distinct(<<>>)
BY DEF Elems, Distinct

\* Enqueueing adds one element, and keeps the queue free of repetitions if the
\* element is new.
LEMMA AppendFacts ==
  ASSUME NEW S, NEW q \in Seq(S), NEW e \in S
  PROVE  /\ Append(q, e) \in Seq(S) /\ Len(Append(q, e)) = Len(q) + 1
         /\ Elems(Append(q, e)) = Elems(q) \cup {e}
         /\ Distinct(q) /\ e \notin Elems(q) => Distinct(Append(q, e))
<1> DEFINE p == Append(q, e)
<1>1. /\ p \in Seq(S) /\ Len(p) = Len(q) + 1 /\ Len(q) \in Nat
      /\ \A i \in 1..Len(q) : p[i] = q[i]
      /\ p[Len(q) + 1] = e
  OBVIOUS
<1> HIDE DEF p
<1>2. Elems(p) = Elems(q) \cup {e}
  <2>1. ASSUME NEW x \in Elems(p) PROVE x \in Elems(q) \cup {e}
    <3>1. PICK i \in 1..Len(p) : x = p[i]
      BY DEF Elems
    <3>2. CASE i \in 1..Len(q)
      BY <1>1, <3>1, <3>2 DEF Elems
    <3>3. CASE i = Len(q) + 1
      BY <1>1, <3>1, <3>3
    <3> QED BY <1>1, <3>2, <3>3
  <2>2. ASSUME NEW x \in Elems(q) \cup {e} PROVE x \in Elems(p)
    <3>1. CASE x = e
      BY <1>1, <3>1 DEF Elems
    <3>2. CASE x \in Elems(q)
      <4>1. PICK i \in 1..Len(q) : x = q[i]
        BY <3>2 DEF Elems
      <4> QED BY <1>1, <4>1 DEF Elems
    <3> QED BY <2>2, <3>1, <3>2
  <2> QED BY <2>1, <2>2
<1>3. ASSUME Distinct(q), e \notin Elems(q) PROVE Distinct(p)
  BY <1>1, <1>3 DEF Distinct, Elems
<1> QED BY <1>1, <1>2, <1>3 DEF p

\* Dequeueing takes the first element away, and leaves the queue free of
\* repetitions.
LEMMA TailFacts ==
  ASSUME NEW S, NEW q \in Seq(S), q # <<>>
  PROVE  /\ Head(q) \in S /\ Head(q) \in Elems(q) /\ Head(q) = q[1]
         /\ Tail(q) \in Seq(S) /\ Len(Tail(q)) = Len(q) - 1 /\ Len(q) \in Nat \ {0}
         /\ \A i \in 1..(Len(q) - 1) : Tail(q)[i] = q[i + 1]
         /\ Elems(Tail(q)) \subseteq Elems(q)
         /\ Distinct(q) => /\ Distinct(Tail(q))
                           /\ Elems(Tail(q)) = Elems(q) \ {Head(q)}
<1> DEFINE p == Tail(q)
<1>1. /\ p \in Seq(S) /\ Len(p) = Len(q) - 1 /\ Len(q) \in Nat \ {0}
      /\ \A i \in 1..(Len(q) - 1) : p[i] = q[i + 1]
      /\ Head(q) = q[1] /\ Head(q) \in S
  OBVIOUS
<1> HIDE DEF p
<1>2. Head(q) \in Elems(q)
  BY <1>1 DEF Elems
<1>3. ASSUME NEW x \in Elems(p) PROVE \E i \in 2..Len(q) : x = q[i]
  <2>1. PICK i \in 1..Len(p) : x = p[i]
    BY <1>3 DEF Elems
  <2>2. i + 1 \in 2..Len(q) /\ x = q[i + 1]
    BY <1>1, <2>1
  <2> QED BY <2>2
<1>4. Elems(p) \subseteq Elems(q)
  BY <1>1, <1>3 DEF Elems
<1>5. ASSUME Distinct(q) PROVE Distinct(p) /\ Elems(p) = Elems(q) \ {Head(q)}
  <2>1. Distinct(p)
    BY <1>1, <1>5 DEF Distinct
  <2>2. Head(q) \notin Elems(p)
    BY <1>1, <1>3, <1>5 DEF Distinct
  <2>3. ASSUME NEW x \in Elems(q), x # Head(q) PROVE x \in Elems(p)
    <3>1. PICK i \in 1..Len(q) : x = q[i]
      BY DEF Elems
    <3>2. i # 1 /\ i - 1 \in 1..Len(p) /\ p[i - 1] = x
      BY <1>1, <2>3, <3>1
    <3> QED BY <3>2 DEF Elems
  <2> QED BY <1>4, <2>1, <2>2, <2>3
<1> QED BY <1>1, <1>2, <1>4, <1>5 DEF p

\* A queue without repetitions has as many elements as it is long.
LEMMA DistinctCount ==
  ASSUME NEW S, NEW q \in Seq(S), Distinct(q)
  PROVE  IsFiniteSet(Elems(q)) /\ Cardinality(Elems(q)) = Len(q)
<1>1. Len(q) \in Nat /\ q \in [1..Len(q) -> Elems(q)]
  BY DEF Elems
<1>2. q \in Bijection(1..Len(q), Elems(q))
  BY <1>1 DEF Bijection, Injection, Surjection, IsInjective, Distinct, Elems
<1>3. ExistsBijection(1..Len(q), Elems(q))
  BY <1>2 DEF ExistsBijection
<1> QED BY <1>1, <1>3, FS_CountingElements, FS_NatBijection

\* A set of numbers up to n has a greatest one, which is what Max chooses.
LEMMA MaxFacts ==
  ASSUME NEW n \in Nat, NEW T \in SUBSET (0..n), T # {}
  PROVE  Max(T) \in T /\ \A y \in T : y <= Max(T)
<1> DEFINE R == OpToRel(<, Nat)
           D == {n - y : y \in T}
<1>1. D \subseteq Nat /\ D # {}
  <2>1. \A y \in T : n - y \in Nat
    OBVIOUS
  <2>2. D \subseteq Nat
    BY <2>1
  <2>3. PICK y \in T : TRUE
    OBVIOUS
  <2>4. n - y \in D
    BY <2>3
  <2> QED BY <2>2, <2>4
<1>2. PICK d \in D : \A e \in D : ~(<<e, d>> \in R)
  <2>1. IsWellFoundedOn(R, Nat)
    BY NatLessThanWellFounded
  <2> HIDE DEF R, D
  <2> QED BY <1>1, <2>1, WFMin
<1>3. \A e \in D : ~(e < d)
  BY <1>1, <1>2 DEF OpToRel
<1>4. PICK x \in T : d = n - x
  OBVIOUS
<1>5. \A y \in T : x >= y
  BY <1>3, <1>4
<1>6. Max(T) \in T /\ \A y \in T : Max(T) >= y
  BY <1>5 DEF Max
<1> QED BY <1>6

\* Inserting at position k.
LEMMA InsertFacts ==
  ASSUME NEW S, NEW q \in Seq(S), NEW e \in S, NEW k \in 1..(Len(q) + 1)
  PROVE  LET p == InsertAt(q, k, e)
         IN  /\ p \in Seq(S) /\ Len(p) = Len(q) + 1 /\ Len(q) \in Nat
             /\ \A i \in 1..Len(p) : p[i] = IF i < k THEN q[i] ELSE IF i = k THEN e ELSE q[i - 1]
             /\ Elems(p) = Elems(q) \cup {e}
             /\ Distinct(q) /\ e \notin Elems(q) => Distinct(p)
<1> DEFINE a == SubSeq(q, 1, k - 1)
           b == SubSeq(q, k, Len(q))
           p == InsertAt(q, k, e)
<1>0. Len(q) \in Nat /\ \A i \in 1..Len(q) : q[i] \in S
  BY LenProperties, ElementOfSeq
<1>1. a \in Seq(S) /\ Len(a) = k - 1 /\ \A i \in 1..(k - 1) : a[i] = q[i]
  BY <1>0, SubSeqProperties
<1>2. b \in Seq(S) /\ Len(b) = Len(q) - k + 1 /\ \A i \in 1..(Len(q) - k + 1) : b[i] = q[k + i - 1]
  BY <1>0, SubSeqProperties
<1> HIDE DEF a, b
<1>3. /\ a \o <<e>> \in Seq(S) /\ Len(a \o <<e>>) = k
      /\ \A i \in 1..k : (a \o <<e>>)[i] = IF i < k THEN q[i] ELSE e
  <2>1. <<e>> \in Seq(S) /\ Len(<<e>>) = 1 /\ <<e>>[1] = e
    OBVIOUS
  <2> QED BY <1>1, <2>1, ConcatProperties
<1> DEFINE c == a \o <<e>>
<1>4. p = c \o b
  BY DEF InsertAt, a, b
<1>5. /\ p \in Seq(S) /\ Len(p) = Len(q) + 1
      /\ \A i \in 1..Len(p) : p[i] = IF i <= k THEN c[i] ELSE b[i - k]
  <2>1. c \in Seq(S) /\ Len(c) = k /\ b \in Seq(S) /\ Len(b) = Len(q) - k + 1
    BY <1>2, <1>3
  <2> HIDE DEF p, c
  <2>2. /\ p \in Seq(S) /\ Len(p) = Len(c) + Len(b)
        /\ \A i \in 1..(Len(c) + Len(b)) : p[i] = IF i <= Len(c) THEN c[i] ELSE b[i - Len(c)]
    BY <1>4, <2>1, ConcatProperties
  <2>3. Len(c) + Len(b) = Len(q) + 1
    BY <1>0, <2>1
  <2> QED BY <2>1, <2>2, <2>3
<1> HIDE DEF p
<1>6. \A i \in 1..Len(p) : p[i] = IF i < k THEN q[i] ELSE IF i = k THEN e ELSE q[i - 1]
  <2> SUFFICES ASSUME NEW i \in 1..Len(p)
               PROVE  p[i] = IF i < k THEN q[i] ELSE IF i = k THEN e ELSE q[i - 1]
    OBVIOUS
  <2>1. CASE i <= k
    BY <1>3, <1>5, <2>1
  <2>2. CASE i > k
    <3>0. Len(p) = Len(q) + 1 /\ Len(q) \in Nat
      BY <1>0, <1>5
    <3>1. i - k \in 1..(Len(q) - k + 1) /\ k + (i - k) - 1 = i - 1
      BY <2>2, <3>0
    <3>2. p[i] = b[i - k]
      BY <1>5, <2>2
    <3>3. b[i - k] = q[k + (i - k) - 1]
      BY <1>2, <3>1
    <3> QED BY <2>2, <3>1, <3>2, <3>3
  <2> QED BY <2>1, <2>2
<1>7. Elems(p) = Elems(q) \cup {e}
  <2>1. ASSUME NEW x \in Elems(p) PROVE x \in Elems(q) \cup {e}
    <3>1. PICK i \in 1..Len(p) : x = p[i]
      BY DEF Elems
    <3>2. CASE i < k
      BY <1>0, <1>6, <3>1, <3>2 DEF Elems
    <3>3. CASE i = k
      BY <1>6, <3>1, <3>3
    <3>4. CASE i > k
      <4>1. i - 1 \in 1..Len(q) /\ x = q[i - 1]
        BY <1>0, <1>5, <1>6, <3>1, <3>4
      <4> QED BY <4>1 DEF Elems
    <3> QED BY <3>2, <3>3, <3>4
  <2>2. e \in Elems(p)
    <3>1. k \in 1..Len(p) /\ p[k] = e
      BY <1>0, <1>5, <1>6
    <3> QED BY <3>1 DEF Elems
  <2>3. ASSUME NEW x \in Elems(q) PROVE x \in Elems(p)
    <3>1. PICK i \in 1..Len(q) : x = q[i]
      BY DEF Elems
    <3>2. CASE i < k
      <4>1. i \in 1..Len(p) /\ p[i] = x
        BY <1>0, <1>5, <1>6, <3>1, <3>2
      <4> QED BY <4>1 DEF Elems
    <3>3. CASE i >= k
      <4>1. i + 1 \in 1..Len(p) /\ i + 1 > k /\ (i + 1) - 1 = i
        BY <1>0, <1>5, <3>3
      <4>2. p[i + 1] = x
        BY <1>6, <3>1, <4>1
      <4> QED BY <4>1, <4>2 DEF Elems
    <3> QED BY <3>2, <3>3
  <2> QED BY <2>1, <2>2, <2>3
<1>8. ASSUME Distinct(q), e \notin Elems(q) PROVE Distinct(p)
  <2> SUFFICES ASSUME NEW i \in 1..Len(p), NEW j \in 1..Len(p), p[i] = p[j], i < j PROVE FALSE
    BY <1>0, <1>5 DEF Distinct
  <2>1. \A x \in 1..Len(q) : q[x] # e
    BY <1>8 DEF Elems
  <2>2. i \in 1..Len(q) /\ j - 1 \in 1..Len(q) /\ (i > k => i - 1 \in 1..Len(q))
        /\ (j < k => j \in 1..Len(q))
    BY <1>0, <1>5
  <2>3. \A x, y \in 1..Len(q) : x # y => q[x] # q[y]
    BY <1>8 DEF Distinct
  <2>4. CASE j < k
    BY <1>6, <2>2, <2>3, <2>4
  <2>5. CASE j = k
    BY <1>6, <2>1, <2>2, <2>5
  <2>6. CASE j > k
    <3>1. p[j] = q[j - 1]
      BY <1>6, <2>6
    <3>2. CASE i < k
      BY <1>6, <2>2, <2>3, <2>6, <3>1, <3>2
    <3>3. CASE i = k
      BY <1>6, <2>1, <2>2, <3>1, <3>3
    <3>4. CASE i > k
      <4>1. p[i] = q[i - 1] /\ i - 1 # j - 1
        BY <1>6, <3>4
      <4> QED BY <2>2, <2>3, <3>1, <3>4, <4>1
    <3> QED BY <3>2, <3>3, <3>4
  <2> QED BY <2>4, <2>5, <2>6
<1> QED BY <1>0, <1>5, <1>6, <1>7, <1>8 DEF p

\* Removing what is at position k.
LEMMA RemoveFacts ==
  ASSUME NEW S, NEW q \in Seq(S), NEW k \in 1..Len(q), Distinct(q)
  PROVE  LET p == RemoveAt(q, k)
         IN  /\ p \in Seq(S) /\ Len(p) = Len(q) - 1 /\ Len(q) \in Nat
             /\ \A i \in 1..Len(p) : p[i] = IF i < k THEN q[i] ELSE q[i + 1]
             /\ Elems(p) = Elems(q) \ {q[k]} /\ Distinct(p)
<1> DEFINE a == SubSeq(q, 1, k - 1)
           b == SubSeq(q, k + 1, Len(q))
           p == RemoveAt(q, k)
<1>0. Len(q) \in Nat /\ \A i \in 1..Len(q) : q[i] \in S
  BY LenProperties, ElementOfSeq
<1>1. a \in Seq(S) /\ Len(a) = k - 1 /\ \A i \in 1..(k - 1) : a[i] = q[i]
  BY <1>0, SubSeqProperties
<1>2. b \in Seq(S) /\ Len(b) = Len(q) - k /\ \A i \in 1..(Len(q) - k) : b[i] = q[k + i]
  <2>1. Len(q) - (k + 1) + 1 = Len(q) - k /\ \A i \in 1..(Len(q) - k) : (k + 1) + i - 1 = k + i
    BY <1>0
  <2>2. \A i \in (k + 1)..Len(q) : q[i] \in S
    BY <1>0
  <2>3. /\ b \in Seq(S) /\ Len(b) = IF k + 1 <= Len(q) THEN Len(q) - (k + 1) + 1 ELSE 0
        /\ \A i \in 1..(Len(q) - (k + 1) + 1) : b[i] = q[(k + 1) + i - 1]
    BY <1>0, <2>2, SubSeqProperties
  <2> HIDE DEF b
  <2>4. Len(b) = Len(q) - k
    <3>1. Len(q) \in Nat /\ Len(b) = IF k + 1 <= Len(q) THEN Len(q) - (k + 1) + 1 ELSE 0
      BY <1>0, <2>3
    <3> HIDE <2>3
    <3> QED BY <3>1
  <2> QED BY <2>1, <2>3, <2>4
<1> HIDE DEF a, b
<1>3. p = a \o b
  BY DEF RemoveAt, a, b
<1>4. /\ p \in Seq(S) /\ Len(p) = Len(q) - 1
      /\ \A i \in 1..Len(p) : p[i] = IF i < k THEN a[i] ELSE b[i - (k - 1)]
  <2> HIDE DEF p
  <2>2. /\ p \in Seq(S) /\ Len(p) = Len(a) + Len(b)
        /\ \A i \in 1..(Len(a) + Len(b)) : p[i] = IF i <= Len(a) THEN a[i] ELSE b[i - Len(a)]
    BY <1>1, <1>2, <1>3, ConcatProperties
  <2>3. Len(a) + Len(b) = Len(q) - 1 /\ Len(a) = k - 1
    BY <1>0, <1>1, <1>2
  <2>4. ASSUME NEW i \in 1..Len(p) PROVE i <= k - 1 <=> i < k
    BY <1>0, <2>2, <2>3
  <2> QED BY <2>2, <2>3, <2>4
<1> HIDE DEF p
<1>5. \A i \in 1..Len(p) : p[i] = IF i < k THEN q[i] ELSE q[i + 1]
  <2> SUFFICES ASSUME NEW i \in 1..Len(p) PROVE p[i] = IF i < k THEN q[i] ELSE q[i + 1]
    OBVIOUS
  <2>1. CASE i < k
    <3>1. i \in 1..(k - 1)
      BY <1>0, <1>4, <2>1
    <3> QED BY <1>1, <1>4, <2>1, <3>1
  <2>2. CASE i >= k
    <3>1. i - (k - 1) \in 1..(Len(q) - k) /\ k + (i - (k - 1)) = i + 1
      BY <1>0, <1>4, <2>2
    <3>2. ~(i < k)
      BY <1>0, <1>4, <2>2
    <3>3. p[i] = b[i - (k - 1)]
      BY <1>4, <3>2
    <3>4. b[i - (k - 1)] = q[k + (i - (k - 1))]
      BY <1>2, <3>1
    <3> QED BY <3>1, <3>2, <3>3, <3>4
  <2> QED BY <2>1, <2>2
<1>6. ASSUME NEW x \in Elems(p) PROVE x \in Elems(q) /\ x # q[k]
  <2>1. PICK i \in 1..Len(p) : x = p[i]
    BY DEF Elems
  <2>2. i \in 1..Len(q) /\ i + 1 \in 1..Len(q)
    BY <1>0, <1>4
  <2> QED BY <1>5, <2>1, <2>2 DEF Elems, Distinct
<1>7. ASSUME NEW x \in Elems(q), x # q[k] PROVE x \in Elems(p)
  <2>1. PICK i \in 1..Len(q) : x = q[i]
    BY DEF Elems
  <2>2. CASE i < k
    <3>1. i \in 1..Len(p) /\ p[i] = x
      BY <1>0, <1>4, <1>5, <2>1, <2>2
    <3> QED BY <3>1 DEF Elems
  <2>3. CASE i > k
    <3>1. i - 1 \in 1..Len(p) /\ ~(i - 1 < k) /\ (i - 1) + 1 = i
      BY <1>0, <1>4, <2>3
    <3>2. p[i - 1] = x
      BY <1>5, <2>1, <3>1
    <3> QED BY <3>1, <3>2 DEF Elems
  <2> QED BY <1>7, <2>1, <2>2, <2>3
<1>8. Distinct(p)
  <2> SUFFICES ASSUME NEW i \in 1..Len(p), NEW j \in 1..Len(p), p[i] = p[j] PROVE i = j
    BY DEF Distinct
  <2>1. i \in 1..Len(q) /\ i + 1 \in 1..Len(q) /\ j \in 1..Len(q) /\ j + 1 \in 1..Len(q)
    BY <1>0, <1>4
  <2> DEFINE m == IF i < k THEN i ELSE i + 1
             n == IF j < k THEN j ELSE j + 1
  <2>2. m \in 1..Len(q) /\ n \in 1..Len(q) /\ (m = n => i = j)
    BY <1>0, <2>1
  <2>3. p[i] = q[m] /\ p[j] = q[n]
    BY <1>5
  <2> HIDE DEF m, n
  <2>4. m = n
    BY <2>2, <2>3 DEF Distinct
  <2> QED BY <2>2, <2>4
<1>9. Elems(p) = Elems(q) \ {q[k]}
  BY <1>6, <1>7
<1> QED BY <1>0, <1>4, <1>5, <1>8, <1>9 DEF p
=============================================================================
