----------------------------- MODULE DataProofs -----------------------------
(***************************************************************************)
(* Lemmas about the data the models are built from.  The induction         *)
(* theorems of the library have an operator as parameter and cannot be     *)
(* instantiated by the provers; here induction is stated about a set, and  *)
(* a recursive definition about a function.                                *)
(***************************************************************************)
EXTENDS Selection, SequenceTheorems, FiniteSetTheorems, WellFoundedInduction, TLAPS

\* A set of natural numbers that is not empty has a least element.
LEMMA LeastElement ==
    ASSUME NEW T, T \subseteq Nat, T # {}
    PROVE  \E n \in T : \A m \in T : n <= m
<1>1. PICK R : R = OpToRel(<, Nat)
  OBVIOUS
<1>2. IsWellFoundedOn(R, Nat)
  BY <1>1, NatLessThanWellFounded
<1>3. PICK n \in T : \A m \in T : ~(<<m, n>> \in R)
  BY <1>2, WFMin
<1>4. \A i, j \in Nat : <<i, j>> \in R <=> i < j
  BY <1>1 DEF OpToRel
<1>5. ASSUME NEW m \in T PROVE n <= m
  <2>1. m \in Nat /\ n \in Nat
    OBVIOUS
  <2>2. ~(m < n)
    BY <2>1, <1>3, <1>4
  <2> QED
    BY <2>1, <2>2
<1> QED
  BY <1>5

\* Induction on the natural numbers.
LEMMA InductionOnSet ==
    ASSUME NEW S, 0 \in S, \A n \in Nat : n \in S => n + 1 \in S
    PROVE  Nat \subseteq S
<1> SUFFICES ASSUME ~(Nat \subseteq S) PROVE FALSE
  OBVIOUS
<1>1. PICK T : T = Nat \ S
  OBVIOUS
<1>2. PICK n \in T : \A m \in T : n <= m
  BY <1>1, LeastElement
<1>3. n - 1 \in Nat /\ ~(n <= n - 1)
  BY <1>1
<1>4. n - 1 \in S
  BY <1>1, <1>2, <1>3
<1>5. (n - 1) + 1 = n
  BY <1>1
<1> QED
  BY <1>1, <1>3, <1>4, <1>5

\* The same up to a bound: what holds of 0 and is kept by each step of a loop
\* of n iterations holds of all of them.
LEMMA InductionUpto ==
    ASSUME NEW n \in Nat, NEW S, 0 \in S,
           \A i \in 1 .. n : i - 1 \in S => i \in S
    PROVE  0 .. n \subseteq S
<1>1. PICK T : T = {i \in Nat : i <= n => i \in S}
  OBVIOUS
<1>2. 0 \in T
  BY <1>1
<1>3. ASSUME NEW i \in Nat, i \in T PROVE i + 1 \in T
  <2>1. SUFFICES ASSUME i + 1 <= n PROVE i + 1 \in S
    BY <1>1
  <2>2. i + 1 \in 1 .. n /\ (i + 1) - 1 = i /\ i <= n
    BY <2>1
  <2> QED
    BY <2>2, <1>3, <1>1
<1>4. Nat \subseteq T
  BY <1>2, <1>3, InductionOnSet
<1> QED
  BY <1>1, <1>4

\* A loop that starts with base and applies G[i] in iteration i has a value
\* after each iteration: the recursive definition of these values has a
\* solution.
LEMMA LoopHasValues ==
    ASSUME NEW X, NEW base \in X, NEW n \in Nat, NEW G \in [1 .. n -> [X -> X]]
    PROVE  \E F \in [0 .. n -> X] :
              /\ F[0] = base
              /\ \A i \in 1 .. n : F[i] = G[i][F[i - 1]]
<1> DEFINE Solves(F, k) == /\ F[0] = base
                           /\ \A i \in 1 .. k : F[i] = G[i][F[i - 1]]
<1>1. PICK S : S = {k \in Nat : \E F \in [0 .. k -> X] : Solves(F, k)}
  OBVIOUS
<1>2. 0 \in S
  <2>1. PICK F : F = [i \in 0 .. 0 |-> base]
    OBVIOUS
  <2>2. F \in [0 .. 0 -> X] /\ Solves(F, 0)
    BY <2>1
  <2> QED
    BY <2>2, <1>1
<1>3. ASSUME NEW k \in 1 .. n, k - 1 \in S PROVE k \in S
  <2>1. PICK F \in [0 .. k - 1 -> X] : Solves(F, k - 1)
    BY <1>1, <1>3
  <2>2. F[k - 1] \in X /\ G[k][F[k - 1]] \in X
    OBVIOUS
  <2>3. PICK H : H = [i \in 0 .. k |-> IF i = k THEN G[k][F[k - 1]] ELSE F[i]]
    OBVIOUS
  <2>4. H \in [0 .. k -> X]
    BY <2>2, <2>3
  <2>5. \A i \in 0 .. k - 1 : H[i] = F[i]
    BY <2>3
  <2>6. H[k] = G[k][H[k - 1]]
    BY <2>3, <2>5
  <2>7. H[0] = base
    BY <2>1, <2>5
  <2>8. ASSUME NEW i \in 1 .. k PROVE H[i] = G[i][H[i - 1]]
    <3>1. CASE i = k
      BY <3>1, <2>6
    <3>2. CASE i # k
      <4>1. i \in 1 .. k - 1 /\ i \in 0 .. k - 1 /\ i - 1 \in 0 .. k - 1
        BY <3>2
      <4> QED
        BY <4>1, <2>1, <2>5
    <3> QED
      BY <3>1, <3>2
  <2>9. \E E \in [0 .. k -> X] : Solves(E, k)
    <3> WITNESS H \in [0 .. k -> X]
    <3> QED
      BY <2>7, <2>8
  <2>10. k \in Nat
    OBVIOUS
  <2> HIDE DEF Solves
  <2> QED
    BY <2>9, <2>10, <1>1
<1>4. n \in S
  <2>1. 0 .. n \subseteq S
    BY <1>2, <1>3, InductionUpto
  <2> QED
    BY <2>1
<1> QED
  BY <1>1, <1>4

\* The values of a loop stay in a set each of its iterations keeps.
LEMMA LoopStaysInside ==
    ASSUME NEW X, NEW n \in Nat, NEW F, DOMAIN F = 0 .. n, F = [i \in DOMAIN F |-> F[i]],
           F[0] \in X,
           \A i \in 1 .. n : F[i - 1] \in X => F[i] \in X
    PROVE  F \in [0 .. n -> X]
<1>1. PICK Y : Y = {i \in 0 .. n : F[i] \in X}
  OBVIOUS
<1>2. 0 \in Y
  BY <1>1
<1>3. ASSUME NEW i \in 1 .. n, i - 1 \in Y PROVE i \in Y
  BY <1>1, <1>3
<1>4. 0 .. n \subseteq Y
  BY <1>2, <1>3, InductionUpto
<1> QED
  BY <1>1, <1>4
-----------------------------------------------------------------------------
(* The members of a queue.                                                 *)

LEMMA ValuesOfAppend ==
    ASSUME NEW T, NEW q \in Seq(T), NEW e \in T
    PROVE  /\ Append(q, e) \in Seq(T)
           /\ {Append(q, e)[i] : i \in 1 .. Len(Append(q, e))}
                 = {q[i] : i \in 1 .. Len(q)} \cup {e}
<1>1. /\ Append(q, e) \in Seq(T)
      /\ Len(Append(q, e)) = Len(q) + 1
      /\ \A i \in 1 .. Len(q) : Append(q, e)[i] = q[i]
      /\ Append(q, e)[Len(q) + 1] = e
      /\ Len(q) \in Nat
  BY AppendProperties
<1> QED
  BY <1>1

LEMMA ValuesOfTail ==
    ASSUME NEW T, NEW q \in Seq(T), q # <<>>
    PROVE  /\ Tail(q) \in Seq(T) /\ Head(q) \in T
           /\ {q[i] : i \in 1 .. Len(q)} = {Head(q)} \cup {Tail(q)[i] : i \in 1 .. Len(Tail(q))}
<1>1. /\ Tail(q) \in Seq(T)
      /\ Len(Tail(q)) = Len(q) - 1
      /\ \A i \in 1 .. Len(Tail(q)) : Tail(q)[i] = q[i + 1]
  BY HeadTailProperties
<1>2. Len(q) \in Nat /\ Len(q) >= 1 /\ Head(q) = q[1] /\ q[1] \in T
  OBVIOUS
<1>3. ASSUME NEW i \in 1 .. Len(q), i # 1
      PROVE  i - 1 \in 1 .. Len(Tail(q)) /\ q[i] = Tail(q)[i - 1]
  BY <1>1, <1>2, <1>3
<1>4. ASSUME NEW i \in 1 .. Len(Tail(q))
      PROVE  i + 1 \in 1 .. Len(q) /\ Tail(q)[i] = q[i + 1]
  BY <1>1, <1>2
<1>5. \A x \in {q[i] : i \in 1 .. Len(q)} :
         x \in {Head(q)} \cup {Tail(q)[i] : i \in 1 .. Len(Tail(q))}
  BY <1>2, <1>3
<1>6. 1 \in 1 .. Len(q)
  BY <1>2
<1>7. \A x \in {Head(q)} \cup {Tail(q)[i] : i \in 1 .. Len(Tail(q))} :
         x \in {q[i] : i \in 1 .. Len(q)}
  BY <1>2, <1>4, <1>6
<1>8. {q[i] : i \in 1 .. Len(q)} = {Head(q)} \cup {Tail(q)[i] : i \in 1 .. Len(Tail(q))}
  BY <1>5, <1>7
<1> QED
  BY <1>1, <1>2, <1>8

\* What is read of s, after what was there before, grows symbol by symbol.
LEMMA PrefixGrows ==
    ASSUME NEW T, NEW u \in Seq(T), NEW s \in Seq(T), NEW i \in 1 .. Len(s)
    PROVE  /\ u \o SubSeq(s, 1, i - 1) \in Seq(T)
           /\ u \o SubSeq(s, 1, i) \in Seq(T)
           /\ Append(u \o SubSeq(s, 1, i - 1), s[i]) = u \o SubSeq(s, 1, i)
<1>1. PICK v, w, e : v = SubSeq(s, 1, i - 1) /\ w = SubSeq(s, 1, i) /\ e = s[i]
  OBVIOUS
<1>2. v \in Seq(T) /\ w \in Seq(T) /\ e \in T /\ Len(v) = i - 1 /\ Len(w) = i
  BY <1>1
<1>3. /\ \A j \in 1 .. i - 1 : v[j] = s[j]
      /\ \A j \in 1 .. i : w[j] = s[j]
  BY <1>1
<1>4. PICK p, q : p = u \o v /\ q = u \o w
  OBVIOUS
<1>5. /\ p \in Seq(T) /\ q \in Seq(T)
      /\ Len(p) = Len(u) + (i - 1) /\ Len(q) = Len(u) + i
  BY <1>2, <1>4, ConcatProperties
<1>6. /\ \A j \in 1 .. Len(p) : p[j] = IF j <= Len(u) THEN u[j] ELSE s[j - Len(u)]
      /\ \A j \in 1 .. Len(q) : q[j] = IF j <= Len(u) THEN u[j] ELSE s[j - Len(u)]
  BY <1>2, <1>3, <1>4, ConcatProperties
<1>7. PICK a : a = Append(p, e)
  OBVIOUS
<1>8. /\ a \in Seq(T) /\ Len(a) = Len(q)
      /\ \A j \in 1 .. Len(p) : a[j] = p[j]
      /\ a[Len(p) + 1] = e
  BY <1>2, <1>5, <1>7, AppendProperties
<1>9. ASSUME NEW j \in 1 .. Len(a) PROVE a[j] = q[j]
  <2>1. CASE j \in 1 .. Len(p)
    BY <1>5, <1>6, <1>8, <2>1
  <2>2. CASE j \notin 1 .. Len(p)
    <3>1. j = Len(p) + 1 /\ j = Len(q) /\ ~(j <= Len(u)) /\ j - Len(u) = i
      BY <1>5, <1>8, <2>2
    <3> QED
      BY <1>1, <1>6, <1>8, <3>1
  <2> QED
    BY <2>1, <2>2
<1>10. a = q
  BY <1>5, <1>8, <1>9, SeqEqual
<1> QED
  BY <1>1, <1>4, <1>5, <1>7, <1>10

LEMMA SuffixValues ==
    ASSUME NEW T, NEW s \in Seq(T), NEW m \in Nat, m <= Len(s)
    PROVE  /\ SubSeq(s, m + 1, Len(s)) \in Seq(T)
           /\ Len(SubSeq(s, m + 1, Len(s))) = Len(s) - m
           /\ \A i \in 1 .. Len(s) - m : SubSeq(s, m + 1, Len(s))[i] = s[m + i]
<1>1. PICK n \in Nat : n = Len(s)
  OBVIOUS
<1>2. PICK k \in Nat : k = m + 1
  OBVIOUS
<1>3. /\ SubSeq(s, k, n) \in Seq(T)
      /\ Len(SubSeq(s, k, n)) = n - m
      /\ \A i \in 1 .. n - m : SubSeq(s, k, n)[i] = s[m + i]
  BY <1>1, <1>2
<1> QED
  BY <1>1, <1>2, <1>3

\* What is left of what is left of s.
LEMMA SuffixOfSuffix ==
    ASSUME NEW T, NEW s \in Seq(T), NEW m \in Nat, NEW k \in Nat, m + k <= Len(s),
           NEW p, p = SubSeq(s, m + 1, Len(s))
    PROVE  SubSeq(p, k + 1, Len(p)) = SubSeq(s, (m + k) + 1, Len(s))
<1>1. PICK n \in Nat : n = Len(s)
  OBVIOUS
<1>2. PICK q, r, l : q = SubSeq(p, k + 1, Len(p)) /\ l = m + k /\ r = SubSeq(s, l + 1, Len(s))
  OBVIOUS
<1>3. l \in Nat /\ l <= n /\ m <= n
  BY <1>1, <1>2
<1>4. /\ p \in Seq(T) /\ Len(p) = n - m
      /\ \A i \in 1 .. n - m : p[i] = s[m + i]
  BY <1>1, <1>3, SuffixValues
<1>5. /\ q \in Seq(T) /\ Len(q) = (n - m) - k
      /\ \A i \in 1 .. (n - m) - k : q[i] = p[k + i]
  <2>1. k <= Len(p)
    BY <1>1, <1>4
  <2> QED
    BY <1>2, <1>4, <2>1, SuffixValues
<1>6. /\ r \in Seq(T) /\ Len(r) = n - l
      /\ \A i \in 1 .. n - l : r[i] = s[l + i]
  BY <1>1, <1>2, <1>3, SuffixValues
<1>7. ASSUME NEW i \in 1 .. Len(q) PROVE q[i] = r[i]
  <2>1. i \in 1 .. n - l /\ i \in 1 .. (n - m) - k /\ k + i \in 1 .. n - m /\ m + (k + i) = l + i
    BY <1>1, <1>2, <1>5
  <2> QED
    BY <1>4, <1>5, <1>6, <2>1
<1>8. Len(q) = Len(r)
  BY <1>1, <1>2, <1>5, <1>6
<1>9. q = r
  BY <1>5, <1>6, <1>7, <1>8, SeqEqual
<1> QED
  BY <1>2, <1>9

-----------------------------------------------------------------------------
(* What a selection has of the sequence it is made from.                   *)

LEMMA SelectedUptoValues ==
    ASSUME NEW T, NEW s \in Seq(T), NEW S
    PROVE  /\ SelectedUpto(s, S) \in [0 .. Len(s) -> Seq(T)]
           /\ SelectedUpto(s, S)[0] = <<>>
           /\ \A i \in 1 .. Len(s) :
                 SelectedUpto(s, S)[i] = IF s[i] \in S
                                         THEN Append(SelectedUpto(s, S)[i - 1], s[i])
                                         ELSE SelectedUpto(s, S)[i - 1]
<1>1. PICK n \in Nat : n = Len(s)
  OBVIOUS
<1>2. PICK X : X = Seq(T)
  OBVIOUS
<1>3. PICK H : H = SelectedUpto(s, S)
  OBVIOUS
<1>4. PICK base : base = <<>> /\ base \in X
  BY <1>2, EmptySeq
<1>5. PICK G : G = [i \in 1 .. n |->
                      [q \in X |-> IF s[i] \in S THEN Append(q, s[i]) ELSE q]]
  OBVIOUS
<1>6. ASSUME NEW i \in 1 .. n, NEW q \in X
      PROVE  (IF s[i] \in S THEN Append(q, s[i]) ELSE q) \in X
  BY <1>1, <1>2, AppendProperties
<1>7. G \in [1 .. n -> [X -> X]]
  BY <1>5, <1>6
<1>8. PICK F \in [0 .. n -> X] :
          /\ F[0] = base
          /\ \A i \in 1 .. n : F[i] = G[i][F[i - 1]]
  <2>1. n \in Nat /\ base \in X
    BY <1>4
  <2> QED
    BY ONLY <2>1, <1>7, LoopHasValues
<1>9. ASSUME NEW i \in 1 .. n
      PROVE  G[i][F[i - 1]] = IF s[i] \in S THEN Append(F[i - 1], s[i]) ELSE F[i - 1]
  <2>1. i - 1 \in 0 .. n
    OBVIOUS
  <2>2. F[i - 1] \in X
    BY <2>1
  <2> QED
    BY <2>2, <1>5
<1>10. F = [i \in 0 .. n |->
              IF i = 0 THEN <<>>
              ELSE IF s[i] \in S THEN Append(F[i - 1], s[i]) ELSE F[i - 1]]
  <2>1. ASSUME NEW i \in 0 .. n
        PROVE  F[i] = IF i = 0 THEN <<>>
                      ELSE IF s[i] \in S THEN Append(F[i - 1], s[i]) ELSE F[i - 1]
    <3>1. CASE i = 0
      BY <3>1, <1>4, <1>8
    <3>2. CASE i # 0
      <4>1. i \in 1 .. n
        BY <3>2
      <4> QED
        BY <3>2, <4>1, <1>8, <1>9
    <3> QED
      BY <3>1, <3>2
  <2> QED
    BY <2>1
<1>11. H = [i \in 0 .. n |->
             IF i = 0 THEN <<>>
             ELSE IF s[i] \in S THEN Append(H[i - 1], s[i]) ELSE H[i - 1]]
  BY <1>1, <1>10, <1>3 DEF SelectedUpto
<1>12. /\ H[0] = <<>>
       /\ \A i \in 1 .. n :
             H[i] = IF s[i] \in S THEN Append(H[i - 1], s[i]) ELSE H[i - 1]
  <2>1. 0 \in 0 .. n /\ \A i \in 1 .. n : i \in 0 .. n /\ i # 0
    OBVIOUS
  <2> QED
    BY <2>1, <1>11, Zenon
<1>13. \A i \in 0 .. n : H[i] \in X
  <2>1. PICK Y : Y = {i \in 0 .. n : H[i] \in X}
    OBVIOUS
  <2>2. 0 \in Y
    BY <2>1, <1>12, <1>4
  <2>3. ASSUME NEW i \in 1 .. n, i - 1 \in Y PROVE i \in Y
    <3>1. H[i - 1] \in X
      BY <2>3, <2>1
    <3> QED
      BY <3>1, <2>1, <1>6, <1>12
  <2>4. 0 .. n \subseteq Y
    BY <2>2, <2>3, InductionUpto
  <2> QED
    BY <2>1, <2>4
<1>14. H \in [0 .. n -> X]
  BY <1>11, <1>13
<1> QED
  BY <1>1, <1>2, <1>3, <1>12, <1>14

LEMMA SelectedMembers ==
    ASSUME NEW T, NEW s \in Seq(T), NEW S
    PROVE  /\ Selected(s, S) \in Seq(T)
           /\ {Selected(s, S)[k] : k \in 1 .. Len(Selected(s, S))}
                 = S \cap {s[i] : i \in 1 .. Len(s)}
<1>1. PICK n \in Nat : n = Len(s)
  OBVIOUS
<1>2. PICK H : H = SelectedUpto(s, S)
  OBVIOUS
<1>3. /\ H \in [0 .. n -> Seq(T)]
      /\ H[0] = <<>>
      /\ \A i \in 1 .. n : H[i] = IF s[i] \in S THEN Append(H[i - 1], s[i]) ELSE H[i - 1]
  BY <1>1, <1>2, SelectedUptoValues
<1> DEFINE Found(i) == {H[i][k] : k \in 1 .. Len(H[i])}
           Reached(i) == S \cap {s[k] : k \in 1 .. i}
<1>4. PICK Y : Y = {i \in 0 .. n : Found(i) = Reached(i)}
  OBVIOUS
<1>5. 0 \in Y
  BY <1>3, <1>4
<1>6. ASSUME NEW i \in 1 .. n, i - 1 \in Y PROVE i \in Y
  <2>1. Found(i - 1) = Reached(i - 1) /\ i \in 0 .. n /\ i - 1 \in 0 .. n
    BY <1>4, <1>6
  <2>2. {s[k] : k \in 1 .. i} = {s[k] : k \in 1 .. i - 1} \cup {s[i]}
    OBVIOUS
  <2>3. PICK q \in Seq(T) : q = H[i - 1]
    BY <2>1, <1>3
  <2>4. CASE s[i] \in S
    <3>1. H[i] = Append(q, s[i]) /\ s[i] \in T
      BY <2>4, <2>3, <1>3, <1>1, ElementOfSeq
    <3>2. /\ Len(H[i]) = Len(q) + 1
          /\ \A k \in 1 .. Len(q) : H[i][k] = q[k]
          /\ H[i][Len(q) + 1] = s[i]
          /\ Len(q) \in Nat
      BY <3>1, AppendProperties
    <3>3. Found(i) = {q[k] : k \in 1 .. Len(q)} \cup {s[i]}
      BY <3>2, SMTT(30)
    <3>4. Reached(i) = Reached(i - 1) \cup {s[i]}
      BY <2>2, <2>4
    <3>5. Found(i) = Found(i - 1) \cup {s[i]}
      BY <3>3, <2>3
    <3>6. Found(i) = Reached(i)
      BY <3>4, <3>5, <2>1
    <3> HIDE DEF Found, Reached
    <3> QED
      BY <3>6, <2>1, <1>4
  <2>5. CASE s[i] \notin S
    <3>1. H[i] = H[i - 1]
      BY <2>5, <1>3
    <3>2. Reached(i) = Reached(i - 1)
      BY <2>2, <2>5
    <3> QED
      BY <3>1, <3>2, <2>1, <1>4
  <2> QED
    BY <2>4, <2>5
<1>7. n \in Y
  <2>1. 0 .. n \subseteq Y
    BY <1>5, <1>6, InductionUpto
  <2> QED
    BY <2>1
<1>8. Found(n) = Reached(n) /\ H[n] \in Seq(T)
  BY <1>3, <1>4, <1>7
<1> QED
  BY <1>1, <1>2, <1>8 DEF Selected

\* A relation between earlier and later members stays: R may be "not equal" or
\* an order.
LEMMA SelectedOrder ==
    ASSUME NEW T, NEW s \in Seq(T), NEW S, NEW R,
           \A i, j \in 1 .. Len(s) : i < j => <<s[i], s[j]>> \in R
    PROVE  \A k, l \in 1 .. Len(Selected(s, S)) :
              k < l => <<Selected(s, S)[k], Selected(s, S)[l]>> \in R
<1>1. PICK n \in Nat : n = Len(s)
  OBVIOUS
<1>2. PICK H : H = SelectedUpto(s, S)
  OBVIOUS
<1>3. /\ H \in [0 .. n -> Seq(T)]
      /\ H[0] = <<>>
      /\ \A i \in 1 .. n : H[i] = IF s[i] \in S THEN Append(H[i - 1], s[i]) ELSE H[i - 1]
  BY <1>1, <1>2, SelectedUptoValues
\* What has been selected is related to what is to come.
<1> DEFINE Ordered(i) ==
              /\ \A k, l \in 1 .. Len(H[i]) : k < l => <<H[i][k], H[i][l]>> \in R
              /\ \A k \in 1 .. Len(H[i]), j \in i + 1 .. n : <<H[i][k], s[j]>> \in R
<1>4. PICK Y : Y = {i \in 0 .. n : Ordered(i)}
  OBVIOUS
<1>5. 0 \in Y
  BY <1>3, <1>4
<1>6. ASSUME NEW i \in 1 .. n, i - 1 \in Y PROVE i \in Y
  <2>1. Ordered(i - 1) /\ i \in 0 .. n /\ i - 1 \in 0 .. n /\ (i - 1) + 1 = i
    BY <1>4, <1>6
  <2>2. PICK q \in Seq(T) : q = H[i - 1]
    BY <2>1, <1>3
  <2>3. /\ \A k, l \in 1 .. Len(q) : k < l => <<q[k], q[l]>> \in R
        /\ \A k \in 1 .. Len(q), j \in i .. n : <<q[k], s[j]>> \in R
    BY <2>1, <2>2
  <2>4. CASE s[i] \in S
    <3>1. H[i] = Append(q, s[i]) /\ s[i] \in T
      BY <2>4, <2>2, <1>3, <1>1, ElementOfSeq
    <3>2. /\ Len(H[i]) = Len(q) + 1
          /\ \A k \in 1 .. Len(q) : H[i][k] = q[k]
          /\ H[i][Len(q) + 1] = s[i]
          /\ Len(q) \in Nat
      BY <3>1, AppendProperties
    <3>3. ASSUME NEW k \in 1 .. Len(H[i]), NEW l \in 1 .. Len(H[i]), k < l
          PROVE  <<H[i][k], H[i][l]>> \in R
      <4>1. CASE l = Len(q) + 1
        BY <4>1, <3>2, <3>3, <2>3
      <4>2. CASE l # Len(q) + 1
        BY <4>2, <3>2, <3>3, <2>3, SMTT(30)
      <4> QED
        BY <4>1, <4>2
    <3>4. ASSUME NEW k \in 1 .. Len(H[i]), NEW j \in i + 1 .. n
          PROVE  <<H[i][k], s[j]>> \in R
      <4>1. CASE k = Len(q) + 1
        <5>1. <<s[i], s[j]>> \in R
          BY <1>1
        <5> QED
          BY <4>1, <5>1, <3>2
      <4>2. CASE k # Len(q) + 1
        BY <4>2, <3>2, <2>3
      <4> QED
        BY <4>1, <4>2
    <3>5. Ordered(i)
      BY <3>3, <3>4
    <3> QED
      BY <3>5, <2>1, <1>4
  <2>5. CASE s[i] \notin S
    <3>1. H[i] = q
      BY <2>2, <2>5, <1>3
    <3>2. Ordered(i)
      BY <3>1, <2>3
    <3> QED
      BY <3>2, <2>1, <1>4
  <2> QED
    BY <2>4, <2>5
<1>7. n \in Y
  <2>1. 0 .. n \subseteq Y
    BY <1>5, <1>6, InductionUpto
  <2> QED
    BY <2>1
<1> QED
  BY <1>1, <1>2, <1>4, <1>7 DEF Selected

\* Selecting from a sequence without repetition does not repeat either.
LEMMA SelectedDistinct ==
    ASSUME NEW T, NEW s \in Seq(T), NEW S,
           \A i, j \in 1 .. Len(s) : s[i] = s[j] => i = j
    PROVE  \A k, l \in 1 .. Len(Selected(s, S)) :
              Selected(s, S)[k] = Selected(s, S)[l] => k = l
<1>1. PICK R : R = {p \in T \X T : p[1] # p[2]}
  OBVIOUS
<1>2. \A i, j \in 1 .. Len(s) : i < j => <<s[i], s[j]>> \in R
  BY <1>1, ElementOfSeq
<1>3. \A k, l \in 1 .. Len(Selected(s, S)) :
         k < l => <<Selected(s, S)[k], Selected(s, S)[l]>> \in R
  BY <1>2, SelectedOrder
<1>4. Selected(s, S) \in Seq(T)
  BY SelectedMembers
<1>5. SUFFICES ASSUME NEW k \in 1 .. Len(Selected(s, S)), NEW l \in 1 .. Len(Selected(s, S)),
                      k < l
               PROVE  Selected(s, S)[k] # Selected(s, S)[l]
  BY <1>4
<1>6. <<Selected(s, S)[k], Selected(s, S)[l]>> \in R
  BY <1>3, <1>5
<1> QED
  BY <1>1, <1>6

\* The same about names for the selection and the length.
LEMMA SelectionLoop ==
    ASSUME NEW T, NEW s \in Seq(T), NEW S, NEW F, F = SelectedUpto(s, S), NEW n, n = Len(s)
    PROVE  /\ F \in [0 .. n -> Seq(T)]
           /\ F[0] = <<>>
           /\ \A i \in 1 .. n : F[i] = IF s[i] \in S THEN Append(F[i - 1], s[i]) ELSE F[i - 1]
BY SelectedUptoValues

\* p is u followed by v.
Joined(T, u, v, p) == u \in Seq(T) /\ v \in Seq(T) /\ p = u \o v

\* The values of p, which has m of u and n of v.
Values(T, p, u, m, v, n) ==
    /\ m \in Nat /\ n \in Nat /\ p \in Seq(T) /\ Len(p) = m + n
    /\ \A i \in 1 .. m + n : p[i] = IF i <= m THEN u[i] ELSE v[i - m]

LEMMA JoinedValues ==
    ASSUME NEW T, NEW u, NEW v, NEW p, Joined(T, u, v, p)
    PROVE  Values(T, p, u, Len(u), v, Len(v))
BY ConcatProperties DEF Joined, Values

\* Appending to the second of two sequences.
LEMMA AppendToConcat ==
    ASSUME NEW T, NEW u, NEW v, NEW p, Joined(T, u, v, p), NEW e, e \in T
    PROVE  Joined(T, u, Append(v, e), Append(p, e))
<1> USE DEF Joined
<1>1. PICK a, b, q : a = Append(p, e) /\ q = Append(v, e) /\ b = u \o q
  OBVIOUS
<1> u \in Seq(T) /\ v \in Seq(T)
  OBVIOUS
<1>2. /\ p \in Seq(T) /\ Len(p) = Len(u) + Len(v) /\ Len(u) \in Nat /\ Len(v) \in Nat
      /\ \A i \in 1 .. Len(p) : p[i] = IF i <= Len(u) THEN u[i] ELSE v[i - Len(u)]
  BY <1>1, ConcatProperties
<1>3. /\ a \in Seq(T) /\ Len(a) = Len(p) + 1
      /\ \A i \in 1 .. Len(p) : a[i] = p[i]
      /\ a[Len(p) + 1] = e
  BY <1>1, <1>2, AppendProperties
<1>4. /\ q \in Seq(T) /\ Len(q) = Len(v) + 1
      /\ \A i \in 1 .. Len(v) : q[i] = v[i]
      /\ q[Len(v) + 1] = e
  BY <1>1, AppendProperties
<1>5. /\ b \in Seq(T) /\ Len(b) = Len(u) + Len(q)
      /\ \A i \in 1 .. Len(b) : b[i] = IF i <= Len(u) THEN u[i] ELSE q[i - Len(u)]
  <2>1. u \in Seq(T) /\ q \in Seq(T)
    BY <1>4
  <2>2. b = u \o q
    BY <1>1
  <2> QED
    BY ONLY <2>1, <2>2, ConcatProperties
<1>6. Len(a) = Len(b)
  BY <1>2, <1>3, <1>4, <1>5
<1>7. ASSUME NEW i \in 1 .. Len(a) PROVE a[i] = b[i]
  <2>1. CASE i = Len(p) + 1
    <3>1. ~(i <= Len(u)) /\ i - Len(u) = Len(v) + 1
      BY <1>2, <2>1
    <3> QED
      BY <1>3, <1>4, <1>5, <1>6, <2>1, <3>1
  <2>2. CASE i # Len(p) + 1
    <3>1. i \in 1 .. Len(p) /\ (~(i <= Len(u)) => i - Len(u) \in 1 .. Len(v))
      <4>1. PICK lu, lv : lu = Len(u) /\ lv = Len(v) /\ lu \in Nat /\ lv \in Nat
        BY <1>2
      <4>2. i \in 1 .. lu + lv + 1 /\ i # lu + lv + 1
        BY <1>2, <1>3, <2>2, <4>1
      <4>3. i \in 1 .. lu + lv /\ (~(i <= lu) => i - lu \in 1 .. lv)
        BY ONLY <4>1, <4>2
      <4> QED
        BY <1>2, <4>1, <4>3
    <3> QED
      BY <1>2, <1>3, <1>4, <1>5, <1>6, <3>1
  <2> QED
    BY <2>1, <2>2
<1>8. a = b
  BY <1>3, <1>5, <1>6, <1>7, SeqEqual
<1> QED
  BY <1>1, <1>4, <1>8

\* Selecting from two sequences one after the other.
LEMMA SelectedConcat ==
    ASSUME NEW T, NEW s \in Seq(T), NEW t \in Seq(T), NEW S
    PROVE  Selected(s \o t, S) = Selected(s, S) \o Selected(t, S)
<1>1. PICK m, n, c : m = Len(s) /\ n = Len(t) /\ c = s \o t
  OBVIOUS
<1>2. /\ m \in Nat /\ n \in Nat /\ c \in Seq(T) /\ Len(c) = m + n
      /\ \A i \in 1 .. m + n : c[i] = IF i <= m THEN s[i] ELSE t[i - m]
  BY <1>1, ConcatProperties
<1>3. PICK F, G, H : F = SelectedUpto(s, S) /\ G = SelectedUpto(t, S) /\ H = SelectedUpto(c, S)
  OBVIOUS
<1>4. /\ F \in [0 .. m -> Seq(T)] /\ F[0] = <<>>
      /\ \A i \in 1 .. m : F[i] = IF s[i] \in S THEN Append(F[i - 1], s[i]) ELSE F[i - 1]
  <2>1. s \in Seq(T) /\ F = SelectedUpto(s, S) /\ m = Len(s)
    BY <1>1, <1>3
  <2> QED
    BY ONLY <2>1, SelectionLoop
<1>5. /\ G \in [0 .. n -> Seq(T)] /\ G[0] = <<>>
      /\ \A i \in 1 .. n : G[i] = IF t[i] \in S THEN Append(G[i - 1], t[i]) ELSE G[i - 1]
  <2>1. t \in Seq(T) /\ G = SelectedUpto(t, S) /\ n = Len(t)
    BY <1>1, <1>3
  <2> QED
    BY ONLY <2>1, SelectionLoop
<1>6. /\ H[0] = <<>>
      /\ \A i \in 1 .. m + n : H[i] = IF c[i] \in S THEN Append(H[i - 1], c[i]) ELSE H[i - 1]
  <2>1. c \in Seq(T) /\ H = SelectedUpto(c, S) /\ m + n = Len(c)
    BY <1>2, <1>3
  <2> QED
    BY ONLY <2>1, SelectionLoop
<1>7. H[m] = F[m]
  <2>1. PICK Y : Y = {i \in 0 .. m : H[i] = F[i]}
    OBVIOUS
  <2>2. 0 \in Y
    BY <1>2, <1>4, <1>6, <2>1
  <2>3. ASSUME NEW i \in 1 .. m, i - 1 \in Y PROVE i \in Y
    <3>1. c[i] = s[i] /\ i \in 1 .. m + n /\ i \in 0 .. m /\ H[i - 1] = F[i - 1]
      BY <1>2, <2>1, <2>3
    <3> QED
      BY <1>4, <1>6, <2>1, <3>1
  <2>4. 0 .. m \subseteq Y
    BY <1>2, <2>2, <2>3, InductionUpto
  <2>5. m \in 0 .. m
    BY <1>2
  <2> QED
    BY <2>1, <2>4, <2>5
<1>8. PICK f \in Seq(T) : f = F[m]
  BY <1>2, <1>4
<1>9. Joined(T, f, G[n], H[m + n])
  <2>1. PICK Y : Y = {i \in 0 .. n : Joined(T, f, G[i], H[m + i])}
    OBVIOUS
  <2>2. 0 \in Y
    <3>1. f \o <<>> = f /\ m + 0 = m /\ 0 \in 0 .. n /\ <<>> \in Seq(T)
      BY <1>2, ConcatEmptySeq
    <3>2. Joined(T, f, G[0], H[m + 0])
      BY <1>5, <1>7, <1>8, <3>1 DEF Joined
    <3> QED
      BY <2>1, <3>1, <3>2
  <2>3. ASSUME NEW i \in 1 .. n, i - 1 \in Y PROVE i \in Y
    <3>1. PICK j, e : j = m + i /\ e = t[i]
      OBVIOUS
    <3>2. /\ j \in 1 .. m + n /\ ~(j <= m) /\ j - m = i /\ j - 1 = m + (i - 1)
          /\ i - 1 \in 0 .. n /\ i \in 0 .. n
      BY <1>2, <3>1
    <3>3. c[j] = e /\ e \in T
      BY <1>1, <1>2, <3>1, <3>2, ElementOfSeq
    <3>4. PICK g, p : g = G[i - 1] /\ p = H[j - 1]
      OBVIOUS
    <3>5. Joined(T, f, g, p)
      BY <2>1, <2>3, <3>2, <3>4
    <3>6. Joined(T, f, Append(g, e), Append(p, e))
      BY ONLY <3>3, <3>5, AppendToConcat
    <3>7. Joined(T, f, G[i], H[j])
      <4>1. CASE e \in S
        <5>1. G[i] = Append(g, e) /\ H[j] = Append(p, e)
          BY <1>5, <1>6, <3>1, <3>2, <3>3, <3>4, <4>1
        <5> QED
          BY <3>6, <5>1
      <4>2. CASE e \notin S
        <5>1. G[i] = g /\ H[j] = p
          BY <1>5, <1>6, <3>1, <3>2, <3>3, <3>4, <4>2
        <5> QED
          BY <3>5, <5>1
      <4> QED
        BY <4>1, <4>2
    <3> QED
      BY <2>1, <3>1, <3>2, <3>7
  <2>4. 0 .. n \subseteq Y
    BY <1>2, <2>2, <2>3, InductionUpto
  <2>5. n \in 0 .. n
    BY <1>2
  <2> QED
    BY <2>1, <2>4, <2>5
<1> QED
  BY <1>1, <1>2, <1>3, <1>8, <1>9 DEF Selected, Joined

LEMMA SelectedSingle ==
    ASSUME NEW T, NEW e \in T, NEW S
    PROVE  Selected(<<e>>, S) = IF e \in S THEN <<e>> ELSE <<>>
<1>1. PICK s : s = <<e>> /\ s \in Seq(T)
  <2>1. <<e>> \in Seq(T)
    OBVIOUS
  <2> QED
    BY <2>1
<1>2. Len(s) = 1 /\ s[1] = e /\ 1 \in 1 .. Len(s) /\ 1 - 1 = 0
  BY <1>1
<1>3. PICK F : F = SelectedUpto(s, S)
  OBVIOUS
<1>4. PICK n : n = 1
  OBVIOUS
<1>5. /\ F[0] = <<>>
      /\ \A i \in 1 .. n : F[i] = IF s[i] \in S THEN Append(F[i - 1], s[i]) ELSE F[i - 1]
  <2>1. s \in Seq(T) /\ F = SelectedUpto(s, S) /\ n = Len(s)
    BY <1>1, <1>2, <1>3, <1>4
  <2> QED
    BY ONLY <2>1, SelectionLoop
<1>6. F[1] = IF e \in S THEN Append(<<>>, e) ELSE <<>>
  BY <1>2, <1>5, <1>4
<1>7. Append(<<>>, e) = <<e>>
  OBVIOUS
<1> QED
  BY <1>1, <1>2, <1>3, <1>7, <1>6 DEF Selected

\* A sequence of numbers that never falls from one to the next.
LEMMA Monotone ==
    ASSUME NEW n, n \in Nat, NEW U, U \in [0 .. n -> Nat], \A i \in 1 .. n : U[i - 1] <= U[i]
    PROVE  \A i, j \in 0 .. n : i <= j => U[i] <= U[j]
<1>1. PICK Y : Y = {j \in 0 .. n : \A i \in 0 .. n : i <= j => U[i] <= U[j]}
  OBVIOUS
<1>2. 0 \in Y
  <2>1. ASSUME NEW i \in 0 .. n, i <= 0 PROVE U[i] <= U[0]
    <3>1. i = 0 /\ U[0] \in Nat
      BY <2>1
    <3> QED
      BY <3>1
  <2> QED
    BY <1>1, <2>1
<1>3. ASSUME NEW j \in 1 .. n, j - 1 \in Y PROVE j \in Y
  <2>1. ASSUME NEW i \in 0 .. n, i <= j PROVE U[i] <= U[j]
    <3>1. U[i] \in Nat /\ U[j] \in Nat /\ U[j - 1] \in Nat /\ U[j - 1] <= U[j]
      <4>1. j \in 0 .. n /\ j - 1 \in 0 .. n
        OBVIOUS
      <4> QED
        BY <4>1
    <3>2. CASE i = j
      BY <3>1, <3>2
    <3>3. CASE i # j
      <4>1. i <= j - 1
        BY <2>1, <3>3
      <4>2. U[i] <= U[j - 1]
        BY <1>1, <1>3, <4>1
      <4> QED
        BY <3>1, <4>2
    <3> QED
      BY <3>2, <3>3
  <2>2. j \in 0 .. n
    OBVIOUS
  <2> QED
    BY <1>1, <2>1, <2>2
<1>4. 0 .. n \subseteq Y
  BY <1>2, <1>3, InductionUpto
<1> QED
  BY <1>1, <1>4
-----------------------------------------------------------------------------
(* Sums over finite sets.                                                  *)

\* Induction on the subsets of a finite set, one element at a time.
LEMMA InductionOnSubsets ==
    ASSUME NEW S, IsFiniteSet(S), NEW Y, {} \in Y,
           \A T \in SUBSET S : T # {} /\ (\A x \in T : T \ {x} \in Y) => T \in Y
    PROVE  SUBSET S \subseteq Y
<1>1. PICK N : N = {n \in Nat : \A T \in SUBSET S : Cardinality(T) = n => T \in Y}
  OBVIOUS
<1>2. \A T \in SUBSET S : IsFiniteSet(T) /\ Cardinality(T) \in Nat
  BY FS_Subset, FS_CardinalityType
<1>3. 0 \in N
  <2>1. ASSUME NEW T \in SUBSET S, Cardinality(T) = 0 PROVE T \in Y
    BY <1>2, <2>1, FS_EmptySet
  <2> QED
    BY <1>1, <2>1
<1>4. ASSUME NEW n \in Nat, n \in N PROVE n + 1 \in N
  <2>1. ASSUME NEW T \in SUBSET S, Cardinality(T) = n + 1 PROVE T \in Y
    <3>1. T # {}
      <4>1. Cardinality({}) = 0 /\ n + 1 # 0
        BY FS_EmptySet
      <4> QED
        BY <2>1, <4>1
    <3>2. ASSUME NEW x \in T PROVE T \ {x} \in Y
      <4>1. T \ {x} \in SUBSET S /\ Cardinality(T \ {x}) = n
        BY <1>2, <2>1, FS_RemoveElement
      <4> QED
        BY <1>1, <1>4, <4>1
    <3> QED
      BY <3>1, <3>2
  <2> QED
    BY <1>1, <2>1
<1>5. Nat \subseteq N
  BY <1>3, <1>4, InductionOnSet
<1> QED
  BY <1>1, <1>2, <1>5

\* A function on the subsets of S that adds up f as SumFunctionOnSet does.
Adds(F, f, S) ==
    F = [s \in SUBSET S |->
            IF s = {} THEN 0
            ELSE f[CHOOSE x \in s : TRUE] + F[s \ {CHOOSE x \in s : TRUE}]]

\* One step of such a function.
LEMMA AddsOne ==
    ASSUME NEW S, NEW f, NEW F, Adds(F, f, S)
    PROVE  /\ F[{}] = 0
           /\ \A T \in SUBSET S : T # {} =>
                 \E c \in T : /\ c = CHOOSE x \in T : TRUE
                              /\ F[T] = f[c] + F[T \ {c}]
<1>1. F[{}] = 0
  BY DEF Adds
<1>2. ASSUME NEW T \in SUBSET S, T # {}
      PROVE  \E c \in T : c = (CHOOSE x \in T : TRUE) /\ F[T] = f[c] + F[T \ {c}]
  <2>1. PICK c : c = CHOOSE x \in T : TRUE
    OBVIOUS
  <2>2. c \in T
    BY <1>2, <2>1
  <2>3. F[T] = f[c] + F[T \ {c}]
    BY <1>2, <2>1 DEF Adds
  <2> QED
    BY <2>1, <2>2, <2>3
<1> QED
  BY <1>1, <1>2

\* There is only one, also on fewer elements.
LEMMA AddsAgree ==
    ASSUME NEW S, IsFiniteSet(S), NEW f, NEW F, Adds(F, f, S),
           NEW R \in SUBSET S, NEW G, Adds(G, f, R)
    PROVE  \A T \in SUBSET R : F[T] = G[T]
<1>1. PICK Y : Y = {T \in SUBSET R : F[T] = G[T]}
  OBVIOUS
<1>2. {} \in Y
  BY <1>1, AddsOne
<1>3. ASSUME NEW T \in SUBSET R, T # {}, \A x \in T : T \ {x} \in Y PROVE T \in Y
  <2>1. PICK c \in T : c = (CHOOSE x \in T : TRUE) /\ F[T] = f[c] + F[T \ {c}]
    BY <1>3, AddsOne
  <2>2. PICK d \in T : d = (CHOOSE x \in T : TRUE) /\ G[T] = f[d] + G[T \ {d}]
    BY <1>3, AddsOne
  <2>3. F[T \ {c}] = G[T \ {c}]
    BY <1>1, <1>3
  <2> QED
    BY <1>1, <2>1, <2>2, <2>3
<1>4. SUBSET R \subseteq Y
  <2>1. IsFiniteSet(R)
    BY FS_Subset
  <2> QED
    BY <1>2, <1>3, <2>1, InductionOnSubsets
<1> QED
  BY <1>1, <1>4

LEMMA AddsExists ==
    ASSUME NEW S, IsFiniteSet(S), NEW f
    PROVE  \E F : Adds(F, f, S)
<1>1. PICK Y : Y = {T \in SUBSET S : \E F : Adds(F, f, T)}
  OBVIOUS
<1>2. {} \in Y
  <2>1. PICK F : F = [s \in SUBSET {} |-> 0]
    OBVIOUS
  <2>2. Adds(F, f, {})
    BY <2>1 DEF Adds
  <2> QED
    BY <1>1, <2>2
<1>3. ASSUME NEW T \in SUBSET S, T # {}, \A x \in T : T \ {x} \in Y PROVE T \in Y
  <2>1. PICK G : G = [x \in T |-> CHOOSE F : Adds(F, f, T \ {x})]
    OBVIOUS
  <2>2. ASSUME NEW x \in T PROVE Adds(G[x], f, T \ {x})
    BY <1>1, <1>3, <2>1
  <2>3. PICK c : c = CHOOSE x \in T : TRUE
    OBVIOUS
  <2>4. c \in T
    BY <1>3, <2>3
  \* The value for a set that lacks x is that of G[x], whichever x.
  <2>5. PICK W : W = [s \in SUBSET T |->
                        IF s = T THEN f[c] + G[c][T \ {c}]
                        ELSE G[CHOOSE x \in T : x \notin s][s]]
    OBVIOUS
  <2>6. ASSUME NEW s \in SUBSET T, NEW x \in T, x \notin s PROVE W[s] = G[x][s]
    <3>1. PICK y : y = CHOOSE z \in T : z \notin s
      OBVIOUS
    <3>2. y \in T /\ y \notin s
      BY <2>6, <3>1
    <3>3. PICK B : B = T \ {x, y}
      OBVIOUS
    <3>4. s \in SUBSET B /\ B \in SUBSET (T \ {x}) /\ B \in SUBSET (T \ {y})
      BY <2>6, <3>2, <3>3
    <3>5. PICK H : Adds(H, f, B)
      <4>1. PICK H : H = [q \in SUBSET B |-> G[x][q]]
        OBVIOUS
      <4>2. Adds(G[x], f, T \ {x})
        BY <2>2
      <4>3. ASSUME NEW q \in SUBSET B
            PROVE  H[q] = IF q = {} THEN 0
                          ELSE f[CHOOSE z \in q : TRUE] + H[q \ {CHOOSE z \in q : TRUE}]
        <5>1. q \in SUBSET (T \ {x}) /\ q \ {CHOOSE z \in q : TRUE} \in SUBSET B
          BY <3>4
        <5>2. G[x][q] = IF q = {} THEN 0
                        ELSE f[CHOOSE z \in q : TRUE] + G[x][q \ {CHOOSE z \in q : TRUE}]
          BY <4>2, <5>1 DEF Adds
        <5> QED
          BY <4>1, <5>1, <5>2
      <4>4. Adds(H, f, B)
        BY <4>1, <4>3 DEF Adds
      <4> QED
        BY <4>4
    <3>6. IsFiniteSet(T \ {x}) /\ IsFiniteSet(T \ {y})
      BY FS_Subset
    <3>7. G[x][s] = H[s] /\ G[y][s] = H[s]
      <4>1. Adds(G[x], f, T \ {x}) /\ Adds(G[y], f, T \ {y})
        BY <2>2, <3>2
      <4>2. PICK A, U : A = G[x] /\ U = T \ {x}
        OBVIOUS
      <4>3. PICK C, V : C = G[y] /\ V = T \ {y}
        OBVIOUS
      <4>4. A[s] = H[s]
        <5>1. IsFiniteSet(U) /\ Adds(A, f, U) /\ B \in SUBSET U
          BY <3>4, <3>6, <4>1, <4>2
        <5> QED
          BY ONLY <3>4, <3>5, <5>1, AddsAgree
      <4>5. C[s] = H[s]
        <5>1. IsFiniteSet(V) /\ Adds(C, f, V) /\ B \in SUBSET V
          BY <3>4, <3>6, <4>1, <4>3
        <5> QED
          BY ONLY <3>4, <3>5, <5>1, AddsAgree
      <4> QED
        BY <4>2, <4>3, <4>4, <4>5
    <3>8. s # T
      BY <2>6
    <3> QED
      BY <2>5, <3>1, <3>7, <3>8
  <2>7. ASSUME NEW s \in SUBSET T
        PROVE  W[s] = IF s = {} THEN 0
                      ELSE f[CHOOSE z \in s : TRUE] + W[s \ {CHOOSE z \in s : TRUE}]
    <3>1. CASE s = T
      <4>1. W[T \ {c}] = G[c][T \ {c}]
        BY <2>4, <2>6
      <4> QED
        BY <1>3, <2>3, <2>5, <3>1, <4>1
    <3>2. CASE s # T
      <4>1. PICK x \in T : x \notin s
        BY <3>2
      <4>2. s \in SUBSET (T \ {x}) /\ Adds(G[x], f, T \ {x}) /\ W[s] = G[x][s]
        BY <2>2, <2>6, <4>1
      <4>3. CASE s = {}
        BY <4>2, <4>3, AddsOne
      <4>4. CASE s # {}
        <5>1. PICK d \in s : d = (CHOOSE z \in s : TRUE) /\ G[x][s] = f[d] + G[x][s \ {d}]
          BY <4>2, <4>4, AddsOne
        <5>2. W[s \ {d}] = G[x][s \ {d}]
          BY <2>6, <4>1
        <5> QED
          BY <4>2, <4>4, <5>1, <5>2
      <4> QED
        BY <4>3, <4>4
    <3> QED
      BY <3>1, <3>2
  <2>8. Adds(W, f, T)
    BY <2>5, <2>7 DEF Adds
  <2> QED
    BY <1>1, <2>8
<1>4. S \in Y
  BY <1>2, <1>3, InductionOnSubsets
<1> QED
  BY <1>1, <1>4

\* The sum of the library is such a function.
LEMMA SumAdds ==
    ASSUME NEW S, IsFiniteSet(S), NEW f
    PROVE  \E F : Adds(F, f, S) /\ F[S] = SumFunctionOnSet(f, S)
<1>1. PICK F : F = CHOOSE G : Adds(G, f, S)
  OBVIOUS
<1>2. Adds(F, f, S)
  BY <1>1, AddsExists
<1>3. F[S] = SumFunctionOnSet(f, S)
  BY <1>1, Zenon DEF SumFunctionOnSet, FoldFunctionOnSet, MapThenFoldSet, Adds
<1> QED
  BY <1>2, <1>3

\* What a sum is, in whatever order the members are taken.
LEMMA SumFacts ==
    ASSUME NEW S, IsFiniteSet(S), NEW f, \A x \in S : f[x] \in Nat
    PROVE  /\ SumFunctionOnSet(f, {}) = 0
           /\ SumFunctionOnSet(f, S) \in Nat
           /\ \A x \in S : SumFunctionOnSet(f, S) = f[x] + SumFunctionOnSet(f, S \ {x})
<1>1. PICK F : Adds(F, f, S)
  BY AddsExists
<1>2. ASSUME NEW T \in SUBSET S PROVE F[T] = SumFunctionOnSet(f, T) /\ IsFiniteSet(T)
  <2>1. IsFiniteSet(T)
    BY FS_Subset
  <2>2. PICK G : Adds(G, f, T) /\ G[T] = SumFunctionOnSet(f, T)
    BY <2>1, SumAdds
  <2>3. F[T] = G[T]
    BY <1>1, <2>2, AddsAgree
  <2> QED
    BY <2>1, <2>2, <2>3
<1>3. \A T \in SUBSET S : F[T] \in Nat
  <2>1. PICK Y : Y = {T \in SUBSET S : F[T] \in Nat}
    OBVIOUS
  <2>2. {} \in Y
    BY <1>1, <2>1, AddsOne
  <2>3. ASSUME NEW T \in SUBSET S, T # {}, \A x \in T : T \ {x} \in Y PROVE T \in Y
    <3>1. PICK c \in T : F[T] = f[c] + F[T \ {c}]
      BY <1>1, <2>3, AddsOne
    <3>2. f[c] \in Nat /\ F[T \ {c}] \in Nat
      BY <2>1, <2>3
    <3> QED
      BY <2>1, <3>1, <3>2
  <2>4. SUBSET S \subseteq Y
    BY <2>2, <2>3, InductionOnSubsets
  <2> QED
    BY <2>1, <2>4
<1>4. \A T \in SUBSET S : \A x \in T : F[T] = f[x] + F[T \ {x}]
  <2>1. PICK Y : Y = {T \in SUBSET S : \A x \in T : F[T] = f[x] + F[T \ {x}]}
    OBVIOUS
  <2>2. {} \in Y
    BY <2>1
  <2>3. ASSUME NEW T \in SUBSET S, T # {}, \A x \in T : T \ {x} \in Y PROVE T \in Y
    <3>1. PICK c \in T : F[T] = f[c] + F[T \ {c}]
      BY <1>1, <2>3, AddsOne
    <3>2. ASSUME NEW x \in T, x # c PROVE F[T] = f[x] + F[T \ {x}]
      <4>1. PICK U : U = T \ {c, x}
        OBVIOUS
      <4>2. /\ (T \ {c}) \ {x} = U /\ (T \ {x}) \ {c} = U
            /\ x \in T \ {c} /\ c \in T \ {x} /\ U \in SUBSET S
        BY <3>2, <4>1
      <4>3. F[T \ {c}] = f[x] + F[U]
        BY <2>1, <2>3, <4>2
      <4>4. F[T \ {x}] = f[c] + F[U]
        BY <2>1, <2>3, <4>2
      <4>5. F[U] \in Nat /\ f[c] \in Nat /\ f[x] \in Nat
        BY <1>3, <4>2
      <4> QED
        BY ONLY <3>1, <4>3, <4>4, <4>5
    <3> QED
      BY <2>1, <3>1, <3>2
  <2>4. SUBSET S \subseteq Y
    BY <2>2, <2>3, InductionOnSubsets
  <2> QED
    BY <2>1, <2>4
<1>5. {} \in SUBSET S /\ S \in SUBSET S /\ \A x \in S : S \ {x} \in SUBSET S
  OBVIOUS
<1>6. F[{}] = 0
  BY <1>1, AddsOne
<1> QED
  BY <1>2, <1>3, <1>4, <1>5, <1>6

\* Functions that agree on a set have the same sum.
LEMMA SumAgree ==
    ASSUME NEW S, IsFiniteSet(S), NEW f, \A x \in S : f[x] \in Nat,
           NEW g, \A x \in S : g[x] = f[x]
    PROVE  SumFunctionOnSet(f, S) = SumFunctionOnSet(g, S)
<1>1. PICK Y : Y = {T \in SUBSET S : SumFunctionOnSet(f, T) = SumFunctionOnSet(g, T)}
  OBVIOUS
<1>2. ASSUME NEW T \in SUBSET S PROVE IsFiniteSet(T)
  BY FS_Subset
<1>3. {} \in Y
  <2>1. IsFiniteSet({})
    BY FS_EmptySet
  <2>2. SumFunctionOnSet(f, {}) = 0 /\ SumFunctionOnSet(g, {}) = 0
    BY <2>1, SumFacts
  <2> QED
    BY <1>1, <2>2
<1>4. ASSUME NEW T \in SUBSET S, T # {}, \A x \in T : T \ {x} \in Y PROVE T \in Y
  <2>1. PICK x \in T : TRUE
    BY <1>4
  <2>2. IsFiniteSet(T) /\ (\A y \in T : f[y] \in Nat) /\ (\A y \in T : g[y] \in Nat)
    BY <1>2
  <2>3. SumFunctionOnSet(f, T) = f[x] + SumFunctionOnSet(f, T \ {x})
    BY ONLY <2>1, <2>2, SumFacts
  <2>4. SumFunctionOnSet(g, T) = g[x] + SumFunctionOnSet(g, T \ {x})
    BY ONLY <2>1, <2>2, SumFacts
  <2>5. SumFunctionOnSet(f, T \ {x}) = SumFunctionOnSet(g, T \ {x}) /\ f[x] = g[x]
    BY <1>1, <1>4
  <2> QED
    BY <1>1, <2>3, <2>4, <2>5
<1>5. S \in Y
  BY <1>3, <1>4, InductionOnSubsets
<1> QED
  BY <1>1, <1>5

\* The number of members is a sum of ones.
LEMMA SumOfOnes ==
    ASSUME NEW S, IsFiniteSet(S), NEW f, \A x \in S : f[x] = 1
    PROVE  SumFunctionOnSet(f, S) = Cardinality(S)
<1>1. PICK Y : Y = {T \in SUBSET S : SumFunctionOnSet(f, T) = Cardinality(T)}
  OBVIOUS
<1>2. {} \in Y
  <2>1. IsFiniteSet({}) /\ Cardinality({}) = 0
    BY FS_EmptySet
  <2>2. SumFunctionOnSet(f, {}) = 0
    BY <2>1, SumFacts
  <2> QED
    BY <1>1, <2>1, <2>2
<1>3. ASSUME NEW T \in SUBSET S, T # {}, \A x \in T : T \ {x} \in Y PROVE T \in Y
  <2>1. PICK x \in T : TRUE
    BY <1>3
  <2>2. IsFiniteSet(T) /\ (\A y \in T : f[y] \in Nat)
    BY FS_Subset
  <2>3. SumFunctionOnSet(f, T) = f[x] + SumFunctionOnSet(f, T \ {x})
    BY ONLY <2>1, <2>2, SumFacts
  <2>4. SumFunctionOnSet(f, T \ {x}) = Cardinality(T \ {x}) /\ f[x] = 1
    BY <1>1, <1>3
  <2>5. Cardinality(T \ {x}) = Cardinality(T) - 1 /\ Cardinality(T) \in Nat
    BY <2>2, FS_RemoveElement, FS_CardinalityType
  <2> QED
    BY <1>1, <2>3, <2>4, <2>5
<1>4. S \in Y
  BY <1>2, <1>3, InductionOnSubsets
<1> QED
  BY <1>1, <1>4

\* Grouping does not change a sum: S is partitioned by r, and g has the sum of
\* each group.
LEMMA SumByGroups ==
    ASSUME NEW S, IsFiniteSet(S), NEW f, \A x \in S : f[x] \in Nat, NEW r, NEW g,
           \A v \in {r[x] : x \in S} : g[v] = SumFunctionOnSet(f, {x \in S : r[x] = v})
    PROVE  /\ IsFiniteSet({r[x] : x \in S})
           /\ SumFunctionOnSet(g, {r[x] : x \in S}) = SumFunctionOnSet(f, S)
<1> DEFINE Image(T) == {r[x] : x \in T}
           Group(v, T) == {x \in T : r[x] = v}
           Grouped(T) == [v \in Image(T) |-> SumFunctionOnSet(f, Group(v, T))]
<1>1. ASSUME NEW T \in SUBSET S
      PROVE  /\ IsFiniteSet(T) /\ IsFiniteSet(Image(T))
             /\ \A x \in T : f[x] \in Nat
             /\ \A v : IsFiniteSet(Group(v, T)) /\ SumFunctionOnSet(f, Group(v, T)) \in Nat
  <2>1. IsFiniteSet(T)
    BY FS_Subset
  <2>2. IsFiniteSet(Image(T))
    <3>1. PICK m : m = [x \in T |-> r[x]]
      OBVIOUS
    <3>2. m \in Surjection(T, Image(T))
      BY <3>1 DEF Surjection
    <3> QED
      BY <2>1, <3>2, FS_Surjection
  <2>3. ASSUME NEW v PROVE IsFiniteSet(Group(v, T)) /\ SumFunctionOnSet(f, Group(v, T)) \in Nat
    <3>1. PICK G : G = Group(v, T)
      OBVIOUS
    <3>2. IsFiniteSet(G)
      BY <2>1, <3>1, FS_Subset
    <3>3. \A x \in G : f[x] \in Nat
      BY <3>1
    <3>4. SumFunctionOnSet(f, G) \in Nat
      BY ONLY <3>2, <3>3, SumFacts
    <3> QED
      BY <3>1, <3>2, <3>4
  <2> QED
    BY <2>1, <2>2, <2>3
<1>2. PICK Y : Y = {T \in SUBSET S : SumFunctionOnSet(Grouped(T), Image(T))
                                        = SumFunctionOnSet(f, T)}
  OBVIOUS
<1>3. {} \in Y
  <2>1. Image({}) = {}
    OBVIOUS
  <2>2. PICK h : h = Grouped({})
    OBVIOUS
  <2>3. SumFunctionOnSet(f, {}) = 0 /\ SumFunctionOnSet(h, {}) = 0
    BY FS_EmptySet, SumFacts
  <2> QED
    BY <1>2, <2>1, <2>2, <2>3
<1>4. ASSUME NEW T \in SUBSET S, T # {}, \A x \in T : T \ {x} \in Y PROVE T \in Y
  <2>1. PICK x \in T : TRUE
    BY <1>4
  <2>2. PICK v, U : v = r[x] /\ U = T \ {x}
    OBVIOUS
  <2>3. PICK I, J, h, k : /\ I = Image(T) /\ h = Grouped(T)
                          /\ J = Image(U) /\ k = Grouped(U)
    OBVIOUS
  <2>4. v \in I /\ J \subseteq I /\ I \ {v} \subseteq J /\ U \in SUBSET S
    BY <2>1, <2>2, <2>3
  <2>5. /\ IsFiniteSet(I) /\ IsFiniteSet(J)
        /\ \A w \in I : h[w] \in Nat
        /\ \A w \in J : k[w] \in Nat
    <3>1. IsFiniteSet(I) /\ IsFiniteSet(J)
      BY <1>1, <2>3, <2>4
    <3>2. \A w \in I : h[w] \in Nat
      BY <1>1, <2>3
    <3>3. \A w \in J : k[w] \in Nat
      <4>1. \A w : SumFunctionOnSet(f, Group(w, U)) \in Nat
        BY <1>1, <2>4
      <4> QED
        BY <2>3, <4>1
    <3> QED
      BY ONLY <3>1, <3>2, <3>3
  <2>6. \A w \in I \ {v} : h[w] = k[w]
    <3>1. ASSUME NEW w \in I \ {v} PROVE h[w] = k[w]
      <4>1. Group(w, T) = Group(w, U)
        BY <2>2
      <4> QED
        BY <2>3, <2>4, <4>1
    <3> QED
      BY <3>1
  <2>7. h[v] = f[x] + SumFunctionOnSet(f, Group(v, U))
    <3>1. PICK G, H : G = Group(v, T) /\ H = Group(v, U)
      OBVIOUS
    <3>2. x \in G /\ G \ {x} = H
      BY <2>1, <2>2, <3>1
    <3>3. IsFiniteSet(G) /\ \A y \in G : f[y] \in Nat
      BY <1>1, <3>1
    <3>4. SumFunctionOnSet(f, G) = f[x] + SumFunctionOnSet(f, G \ {x})
      BY ONLY <3>2, <3>3, SumFacts
    <3> QED
      BY <2>3, <2>4, <3>1, <3>2, <3>4
  <2>8. SumFunctionOnSet(h, I) = h[v] + SumFunctionOnSet(h, I \ {v})
    BY ONLY <2>4, <2>5, SumFacts
  <2>9. SumFunctionOnSet(h, I \ {v}) = SumFunctionOnSet(k, I \ {v})
    <3>1. IsFiniteSet(I \ {v}) /\ \A w \in I \ {v} : h[w] \in Nat /\ k[w] = h[w]
      BY <2>5, <2>6, FS_Subset
    <3> QED
      BY ONLY <3>1, SumAgree
  <2>10. SumFunctionOnSet(k, J)
            = SumFunctionOnSet(f, Group(v, U)) + SumFunctionOnSet(k, I \ {v})
    <3>1. CASE v \in J
      <4>1. J \ {v} = I \ {v} /\ k[v] = SumFunctionOnSet(f, Group(v, U))
        BY <2>3, <2>4, <3>1
      <4>2. SumFunctionOnSet(k, J) = k[v] + SumFunctionOnSet(k, J \ {v})
        BY ONLY <2>5, <3>1, SumFacts
      <4> QED
        BY <4>1, <4>2
    <3>2. CASE v \notin J
      <4>1. J = I \ {v} /\ Group(v, U) = {}
        BY <2>3, <2>4, <3>2
      <4>2. SumFunctionOnSet(f, {}) = 0
        BY FS_EmptySet, SumFacts
      <4>3. SumFunctionOnSet(k, J) \in Nat
        BY ONLY <2>5, SumFacts
      <4> QED
        BY <4>1, <4>2, <4>3
    <3> QED
      BY <3>1, <3>2
  <2>11. SumFunctionOnSet(f, T) = f[x] + SumFunctionOnSet(f, U)
    <3>1. IsFiniteSet(T) /\ \A y \in T : f[y] \in Nat
      BY <1>1
    <3> QED
      BY ONLY <2>1, <2>2, <3>1, SumFacts
  <2>12. SumFunctionOnSet(k, J) = SumFunctionOnSet(f, U)
    BY <1>2, <1>4, <2>1, <2>2, <2>3
  <2>13. /\ f[x] \in Nat /\ SumFunctionOnSet(f, Group(v, U)) \in Nat
         /\ SumFunctionOnSet(k, I \ {v}) \in Nat
    <3>1. IsFiniteSet(I \ {v}) /\ \A w \in I \ {v} : k[w] \in Nat
      BY <2>4, <2>5, FS_Subset
    <3>2. SumFunctionOnSet(k, I \ {v}) \in Nat
      BY ONLY <3>1, SumFacts
    <3> QED
      BY <1>1, <2>1, <2>4, <3>2
  <2>14. SumFunctionOnSet(h, I) = SumFunctionOnSet(f, T)
    BY ONLY <2>7, <2>8, <2>9, <2>10, <2>11, <2>12, <2>13
  <2> QED
    BY <1>2, <2>3, <2>14
<1>5. S \in Y
  <2> HIDE DEF Grouped
  <2> QED
    BY <1>3, <1>4, InductionOnSubsets
<1>6. SumFunctionOnSet(g, Image(S)) = SumFunctionOnSet(Grouped(S), Image(S))
  <2>1. PICK h, I : h = Grouped(S) /\ I = Image(S)
    OBVIOUS
  <2>2. IsFiniteSet(I) /\ \A v \in I : h[v] \in Nat /\ g[v] = h[v]
    <3>1. S \in SUBSET S
      OBVIOUS
    <3>2. IsFiniteSet(I)
      BY <1>1, <2>1, <3>1
    <3>3. ASSUME NEW v \in I PROVE h[v] \in Nat /\ g[v] = h[v]
      <4>1. h[v] = SumFunctionOnSet(f, Group(v, S))
        BY <2>1
      <4>2. SumFunctionOnSet(f, Group(v, S)) \in Nat
        BY <1>1, <3>1
      <4>3. g[v] = SumFunctionOnSet(f, Group(v, S))
        BY <2>1
      <4> QED
        BY <4>1, <4>2, <4>3
    <3> QED
      BY <3>2, <3>3
  <2>3. SumFunctionOnSet(h, I) = SumFunctionOnSet(g, I)
    BY ONLY <2>2, SumAgree
  <2> QED
    BY <2>1, <2>3
<1> QED
  BY <1>1, <1>2, <1>5, <1>6
=============================================================================
