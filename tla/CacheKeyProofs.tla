--------------------------- MODULE CacheKeyProofs ---------------------------
(***************************************************************************)
(* Theorems about CacheKey, for all bodies, however deep they nest, and    *)
(* every precision of the numbers.  JSON values are recursive: the         *)
(* functions on them exist, and say what they should, by induction on how  *)
(* deep a value nests.                                                     *)
(***************************************************************************)
EXTENDS CacheKey, DataProofs
-----------------------------------------------------------------------------
(* The raw values.                                                         *)

\* The values that nest at most one deeper than those in S.
Wrapped(S) == Scalars \cup ({"array"} \X Seq(S)) \cup ({"object"} \X Seq(KeyNames \X S))

\* The recursive function exists: level by level, the raw values are the scalars and what
\* wraps those of the level before.
LEMMA NestedLevels ==
    /\ NestedUpto[0] = Scalars
    /\ \A n \in 1 .. MaxDepth : NestedUpto[n] = Wrapped(NestedUpto[n - 1])
<1> DEFINE Level(F, n) == IF n = 0 THEN Scalars ELSE Wrapped(F[n - 1])
           Levels(F, m) == F = [n \in 0 .. m |-> Level(F, n)]
<1>1. MaxDepth \in Nat
  BY CacheKeyAssumption
<1>2. PICK Y : Y = {m \in 0 .. MaxDepth : \E F : Levels(F, m)}
  OBVIOUS
<1>3. 0 \in Y
  <2>1. PICK F : F = [n \in 0 .. 0 |-> Scalars]
    OBVIOUS
  <2>2. Levels(F, 0)
    BY <2>1
  <2> QED
    BY <1>1, <1>2, <2>2
<1>4. ASSUME NEW m \in 1 .. MaxDepth, m - 1 \in Y PROVE m \in Y
  <2>1. PICK F : Levels(F, m - 1)
    BY <1>2, <1>4
  <2>2. PICK G : G = [n \in 0 .. m |-> IF n = m THEN Wrapped(F[m - 1]) ELSE F[n]]
    OBVIOUS
  <2>3. ASSUME NEW n \in 0 .. m PROVE G[n] = Level(G, n)
    <3>1. \A i \in 0 .. m - 1 : G[i] = F[i] /\ F[i] = Level(F, i)
      BY <2>1, <2>2
    <3>2. CASE n = m
      <4>1. m - 1 \in 0 .. m - 1 /\ n # 0
        BY <1>4, <3>2
      <4>2. G[n - 1] = F[m - 1]
        BY <3>1, <3>2, <4>1
      <4> QED
        BY <2>2, <3>2, <4>1, <4>2
    <3>3. CASE n # m
      <4>1. n \in 0 .. m - 1
        BY <3>3
      <4>2. CASE n = 0
        BY <3>1, <4>1, <4>2
      <4>3. CASE n # 0
        <5>1. n - 1 \in 0 .. m - 1
          BY <4>1, <4>3
        <5> QED
          BY <3>1, <4>1, <4>3, <5>1
      <4> QED
        BY <4>2, <4>3
    <3> QED
      BY <3>2, <3>3
  <2>4. Levels(G, m)
    <3> HIDE DEF Level
    <3> QED
      BY <2>2, <2>3
  <2>5. m \in 0 .. MaxDepth
    OBVIOUS
  <2> HIDE DEF Levels
  <2> QED
    BY <1>2, <2>4, <2>5
<1>5. \E F : Levels(F, MaxDepth)
  <2>1. 0 .. MaxDepth \subseteq Y
    BY <1>1, <1>3, <1>4, InductionUpto
  <2>2. MaxDepth \in 0 .. MaxDepth
    BY <1>1
  <2> HIDE DEF Levels
  <2> QED
    BY <1>2, <2>1, <2>2
<1>6. PICK H : H = NestedUpto
  OBVIOUS
<1>7. Levels(H, MaxDepth)
  BY <1>5, <1>6 DEF NestedUpto, Wrapped
<1>8. \A n \in 0 .. MaxDepth : H[n] = Level(H, n)
  BY <1>7
<1>9. 0 \in 0 .. MaxDepth /\ \A n \in 1 .. MaxDepth : n \in 0 .. MaxDepth /\ n # 0
  BY <1>1
<1> QED
  BY <1>6, <1>8, <1>9

\* What a raw value of some depth consists of.
LEMMA RawShape ==
    ASSUME NEW n \in 0 .. MaxDepth, NEW raw \in NestedUpto[n]
    PROVE  \/ raw \in Scalars /\ raw[1] \in {"null", "bool", "number", "string"}
           \/ /\ n - 1 \in 0 .. MaxDepth /\ raw[1] = "array"
              /\ raw[2] \in Seq(NestedUpto[n - 1])
           \/ /\ n - 1 \in 0 .. MaxDepth /\ raw[1] = "object"
              /\ raw[2] \in Seq(KeyNames \X NestedUpto[n - 1])
<1>1. MaxDepth \in Nat
  BY CacheKeyAssumption
<1>2. ASSUME raw \in Scalars PROVE raw[1] \in {"null", "bool", "number", "string"}
  BY <1>2 DEF Scalars
<1>3. CASE n = 0
  BY <1>2, <1>3, NestedLevels
<1>4. CASE n # 0
  <2>1. n \in 1 .. MaxDepth /\ n - 1 \in 0 .. MaxDepth
    BY <1>1, <1>4
  <2>2. PICK S : S = NestedUpto[n - 1]
    OBVIOUS
  <2>3. raw \in Wrapped(S)
    BY <2>1, <2>2, NestedLevels
  <2>4. \/ raw \in Scalars
        \/ raw[1] = "array" /\ raw[2] \in Seq(S)
        \/ raw[1] = "object" /\ raw[2] \in Seq(KeyNames \X S)
    BY <2>3 DEF Wrapped
  <2> QED
    BY <1>2, <2>1, <2>2, <2>4
<1> QED
  BY <1>3, <1>4

\* What grows from level to level is greatest in the deepest.
LEMMA LevelsGrow ==
    ASSUME NEW N \in Nat, NEW F, \A n \in 1 .. N : F[n - 1] \subseteq F[n]
    PROVE  \A n \in 0 .. N : F[n] \subseteq F[N]
<1>1. PICK Y : Y = {i \in 0 .. N : F[N - i] \subseteq F[N]}
  OBVIOUS
<1>2. 0 \in Y
  BY <1>1
<1>3. ASSUME NEW i \in 1 .. N, i - 1 \in Y PROVE i \in Y
  <2>1. PICK n : n = N - (i - 1)
    OBVIOUS
  <2>2. n \in 1 .. N /\ n - 1 = N - i /\ i \in 0 .. N
    BY <2>1
  <2>3. F[n] \subseteq F[N]
    BY <1>1, <1>3, <2>1
  <2> QED
    BY <1>1, <2>2, <2>3
<1>4. 0 .. N \subseteq Y
  BY <1>2, <1>3, InductionUpto
<1>5. ASSUME NEW n \in 0 .. N PROVE F[n] \subseteq F[N]
  <2>1. N - n \in 0 .. N /\ N - (N - n) = n
    OBVIOUS
  <2>2. F[N - (N - n)] \subseteq F[N]
    BY <1>1, <1>4, <2>1
  <2> QED
    BY <2>1, <2>2
<1> QED
  BY <1>5

\* What nests less deep is among what may nest deeper.
LEMMA NestedGrows ==
    /\ \A n \in 1 .. MaxDepth : NestedUpto[n - 1] \subseteq NestedUpto[n]
    /\ \A n \in 0 .. MaxDepth : NestedUpto[n] \subseteq JSON
<1>1. MaxDepth \in Nat
  BY CacheKeyAssumption
<1>2. ASSUME NEW S, NEW T, S \subseteq T PROVE Wrapped(S) \subseteq Wrapped(T)
  <2>1. Seq(S) \subseteq Seq(T)
    BY <1>2, SeqMonotonic
  <2>2. Seq(KeyNames \X S) \subseteq Seq(KeyNames \X T)
    <3>1. KeyNames \X S \subseteq KeyNames \X T
      BY <1>2
    <3> QED
      BY <3>1, SeqMonotonic
  <2>3. {"array"} \X Seq(S) \subseteq {"array"} \X Seq(T)
    BY <2>1
  <2>4. {"object"} \X Seq(KeyNames \X S) \subseteq {"object"} \X Seq(KeyNames \X T)
    BY <2>2
  <2> QED
    BY <2>3, <2>4 DEF Wrapped
<1>3. PICK Y : Y = {n \in 0 .. MaxDepth : n # 0 => NestedUpto[n - 1] \subseteq NestedUpto[n]}
  OBVIOUS
<1>4. 0 \in Y
  BY <1>1, <1>3
<1>5. ASSUME NEW n \in 1 .. MaxDepth, n - 1 \in Y PROVE n \in Y
  <2>1. CASE n = 1
    <3>1. n \in 0 .. MaxDepth /\ n - 1 = 0
      BY <2>1
    <3>2. NestedUpto[n] = Wrapped(NestedUpto[n - 1]) /\ NestedUpto[0] = Scalars
      BY NestedLevels
    <3>3. NestedUpto[n - 1] \subseteq NestedUpto[n]
      BY <3>1, <3>2 DEF Wrapped
    <3> QED
      BY <1>3, <3>1, <3>3
  <2>2. CASE n # 1
    <3>1. n - 1 \in 1 .. MaxDepth /\ n \in 0 .. MaxDepth
      BY <1>1, <2>2
    <3>2. NestedUpto[(n - 1) - 1] \subseteq NestedUpto[n - 1]
      BY <1>3, <1>5, <3>1
    <3>3. /\ NestedUpto[n - 1] = Wrapped(NestedUpto[(n - 1) - 1])
          /\ NestedUpto[n] = Wrapped(NestedUpto[n - 1])
      BY <3>1, NestedLevels
    <3> QED
      BY <1>2, <1>3, <3>1, <3>2, <3>3
  <2> QED
    BY <2>1, <2>2
<1>6. 0 .. MaxDepth \subseteq Y
  BY <1>1, <1>4, <1>5, InductionUpto
<1>7. \A n \in 1 .. MaxDepth : NestedUpto[n - 1] \subseteq NestedUpto[n]
  BY <1>3, <1>6
<1>8. \A n \in 0 .. MaxDepth : NestedUpto[n] \subseteq NestedUpto[MaxDepth]
  BY <1>1, <1>7, LevelsGrow
<1> QED
  BY <1>7, <1>8 DEF JSON

\* The last occurrence of a key exists, and its value is what RawOf finds.
LEMMA LastOccurrence ==
    ASSUME NEW V, NEW fields \in Seq(KeyNames \X V), NEW key \in Keys(fields)
    PROVE  \E i \in 1 .. Len(fields) :
              /\ fields[i][1] = key /\ \A j \in i + 1 .. Len(fields) : fields[j][1] # key
              /\ RawOf(fields, key) = fields[i][2] /\ fields[i][2] \in V
<1>1. PICK n \in Nat : n = Len(fields)
  OBVIOUS
<1>2. PICK D : D = {n - i : i \in {j \in 1 .. n : fields[j][1] = key}}
  OBVIOUS
<1>3. D \subseteq Nat /\ D # {}
  BY <1>1, <1>2 DEF Keys
<1>4. PICK d \in D : \A c \in D : d <= c
  BY <1>3, LeastElement
<1>5. PICK i \in 1 .. n : fields[i][1] = key /\ d = n - i
  BY <1>2
<1>6. ASSUME NEW j \in i + 1 .. n PROVE fields[j][1] # key
  <2>1. j \in 1 .. n /\ ~(d <= n - j)
    BY <1>5
  <2> QED
    BY <1>2, <1>4, <2>1
<1>7. PICK last : last = CHOOSE m \in 1 .. Len(fields) :
                            /\ fields[m][1] = key
                            /\ \A j \in m + 1 .. Len(fields) : fields[j][1] # key
  OBVIOUS
<1>8. /\ last \in 1 .. n /\ fields[last][1] = key
      /\ \A j \in last + 1 .. n : fields[j][1] # key
  BY <1>1, <1>5, <1>6, <1>7
<1>9. RawOf(fields, key) = fields[last][2]
  BY <1>7 DEF RawOf
<1>10. fields[last] \in KeyNames \X V
  BY <1>1, <1>8, ElementOfSeq
<1> QED
  BY <1>1, <1>8, <1>9, <1>10

\* The raw value of a key that came is one of the values that came.
LEMMA RawOfMember ==
    ASSUME NEW V, NEW fields \in Seq(KeyNames \X V), NEW key \in Keys(fields)
    PROVE  RawOf(fields, key) \in V
<1>1. PICK i \in 1 .. Len(fields) : RawOf(fields, key) = fields[i][2] /\ fields[i][2] \in V
  BY LastOccurrence
<1> QED
  BY <1>1

\* What the decoder makes of a raw value when f has the values in it.
Decoded(exact, f, raw) ==
    IF raw[1] = "number" THEN <<"number", IF exact THEN raw[2] ELSE Float(raw[2])>>
    ELSE IF raw[1] = "string" THEN <<"string", raw[2]>>
    ELSE IF raw[1] = "array" THEN <<"array", [i \in 1 .. Len(raw[2]) |-> f[raw[2][i]]]>>
    ELSE IF raw[1] = "object"
         THEN <<"object", [k \in KeyNames |-> IF k \in Keys(raw[2]) THEN f[RawOf(raw[2], k)]
                                              ELSE Absent]>>
    ELSE raw

\* What the decoder makes of a value depends only on what it makes of those in it.
LEMMA DecodedSame ==
    ASSUME NEW exact, NEW n \in 0 .. MaxDepth, NEW raw \in NestedUpto[n], NEW f, NEW g,
           n - 1 \in 0 .. MaxDepth => \A m \in NestedUpto[n - 1] : f[m] = g[m]
    PROVE  Decoded(exact, f, raw) = Decoded(exact, g, raw)
<1>1. \/ raw[1] \in {"null", "bool", "number", "string"}
      \/ /\ n - 1 \in 0 .. MaxDepth /\ raw[1] = "array"
         /\ raw[2] \in Seq(NestedUpto[n - 1])
      \/ /\ n - 1 \in 0 .. MaxDepth /\ raw[1] = "object"
         /\ raw[2] \in Seq(KeyNames \X NestedUpto[n - 1])
  BY RawShape
<1>2. CASE raw[1] \in {"null", "bool", "number", "string"}
  BY <1>2 DEF Decoded
<1>3. CASE /\ n - 1 \in 0 .. MaxDepth /\ raw[1] = "array"
           /\ raw[2] \in Seq(NestedUpto[n - 1])
  <2>1. \A i \in 1 .. Len(raw[2]) : f[raw[2][i]] = g[raw[2][i]]
    BY <1>3, ElementOfSeq
  <2>2. [i \in 1 .. Len(raw[2]) |-> f[raw[2][i]]] = [i \in 1 .. Len(raw[2]) |-> g[raw[2][i]]]
    BY <2>1
  <2> QED
    BY <1>3, <2>2 DEF Decoded
<1>4. CASE /\ n - 1 \in 0 .. MaxDepth /\ raw[1] = "object"
           /\ raw[2] \in Seq(KeyNames \X NestedUpto[n - 1])
  <2>1. ASSUME NEW k \in Keys(raw[2]) PROVE f[RawOf(raw[2], k)] = g[RawOf(raw[2], k)]
    <3>1. PICK V, fields : V = NestedUpto[n - 1] /\ fields = raw[2]
      OBVIOUS
    <3>2. fields \in Seq(KeyNames \X V) /\ k \in Keys(fields)
      BY <1>4, <3>1
    <3>3. RawOf(fields, k) \in V
      BY ONLY <3>2, RawOfMember
    <3> QED
      BY <1>4, <3>1, <3>3
  <2>2. [k \in KeyNames |-> IF k \in Keys(raw[2]) THEN f[RawOf(raw[2], k)] ELSE Absent]
           = [k \in KeyNames |-> IF k \in Keys(raw[2]) THEN g[RawOf(raw[2], k)] ELSE Absent]
    BY <2>1
  <2> QED
    BY <1>4, <2>2 DEF Decoded
<1> QED
  BY <1>1, <1>2, <1>3, <1>4

\* The recursive function exists: the decoder does to every raw value what Decoded says.
LEMMA DecodedAsValues ==
    ASSUME NEW exact
    PROVE  DecodedAs(exact) = [raw \in JSON |-> Decoded(exact, DecodedAs(exact), raw)]
<1> DEFINE Solves(f, n) == f = [raw \in NestedUpto[n] |-> Decoded(exact, f, raw)]
<1>1. MaxDepth \in Nat
  BY CacheKeyAssumption
<1>2. PICK Y : Y = {n \in 0 .. MaxDepth : \E f : Solves(f, n)}
  OBVIOUS
<1>3. 0 \in Y
  <2>1. PICK f, g : g = <<>> /\ f = [raw \in NestedUpto[0] |-> Decoded(exact, g, raw)]
    OBVIOUS
  <2>2. ASSUME NEW raw \in NestedUpto[0] PROVE Decoded(exact, g, raw) = Decoded(exact, f, raw)
    <3>1. 0 \in 0 .. MaxDepth /\ 0 - 1 \notin 0 .. MaxDepth
      BY <1>1
    <3> QED
      BY <3>1, DecodedSame
  <2>3. Solves(f, 0)
    BY <2>1, <2>2
  <2> HIDE DEF Solves
  <2> QED
    BY <1>1, <1>2, <2>3
<1>4. ASSUME NEW n \in 1 .. MaxDepth, n - 1 \in Y PROVE n \in Y
  <2>1. PICK f : Solves(f, n - 1)
    BY <1>2, <1>4
  <2>2. PICK g : g = [raw \in NestedUpto[n] |-> Decoded(exact, f, raw)]
    OBVIOUS
  <2>3. ASSUME NEW m \in NestedUpto[n - 1] PROVE f[m] = g[m]
    <3>1. m \in NestedUpto[n]
      BY NestedGrows
    <3> QED
      BY <2>1, <2>2, <3>1
  <2>4. ASSUME NEW raw \in NestedUpto[n] PROVE Decoded(exact, f, raw) = Decoded(exact, g, raw)
    <3>1. n \in 0 .. MaxDepth
      OBVIOUS
    <3> QED
      BY <2>3, <3>1, DecodedSame
  <2>5. Solves(g, n)
    BY <2>2, <2>4
  <2>6. n \in 0 .. MaxDepth
    OBVIOUS
  <2> HIDE DEF Solves
  <2> QED
    BY <1>2, <2>5, <2>6
<1>5. \E f : Solves(f, MaxDepth)
  <2>1. 0 .. MaxDepth \subseteq Y
    BY <1>1, <1>3, <1>4, InductionUpto
  <2>2. MaxDepth \in 0 .. MaxDepth
    BY <1>1
  <2> HIDE DEF Solves
  <2> QED
    BY <1>2, <2>1, <2>2
<1>6. PICK h : h = DecodedAs(exact)
  OBVIOUS
<1>7. Solves(h, MaxDepth)
  BY <1>5, <1>6, Zenon DEF DecodedAs, Decoded, JSON
<1> QED
  BY <1>6, <1>7 DEF JSON
-----------------------------------------------------------------------------
(* The decoded values.                                                     *)

\* The decoded values that nest at most one deeper than those in S.
WrappedValues(S) ==
    PlainValues \cup ({"array"} \X Seq(S)) \cup ({"object"} \X [KeyNames -> S \cup {Absent}])

\* The recursive function exists: the decoded values, level by level.
LEMMA DecodedLevels ==
    /\ DecodedUpto[0] = PlainValues
    /\ \A n \in 1 .. MaxDepth : DecodedUpto[n] = WrappedValues(DecodedUpto[n - 1])
<1> DEFINE Level(F, n) == IF n = 0 THEN PlainValues ELSE WrappedValues(F[n - 1])
           Levels(F, m) == F = [n \in 0 .. m |-> Level(F, n)]
<1>1. MaxDepth \in Nat
  BY CacheKeyAssumption
<1>2. PICK Y : Y = {m \in 0 .. MaxDepth : \E F : Levels(F, m)}
  OBVIOUS
<1>3. 0 \in Y
  <2>1. PICK F : F = [n \in 0 .. 0 |-> PlainValues]
    OBVIOUS
  <2>2. Levels(F, 0)
    BY <2>1
  <2> QED
    BY <1>1, <1>2, <2>2
<1>4. ASSUME NEW m \in 1 .. MaxDepth, m - 1 \in Y PROVE m \in Y
  <2>1. PICK F : Levels(F, m - 1)
    BY <1>2, <1>4
  <2>2. PICK G : G = [n \in 0 .. m |-> IF n = m THEN WrappedValues(F[m - 1]) ELSE F[n]]
    OBVIOUS
  <2>3. ASSUME NEW n \in 0 .. m PROVE G[n] = Level(G, n)
    <3>1. \A i \in 0 .. m - 1 : G[i] = F[i] /\ F[i] = Level(F, i)
      BY <2>1, <2>2
    <3>2. CASE n = m
      <4>1. m - 1 \in 0 .. m - 1 /\ n # 0
        BY <1>4, <3>2
      <4>2. G[n - 1] = F[m - 1]
        BY <3>1, <3>2, <4>1
      <4> QED
        BY <2>2, <3>2, <4>1, <4>2
    <3>3. CASE n # m
      <4>1. n \in 0 .. m - 1
        BY <3>3
      <4>2. CASE n = 0
        BY <3>1, <4>1, <4>2
      <4>3. CASE n # 0
        <5>1. n - 1 \in 0 .. m - 1
          BY <4>1, <4>3
        <5> QED
          BY <3>1, <4>1, <4>3, <5>1
      <4> QED
        BY <4>2, <4>3
    <3> QED
      BY <3>2, <3>3
  <2>4. Levels(G, m)
    <3> HIDE DEF Level
    <3> QED
      BY <2>2, <2>3
  <2>5. m \in 0 .. MaxDepth
    OBVIOUS
  <2> HIDE DEF Levels
  <2> QED
    BY <1>2, <2>4, <2>5
<1>5. \E F : Levels(F, MaxDepth)
  <2>1. 0 .. MaxDepth \subseteq Y
    BY <1>1, <1>3, <1>4, InductionUpto
  <2>2. MaxDepth \in 0 .. MaxDepth
    BY <1>1
  <2> HIDE DEF Levels
  <2> QED
    BY <1>2, <2>1, <2>2
<1>6. PICK H : H = DecodedUpto
  OBVIOUS
<1>7. Levels(H, MaxDepth)
  BY <1>5, <1>6 DEF DecodedUpto, WrappedValues
<1>8. \A n \in 0 .. MaxDepth : H[n] = Level(H, n)
  BY <1>7
<1>9. 0 \in 0 .. MaxDepth /\ \A n \in 1 .. MaxDepth : n \in 0 .. MaxDepth /\ n # 0
  BY <1>1
<1> QED
  BY <1>6, <1>8, <1>9

\* Decoded values that nest less deep are among those that may nest deeper.
LEMMA DecodedGrows ==
    /\ \A n \in 1 .. MaxDepth : DecodedUpto[n - 1] \subseteq DecodedUpto[n]
    /\ \A n \in 0 .. MaxDepth : DecodedUpto[n] \subseteq DecodedUpto[MaxDepth]
<1>1. MaxDepth \in Nat
  BY CacheKeyAssumption
<1>2. ASSUME NEW S, NEW T, S \subseteq T PROVE WrappedValues(S) \subseteq WrappedValues(T)
  <2>1. Seq(S) \subseteq Seq(T)
    BY <1>2, SeqMonotonic
  <2>2. [KeyNames -> S \cup {Absent}] \subseteq [KeyNames -> T \cup {Absent}]
    BY <1>2
  <2>3. {"array"} \X Seq(S) \subseteq {"array"} \X Seq(T)
    BY <2>1
  <2>4. {"object"} \X [KeyNames -> S \cup {Absent}]
           \subseteq {"object"} \X [KeyNames -> T \cup {Absent}]
    BY <2>2
  <2> QED
    BY <2>3, <2>4 DEF WrappedValues
<1>3. PICK Y : Y = {n \in 0 .. MaxDepth : n # 0 => DecodedUpto[n - 1] \subseteq DecodedUpto[n]}
  OBVIOUS
<1>4. 0 \in Y
  BY <1>1, <1>3
<1>5. ASSUME NEW n \in 1 .. MaxDepth, n - 1 \in Y PROVE n \in Y
  <2>1. CASE n = 1
    <3>1. n \in 0 .. MaxDepth /\ n - 1 = 0
      BY <2>1
    <3>2. DecodedUpto[n] = WrappedValues(DecodedUpto[n - 1]) /\ DecodedUpto[0] = PlainValues
      BY DecodedLevels
    <3>3. DecodedUpto[n - 1] \subseteq DecodedUpto[n]
      BY <3>1, <3>2 DEF WrappedValues
    <3> QED
      BY <1>3, <3>1, <3>3
  <2>2. CASE n # 1
    <3>1. n - 1 \in 1 .. MaxDepth /\ n \in 0 .. MaxDepth
      BY <1>1, <2>2
    <3>2. DecodedUpto[(n - 1) - 1] \subseteq DecodedUpto[n - 1]
      BY <1>3, <1>5, <3>1
    <3>3. /\ DecodedUpto[n - 1] = WrappedValues(DecodedUpto[(n - 1) - 1])
          /\ DecodedUpto[n] = WrappedValues(DecodedUpto[n - 1])
      BY <3>1, DecodedLevels
    <3> QED
      BY <1>2, <1>3, <3>1, <3>2, <3>3
  <2> QED
    BY <2>1, <2>2
<1>6. 0 .. MaxDepth \subseteq Y
  BY <1>1, <1>4, <1>5, InductionUpto
<1>7. \A n \in 1 .. MaxDepth : DecodedUpto[n - 1] \subseteq DecodedUpto[n]
  BY <1>3, <1>6
<1>8. \A n \in 0 .. MaxDepth : DecodedUpto[n] \subseteq DecodedUpto[MaxDepth]
  BY <1>1, <1>7, LevelsGrow
<1> QED
  BY <1>7, <1>8

\* What a decoded value of some depth consists of.
LEMMA DecodedShape ==
    ASSUME NEW n \in 0 .. MaxDepth, NEW value \in DecodedUpto[n]
    PROVE  \/ value \in PlainValues /\ value[1] \in {"null", "bool", "number", "string"}
           \/ /\ n - 1 \in 0 .. MaxDepth /\ value[1] = "array"
              /\ value = <<"array", value[2]>> /\ value[2] \in Seq(DecodedUpto[n - 1])
           \/ /\ n - 1 \in 0 .. MaxDepth /\ value[1] = "object"
              /\ value = <<"object", value[2]>>
              /\ value[2] \in [KeyNames -> DecodedUpto[n - 1] \cup {Absent}]
<1>1. MaxDepth \in Nat
  BY CacheKeyAssumption
<1>2. ASSUME value \in PlainValues PROVE value[1] \in {"null", "bool", "number", "string"}
  BY <1>2 DEF PlainValues
<1>3. CASE n = 0
  BY <1>2, <1>3, DecodedLevels
<1>4. CASE n # 0
  <2>1. n \in 1 .. MaxDepth /\ n - 1 \in 0 .. MaxDepth
    BY <1>1, <1>4
  <2>2. PICK S : S = DecodedUpto[n - 1]
    OBVIOUS
  <2>3. value \in WrappedValues(S)
    BY <2>1, <2>2, DecodedLevels
  <2>4. \/ value \in PlainValues
        \/ value[1] = "array" /\ value = <<"array", value[2]>> /\ value[2] \in Seq(S)
        \/ /\ value[1] = "object" /\ value = <<"object", value[2]>>
           /\ value[2] \in [KeyNames -> S \cup {Absent}]
    BY <2>3 DEF WrappedValues
  <2> QED
    BY <1>2, <2>1, <2>2, <2>4
<1> QED
  BY <1>3, <1>4

\* No value is mistaken for a field that is not there.
LEMMA AbsentIsNoValue == \A n \in 0 .. MaxDepth : Absent \notin DecodedUpto[n]
<1>1. \A n \in 0 .. MaxDepth : \A value \in DecodedUpto[n] : value[1] # "absent"
  BY DecodedShape
<1> QED
  BY <1>1 DEF Absent

\* What nests that deep decodes to a value that does.
LEMMA DecodeTyped ==
    \A n \in 0 .. MaxDepth : \A raw \in NestedUpto[n] : Decode[raw] \in DecodedUpto[n]
<1>1. MaxDepth \in Nat
  BY CacheKeyAssumption
<1>2. PICK f : f = Decode
  OBVIOUS
<1>3. ASSUME NEW n \in 0 .. MaxDepth, NEW raw \in NestedUpto[n]
      PROVE  f[raw] = Decoded(FALSE, f, raw)
  BY <1>2, <1>3, DecodedAsValues, NestedGrows DEF Decode
<1>4. ASSUME NEW n \in 0 .. MaxDepth, NEW raw \in NestedUpto[n], raw \in Scalars
      PROVE  f[raw] \in PlainValues
  <2>1. f[raw] = Decoded(FALSE, f, raw)
    BY <1>3
  <2>2. CASE raw[1] = "number"
    <3>1. raw[2] \in 0 .. MaxNumber
      BY <1>4, <2>2 DEF Scalars
    <3>2. f[raw] = <<"number", Float(raw[2])>>
      BY <2>1, <2>2 DEF Decoded
    <3> QED
      BY <3>1, <3>2 DEF PlainValues
  <2>3. CASE raw[1] = "string"
    <3>1. raw[2] \in STRING
      BY <1>4, <2>3 DEF Scalars
    <3>2. f[raw] = <<"string", raw[2]>>
      BY <2>1, <2>3 DEF Decoded
    <3> QED
      BY <3>1, <3>2 DEF PlainValues
  <2>4. CASE raw[1] = "null" \/ raw[1] = "bool"
    <3>1. raw \in {<<"null">>} \/ raw \in {"bool"} \X BOOLEAN
      BY <1>4, <2>4 DEF Scalars
    <3>2. f[raw] = raw
      BY <2>1, <2>4 DEF Decoded
    <3> QED
      BY <3>1, <3>2 DEF PlainValues
  <2>5. raw[1] \in {"null", "bool", "number", "string"}
    BY <1>4 DEF Scalars
  <2> QED
    BY <2>2, <2>3, <2>4, <2>5
<1>5. PICK Y : Y = {n \in 0 .. MaxDepth : \A raw \in NestedUpto[n] : f[raw] \in DecodedUpto[n]}
  OBVIOUS
<1>6. 0 \in Y
  <2>1. 0 \in 0 .. MaxDepth /\ NestedUpto[0] = Scalars /\ DecodedUpto[0] = PlainValues
    BY <1>1, NestedLevels, DecodedLevels
  <2> QED
    BY <1>4, <1>5, <2>1
<1>7. ASSUME NEW n \in 1 .. MaxDepth, n - 1 \in Y PROVE n \in Y
  <2>1. n \in 0 .. MaxDepth /\ DecodedUpto[n] = WrappedValues(DecodedUpto[n - 1])
    BY DecodedLevels
  <2>2. PICK S, D : S = NestedUpto[n - 1] /\ D = DecodedUpto[n - 1]
    OBVIOUS
  <2>3. \A raw \in S : f[raw] \in D
    BY <1>5, <1>7, <2>2
  <2>4. ASSUME NEW raw \in NestedUpto[n] PROVE f[raw] \in WrappedValues(D)
    <3>1. f[raw] = Decoded(FALSE, f, raw)
      BY <1>3, <2>1
    <3>2. \/ raw \in Scalars
          \/ raw[1] = "array" /\ raw[2] \in Seq(S)
          \/ raw[1] = "object" /\ raw[2] \in Seq(KeyNames \X S)
      BY <2>1, <2>2, RawShape
    <3>3. CASE raw \in Scalars
      BY <1>4, <2>1, <3>3 DEF WrappedValues
    <3>4. CASE raw[1] = "array" /\ raw[2] \in Seq(S)
      <4>1. PICK items, m : items = raw[2] /\ m = Len(items)
        OBVIOUS
      <4>2. m \in Nat /\ \A i \in 1 .. m : items[i] \in S
        BY <3>4, <4>1, ElementOfSeq
      <4>3. PICK decoded : decoded = [i \in 1 .. m |-> f[items[i]]]
        OBVIOUS
      <4>4. decoded \in Seq(D)
        BY <2>3, <4>2, <4>3
      <4>5. f[raw] = <<"array", decoded>>
        BY <3>1, <3>4, <4>1, <4>3 DEF Decoded
      <4>6. f[raw] \in {"array"} \X Seq(D)
        BY ONLY <4>4, <4>5
      <4> QED
        BY ONLY <4>6 DEF WrappedValues
    <3>5. CASE raw[1] = "object" /\ raw[2] \in Seq(KeyNames \X S)
      <4>1. PICK fields : fields = raw[2]
        OBVIOUS
      <4>2. fields \in Seq(KeyNames \X S)
        BY <3>5, <4>1
      <4>3. PICK object : object = [k \in KeyNames |-> IF k \in Keys(fields)
                                                       THEN f[RawOf(fields, k)] ELSE Absent]
        OBVIOUS
      <4>4. ASSUME NEW k \in Keys(fields) PROVE f[RawOf(fields, k)] \in D
        BY <2>3, <4>2, RawOfMember
      <4>5. object \in [KeyNames -> D \cup {Absent}]
        BY <4>3, <4>4
      <4>6. f[raw] = <<"object", object>>
        BY <3>1, <3>5, <4>1, <4>3 DEF Decoded
      <4> QED
        BY <4>5, <4>6 DEF WrappedValues
    <3> QED
      BY <3>2, <3>3, <3>4, <3>5
  <2> QED
    BY <1>5, <2>1, <2>2, <2>4
<1>8. 0 .. MaxDepth \subseteq Y
  BY <1>1, <1>6, <1>7, InductionUpto
<1> QED
  BY <1>2, <1>5, <1>8

\* The fields of a body that is decoded.
LEMMA FieldsTyped ==
    ASSUME NEW body, DecodesObject(body)
    PROVE  Fields(body) \in [KeyNames -> DecodedUpto[MaxDepth] \cup {Absent}]
<1>1. MaxDepth \in 0 .. MaxDepth
  BY CacheKeyAssumption
<1>2. ASSUME NEW k \in Keys(body.fields)
      PROVE  Decode[RawOf(body.fields, k)] \in DecodedUpto[MaxDepth]
  <2>1. RawOf(body.fields, k) \in NestedUpto[MaxDepth]
    BY RawOfMember DEF DecodesObject, JSON
  <2> QED
    BY <1>1, <2>1, DecodeTyped
<1> QED
  BY <1>2 DEF Fields, FieldsAs, Decode
-----------------------------------------------------------------------------
(* Texts.                                                                  *)

\* The names of members.  The provers do not know that a literal is in STRING.
Names == STRING \cup {"path", "request"}

\* A text is made of these.
Tokens ==
    ({"begin", "end"} \X {"array", "object"}) \cup {<<"comma">>, <<"colon">>}
    \cup ({"string"} \X Names) \cup PlainValues

Comma(i) == IF i > 1 THEN <<<<"comma">>>> ELSE <<>>

\* What the loops write from part i on, and that it is a text.
LEMMA WrittenLoop ==
    ASSUME NEW parts \in Seq(Seq(Tokens)), NEW kind \in {"array", "object"}, NEW W,
           W = WrittenFrom(kind, parts)
    PROVE  /\ W[Len(parts) + 1] = <<<<"end", kind>>>>
           /\ \A i \in 1 .. Len(parts) : W[i] = Comma(i) \o (parts[i] \o W[i + 1])
           /\ \A i \in 1 .. Len(parts) + 1 : W[i] \in Seq(Tokens)
<1>1. PICK n \in Nat : n = Len(parts)
  OBVIOUS
<1>2. PICK X : X = Seq(Tokens)
  OBVIOUS
<1>3. /\ <<<<"end", kind>>>> \in X
      /\ \A i \in Nat : Comma(i) \in X
      /\ \A i \in 1 .. n : parts[i] \in X
      /\ \A x, y \in X : x \o y \in X
  <2>1. <<"end", kind>> \in Tokens /\ <<"comma">> \in Tokens
    BY DEF Tokens
  <2>2. <<<<"end", kind>>>> \in Seq(Tokens) /\ <<<<"comma">>>> \in Seq(Tokens) /\ <<>> \in Seq(Tokens)
    BY <2>1
  <2>3. \A i \in 1 .. n : parts[i] \in Seq(Tokens)
    BY <1>1, ElementOfSeq
  <2>4. \A x, y \in Seq(Tokens) : x \o y \in Seq(Tokens)
    BY ConcatProperties
  <2> QED
    BY <1>2, <2>2, <2>3, <2>4 DEF Comma
<1>4. PICK G : G = [j \in 1 .. n |->
                      [x \in X |-> Comma((n + 1) - j) \o (parts[(n + 1) - j] \o x)]]
  OBVIOUS
<1>5. G \in [1 .. n -> [X -> X]]
  <2>1. ASSUME NEW j \in 1 .. n, NEW x \in X
        PROVE  Comma((n + 1) - j) \o (parts[(n + 1) - j] \o x) \in X
    <3>1. PICK i : i = (n + 1) - j
      OBVIOUS
    <3>2. i \in 1 .. n /\ i \in Nat
      BY <3>1
    <3>3. Comma(i) \o (parts[i] \o x) \in X
      BY <1>3, <3>2
    <3> QED
      BY <3>1, <3>3
  <2> QED
    BY <1>4, <2>1
<1>6. PICK F \in [0 .. n -> X] : F[0] = <<<<"end", kind>>>> /\ \A j \in 1 .. n : F[j] = G[j][F[j - 1]]
  <2>1. PICK base : base = <<<<"end", kind>>>>
    OBVIOUS
  <2>2. base \in X
    BY <1>3, <2>1
  <2>3. \E F \in [0 .. n -> X] : F[0] = base /\ \A j \in 1 .. n : F[j] = G[j][F[j - 1]]
    BY ONLY <1>5, <2>2, n \in Nat, LoopHasValues, SMTT(30)
  <2> QED
    BY ONLY <2>1, <2>3
<1>7. PICK V : V = [i \in 1 .. n + 1 |-> F[(n + 1) - i]]
  OBVIOUS
<1>8. \A i \in 1 .. n + 1 : V[i] \in X
  BY <1>6, <1>7
<1>9. V[n + 1] = <<<<"end", kind>>>>
  BY <1>6, <1>7
<1>10. ASSUME NEW i \in 1 .. n PROVE V[i] = Comma(i) \o (parts[i] \o V[i + 1])
  <2>1. PICK j : j = (n + 1) - i
    OBVIOUS
  <2>2. /\ j \in 1 .. n /\ (n + 1) - j = i /\ j - 1 = (n + 1) - (i + 1)
        /\ j - 1 \in 0 .. n /\ i + 1 \in 1 .. n + 1 /\ i \in 1 .. n + 1
    BY <2>1
  <2>3. V[i] = F[j] /\ V[i + 1] = F[j - 1] /\ F[j - 1] \in X
    BY <1>6, <1>7, <2>1, <2>2
  <2>4. F[j] = G[j][F[j - 1]]
    BY <1>6, <2>2
  <2>5. G[j][F[j - 1]] = Comma((n + 1) - j) \o (parts[(n + 1) - j] \o F[j - 1])
    BY ONLY <1>4, <2>2, <2>3
  <2> QED
    BY ONLY <2>2, <2>3, <2>4, <2>5
<1>11. V = [i \in 1 .. n + 1 |-> IF i = n + 1 THEN <<<<"end", kind>>>>
                                 ELSE Comma(i) \o (parts[i] \o V[i + 1])]
  <2>1. ASSUME NEW i \in 1 .. n + 1
        PROVE  V[i] = IF i = n + 1 THEN <<<<"end", kind>>>>
                      ELSE Comma(i) \o (parts[i] \o V[i + 1])
    <3>1. i = n + 1 \/ (i # n + 1 /\ i \in 1 .. n)
      OBVIOUS
    <3> QED
      BY <1>9, <1>10, <3>1
  <2>2. V = [i \in 1 .. n + 1 |-> V[i]]
    BY <1>7
  <2> QED
    BY <2>1, <2>2
<1>12. W = [i \in 1 .. n + 1 |-> IF i = n + 1 THEN <<<<"end", kind>>>>
                                 ELSE Comma(i) \o (parts[i] \o W[i + 1])]
  BY <1>1, <1>11, Zenon DEF WrittenFrom, Comma
<1>13. /\ W[n + 1] = <<<<"end", kind>>>>
       /\ \A i \in 1 .. n : W[i] = Comma(i) \o (parts[i] \o W[i + 1])
  <2>1. n + 1 \in 1 .. n + 1 /\ \A i \in 1 .. n : i \in 1 .. n + 1 /\ i # n + 1
    OBVIOUS
  <2> QED
    BY <1>12, <2>1
<1>14. \A i \in 1 .. n + 1 : W[i] \in X
  <2>1. PICK Y : Y = {j \in 0 .. n : W[(n + 1) - j] \in X}
    OBVIOUS
  <2>2. 0 \in Y
    <3>1. (n + 1) - 0 = n + 1 /\ 0 \in 0 .. n
      OBVIOUS
    <3>2. W[n + 1] \in X
      BY ONLY <1>3, <1>13
    <3> QED
      BY ONLY <2>1, <3>1, <3>2
  <2>3. ASSUME NEW j \in 1 .. n, j - 1 \in Y PROVE j \in Y
    <3>1. PICK i : i = (n + 1) - j
      OBVIOUS
    <3>2. i \in 1 .. n /\ i \in Nat /\ i + 1 = (n + 1) - (j - 1) /\ j \in 0 .. n
      BY <3>1
    <3>3. W[i + 1] \in X
      BY <2>1, <2>3, <3>2
    <3>4. Comma(i) \in X /\ parts[i] \in X
      BY <1>3, <3>2
    <3>5. parts[i] \o W[i + 1] \in X
      BY ONLY <1>3, <3>3, <3>4
    <3>6. Comma(i) \o (parts[i] \o W[i + 1]) \in X
      BY ONLY <1>3, <3>4, <3>5
    <3>7. W[i] = Comma(i) \o (parts[i] \o W[i + 1])
      BY ONLY <1>13, <3>2
    <3>8. W[i] \in X
      BY ONLY <3>6, <3>7
    <3> QED
      BY ONLY <2>1, <3>1, <3>2, <3>8
  <2>4. 0 .. n \subseteq Y
    BY <2>2, <2>3, InductionUpto
  <2>5. ASSUME NEW i \in 1 .. n + 1 PROVE W[i] \in X
    <3>1. PICK j : j = (n + 1) - i
      OBVIOUS
    <3>2. j \in 0 .. n /\ (n + 1) - j = i
      BY <3>1
    <3> QED
      BY <2>1, <2>4, <3>2
  <2> QED
    BY <2>5
<1> QED
  BY <1>1, <1>2, <1>13, <1>14

\* A text starts with the first token of its first part.
LEMMA FirstToken ==
    ASSUME NEW T, NEW x \in Seq(T), x # <<>>, NEW s \in Seq(T)
    PROVE  x \o s \in Seq(T) /\ x \o s # <<>> /\ (x \o s)[1] = x[1]
<1>1. Len(x) \in Nat \ {0} /\ Len(s) \in Nat
  BY EmptySeq, LenProperties
<1>2. /\ x \o s \in Seq(T) /\ Len(x \o s) = Len(x) + Len(s)
      /\ \A i \in 1 .. Len(x) + Len(s) : (x \o s)[i] = IF i <= Len(x) THEN x[i] ELSE s[i - Len(x)]
  BY ConcatProperties
<1>3. 1 \in 1 .. Len(x) + Len(s) /\ 1 <= Len(x)
  BY <1>1
<1>4. Len(x \o s) # 0
  BY <1>1, <1>2
<1>5. Len(<<>>) = 0
  BY EmptySeq
<1> QED
  BY <1>2, <1>3, <1>4, <1>5

\* Texts that start alike and are the same go on alike.
LEMMA CancelLeft ==
    \A T : \A x, y, z \in Seq(T) : x \o y = x \o z => y = z
BY ONLY ConcatSimplifications, Zenon

\* Texts are put together in any grouping.
LEMMA Regroup == \A x, y, z \in Seq(Tokens) : (x \o y) \o z = x \o (y \o z)
BY ConcatAssociative

\* The text u is x and then s.
Reads(u, x, s) == x \in Seq(Tokens) /\ s \in Seq(Tokens) /\ u = x \o s

\* A text is itself and then nothing.
LEMMA ReadsWhole == \A u \in Seq(Tokens) : Reads(u, u, <<>>)
BY EmptySeq, ConcatEmptySeq DEF Reads

\* The texts in P can be told where they end: none is the beginning of another one.
PrefixFree(P) ==
    /\ P \subseteq Seq(Tokens) \ {<<>>}
    /\ \A x, y \in P : \A u, s, t : Reads(u, x, s) /\ Reads(u, y, t) => x = y

\* E has what is left to read of a list from part i on, when s follows it.
Rest(E, kind, parts, s) ==
    /\ E[Len(parts) + 1] = <<<<"end", kind>>>> \o s
    /\ \A i \in 1 .. Len(parts) : E[i] = Comma(i) \o (parts[i] \o E[i + 1])
    /\ \A i \in 1 .. Len(parts) + 1 : E[i] \in Seq(Tokens)
    /\ Text(kind, parts) \o s = <<<<"begin", kind>>>> \o E[1]

\* The text of a list is a text, and what follows each of its parts is one.
LEMMA ListRest ==
    ASSUME NEW kind \in {"array", "object"}, NEW parts \in Seq(Seq(Tokens)),
           NEW s \in Seq(Tokens)
    PROVE  Text(kind, parts) \in Seq(Tokens) /\ \E E : Rest(E, kind, parts, s)
<1>1. PICK n \in Nat : n = Len(parts)
  OBVIOUS
<1>2. PICK X : X = Seq(Tokens)
  OBVIOUS
<1>3. PICK W : W = WrittenFrom(kind, parts)
  OBVIOUS
<1>4. /\ W[n + 1] = <<<<"end", kind>>>>
      /\ \A i \in 1 .. n : W[i] = Comma(i) \o (parts[i] \o W[i + 1])
      /\ \A i \in 1 .. n + 1 : W[i] \in X
  BY ONLY <1>1, <1>2, <1>3, WrittenLoop, parts \in Seq(Seq(Tokens)), kind \in {"array", "object"}
<1>5. PICK E : E = [i \in 1 .. n + 1 |-> W[i] \o s]
  OBVIOUS
<1>6. \A x, y \in X : x \o y \in X
  BY <1>2, ConcatProperties
<1>7. /\ <<<<"begin", kind>>>> \in X /\ \A i \in Nat : Comma(i) \in X
      /\ \A i \in 1 .. n : parts[i] \in X
  <2>1. <<"begin", kind>> \in Tokens /\ <<"comma">> \in Tokens
    BY DEF Tokens
  <2>2. /\ <<<<"begin", kind>>>> \in Seq(Tokens) /\ <<<<"comma">>>> \in Seq(Tokens)
        /\ <<>> \in Seq(Tokens)
    BY <2>1
  <2>3. \A i \in 1 .. n : parts[i] \in Seq(Tokens)
    BY <1>1, ElementOfSeq
  <2> QED
    BY <1>2, <2>2, <2>3 DEF Comma
<1>8. ASSUME NEW i \in 1 .. n PROVE E[i] = Comma(i) \o (parts[i] \o E[i + 1])
  <2>1. i \in Nat /\ i \in 1 .. n + 1 /\ i + 1 \in 1 .. n + 1
    OBVIOUS
  <2>2. PICK c, p, w : c = Comma(i) /\ p = parts[i] /\ w = W[i + 1]
    OBVIOUS
  <2>3. c \in X /\ p \in X /\ w \in X /\ s \in X
    BY <1>2, <1>4, <1>7, <2>1, <2>2
  <2>4. W[i] = c \o (p \o w)
    BY ONLY <1>4, <2>2, i \in 1 .. n
  <2>5. c \in Seq(Tokens) /\ p \in Seq(Tokens) /\ w \in Seq(Tokens) /\ s \in Seq(Tokens)
    BY ONLY <1>2, <2>3
  <2>6. p \o w \in Seq(Tokens)
    BY ONLY <2>5, ConcatProperties
  <2>7. (c \o (p \o w)) \o s = c \o ((p \o w) \o s)
    BY ONLY <2>5, <2>6, Regroup
  <2>8. (p \o w) \o s = p \o (w \o s)
    BY ONLY <2>5, Regroup
  <2>9. (c \o (p \o w)) \o s = c \o (p \o (w \o s))
    BY ONLY <2>7, <2>8
  <2>10. E[i] = W[i] \o s /\ E[i + 1] = W[i + 1] \o s
    BY ONLY <1>5, <2>1
  <2> QED
    BY ONLY <2>2, <2>4, <2>9, <2>10
<1>9. E[n + 1] = <<<<"end", kind>>>> \o s
  <2>1. n + 1 \in 1 .. n + 1
    OBVIOUS
  <2> QED
    BY ONLY <1>4, <1>5, <2>1
<1>10. \A i \in 1 .. n + 1 : E[i] \in X
  BY ONLY <1>2, <1>4, <1>5, <1>6, s \in Seq(Tokens)
<1>11. /\ Text(kind, parts) \o s = <<<<"begin", kind>>>> \o E[1]
       /\ Text(kind, parts) \in X
  <2>1. 1 \in 1 .. n + 1
    OBVIOUS
  <2>2. PICK b : b = <<<<"begin", kind>>>>
    OBVIOUS
  <2>3. Text(kind, parts) = b \o W[1]
    BY ONLY <1>3, <2>2 DEF Text
  <2>4. b \in X /\ W[1] \in X /\ s \in X /\ E[1] = W[1] \o s
    BY <1>2, <1>4, <1>5, <1>7, <2>1, <2>2
  <2>5. PICK w : w = W[1]
    OBVIOUS
  <2>6. b \in Seq(Tokens) /\ w \in Seq(Tokens) /\ s \in Seq(Tokens)
    BY ONLY <1>2, <2>4, <2>5
  <2>7. b \o w \in Seq(Tokens)
    BY ONLY <2>6, ConcatProperties
  <2>8. (b \o w) \o s = b \o (w \o s)
    BY ONLY <2>6, Regroup
  <2> QED
    BY ONLY <1>2, <2>2, <2>3, <2>4, <2>5, <2>7, <2>8
<1>12. Rest(E, kind, parts, s)
  BY ONLY <1>1, <1>2, <1>8, <1>9, <1>10, <1>11 DEF Rest
<1> QED
  BY ONLY <1>2, <1>11, <1>12

\* A list is read back part by part, whatever follows it.
LEMMA ListsRead ==
    ASSUME NEW kind \in {"array", "object"}, NEW P, PrefixFree(P), \A x \in P : x[1][1] # "end",
           NEW a \in Seq(P), NEW b \in Seq(P), NEW text, NEW s, NEW t,
           Reads(text, Text(kind, a), s), Reads(text, Text(kind, b), t)
    PROVE  a = b
<1>1. /\ s \in Seq(Tokens) /\ t \in Seq(Tokens)
      /\ Text(kind, a) \o s = Text(kind, b) \o t
  BY DEF Reads
<1>2. PICK X : X = Seq(Tokens)
  OBVIOUS
<1>3. Len(a) \in Nat /\ Len(b) \in Nat
  BY LenProperties
<1> DEFINE m == Len(a)
           n == Len(b)
<1>4. a \in Seq(X) /\ b \in Seq(X) /\ s \in X /\ t \in X
  <2>1. P \subseteq X
    BY <1>2 DEF PrefixFree
  <2> QED
    BY <1>2, <1>1, <2>1, SeqMonotonic
<1>5. PICK E : Rest(E, kind, a, s)
  BY <1>2, <1>4, ListRest
<1>6. PICK F : Rest(F, kind, b, t)
  BY <1>2, <1>4, ListRest
<1> HIDE DEF m, n
<1>7. /\ E[m + 1] = <<<<"end", kind>>>> \o s
      /\ \A i \in 1 .. m : E[i] = Comma(i) \o (a[i] \o E[i + 1])
      /\ \A i \in 1 .. m + 1 : E[i] \in X
      /\ Text(kind, a) \o s = <<<<"begin", kind>>>> \o E[1]
  BY ONLY <1>2, <1>5 DEF Rest, m
<1>8. /\ F[n + 1] = <<<<"end", kind>>>> \o t
      /\ \A i \in 1 .. n : F[i] = Comma(i) \o (b[i] \o F[i + 1])
      /\ \A i \in 1 .. n + 1 : F[i] \in X
      /\ Text(kind, b) \o t = <<<<"begin", kind>>>> \o F[1]
  BY ONLY <1>2, <1>6 DEF Rest, n
<1>9. m \in Nat /\ n \in Nat
  BY <1>3 DEF m, n
<1>10. \A x, y \in X : x \o y \in X
  BY <1>2, ConcatProperties
<1>11. \A x, y, z \in X : x \o y = x \o z => y = z
  <2> TAKE x, y, z \in X
  <2> HAVE x \o y = x \o z
  <2>1. x \in Seq(Tokens) /\ y \in Seq(Tokens) /\ z \in Seq(Tokens)
    BY ONLY <1>2, x \in X, y \in X, z \in X
  <2> QED
    BY ONLY <2>1, x \o y = x \o z, CancelLeft
<1>12. \A x, y \in X : x # <<>> => x \o y # <<>> /\ (x \o y)[1] = x[1]
  BY <1>2, FirstToken
<1>13. /\ <<<<"begin", kind>>>> \in X /\ <<<<"end", kind>>>> \in X /\ <<<<"comma">>>> \in X
       /\ <<>> \in X
  <2>1. <<"begin", kind>> \in Tokens /\ <<"end", kind>> \in Tokens /\ <<"comma">> \in Tokens
    BY DEF Tokens
  <2> QED
    BY <1>2, <2>1
<1>14. /\ \A i \in 1 .. m : a[i] \in P /\ a[i] \in X /\ a[i] # <<>> /\ a[i][1][1] # "end"
       /\ \A i \in 1 .. n : b[i] \in P /\ b[i] \in X /\ b[i] # <<>> /\ b[i][1][1] # "end"
  <2>1. \A i \in 1 .. m : a[i] \in P
    BY ONLY a \in Seq(P), ElementOfSeq DEF m
  <2>2. \A i \in 1 .. n : b[i] \in P
    BY ONLY b \in Seq(P), ElementOfSeq DEF n
  <2> QED
    BY <1>2, <2>1, <2>2 DEF PrefixFree
<1>15. E[1] = F[1]
  <2>1. 1 \in 1 .. m + 1 /\ 1 \in 1 .. n + 1
    BY <1>9
  <2>2. PICK o : o = <<<<"begin", kind>>>>
    OBVIOUS
  <2>3. o \o E[1] = o \o F[1]
    BY ONLY <1>1, <1>7, <1>8, <2>2
  <2>4. o \in X /\ E[1] \in X /\ F[1] \in X
    BY ONLY <1>7, <1>8, <1>13, <2>1, <2>2
  <2> QED
    BY ONLY <1>11, <2>3, <2>4, Zenon
<1>16. /\ E[m + 1] # <<>> /\ E[m + 1][1] = <<"end", kind>>
       /\ F[n + 1] # <<>> /\ F[n + 1][1] = <<"end", kind>>
  <2>1. PICK e : e = <<<<"end", kind>>>>
    OBVIOUS
  <2>2. e \in X /\ e # <<>> /\ e[1] = <<"end", kind>>
    BY <1>13, <2>1
  <2> QED
    BY ONLY <1>4, <1>7, <1>8, <1>12, <2>1, <2>2
<1>17. ASSUME NEW p \in X, p # <<>>, p[1][1] # "end", NEW r \in X, NEW i \in Nat
       PROVE  (Comma(i) \o (p \o r))[1][1] # "end"
  <2>1. p \o r \in X /\ (p \o r)[1] = p[1]
    BY <1>10, <1>12, <1>17
  <2>2. CASE i > 1
    <3>1. PICK c : c = <<<<"comma">>>>
      OBVIOUS
    <3>2. c \in X /\ c # <<>> /\ c[1][1] # "end" /\ Comma(i) = c
      BY <1>13, <2>2, <3>1 DEF Comma
    <3>3. (c \o (p \o r))[1] = c[1]
      BY ONLY <1>12, <2>1, <3>2
    <3> QED
      BY ONLY <3>2, <3>3
  <2>3. CASE ~(i > 1)
    <3>1. <<>> \o (p \o r) = p \o r
      BY <1>2, <2>1, ConcatEmptySeq
    <3>2. Comma(i) = <<>>
      BY <2>3 DEF Comma
    <3> QED
      BY ONLY <1>17, <2>1, <3>1, <3>2
  <2> QED
    BY <2>2, <2>3
<1>18. \A i \in 1 .. m : E[i][1][1] # "end"
  <2> TAKE i \in 1 .. m
  <2>1. i \in Nat /\ i + 1 \in 1 .. m + 1
    BY <1>9
  <2>2. E[i + 1] \in X
    BY <1>7, <2>1
  <2>3. (Comma(i) \o (a[i] \o E[i + 1]))[1][1] # "end"
    BY ONLY <1>14, <1>17, <2>1, <2>2, i \in 1 .. m
  <2> QED
    BY ONLY <1>7, <2>3, i \in 1 .. m
<1>19. \A i \in 1 .. n : F[i][1][1] # "end"
  <2> TAKE i \in 1 .. n
  <2>1. i \in Nat /\ i + 1 \in 1 .. n + 1
    BY <1>9
  <2>2. F[i + 1] \in X
    BY <1>8, <2>1
  <2>3. (Comma(i) \o (b[i] \o F[i + 1]))[1][1] # "end"
    BY ONLY <1>14, <1>17, <2>1, <2>2, i \in 1 .. n
  <2> QED
    BY ONLY <1>8, <2>3, i \in 1 .. n
<1>20. PICK Y : Y = {i \in 0 .. m : /\ i <= n /\ E[i + 1] = F[i + 1]
                                    /\ \A j \in 1 .. i : a[j] = b[j]}
  OBVIOUS
<1>21. 0 \in Y
  BY <1>9, <1>15, <1>20
<1>22. ASSUME NEW i \in 1 .. m, i - 1 \in Y PROVE i \in Y
  <2>1. /\ i - 1 <= n /\ E[(i - 1) + 1] = F[(i - 1) + 1]
        /\ \A j \in 1 .. i - 1 : a[j] = b[j]
    BY ONLY <1>20, <1>22
  <2>2. (i - 1) + 1 = i /\ i \in Nat /\ m \in Nat /\ n \in Nat
    BY <1>9
  <2>3. i <= n
    <3>1. E[i][1][1] # "end"
      BY <1>18
    <3>2. i # n + 1
      BY ONLY <1>16, <2>1, <2>2, <3>1
    <3> QED
      BY <2>1, <2>2, <3>2
  <2>4. i \in 1 .. n /\ i + 1 \in 1 .. m + 1 /\ i + 1 \in 1 .. n + 1
    BY <2>2, <2>3
  <2>5. PICK c, p, q, u, v : /\ c = Comma(i) /\ p = a[i] /\ q = b[i]
                             /\ u = E[i + 1] /\ v = F[i + 1]
    OBVIOUS
  <2>6. c \in X /\ p \in X /\ q \in X /\ u \in X /\ v \in X /\ p \in P /\ q \in P
    BY <1>7, <1>8, <1>13, <1>14, <2>4, <2>5 DEF Comma
  <2>7. E[i] = c \o (p \o u) /\ F[i] = c \o (q \o v)
    BY ONLY <1>7, <1>8, <2>4, <2>5, i \in 1 .. m
  <2>8. c \o (p \o u) = c \o (q \o v)
    BY ONLY <2>1, <2>2, <2>7
  <2>9. p \o u = q \o v
    BY ONLY <1>10, <1>11, <2>6, <2>8
  <2>10. p = q
    <3>1. Reads(p \o u, p, u) /\ Reads(p \o u, q, v)
      BY ONLY <1>2, <2>6, <2>9 DEF Reads
    <3> QED
      BY ONLY <2>6, <3>1, PrefixFree(P) DEF PrefixFree
  <2>11. u = v
    BY ONLY <1>11, <2>6, <2>9, <2>10
  <2>12. \A j \in 1 .. i : a[j] = b[j]
    <3> TAKE j \in 1 .. i
    <3>1. j \in 1 .. i - 1 \/ j = i
      BY ONLY <2>2, j \in 1 .. i
    <3> QED
      BY ONLY <2>1, <2>5, <2>10, <3>1
  <2>13. i \in 0 .. m
    OBVIOUS
  <2> QED
    BY ONLY <1>20, <2>3, <2>5, <2>11, <2>12, <2>13
<1>23. m \in Y
  <2>1. 0 .. m \subseteq Y
    BY <1>9, <1>21, <1>22, InductionUpto
  <2>2. m \in 0 .. m
    BY <1>9
  <2> QED
    BY <2>1, <2>2
<1>24. m <= n /\ E[m + 1] = F[m + 1] /\ \A j \in 1 .. m : a[j] = b[j]
  BY ONLY <1>20, <1>23
<1>25. m = n
  <2>1. ASSUME m # n PROVE FALSE
    <3>1. m + 1 \in 1 .. n
      BY <1>9, <1>24, <2>1
    <3>2. F[m + 1][1][1] # "end"
      BY <1>19, <3>1
    <3> QED
      BY ONLY <1>16, <1>24, <3>2
  <2> QED
    BY <2>1
<1> QED
  BY ONLY <1>24, <1>25, SeqEqual, a \in Seq(P), b \in Seq(P) DEF m, n

\* The keys that are written, each once.
LEMMA SortedKeysOf ==
    ASSUME NEW K, K \subseteq KeyNames
    PROVE  /\ SortedKeys(K) \in Seq(K)
           /\ {SortedKeys(K)[i] : i \in 1 .. Len(SortedKeys(K))} = K
           /\ \A i, j \in 1 .. Len(SortedKeys(K)) :
                 SortedKeys(K)[i] = SortedKeys(K)[j] => i = j
<1>1. KeyOrder \in Seq(STRING)
  BY CacheKeyAssumption
<1>2. PICK keys : keys = SortedKeys(K)
  OBVIOUS
<1>3. keys \in Seq(STRING) /\ {keys[i] : i \in 1 .. Len(keys)} = K
  <2>1. /\ keys \in Seq(STRING)
        /\ {keys[i] : i \in 1 .. Len(keys)} = K \cap {KeyOrder[i] : i \in 1 .. Len(KeyOrder)}
    BY ONLY <1>1, <1>2, SelectedMembers DEF SortedKeys
  <2> QED
    BY <2>1 DEF KeyNames
<1>4. \A i, j \in 1 .. Len(keys) : keys[i] = keys[j] => i = j
  <2>1. \A i, j \in 1 .. Len(KeyOrder) : KeyOrder[i] = KeyOrder[j] => i = j
    BY CacheKeyAssumption
  <2> QED
    BY ONLY <1>1, <1>2, <2>1, SelectedDistinct DEF SortedKeys
<1>5. keys \in Seq(K)
  <2>1. Len(keys) \in Nat /\ keys \in [1 .. Len(keys) -> STRING]
    BY <1>3, LenProperties
  <2>2. \A i \in 1 .. Len(keys) : keys[i] \in K
    BY <1>3
  <2>3. keys \in [1 .. Len(keys) -> K]
    BY <2>1, <2>2
  <2> QED
    BY <2>1, <2>3, SeqDef
<1> QED
  BY <1>2, <1>3, <1>4, <1>5

\* The keys of a body are names.
LEMMA KeyNamesAreNames == KeyNames \subseteq Names
<1>1. KeyOrder \in Seq(STRING)
  BY CacheKeyAssumption
<1>2. \A i \in 1 .. Len(KeyOrder) : KeyOrder[i] \in STRING
  BY <1>1, ElementOfSeq
<1> QED
  BY <1>2 DEF KeyNames, Names

\* A member is read back, whatever follows it.
LEMMA MemberReads ==
    ASSUME NEW k \in Names, NEW c \in Seq(Tokens)
    PROVE  /\ Member(k, c) \in Seq(Tokens) /\ Member(k, c) # <<>>
           /\ Member(k, c)[1] = <<"string", k>>
           /\ \A l \in Names : \A d \in Seq(Tokens) : \A u, s, t :
                 Reads(u, Member(k, c), s) /\ Reads(u, Member(l, d), t)
                    => k = l /\ Reads(c \o s, c, s) /\ Reads(c \o s, d, t)
<1> DEFINE Lead(m) == <<<<"string", m>>, <<"colon">>>>
<1>1. ASSUME NEW m \in Names
      PROVE  Lead(m) \in Seq(Tokens) /\ Lead(m) # <<>> /\ Lead(m)[1] = <<"string", m>>
  <2>1. <<"string", m>> \in Tokens /\ <<"colon">> \in Tokens
    BY DEF Tokens, PlainValues
  <2> QED
    BY <2>1
<1>2. ASSUME NEW m PROVE Member(m, c) = Lead(m) \o c
  BY DEF Member
<1> HIDE DEF Lead
<1>3. ASSUME NEW m \in Names, NEW d \in Seq(Tokens)
      PROVE  /\ Member(m, d) \in Seq(Tokens) /\ Member(m, d) # <<>>
             /\ Member(m, d)[1] = <<"string", m>>
  <2>1. Member(m, d) = Lead(m) \o d
    BY DEF Member, Lead
  <2>2. /\ Lead(m) \o d \in Seq(Tokens) /\ Lead(m) \o d # <<>>
        /\ (Lead(m) \o d)[1] = Lead(m)[1]
    BY ONLY <1>1, <1>3, FirstToken
  <2> QED
    BY ONLY <1>1, <2>1, <2>2, m \in Names
<1>4. ASSUME NEW m \in Names, NEW d \in Seq(Tokens), NEW s \in Seq(Tokens)
      PROVE  Member(m, d) \o s = Lead(m) \o (d \o s)
  <2>1. Member(m, d) = Lead(m) \o d
    BY DEF Member, Lead
  <2>2. PICK o : o = Lead(m)
    OBVIOUS
  <2>3. o \in Seq(Tokens)
    BY <1>1, <2>2
  <2>4. (o \o d) \o s = o \o (d \o s)
    BY ONLY <1>4, <2>3, ConcatAssociative
  <2> QED
    BY ONLY <2>1, <2>2, <2>4
<1>5. ASSUME NEW l \in Names, NEW d \in Seq(Tokens), NEW u, NEW s, NEW t,
             Reads(u, Member(k, c), s), Reads(u, Member(l, d), t)
      PROVE  k = l /\ Reads(c \o s, c, s) /\ Reads(c \o s, d, t)
  <2>1. s \in Seq(Tokens) /\ t \in Seq(Tokens) /\ Member(k, c) \o s = Member(l, d) \o t
    BY <1>5 DEF Reads
  <2>2. /\ (Member(k, c) \o s)[1] = Member(k, c)[1]
        /\ (Member(l, d) \o t)[1] = Member(l, d)[1]
    <3>1. PICK x, y : x = Member(k, c) /\ y = Member(l, d)
      OBVIOUS
    <3>2. x \in Seq(Tokens) /\ x # <<>> /\ y \in Seq(Tokens) /\ y # <<>>
      BY <1>3, <3>1
    <3>3. (x \o s)[1] = x[1] /\ (y \o t)[1] = y[1]
      BY ONLY <2>1, <3>2, FirstToken
    <3> QED
      BY ONLY <3>1, <3>3
  <2>3. k = l
    <3>1. Member(k, c)[1] = <<"string", k>> /\ Member(l, d)[1] = <<"string", l>>
      BY <1>3
    <3>2. <<"string", k>> = <<"string", l>>
      BY ONLY <2>1, <2>2, <3>1
    <3> QED
      BY ONLY <3>2
  <2>4. PICK o, x, y : o = Lead(k) /\ x = c \o s /\ y = d \o t
    OBVIOUS
  <2>5. o \in Seq(Tokens) /\ x \in Seq(Tokens) /\ y \in Seq(Tokens)
    BY <1>1, <2>1, <2>4, ConcatProperties
  <2>6. o \o x = o \o y
    <3>1. Member(k, c) \o s = o \o x
      BY ONLY <1>4, <2>4, <2>1, k \in Names, c \in Seq(Tokens)
    <3>2. Member(l, d) \o t = o \o y
      BY ONLY <1>4, <2>3, <2>4, <2>1, l \in Names, d \in Seq(Tokens)
    <3> QED
      BY ONLY <2>1, <3>1, <3>2
  <2>7. c \o s = d \o t
    BY ONLY <2>4, <2>5, <2>6, CancelLeft
  <2> QED
    BY ONLY <2>1, <2>3, <2>7, c \in Seq(Tokens), d \in Seq(Tokens) DEF Reads
<1> QED
  BY ONLY <1>3, <1>5, k \in Names, c \in Seq(Tokens)

Members(K, Q) == {Member(k, c) : k \in K, c \in Q}

\* A key is told from its value, and the value from what follows it.
LEMMA MembersPrefixFree ==
    ASSUME NEW Q, PrefixFree(Q), NEW K, K \subseteq Names
    PROVE  /\ PrefixFree(Members(K, Q)) /\ \A x \in Members(K, Q) : x[1][1] # "end"
           /\ \A k, l \in K : \A c, d \in Q : Member(k, c) = Member(l, d) => k = l /\ c = d
<1> DEFINE P == Members(K, Q)
<1>1. P = {Member(k, c) : k \in K, c \in Q}
  BY DEF Members
<1> HIDE DEF P
<1>2. Q \subseteq Seq(Tokens)
  BY DEF PrefixFree
<1>3. ASSUME NEW k \in K, NEW c \in Q
      PROVE  /\ Member(k, c) \in Seq(Tokens) /\ Member(k, c) # <<>>
             /\ Member(k, c)[1][1] # "end"
  <2>1. k \in Names /\ c \in Seq(Tokens)
    BY <1>2
  <2>2. Member(k, c) \in Seq(Tokens) /\ Member(k, c) # <<>> /\ Member(k, c)[1] = <<"string", k>>
    BY ONLY <2>1, MemberReads
  <2> QED
    BY ONLY <2>2
<1>4. ASSUME NEW k \in K, NEW l \in K, NEW c \in Q, NEW d \in Q,
             NEW u, NEW s, NEW t, Reads(u, Member(k, c), s), Reads(u, Member(l, d), t)
      PROVE  k = l /\ c = d
  <2>1. k \in Names /\ l \in Names /\ c \in Seq(Tokens) /\ d \in Seq(Tokens)
    BY <1>2
  <2>2. k = l /\ Reads(c \o s, c, s) /\ Reads(c \o s, d, t)
    BY ONLY <1>4, <2>1, MemberReads
  <2>3. c = d
    BY ONLY <1>4, <2>2, PrefixFree(Q) DEF PrefixFree
  <2> QED
    BY ONLY <2>2, <2>3
<1>5. PrefixFree(P)
  <2>1. P \subseteq Seq(Tokens) \ {<<>>}
    BY ONLY <1>1, <1>3
  <2>2. ASSUME NEW x \in P, NEW y \in P, NEW u, NEW s, NEW t, Reads(u, x, s), Reads(u, y, t)
        PROVE  x = y
    <3>1. PICK k \in K, c \in Q : x = Member(k, c)
      BY ONLY <1>1, <2>2
    <3>2. PICK l \in K, d \in Q : y = Member(l, d)
      BY ONLY <1>1, <2>2
    <3>3. Reads(u, Member(k, c), s) /\ Reads(u, Member(l, d), t)
      BY ONLY <2>2, <3>1, <3>2
    <3>4. k = l /\ c = d
      BY ONLY <1>4, <3>3, k \in K, l \in K, c \in Q, d \in Q
    <3> QED
      BY ONLY <3>1, <3>2, <3>4
  <2> QED
    BY ONLY <2>1, <2>2 DEF PrefixFree
<1>6. ASSUME NEW k \in K, NEW l \in K, NEW c \in Q, NEW d \in Q, Member(k, c) = Member(l, d)
      PROVE  k = l /\ c = d
  <2>1. /\ Reads(Member(k, c), Member(k, c), <<>>)
        /\ Reads(Member(k, c), Member(l, d), <<>>)
    BY ONLY <1>3, <1>6, ReadsWhole, k \in K, c \in Q
  <2> QED
    BY ONLY <1>4, <2>1, k \in K, l \in K, c \in Q, d \in Q
<1>7. \A x \in P : x[1][1] # "end"
  BY ONLY <1>1, <1>3
<1>8. \A k, l \in K : \A c, d \in Q : Member(k, c) = Member(l, d) => k = l /\ c = d
  BY ONLY <1>6
<1> QED
  BY ONLY <1>5, <1>7, <1>8 DEF P
-----------------------------------------------------------------------------
(* Canonical texts.                                                        *)

\* The members of the keys in K, in order, when f has the texts of their values.
Listed(f, K, values) ==
    [i \in 1 .. Len(SortedKeys(K)) |-> Member(SortedKeys(K)[i], f[values[SortedKeys(K)[i]]])]

\* What writeCanonicalJSON writes for a value when f has the texts of those in it.
Written(f, value) ==
    IF value[1] = "array" THEN Text("array", [i \in 1 .. Len(value[2]) |-> f[value[2][i]]])
    ELSE IF value[1] = "object" THEN Text("object", Listed(f, Present(value[2]), value[2]))
    ELSE <<value>>

\* The text of a value depends only on the texts of the values in it.
LEMMA WrittenSame ==
    ASSUME NEW n \in 0 .. MaxDepth, NEW value \in DecodedUpto[n], NEW f, NEW g,
           n - 1 \in 0 .. MaxDepth => \A v \in DecodedUpto[n - 1] : f[v] = g[v]
    PROVE  Written(f, value) = Written(g, value)
<1>1. \/ value[1] \in {"null", "bool", "number", "string"}
      \/ /\ n - 1 \in 0 .. MaxDepth /\ value[1] = "array"
         /\ value[2] \in Seq(DecodedUpto[n - 1])
      \/ /\ n - 1 \in 0 .. MaxDepth /\ value[1] = "object"
         /\ value[2] \in [KeyNames -> DecodedUpto[n - 1] \cup {Absent}]
  BY DecodedShape
<1>2. CASE value[1] \in {"null", "bool", "number", "string"}
  BY <1>2 DEF Written
<1>3. CASE /\ n - 1 \in 0 .. MaxDepth /\ value[1] = "array"
           /\ value[2] \in Seq(DecodedUpto[n - 1])
  <2>1. \A i \in 1 .. Len(value[2]) : f[value[2][i]] = g[value[2][i]]
    BY <1>3, ElementOfSeq
  <2>2. [i \in 1 .. Len(value[2]) |-> f[value[2][i]]]
           = [i \in 1 .. Len(value[2]) |-> g[value[2][i]]]
    BY <2>1
  <2> QED
    BY <1>3, <2>2 DEF Written
<1>4. CASE /\ n - 1 \in 0 .. MaxDepth /\ value[1] = "object"
           /\ value[2] \in [KeyNames -> DecodedUpto[n - 1] \cup {Absent}]
  <2>1. PICK v, K, keys : v = value[2] /\ K = Present(v) /\ keys = SortedKeys(K)
    OBVIOUS
  <2>2. K \subseteq KeyNames /\ \A k \in K : v[k] \in DecodedUpto[n - 1]
    BY <1>4, <2>1 DEF Present
  <2>3. \A i \in 1 .. Len(keys) : keys[i] \in K
    BY <2>1, <2>2, SortedKeysOf
  <2>4. \A i \in 1 .. Len(keys) : f[v[keys[i]]] = g[v[keys[i]]]
    BY <1>4, <2>2, <2>3
  <2>5. Listed(f, K, v) = Listed(g, K, v)
    BY ONLY <2>1, <2>4 DEF Listed
  <2> QED
    BY <1>4, <2>1, <2>5 DEF Written
<1> QED
  BY <1>1, <1>2, <1>3, <1>4

\* The recursive function exists: writeCanonicalJSON writes what Written says.
LEMMA CanonicalSolves == Canonical = [value \in DecodedUpto[MaxDepth] |-> Written(Canonical, value)]
<1> DEFINE Solves(f, n) == f = [value \in DecodedUpto[n] |-> Written(f, value)]
<1>1. MaxDepth \in Nat
  BY CacheKeyAssumption
<1>2. PICK Y : Y = {n \in 0 .. MaxDepth : \E f : Solves(f, n)}
  OBVIOUS
<1>3. 0 \in Y
  <2>1. PICK f, g : g = <<>> /\ f = [value \in DecodedUpto[0] |-> Written(g, value)]
    OBVIOUS
  <2>2. ASSUME NEW value \in DecodedUpto[0] PROVE Written(g, value) = Written(f, value)
    <3>1. 0 \in 0 .. MaxDepth /\ 0 - 1 \notin 0 .. MaxDepth
      BY <1>1
    <3> QED
      BY <3>1, WrittenSame
  <2>3. Solves(f, 0)
    BY <2>1, <2>2
  <2> HIDE DEF Solves
  <2> QED
    BY <1>1, <1>2, <2>3
<1>4. ASSUME NEW n \in 1 .. MaxDepth, n - 1 \in Y PROVE n \in Y
  <2>1. PICK f : Solves(f, n - 1)
    BY <1>2, <1>4
  <2>2. PICK g : g = [value \in DecodedUpto[n] |-> Written(f, value)]
    OBVIOUS
  <2>3. ASSUME NEW v \in DecodedUpto[n - 1] PROVE f[v] = g[v]
    <3>1. v \in DecodedUpto[n]
      BY DecodedGrows
    <3> QED
      BY <2>1, <2>2, <3>1
  <2>4. ASSUME NEW value \in DecodedUpto[n] PROVE Written(f, value) = Written(g, value)
    <3>1. n \in 0 .. MaxDepth
      OBVIOUS
    <3> QED
      BY <2>3, <3>1, WrittenSame
  <2>5. Solves(g, n)
    BY <2>2, <2>4
  <2>6. n \in 0 .. MaxDepth
    OBVIOUS
  <2> HIDE DEF Solves
  <2> QED
    BY <1>2, <2>5, <2>6
<1>5. \E f : Solves(f, MaxDepth)
  <2>1. 0 .. MaxDepth \subseteq Y
    BY <1>1, <1>3, <1>4, InductionUpto
  <2>2. MaxDepth \in 0 .. MaxDepth
    BY <1>1
  <2> HIDE DEF Solves
  <2> QED
    BY <1>2, <2>1, <2>2
<1>6. PICK h : h = Canonical
  OBVIOUS
<1>7. Solves(h, MaxDepth)
  BY <1>5, <1>6, Zenon DEF Canonical, Written, Listed
<1> QED
  BY <1>6, <1>7

\* So it does at every depth.
LEMMA CanonicalValues ==
    \A n \in 0 .. MaxDepth : \A v \in DecodedUpto[n] : Canonical[v] = Written(Canonical, v)
<1>1. PICK C : C = Canonical
  OBVIOUS
<1>2. \A n \in 0 .. MaxDepth : DecodedUpto[n] \subseteq DecodedUpto[MaxDepth]
  BY DecodedGrows
<1>3. C = [value \in DecodedUpto[MaxDepth] |-> Written(C, value)]
  BY <1>1, CanonicalSolves
<1>4. \A n \in 0 .. MaxDepth : \A v \in DecodedUpto[n] : C[v] = Written(C, v)
  BY ONLY <1>2, <1>3
<1> QED
  BY <1>1, <1>4

\* The texts f has for the values in D can be read back.
Readable(f, D) ==
    /\ \A v \in D : f[v] \in Seq(Tokens) /\ f[v] # <<>> /\ f[v][1][1] # "end"
    /\ \A v, w \in D : \A u, s, t : Reads(u, f[v], s) /\ Reads(u, f[w], t) => v = w

\* Texts that can be read back are prefix-free, and each has one value.
LEMMA ReadableTexts ==
    ASSUME NEW f, NEW D, Readable(f, D)
    PROVE  /\ PrefixFree({f[v] : v \in D}) /\ \A x \in {f[v] : v \in D} : x[1][1] # "end"
           /\ \A v, w \in D : f[v] = f[w] => v = w
<1>1. {f[v] : v \in D} \subseteq Seq(Tokens) \ {<<>>} /\ \A x \in {f[v] : v \in D} : x[1][1] # "end"
  BY DEF Readable
<1>2. \A x, y \in {f[v] : v \in D} : \A u, s, t : Reads(u, x, s) /\ Reads(u, y, t) => x = y
  BY DEF Readable
<1>3. ASSUME NEW v \in D, NEW w \in D, f[v] = f[w] PROVE v = w
  <2>1. Reads(f[v], f[v], <<>>) /\ Reads(f[v], f[w], <<>>)
    BY <1>3, ReadsWhole DEF Readable
  <2> QED
    BY <2>1 DEF Readable
<1> QED
  BY <1>1, <1>2, <1>3 DEF PrefixFree

\* The text of a list starts with its bracket.
LEMMA TextStarts ==
    ASSUME NEW kind \in {"array", "object"}, NEW parts \in Seq(Seq(Tokens))
    PROVE  /\ Text(kind, parts) \in Seq(Tokens) /\ Text(kind, parts) # <<>>
           /\ Text(kind, parts)[1] = <<"begin", kind>>
<1>1. PICK W : W = WrittenFrom(kind, parts)
  OBVIOUS
<1>2. Len(parts) \in Nat /\ 1 \in 1 .. Len(parts) + 1
  BY LenProperties
<1>3. W[1] \in Seq(Tokens)
  BY <1>1, <1>2, WrittenLoop
<1>4. PICK b : b = <<<<"begin", kind>>>>
  OBVIOUS
<1>5. b \in Seq(Tokens) /\ b # <<>> /\ b[1] = <<"begin", kind>>
  <2>1. <<"begin", kind>> \in Tokens
    BY DEF Tokens
  <2> QED
    BY <1>4, <2>1
<1>6. Text(kind, parts) = b \o W[1]
  BY ONLY <1>1, <1>4 DEF Text
<1>7. b \o W[1] \in Seq(Tokens) /\ b \o W[1] # <<>> /\ (b \o W[1])[1] = b[1]
  BY ONLY <1>3, <1>5, FirstToken
<1> QED
  BY ONLY <1>5, <1>6, <1>7

\* The texts of the items of an array.
ItemTexts(f, items) == [i \in 1 .. Len(items) |-> f[items[i]]]

\* If the texts of the items can be read back, so can that of their array.
LEMMA ArraysRead ==
    ASSUME NEW f, NEW D, Readable(f, D), NEW a \in Seq(D), NEW b \in Seq(D)
    PROVE  /\ ItemTexts(f, a) \in Seq(Seq(Tokens))
           /\ \A u, s, t : /\ Reads(u, Text("array", ItemTexts(f, a)), s)
                           /\ Reads(u, Text("array", ItemTexts(f, b)), t)
                           => a = b
<1>1. PICK x, y : x = ItemTexts(f, a) /\ y = ItemTexts(f, b)
  OBVIOUS
<1>2. PICK Q : Q = {f[v] : v \in D}
  OBVIOUS
<1>3. PrefixFree(Q) /\ \A q \in Q : q[1][1] # "end"
  BY ONLY <1>2, Readable(f, D), ReadableTexts
<1>4. Len(a) \in Nat /\ Len(b) \in Nat
  BY LenProperties
<1>5. (\A i \in 1 .. Len(a) : a[i] \in D) /\ (\A i \in 1 .. Len(b) : b[i] \in D)
  BY ElementOfSeq
<1>6. x \in Seq(Q) /\ y \in Seq(Q) /\ Len(x) = Len(a) /\ Len(y) = Len(b)
  BY <1>1, <1>2, <1>4, <1>5 DEF ItemTexts
<1>7. x \in Seq(Seq(Tokens))
  <2>1. Q \subseteq Seq(Tokens)
    BY <1>3 DEF PrefixFree
  <2> QED
    BY ONLY <1>6, <2>1, SeqMonotonic
<1>8. ASSUME NEW u, NEW s, NEW t, Reads(u, Text("array", x), s), Reads(u, Text("array", y), t)
      PROVE  a = b
  <2>1. x = y
    BY ONLY <1>3, <1>6, <1>8, ListsRead
  <2>2. Len(a) = Len(b)
    BY <1>6, <2>1
  <2>3. ASSUME NEW i \in 1 .. Len(a) PROVE a[i] = b[i]
    <3>1. x[i] = f[a[i]] /\ y[i] = f[b[i]] /\ a[i] \in D /\ b[i] \in D
      BY <1>1, <1>5, <2>2 DEF ItemTexts
    <3>2. f[a[i]] = f[b[i]]
      BY ONLY <2>1, <3>1
    <3> QED
      BY ONLY <3>1, <3>2, Readable(f, D), ReadableTexts
  <2> QED
    BY ONLY <2>2, <2>3, a \in Seq(D), b \in Seq(D), SeqEqual
<1> QED
  BY ONLY <1>1, <1>7, <1>8

\* An object is read back: its keys and their values.
LEMMA ObjectsRead ==
    ASSUME NEW f, NEW D, Readable(f, D), NEW v, NEW w, NEW K, NEW L,
           K \subseteq KeyNames, \A k \in K : v[k] \in D,
           L \subseteq KeyNames, \A k \in L : w[k] \in D
    PROVE  /\ Listed(f, K, v) \in Seq(Seq(Tokens))
           /\ \A u, s, t : /\ Reads(u, Text("object", Listed(f, K, v)), s)
                           /\ Reads(u, Text("object", Listed(f, L, w)), t)
                           => K = L /\ \A k \in K : v[k] = w[k]
<1> DEFINE Q == {f[d] : d \in D}
           P == Members(KeyNames, Q)
<1>1. PrefixFree(Q)
  BY ReadableTexts
<1>2. KeyNames \subseteq Names
  BY KeyNamesAreNames
<1>3. \A d \in D : f[d] \in Q
  OBVIOUS
<1> HIDE DEF Q
<1>4. /\ PrefixFree(P) /\ \A p \in P : p[1][1] # "end"
      /\ \A k, l \in KeyNames : \A c, d \in Q : Member(k, c) = Member(l, d) => k = l /\ c = d
  BY ONLY <1>1, <1>2, MembersPrefixFree
<1>5. \A k \in KeyNames : \A c \in Q : Member(k, c) \in P
  BY DEF Members
<1> HIDE DEF P
<1>6. ASSUME NEW M, M \subseteq KeyNames, NEW m, \A k \in M : m[k] \in D, NEW keys,
             keys = SortedKeys(M)
      PROVE  /\ Len(keys) \in Nat /\ {keys[i] : i \in 1 .. Len(keys)} = M
             /\ \A i \in 1 .. Len(keys) : keys[i] \in M
             /\ Listed(f, M, m) \in Seq(P) /\ Len(Listed(f, M, m)) = Len(keys)
             /\ \A i \in 1 .. Len(keys) : Listed(f, M, m)[i] = Member(keys[i], f[m[keys[i]]])
  <2>1. keys \in Seq(M) /\ {keys[i] : i \in 1 .. Len(keys)} = M
    BY ONLY <1>6, SortedKeysOf
  <2>2. Len(keys) \in Nat /\ \A i \in 1 .. Len(keys) : keys[i] \in M
    BY ONLY <2>1, LenProperties, ElementOfSeq
  <2>3. \A i \in 1 .. Len(keys) : Member(keys[i], f[m[keys[i]]]) \in P
    BY ONLY <1>3, <1>5, <1>6, <2>2
  <2>4. PICK list : list = Listed(f, M, m)
    OBVIOUS
  <2>5. list = [i \in 1 .. Len(keys) |-> Member(keys[i], f[m[keys[i]]])]
    BY ONLY <1>6, <2>4 DEF Listed
  <2>6. list \in [1 .. Len(keys) -> P]
    BY ONLY <2>3, <2>5
  <2>7. list \in Seq(P) /\ Len(list) = Len(keys)
    BY <2>2, <2>6
  <2>8. \A i \in 1 .. Len(keys) : list[i] = Member(keys[i], f[m[keys[i]]])
    BY ONLY <2>5
  <2> QED
    BY ONLY <2>1, <2>2, <2>4, <2>7, <2>8
<1>7. PICK a, b, x, y : /\ a = SortedKeys(K) /\ b = SortedKeys(L)
                        /\ x = Listed(f, K, v) /\ y = Listed(f, L, w)
  OBVIOUS
<1>8. /\ Len(a) \in Nat /\ {a[i] : i \in 1 .. Len(a)} = K /\ \A i \in 1 .. Len(a) : a[i] \in K
      /\ x \in Seq(P) /\ Len(x) = Len(a)
      /\ \A i \in 1 .. Len(a) : x[i] = Member(a[i], f[v[a[i]]])
  BY ONLY <1>6, <1>7, K \subseteq KeyNames, \A k \in K : v[k] \in D
<1>9. /\ Len(b) \in Nat /\ {b[i] : i \in 1 .. Len(b)} = L /\ \A i \in 1 .. Len(b) : b[i] \in L
      /\ y \in Seq(P) /\ Len(y) = Len(b)
      /\ \A i \in 1 .. Len(b) : y[i] = Member(b[i], f[w[b[i]]])
  BY ONLY <1>6, <1>7, L \subseteq KeyNames, \A k \in L : w[k] \in D
<1>10. x \in Seq(Seq(Tokens))
  <2>1. P \subseteq Seq(Tokens)
    BY <1>4 DEF PrefixFree
  <2> QED
    BY ONLY <1>8, <2>1, SeqMonotonic
<1>11. ASSUME NEW u, NEW s, NEW t, Reads(u, Text("object", x), s), Reads(u, Text("object", y), t)
       PROVE  K = L /\ \A k \in K : v[k] = w[k]
  <2>1. x = y
    BY ONLY <1>4, <1>8, <1>9, <1>11, ListsRead
  <2>2. Len(a) = Len(b)
    BY ONLY <1>8, <1>9, <2>1
  <2>3. ASSUME NEW i \in 1 .. Len(a) PROVE a[i] = b[i] /\ v[a[i]] = w[b[i]]
    <3>1. /\ a[i] \in KeyNames /\ b[i] \in KeyNames /\ v[a[i]] \in D /\ w[b[i]] \in D
          /\ Member(a[i], f[v[a[i]]]) = Member(b[i], f[w[b[i]]])
      BY <1>8, <1>9, <2>1, <2>2
    <3>2. a[i] = b[i] /\ f[v[a[i]]] = f[w[b[i]]]
      BY ONLY <1>3, <1>4, <3>1
    <3> QED
      BY ONLY <3>1, <3>2, Readable(f, D), ReadableTexts
  <2>4. {a[i] : i \in 1 .. Len(a)} = {b[i] : i \in 1 .. Len(b)}
    BY ONLY <2>2, <2>3
  <2>5. ASSUME NEW k \in K PROVE v[k] = w[k]
    <3>1. PICK i \in 1 .. Len(a) : a[i] = k
      BY ONLY <1>8, <2>5
    <3> QED
      BY ONLY <2>3, <3>1
  <2> QED
    BY ONLY <1>8, <1>9, <2>4, <2>5
<1> QED
  BY ONLY <1>7, <1>10, <1>11

\* The first token of the text of a value.
Leading(value) ==
    IF value[1] = "array" THEN <<"begin", "array">>
    ELSE IF value[1] = "object" THEN <<"begin", "object">> ELSE value

\* If the texts of one depth can be read back, so can those of the next: the first token
\* tells arrays, objects and plain values apart.
LEMMA CanonicalLevel ==
    ASSUME NEW n \in 0 .. MaxDepth, NEW C, C = Canonical,
           n - 1 \in 0 .. MaxDepth => Readable(C, DecodedUpto[n - 1])
    PROVE  Readable(C, DecodedUpto[n])
<1> DEFINE D == DecodedUpto[n - 1]
           Array(v) == /\ n - 1 \in 0 .. MaxDepth /\ v[1] = "array"
                       /\ v = <<"array", v[2]>> /\ v[2] \in Seq(D)
           Object(v) == /\ n - 1 \in 0 .. MaxDepth /\ v[1] = "object"
                        /\ v = <<"object", v[2]>> /\ v[2] \in [KeyNames -> D \cup {Absent}]
           Plain(v) == v \in PlainValues /\ v[1] \in {"null", "bool", "number", "string"}
           Items(v) == ItemTexts(C, v[2])
<1>1. \A v \in DecodedUpto[n] : Plain(v) \/ Array(v) \/ Object(v)
  BY DecodedShape
<1>2. \A v \in DecodedUpto[n] : C[v] = Written(C, v)
  BY CanonicalValues
<1>3. \A v : Array(v) => Readable(C, D) /\ v[2] \in Seq(D)
  OBVIOUS
<1>4. \A v : Object(v) => /\ Readable(C, D) /\ Present(v[2]) \subseteq KeyNames
                          /\ \A k \in Present(v[2]) : v[2][k] \in D
  BY DEF Present
<1>5. \A v : /\ Array(v) => Written(C, v) = Text("array", Items(v)) /\ Leading(v) = <<"begin", "array">>
             /\ Object(v) => /\ Written(C, v) = Text("object", Listed(C, Present(v[2]), v[2]))
                             /\ Leading(v) = <<"begin", "object">>
             /\ Plain(v) => Written(C, v) = <<v>> /\ Leading(v) = v
  BY DEF Written, Leading, ItemTexts
<1>6. \A v : Array(v) => Items(v) \in Seq(Seq(Tokens))
  <2> TAKE v
  <2> HAVE Array(v)
  <2>1. PICK a : a = v[2]
    OBVIOUS
  <2>2. a \in Seq(D) /\ Readable(C, D) /\ ItemTexts(C, a) = Items(v)
    BY <1>3, <2>1
  <2> HIDE DEF D, Items
  <2>3. ItemTexts(C, a) \in Seq(Seq(Tokens))
    BY ONLY <2>2, ArraysRead
  <2> QED
    BY ONLY <2>2, <2>3
<1>7. \A v : Object(v) => Listed(C, Present(v[2]), v[2]) \in Seq(Seq(Tokens))
  <2> TAKE v
  <2> HAVE Object(v)
  <2>1. PICK m, K : m = v[2] /\ K = Present(m)
    OBVIOUS
  <2>2. Readable(C, D) /\ K \subseteq KeyNames /\ \A k \in K : m[k] \in D
    BY <1>4, <2>1
  <2> HIDE DEF D
  <2>3. Listed(C, K, m) \in Seq(Seq(Tokens))
    BY ONLY <2>2, ObjectsRead
  <2> QED
    BY ONLY <2>1, <2>3
<1>8. \A v : Plain(v) => <<v>> \in Seq(Tokens) /\ <<v>> # <<>> /\ <<v>>[1] = v /\ v[1] # "end"
  <2> TAKE v
  <2> HAVE Plain(v)
  <2>1. v \in Tokens /\ v[1] # "end"
    BY DEF Tokens
  <2> QED
    BY ONLY <2>1
<1>9. \A v : Array(v) \/ Object(v) => v = <<v[1], v[2]>>
  OBVIOUS
<1>10. \A v, w :
          /\ Plain(v) \/ Array(v) \/ Object(v)
          /\ Plain(w) \/ Array(w) \/ Object(w)
          /\ Leading(v) = Leading(w)
          => \/ Plain(v) /\ Plain(w) /\ v = w
             \/ Array(v) /\ Array(w)
             \/ Object(v) /\ Object(w)
  <2>1. \A v : /\ Array(v) => Leading(v)[1] = "begin" /\ Leading(v)[2] = "array"
               /\ Object(v) => Leading(v)[1] = "begin" /\ Leading(v)[2] = "object"
    BY DEF Leading
  <2>2. \A v : Plain(v) => Leading(v) = v /\ v[1] # "begin"
    BY DEF Leading
  <2> HIDE DEF Plain, Array, Object
  <2> QED
    BY ONLY <2>1, <2>2
<1>11. ASSUME NEW v, Array(v), NEW w, Array(w), NEW u, NEW s, NEW t,
              Reads(u, Text("array", Items(v)), s), Reads(u, Text("array", Items(w)), t)
       PROVE  v[2] = w[2]
  <2>1. PICK a, b : a = v[2] /\ b = w[2]
    OBVIOUS
  <2>2. /\ a \in Seq(D) /\ b \in Seq(D) /\ Readable(C, D)
        /\ ItemTexts(C, a) = Items(v) /\ ItemTexts(C, b) = Items(w)
    BY <1>3, <1>11, <2>1
  <2> HIDE DEF D, Items
  <2>3. Reads(u, Text("array", ItemTexts(C, a)), s) /\ Reads(u, Text("array", ItemTexts(C, b)), t)
    BY ONLY <1>11, <2>2
  <2>4. a = b
    BY ONLY <2>2, <2>3, ArraysRead
  <2> QED
    BY ONLY <2>1, <2>4
<1>12. ASSUME NEW v, Object(v), NEW w, Object(w), NEW u, NEW s, NEW t,
              Reads(u, Text("object", Listed(C, Present(v[2]), v[2])), s),
              Reads(u, Text("object", Listed(C, Present(w[2]), w[2])), t)
       PROVE  v[2] = w[2]
  <2>1. PICK m, K, o, L : m = v[2] /\ K = Present(m) /\ o = w[2] /\ L = Present(o)
    OBVIOUS
  <2>2. /\ Readable(C, D) /\ K \subseteq KeyNames /\ \A k \in K : m[k] \in D
        /\ L \subseteq KeyNames /\ \A k \in L : o[k] \in D
    BY <1>4, <1>12, <2>1
  <2>3. m \in [KeyNames -> D \cup {Absent}] /\ o \in [KeyNames -> D \cup {Absent}]
    BY <1>12, <2>1
  <2> HIDE DEF D
  <2>4. /\ Reads(u, Text("object", Listed(C, K, m)), s)
        /\ Reads(u, Text("object", Listed(C, L, o)), t)
    BY ONLY <1>12, <2>1
  <2>5. K = L /\ \A k \in K : m[k] = o[k]
    BY ONLY <2>2, <2>4, ObjectsRead
  <2>6. \A k \in KeyNames : m[k] = o[k]
    BY ONLY <2>1, <2>5 DEF Present
  <2>7. m = o
    BY ONLY <2>3, <2>6
  <2> QED
    BY ONLY <2>1, <2>7
<1> HIDE DEF Plain, Array, Object, Items, D
<1>13. \A v \in DecodedUpto[n] :
          C[v] \in Seq(Tokens) /\ C[v] # <<>> /\ C[v][1] = Leading(v) /\ C[v][1][1] # "end"
  <2> TAKE v \in DecodedUpto[n]
  <2>1. CASE Plain(v)
    <3>1. PICK x : x = <<v>>
      OBVIOUS
    <3>2. x \in Seq(Tokens) /\ x # <<>> /\ x[1] = v /\ v[1] # "end"
      BY ONLY <1>8, <2>1, <3>1
    <3>3. C[v] = x /\ Leading(v) = v
      BY ONLY <1>2, <1>5, <2>1, <3>1, v \in DecodedUpto[n]
    <3> QED
      BY ONLY <3>2, <3>3
  <2>2. CASE Array(v)
    <3>1. PICK x : x = Items(v)
      OBVIOUS
    <3>2. x \in Seq(Seq(Tokens)) /\ C[v] = Text("array", x) /\ Leading(v) = <<"begin", "array">>
      BY ONLY <1>2, <1>5, <1>6, <2>2, <3>1, v \in DecodedUpto[n]
    <3>3. /\ Text("array", x) \in Seq(Tokens) /\ Text("array", x) # <<>>
          /\ Text("array", x)[1] = <<"begin", "array">>
      BY ONLY <3>2, TextStarts
    <3> QED
      BY ONLY <3>2, <3>3
  <2>3. CASE Object(v)
    <3>1. PICK x : x = Listed(C, Present(v[2]), v[2])
      OBVIOUS
    <3>2. x \in Seq(Seq(Tokens)) /\ C[v] = Text("object", x) /\ Leading(v) = <<"begin", "object">>
      BY ONLY <1>2, <1>5, <1>7, <2>3, <3>1, v \in DecodedUpto[n]
    <3>3. /\ Text("object", x) \in Seq(Tokens) /\ Text("object", x) # <<>>
          /\ Text("object", x)[1] = <<"begin", "object">>
      BY ONLY <3>2, TextStarts
    <3> QED
      BY ONLY <3>2, <3>3
  <2> QED
    BY ONLY <1>1, <2>1, <2>2, <2>3, v \in DecodedUpto[n]
<1>14. ASSUME NEW v \in DecodedUpto[n], NEW w \in DecodedUpto[n], NEW u, NEW s, NEW t,
              Reads(u, C[v], s), Reads(u, C[w], t)
       PROVE  v = w
  <2>1. PICK x, y : x = C[v] /\ y = C[w]
    OBVIOUS
  <2>2. x \in Seq(Tokens) /\ x # <<>> /\ y \in Seq(Tokens) /\ y # <<>>
    BY ONLY <1>13, <2>1, v \in DecodedUpto[n], w \in DecodedUpto[n]
  <2>3. s \in Seq(Tokens) /\ t \in Seq(Tokens) /\ u = x \o s /\ u = y \o t
    BY ONLY <1>14, <2>1 DEF Reads
  <2>4. (x \o s)[1] = x[1] /\ (y \o t)[1] = y[1]
    BY ONLY <2>2, <2>3, FirstToken
  <2>5. Leading(v) = Leading(w)
    BY ONLY <1>13, <2>1, <2>3, <2>4, v \in DecodedUpto[n], w \in DecodedUpto[n]
  <2>6. \/ Plain(v) /\ Plain(w) /\ v = w
        \/ Array(v) /\ Array(w)
        \/ Object(v) /\ Object(w)
    BY ONLY <1>1, <1>10, <2>5, v \in DecodedUpto[n], w \in DecodedUpto[n]
  <2>7. CASE Array(v) /\ Array(w)
    <3>1. C[v] = Text("array", Items(v)) /\ C[w] = Text("array", Items(w))
      BY ONLY <1>2, <1>5, <2>7, v \in DecodedUpto[n], w \in DecodedUpto[n]
    <3>2. v[2] = w[2]
      BY ONLY <1>11, <1>14, <2>7, <3>1
    <3>3. v = <<"array", v[2]>> /\ w = <<"array", w[2]>>
      BY ONLY <2>7 DEF Array
    <3> QED
      BY ONLY <3>2, <3>3
  <2>8. CASE Object(v) /\ Object(w)
    <3>1. /\ C[v] = Text("object", Listed(C, Present(v[2]), v[2]))
          /\ C[w] = Text("object", Listed(C, Present(w[2]), w[2]))
      BY ONLY <1>2, <1>5, <2>8, v \in DecodedUpto[n], w \in DecodedUpto[n]
    <3>2. v[2] = w[2]
      BY ONLY <1>12, <1>14, <2>8, <3>1
    <3>3. v = <<"object", v[2]>> /\ w = <<"object", w[2]>>
      BY ONLY <2>8 DEF Object
    <3> QED
      BY ONLY <3>2, <3>3
  <2> QED
    BY ONLY <2>6, <2>7, <2>8
<1> QED
  BY ONLY <1>13, <1>14 DEF Readable

\* Values have the same canonical text only if they are the same, and a canonical text
\* can be told from what follows it.
THEOREM CanonicalReadable == \A n \in 0 .. MaxDepth : Readable(Canonical, DecodedUpto[n])
<1>1. MaxDepth \in Nat
  BY CacheKeyAssumption
<1>2. PICK C : C = Canonical
  OBVIOUS
<1>3. PICK Y : Y = {n \in 0 .. MaxDepth : Readable(C, DecodedUpto[n])}
  OBVIOUS
<1>4. 0 \in Y
  <2>1. 0 \in 0 .. MaxDepth /\ 0 - 1 \notin 0 .. MaxDepth
    BY <1>1
  <2> QED
    BY ONLY <1>2, <1>3, <2>1, CanonicalLevel
<1>5. ASSUME NEW n \in 1 .. MaxDepth, n - 1 \in Y PROVE n \in Y
  <2>1. n \in 0 .. MaxDepth /\ Readable(C, DecodedUpto[n - 1])
    BY <1>3, <1>5
  <2>2. Readable(C, DecodedUpto[n])
    BY ONLY <1>2, <2>1, CanonicalLevel
  <2> QED
    BY ONLY <1>3, <2>1, <2>2
<1>6. 0 .. MaxDepth \subseteq Y
  BY <1>1, <1>4, <1>5, InductionUpto
<1> QED
  BY ONLY <1>2, <1>3, <1>6
-----------------------------------------------------------------------------
(* Cache keys.                                                             *)

Kept(path, values) == {k \in Present(values) : ~Excluded(path, k, values[k])}

\* What is kept of the fields.
Asked(path, values) == {<<k, values[k]>> : k \in Kept(path, values)}

\* The same is asked exactly when the same keys are kept with the same values.
LEMMA AskedSame ==
    \A p, v, q, w : Asked(p, v) = Asked(q, w)
                      <=> Kept(p, v) = Kept(q, w) /\ \A k \in Kept(p, v) : v[k] = w[k]
<1> SUFFICES ASSUME NEW p, NEW v, NEW q, NEW w
             PROVE  Asked(p, v) = Asked(q, w)
                      <=> Kept(p, v) = Kept(q, w) /\ \A k \in Kept(p, v) : v[k] = w[k]
  OBVIOUS
<1>1. PICK K, L : K = Kept(p, v) /\ L = Kept(q, w)
  OBVIOUS
<1>2. Asked(p, v) = {<<k, v[k]>> : k \in K} /\ Asked(q, w) = {<<k, w[k]>> : k \in L}
  BY <1>1 DEF Asked
<1>3. ASSUME {<<k, v[k]>> : k \in K} = {<<k, w[k]>> : k \in L}
      PROVE  K = L /\ \A k \in K : v[k] = w[k]
  <2>1. ASSUME NEW k \in K PROVE k \in L /\ v[k] = w[k]
    <3>1. <<k, v[k]>> \in {<<l, w[l]>> : l \in L}
      BY ONLY <1>3, <2>1
    <3> QED
      BY ONLY <3>1
  <2>2. ASSUME NEW k \in L PROVE k \in K
    <3>1. <<k, w[k]>> \in {<<l, v[l]>> : l \in K}
      BY ONLY <1>3, <2>2
    <3> QED
      BY ONLY <3>1
  <2> QED
    BY ONLY <2>1, <2>2
<1>4. ASSUME K = L, \A k \in K : v[k] = w[k]
      PROVE  {<<k, v[k]>> : k \in K} = {<<k, w[k]>> : k \in L}
  BY ONLY <1>4
<1> QED
  BY ONLY <1>1, <1>2, <1>3, <1>4

\* The decoded fields a body can have.
Decodings == [KeyNames -> DecodedUpto[MaxDepth] \cup {Absent}]

\* The text of the fields that are kept.
Request(path, values) == Text("object", Listed(Canonical, Kept(path, values), values))

\* The key is the text of the path and of the fields that are kept.
LEMMA CacheKeyText ==
    ASSUME NEW path, NEW values
    PROVE  CacheKey(path, values)
              = Text("object", <<Member("path", <<<<"string", path>>>>),
                                 Member("request", Request(path, values))>>)
BY DEF CacheKey, Request, Kept, Listed

\* The text of the fields that are kept tells them, whatever follows it.
LEMMA RequestsRead ==
    ASSUME NEW path, NEW values \in Decodings
    PROVE  /\ Request(path, values) \in Seq(Tokens) /\ Request(path, values) # <<>>
           /\ Request(path, values)[1] = <<"begin", "object">>
           /\ \A other : \A w \in Decodings : \A u, s, t :
                 Reads(u, Request(path, values), s) /\ Reads(u, Request(other, w), t)
                    => Asked(path, values) = Asked(other, w)
<1>1. PICK C, D : C = Canonical /\ D = DecodedUpto[MaxDepth]
  OBVIOUS
<1>2. Readable(C, D)
  <2>1. MaxDepth \in 0 .. MaxDepth
    BY CacheKeyAssumption
  <2> QED
    BY <1>1, <2>1, CanonicalReadable
<1>3. ASSUME NEW p, NEW v \in Decodings
      PROVE  Kept(p, v) \subseteq KeyNames /\ \A k \in Kept(p, v) : v[k] \in D
  BY <1>1, <1>3 DEF Kept, Present, Decodings
<1>4. PICK x : x = Listed(C, Kept(path, values), values)
  OBVIOUS
<1>5. x \in Seq(Seq(Tokens)) /\ Request(path, values) = Text("object", x)
  <2>1. Kept(path, values) \subseteq KeyNames /\ \A k \in Kept(path, values) : values[k] \in D
    BY <1>3
  <2>2. Listed(C, Kept(path, values), values) \in Seq(Seq(Tokens))
    BY ONLY <1>2, <2>1, ObjectsRead
  <2> QED
    BY ONLY <1>1, <1>4, <2>2 DEF Request
<1>6. /\ Text("object", x) \in Seq(Tokens) /\ Text("object", x) # <<>>
      /\ Text("object", x)[1] = <<"begin", "object">>
  BY ONLY <1>5, TextStarts
<1>7. ASSUME NEW other, NEW w \in Decodings, NEW u, NEW s, NEW t,
             Reads(u, Request(path, values), s), Reads(u, Request(other, w), t)
      PROVE  Asked(path, values) = Asked(other, w)
  <2>1. PICK K, L : K = Kept(path, values) /\ L = Kept(other, w)
    OBVIOUS
  <2>2. /\ K \subseteq KeyNames /\ \A k \in K : values[k] \in D
        /\ L \subseteq KeyNames /\ \A k \in L : w[k] \in D
    BY <1>3, <2>1
  <2>3. /\ Reads(u, Text("object", Listed(C, K, values)), s)
        /\ Reads(u, Text("object", Listed(C, L, w)), t)
    BY ONLY <1>1, <1>7, <2>1 DEF Request
  <2>4. K = L /\ \A k \in K : values[k] = w[k]
    BY ONLY <1>2, <2>2, <2>3, ObjectsRead
  <2>5. /\ Asked(path, values) = {<<k, values[k]>> : k \in K}
        /\ Asked(other, w) = {<<k, w[k]>> : k \in L}
    BY ONLY <2>1 DEF Asked
  <2> QED
    BY ONLY <2>4, <2>5
<1> QED
  BY ONLY <1>5, <1>6, <1>7

\* The text of the fields that are kept, from nothing but those fields.
RequestFrom(asked) == CHOOSE text : \E q, w : asked = Asked(q, w) /\ text = Request(q, w)

\* The key depends on nothing but the path and the fields that are kept.
LEMMA RequestSame == ASSUME NEW p, NEW v PROVE Request(p, v) = RequestFrom(Asked(p, v))
<1>1. ASSUME NEW q, NEW w, Asked(p, v) = Asked(q, w) PROVE Request(p, v) = Request(q, w)
  <2>1. PICK K : K = Kept(p, v) /\ K = Kept(q, w) /\ \A k \in K : v[k] = w[k]
    BY <1>1, AskedSame
  <2>2. K \subseteq KeyNames
    BY <2>1 DEF Kept, Present
  <2>3. \A i \in 1 .. Len(SortedKeys(K)) : SortedKeys(K)[i] \in K
    BY ONLY <2>2, SortedKeysOf
  <2>4. Listed(Canonical, K, v) = Listed(Canonical, K, w)
    BY ONLY <2>1, <2>3 DEF Listed
  <2> QED
    BY ONLY <2>1, <2>4 DEF Request
<1>2. PICK asked, text : asked = Asked(p, v) /\ text = RequestFrom(asked)
  OBVIOUS
<1>3. \E t : \E q, w : asked = Asked(q, w) /\ t = Request(q, w)
  BY <1>2
<1>4. \E q, w : asked = Asked(q, w) /\ text = Request(q, w)
  BY ONLY <1>2, <1>3 DEF RequestFrom
<1> QED
  BY ONLY <1>1, <1>2, <1>4

\* The key tells the path and the fields that are kept.
Tells(p, v) ==
    \A q \in STRING : \A w \in Decodings :
        CacheKey(p, v) = CacheKey(q, w) => p = q /\ Asked(p, v) = Asked(q, w)

\* Every key is a text that does.
LEMMA CacheKeyReads ==
    ASSUME NEW p \in STRING, NEW v \in Decodings
    PROVE  CacheKey(p, v) # <<>> /\ Tells(p, v)
<1> DEFINE Path(r) == <<<<"string", r>>>>
           Parts(r, t) == <<Member("path", Path(r)), Member("request", t)>>
<1>1. \A r \in STRING : /\ Path(r) \in Seq(Tokens) /\ Path(r) # <<>>
                        /\ Path(r)[1] = <<"string", r>>
  <2> TAKE r \in STRING
  <2>1. <<"string", r>> \in Tokens
    BY DEF Tokens, PlainValues
  <2> QED
    BY <2>1
<1>2. \A r, x : CacheKey(r, x) = Text("object", Parts(r, Request(r, x)))
  BY CacheKeyText
<1> HIDE DEF Path
<1>3. \A x \in Decodings : \A r :
         /\ Request(r, x) \in Seq(Tokens) /\ Request(r, x) # <<>>
         /\ Request(r, x)[1] = <<"begin", "object">>
  BY RequestsRead
<1>4. CacheKey(p, v) # <<>>
  <2>1. PICK c, d, t : /\ c = Member("path", Path(p)) /\ t = Request(p, v)
                       /\ d = Member("request", t)
    OBVIOUS
  <2>2. c \in Seq(Tokens) /\ d \in Seq(Tokens)
    <3>1. Path(p) \in Seq(Tokens) /\ t \in Seq(Tokens)
      BY <1>1, <1>3, <2>1
    <3>2. "path" \in Names /\ "request" \in Names
      BY DEF Names
    <3>3. Member("path", Path(p)) \in Seq(Tokens)
      BY ONLY <3>1, <3>2, MemberReads
    <3>4. Member("request", t) \in Seq(Tokens)
      BY ONLY <3>1, <3>2, MemberReads
    <3> QED
      BY ONLY <2>1, <3>3, <3>4
  <2>3. <<c, d>> \in Seq(Seq(Tokens)) /\ CacheKey(p, v) = Text("object", <<c, d>>)
    BY <1>2, <2>1, <2>2
  <2> QED
    BY ONLY <2>3, TextStarts
<1>5. ASSUME NEW q \in STRING, NEW w \in Decodings, CacheKey(p, v) = CacheKey(q, w)
      PROVE  p = q /\ Asked(p, v) = Asked(q, w)
  <2>1. PICK x, y : x = Request(p, v) /\ y = Request(q, w)
    OBVIOUS
  <2>2. /\ x \in Seq(Tokens) /\ x # <<>> /\ x[1] = <<"begin", "object">>
        /\ y \in Seq(Tokens) /\ y # <<>> /\ y[1] = <<"begin", "object">>
    BY <1>3, <2>1
  <2>3. \A u, s, t : Reads(u, x, s) /\ Reads(u, y, t) => Asked(p, v) = Asked(q, w)
    BY ONLY <2>1, RequestsRead, v \in Decodings, w \in Decodings
  <2>4. \A u, s, t : Reads(u, x, s) /\ Reads(u, y, t) => x = y
    <3> SUFFICES ASSUME NEW u, NEW s, NEW t, Reads(u, x, s), Reads(u, y, t) PROVE x = y
      OBVIOUS
    <3>1. Asked(p, v) = Asked(q, w)
      BY ONLY <2>3, Reads(u, x, s), Reads(u, y, t)
    <3>2. Request(p, v) = RequestFrom(Asked(p, v)) /\ Request(q, w) = RequestFrom(Asked(q, w))
      BY ONLY RequestSame
    <3> QED
      BY ONLY <2>1, <3>1, <3>2
  <2>5. PICK Q : Q = {Path(r) : r \in STRING} \cup {x, y}
    OBVIOUS
  <2>6. PrefixFree(Q)
    <3>1. Q \subseteq Seq(Tokens) \ {<<>>}
      BY ONLY <1>1, <2>2, <2>5
    <3>2. ASSUME NEW a \in Q, NEW b \in Q, NEW u, NEW s, NEW t, Reads(u, a, s), Reads(u, b, t)
          PROVE  a = b
      <4>1. /\ a \in Seq(Tokens) /\ a # <<>> /\ b \in Seq(Tokens) /\ b # <<>>
            /\ s \in Seq(Tokens) /\ t \in Seq(Tokens) /\ u = a \o s /\ u = b \o t
        BY ONLY <3>1, <3>2 DEF Reads
      <4>2. (a \o s)[1] = a[1] /\ (b \o t)[1] = b[1]
        BY ONLY <4>1, FirstToken
      <4>3. a[1] = b[1]
        BY ONLY <4>1, <4>2
      <4>4. \A c \in Q : \/ \E r \in STRING : c = Path(r) /\ c[1] = <<"string", r>>
                         \/ c \in {x, y} /\ c[1] = <<"begin", "object">>
        BY ONLY <1>1, <2>2, <2>5
      <4>5. \/ \E r, o \in STRING : /\ a = Path(r) /\ a[1] = <<"string", r>>
                                    /\ b = Path(o) /\ b[1] = <<"string", o>>
            \/ a \in {x, y} /\ b \in {x, y}
        BY ONLY <4>3, <4>4, <3>2
      <4>6. CASE \E r, o \in STRING : /\ a = Path(r) /\ a[1] = <<"string", r>>
                                      /\ b = Path(o) /\ b[1] = <<"string", o>>
        BY ONLY <4>3, <4>6
      <4>7. CASE a \in {x, y} /\ b \in {x, y}
        BY ONLY <2>4, <3>2, <4>7
      <4> QED
        BY ONLY <4>5, <4>6, <4>7
    <3> QED
      BY ONLY <3>1, <3>2 DEF PrefixFree
  <2>7. PICK N : N = {"path", "request"}
    OBVIOUS
  <2>8. PICK M : M = Members(N, Q)
    OBVIOUS
  <2>9. /\ PrefixFree(M) /\ \A m \in M : m[1][1] # "end"
        /\ \A k, l \in N : \A c, d \in Q : Member(k, c) = Member(l, d) => k = l /\ c = d
    <3>1. "path" \in Names /\ "request" \in Names
      BY DEF Names
    <3>2. N \subseteq Names
      BY ONLY <2>7, <3>1
    <3> QED
      BY ONLY <2>6, <2>8, <3>2, MembersPrefixFree
  <2>10. /\ "path" \in N /\ "request" \in N
         /\ Path(p) \in Q /\ Path(q) \in Q /\ x \in Q /\ y \in Q
    BY <2>5, <2>7
  <2>11. PICK a, b, c, d : /\ a = Member("path", Path(p)) /\ b = Member("request", x)
                           /\ c = Member("path", Path(q)) /\ d = Member("request", y)
    OBVIOUS
  <2>12. a \in M /\ b \in M /\ c \in M /\ d \in M
    BY ONLY <2>8, <2>10, <2>11 DEF Members
  <2>13. CacheKey(p, v) = Text("object", <<a, b>>) /\ CacheKey(q, w) = Text("object", <<c, d>>)
    BY <1>2, <2>1, <2>11
  <2>14. <<a, b>> \in Seq(M) /\ <<c, d>> \in Seq(M) /\ CacheKey(p, v) \in Seq(Tokens)
    <3>1. <<a, b>> \in Seq(M) /\ <<c, d>> \in Seq(M)
      BY <2>12
    <3>2. M \subseteq Seq(Tokens)
      BY <2>9 DEF PrefixFree
    <3>3. <<a, b>> \in Seq(Seq(Tokens))
      BY ONLY <3>1, <3>2, SeqMonotonic
    <3> QED
      BY ONLY <2>13, <3>1, <3>3, TextStarts
  <2>15. PICK z : z = CacheKey(p, v)
    OBVIOUS
  <2>16. Reads(z, Text("object", <<a, b>>), <<>>) /\ Reads(z, Text("object", <<c, d>>), <<>>)
    BY ONLY <1>5, <2>13, <2>14, <2>15, ReadsWhole
  <2>17. <<a, b>> = <<c, d>>
    BY ONLY <2>9, <2>14, <2>16, ListsRead
  <2>18. Path(p) = Path(q) /\ x = y
    <3>1. a = c /\ b = d
      BY ONLY <2>17
    <3> QED
      BY ONLY <2>9, <2>10, <2>11, <3>1
  <2>19. p = q
    <3>1. Path(p)[1] = <<"string", p>> /\ Path(q)[1] = <<"string", q>>
      BY <1>1
    <3> QED
      BY ONLY <2>18, <3>1
  <2>20. Reads(x, x, <<>>) /\ Reads(x, y, <<>>)
    BY ONLY <2>2, <2>18, ReadsWhole
  <2> QED
    BY ONLY <2>3, <2>19, <2>20
<1> QED
  BY ONLY <1>4, <1>5 DEF Tells
-----------------------------------------------------------------------------
(* The body that is sent.                                                  *)

HasPatch(patches, key) == \E p \in patches : p[1] = key
Patch(patches, key) == CHOOSE p \in patches : p[1] = key

PatchesTyped(patches) == \A p \in patches : p[1] \in KeyNames /\ p[2] \in JSON /\ p = <<p[1], p[2]>>

\* What is patched into a body whose decoded fields are values.
LEMMA PatchesOf ==
    ASSUME NEW request \in Requests, NEW values, NEW patches, patches = Patches(request, values)
    PROVE  /\ PatchesTyped(patches)
           /\ \A p \in patches : p[1] \in {"model", "stream_options"}
           /\ HasPatch(patches, "model")
                 <=> request.override # NoModel /\ values["model"] # <<"string", request.override>>
           /\ HasPatch(patches, "model")
                 => Patch(patches, "model")[2] = <<"string", request.override, "plain">>
           /\ HasPatch(patches, "stream_options")
                 <=> /\ Streams(values) /\ request.path \notin AnthropicPaths
                     /\ values["stream_options"] = Absent
<1>1. PICK text : text = <<"string", request.override, "plain">>
  OBVIOUS
<1>2. PICK options : options = <<"object", <<<<"include_usage", <<"bool", TRUE>>>>>>>>
  OBVIOUS
<1>3. text \in JSON
  <2>1. request.override \in STRING /\ "plain" \in Spellings
    BY RequestsAssumption, CacheKeyAssumption
  <2>2. text \in Scalars
    BY <1>1, <2>1 DEF Scalars
  <2>3. 0 \in 0 .. MaxDepth
    BY CacheKeyAssumption
  <2> QED
    BY ONLY <2>2, <2>3, NestedLevels, NestedGrows
<1>4. options \in JSON
  <2>1. 1 \in 0 .. MaxDepth /\ 1 \in 1 .. MaxDepth /\ 1 - 1 = 0
    BY CacheKeyAssumption
  <2>2. PICK S, field, fields : /\ S = Scalars /\ field = <<"include_usage", <<"bool", TRUE>>>>
                                /\ fields = <<field>>
    OBVIOUS
  <2>3. field \in KeyNames \X S
    BY <2>2, CacheKeyAssumption DEF Scalars
  <2>4. fields \in Seq(KeyNames \X S)
    BY ONLY <2>2, <2>3
  <2>5. options = <<"object", fields>>
    BY ONLY <1>2, <2>2
  <2>6. options \in {"object"} \X Seq(KeyNames \X S)
    BY ONLY <2>4, <2>5
  <2>7. NestedUpto[1] = Wrapped(S)
    BY ONLY <2>1, <2>2, NestedLevels
  <2>8. options \in NestedUpto[1]
    BY ONLY <2>6, <2>7 DEF Wrapped
  <2> QED
    BY ONLY <2>1, <2>8, NestedGrows
<1>5. PICK A, B : A = ModelPatch(request, values) /\ B = StreamPatch(request, values)
  OBVIOUS
<1>6. /\ A = IF request.override = NoModel \/ values["model"] = <<"string", request.override>>
             THEN {} ELSE {<<"model", text>>}
      /\ B = IF /\ Streams(values) /\ request.path \notin AnthropicPaths
                /\ values["stream_options"] = Absent
             THEN {<<"stream_options", options>>} ELSE {}
      /\ patches = A \cup B
  BY ONLY <1>1, <1>2, <1>5, patches = Patches(request, values) DEF ModelPatch, StreamPatch, Patches
<1>7. "model" \in KeyNames /\ "stream_options" \in KeyNames
  BY CacheKeyAssumption
<1>8. \A p \in patches : p = <<"model", text>> \/ p = <<"stream_options", options>>
  BY ONLY <1>6
<1>9. PatchesTyped(patches) /\ \A p \in patches : p[1] \in {"model", "stream_options"}
  BY ONLY <1>3, <1>4, <1>7, <1>8 DEF PatchesTyped
<1>10. ASSUME HasPatch(patches, "model") PROVE Patch(patches, "model")[2] = text
  <2>1. \E p \in patches : p[1] = "model"
    BY <1>10 DEF HasPatch
  <2>2. Patch(patches, "model") \in patches /\ Patch(patches, "model")[1] = "model"
    BY <2>1 DEF Patch
  <2> QED
    BY ONLY <1>8, <2>2
<1>11. HasPatch(patches, "model")
          <=> request.override # NoModel /\ values["model"] # <<"string", request.override>>
  <2>1. HasPatch(patches, "model") <=> <<"model", text>> \in patches
    BY ONLY <1>8 DEF HasPatch
  <2>2. <<"model", text>> \in patches <=> <<"model", text>> \in A
    BY ONLY <1>6
  <2> QED
    BY ONLY <1>6, <2>1, <2>2
<1>12. HasPatch(patches, "stream_options")
          <=> /\ Streams(values) /\ request.path \notin AnthropicPaths
              /\ values["stream_options"] = Absent
  <2>1. HasPatch(patches, "stream_options") <=> <<"stream_options", options>> \in patches
    BY ONLY <1>8 DEF HasPatch
  <2>2. <<"stream_options", options>> \in patches <=> <<"stream_options", options>> \in B
    BY ONLY <1>6
  <2> QED
    BY ONLY <1>6, <2>1, <2>2
<1> QED
  BY ONLY <1>1, <1>9, <1>10, <1>11, <1>12

\* The sent body has every key once, in order, with the patch or the raw value that came.
SentAs(sent, body, patches) ==
    /\ DecodesObject(sent)
    /\ Keys(sent.fields) = Keys(body.fields) \cup {p[1] : p \in patches}
    /\ \A k \in Keys(sent.fields) :
          RawOf(sent.fields, k) = IF HasPatch(patches, k) THEN Patch(patches, k)[2]
                                  ELSE RawOf(body.fields, k)
    /\ patches # {} => /\ sent.form = "object"
                       /\ [n \in 1 .. Len(sent.fields) |-> sent.fields[n][1]]
                             = SortedKeys(Keys(sent.fields))

\* buildEffectiveBody makes such a body.
LEMMA SentBody ==
    ASSUME NEW body, DecodesObject(body), NEW patches, PatchesTyped(patches), NEW sent,
           sent = EffectiveBody(body, patches)
    PROVE  SentAs(sent, body, patches)
<1>1. PICK came, V : came = body.fields /\ V = JSON
  OBVIOUS
<1>2. came \in Seq(KeyNames \X V) /\ body.form \in {"object", "trailing"}
  BY <1>1 DEF DecodesObject
<1>3. CASE patches = {}
  <2>1. sent = body /\ \A k : ~HasPatch(patches, k)
    BY <1>3 DEF EffectiveBody, HasPatch
  <2> QED
    BY <1>3, <2>1 DEF SentAs
<1>4. CASE patches # {}
  <2>1. PICK K, keys : K = Keys(came) \cup {p[1] : p \in patches} /\ keys = SortedKeys(K)
    OBVIOUS
  <2>2. PICK fields : fields = [i \in 1 .. Len(keys) |-> EffectiveField(body, patches, keys[i])]
    OBVIOUS
  <2>3. sent = [form |-> "object", fields |-> fields]
    BY <1>1, <1>4, <2>1, <2>2 DEF EffectiveBody
  <2>4. K \subseteq KeyNames
    <3>1. \A i \in 1 .. Len(came) : came[i] \in KeyNames \X V
      BY ONLY <1>2, ElementOfSeq
    <3>2. Keys(came) \subseteq KeyNames
      BY ONLY <3>1 DEF Keys
    <3> QED
      BY <2>1, <3>2 DEF PatchesTyped
  <2>5. /\ keys \in Seq(K) /\ {keys[i] : i \in 1 .. Len(keys)} = K
        /\ \A i, j \in 1 .. Len(keys) : keys[i] = keys[j] => i = j
    <3>1. keys = SortedKeys(K)
      BY <2>1
    <3> QED
      BY ONLY <2>4, <3>1, SortedKeysOf
  <2>6. Len(keys) \in Nat /\ keys = [i \in 1 .. Len(keys) |-> keys[i]]
        /\ \A i \in 1 .. Len(keys) : keys[i] \in K
    BY ONLY <2>5, LenProperties, ElementOfSeq
  <2>7. ASSUME NEW k \in K
        PROVE  /\ EffectiveField(body, patches, k) \in KeyNames \X V
               /\ EffectiveField(body, patches, k)[1] = k
               /\ EffectiveField(body, patches, k)[2] = IF HasPatch(patches, k) THEN Patch(patches, k)[2]
                                                        ELSE RawOf(came, k)
    <3>1. CASE HasPatch(patches, k)
      <4>1. EffectiveField(body, patches, k) = Patch(patches, k)
        BY <3>1 DEF EffectiveField, HasPatch, Patch
      <4>2. Patch(patches, k) \in patches /\ Patch(patches, k)[1] = k
        BY <3>1 DEF HasPatch, Patch
      <4>3. Patch(patches, k) \in KeyNames \X V
        BY <1>1, <4>2 DEF PatchesTyped
      <4> QED
        BY ONLY <3>1, <4>1, <4>2, <4>3
    <3>2. CASE ~HasPatch(patches, k)
      <4>1. EffectiveField(body, patches, k) = <<k, RawOf(came, k)>>
        BY <1>1, <3>2 DEF EffectiveField, HasPatch
      <4>2. k \in Keys(came) /\ k \in KeyNames
        BY <2>1, <2>4, <2>7, <3>2 DEF HasPatch
      <4>3. RawOf(came, k) \in V
        BY ONLY <1>2, <4>2, RawOfMember
      <4> QED
        BY ONLY <3>2, <4>1, <4>2, <4>3
    <3> QED
      BY <3>1, <3>2
  <2>8. \A i \in 1 .. Len(keys) : fields[i] \in KeyNames \X V /\ fields[i][1] = keys[i]
    BY ONLY <2>2, <2>6, <2>7
  <2>9. fields \in Seq(KeyNames \X V) /\ Len(fields) = Len(keys)
    BY <2>2, <2>6, <2>8
  <2>10. Keys(fields) = K
    <3>1. Keys(fields) = {fields[i][1] : i \in 1 .. Len(fields)}
      BY DEF Keys
    <3>2. Keys(fields) = {keys[i] : i \in 1 .. Len(keys)}
      BY ONLY <2>8, <2>9, <3>1
    <3> QED
      BY ONLY <2>5, <3>2
  <2>11. ASSUME NEW k \in K
         PROVE  RawOf(fields, k) = IF HasPatch(patches, k) THEN Patch(patches, k)[2]
                                   ELSE RawOf(came, k)
    <3>1. PICK i \in 1 .. Len(fields) : fields[i][1] = k /\ RawOf(fields, k) = fields[i][2]
      <4>1. k \in Keys(fields)
        BY ONLY <2>10, k \in K
      <4>2. fields \in Seq(KeyNames \X V)
        BY ONLY <2>9
      <4>3. \E i \in 1 .. Len(fields) :
               /\ fields[i][1] = k /\ \A j \in i + 1 .. Len(fields) : fields[j][1] # k
               /\ RawOf(fields, k) = fields[i][2] /\ fields[i][2] \in V
        BY ONLY <4>1, <4>2, LastOccurrence
      <4> QED
        BY ONLY <4>3
    <3>2. fields[i] = EffectiveField(body, patches, k)
      BY ONLY <2>2, <2>8, <2>9, <3>1
    <3> QED
      BY ONLY <2>7, <3>1, <3>2, k \in K
  <2>12. [n \in 1 .. Len(fields) |-> fields[n][1]] = keys
    BY ONLY <2>6, <2>8, <2>9
  <2>13. sent.form = "object" /\ sent.fields = fields
    BY ONLY <2>3
  <2>14. DecodesObject(sent)
    BY ONLY <1>1, <2>9, <2>13 DEF DecodesObject
  <2> QED
    BY ONLY <1>1, <2>1, <2>10, <2>11, <2>12, <2>13, <2>14 DEF SentAs
<1> QED
  BY <1>3, <1>4

\* The decoded values after the patches are those of the sent body.
LEMMA SentFields ==
    ASSUME NEW body, DecodesObject(body), NEW patches, PatchesTyped(patches)
    PROVE  /\ Fields(EffectiveBody(body, patches)) = Patched(Fields(body), patches)
           /\ Patched(Fields(body), patches) \in Decodings
<1>1. PICK sent : sent = EffectiveBody(body, patches)
  OBVIOUS
<1>2. /\ DecodesObject(sent)
      /\ Keys(sent.fields) = Keys(body.fields) \cup {p[1] : p \in patches}
      /\ \A k \in Keys(sent.fields) :
            RawOf(sent.fields, k) = IF HasPatch(patches, k) THEN Patch(patches, k)[2]
                                    ELSE RawOf(body.fields, k)
  <2>1. SentAs(sent, body, patches)
    BY ONLY <1>1, DecodesObject(body), PatchesTyped(patches), SentBody
  <2> QED
    BY ONLY <2>1 DEF SentAs
<1>3. Fields(sent) \in Decodings
  BY ONLY <1>2, FieldsTyped DEF Decodings
<1>4. ASSUME NEW k \in KeyNames
      PROVE  (IF k \in Keys(sent.fields) THEN Decode[RawOf(sent.fields, k)] ELSE Absent)
                = IF HasPatch(patches, k) THEN Decode[Patch(patches, k)[2]]
                  ELSE IF k \in Keys(body.fields) THEN Decode[RawOf(body.fields, k)] ELSE Absent
  <2>1. k \in Keys(sent.fields) <=> k \in Keys(body.fields) \/ HasPatch(patches, k)
    BY <1>2 DEF HasPatch
  <2> QED
    BY ONLY <1>2, <2>1
<1>5. Fields(sent) = [k \in KeyNames |-> IF k \in Keys(sent.fields) THEN Decode[RawOf(sent.fields, k)]
                                         ELSE Absent]
  BY DEF Fields, FieldsAs, Decode
<1>6. Patched(Fields(body), patches)
         = [k \in KeyNames |-> IF HasPatch(patches, k) THEN Decode[Patch(patches, k)[2]]
                               ELSE Fields(body)[k]]
  BY DEF Patched, HasPatch, Patch
<1>7. \A k \in KeyNames : Fields(body)[k] = IF k \in Keys(body.fields)
                                            THEN Decode[RawOf(body.fields, k)] ELSE Absent
  BY DEF Fields, FieldsAs, Decode
<1>8. Fields(sent) = Patched(Fields(body), patches)
  BY ONLY <1>4, <1>5, <1>6, <1>7
<1> QED
  BY ONLY <1>1, <1>3, <1>8
-----------------------------------------------------------------------------
(* What the rest of the gateway relies on.                                 *)

\* What comes out for a body that is decoded.
Prepares(request, meta, patches, values) ==
    /\ patches = Patches(request, Fields(request.body)) /\ PatchesTyped(patches)
    /\ values = Patched(Fields(request.body), patches) /\ values \in Decodings
    /\ meta = [body   |-> EffectiveBody(request.body, patches),
               model  |-> EffectiveModel(values),
               stream |-> Streams(values),
               key    |-> IF request.cacheEnabled THEN CacheKey(request.path, values) ELSE <<>>]
    /\ SentAs(meta.body, request.body, patches) /\ Fields(meta.body) = values

\* PrepareBody does that for a body it can decode.
LEMMA PrepareBodyOf ==
    ASSUME NEW request \in Requests, DecodesObject(request.body)
    PROVE  \E patches, values : Prepares(request, PrepareBody(request), patches, values)
<1>1. PICK body, patches : body = request.body /\ patches = Patches(request, Fields(body))
  OBVIOUS
<1>2. PICK values : values = Patched(Fields(body), patches)
  OBVIOUS
<1>3. PICK sent : sent = EffectiveBody(body, patches)
  OBVIOUS
<1>4. PatchesTyped(patches)
  BY ONLY <1>1, request \in Requests, PatchesOf
<1>5. DecodesObject(body)
  BY <1>1
<1>6. SentAs(sent, body, patches)
  BY ONLY <1>3, <1>4, <1>5, SentBody
<1>7. Fields(sent) = values /\ values \in Decodings
  BY ONLY <1>2, <1>3, <1>4, <1>5, SentFields
<1>8. PrepareBody(request)
         = [body   |-> sent,
            model  |-> EffectiveModel(values),
            stream |-> Streams(values),
            key    |-> IF request.cacheEnabled THEN CacheKey(request.path, values) ELSE <<>>]
  BY <1>1, <1>2, <1>3 DEF PrepareBody
<1>9. PrepareBody(request).body = sent
  BY ONLY <1>8
<1> QED
  BY ONLY <1>1, <1>2, <1>3, <1>4, <1>6, <1>7, <1>8, <1>9 DEF Prepares

\* Any other body is left as it is.
LEMMA PrepareBodyAsIs ==
    ASSUME NEW request, ~DecodesObject(request.body)
    PROVE  PrepareBody(request) = [body |-> request.body, model |-> NoModel, stream |-> FALSE, key |-> <<>>]
BY DEF PrepareBody

Entries == {[request |-> r, meta |-> PrepareBody(r)] : r \in Requests}

\* The inductive invariant: what was analysed is what PrepareBody makes of a request.
Inv == analyzed \in Seq(Entries)

\* The inductive invariant holds in every reachable state.
LEMMA Invariance == Spec => []Inv
<1>1. Init => Inv
  BY EmptySeq DEF Init, Inv
<1>2. Inv /\ [Next]_vars => Inv'
  <2> SUFFICES ASSUME Inv, [Next]_vars PROVE Inv'
    OBVIOUS
  <2>1. CASE Next
    <3>1. PICK request \in Requests : Analyze(request)
      BY <2>1 DEF Next
    <3>2. PICK e : e = [request |-> request, meta |-> PrepareBody(request)]
      OBVIOUS
    <3>3. e \in Entries /\ analyzed' = Append(analyzed, e)
      BY <3>1, <3>2 DEF Entries, Analyze
    <3>4. analyzed' \in Seq(Entries)
      BY ONLY <3>3, Inv, AppendProperties DEF Inv
    <3> QED
      BY ONLY <3>4 DEF Inv
  <2>2. CASE UNCHANGED vars
    BY <2>2 DEF Inv, vars
  <2> QED
    BY <2>1, <2>2
<1> QED
  BY <1>1, <1>2, PTL DEF Spec

\* What is recorded of a request is what PrepareBody made of it.
LEMMA EntryOf ==
    ASSUME Inv, NEW i \in 1 .. Len(analyzed)
    PROVE  /\ analyzed[i].request \in Requests
           /\ analyzed[i].meta = PrepareBody(analyzed[i].request)
<1>1. analyzed[i] \in Entries
  BY ElementOfSeq DEF Inv
<1> QED
  BY <1>1 DEF Entries

\* A body is forwarded as it came, or it is a whole object that has each of its keys
\* once, in byte order; only a decoded request has a key, and it has one exactly when
\* its cache is enabled.
THEOREM TypeCorrect == Spec => []TypeOK
<1>1. Inv => TypeOK
  <2> SUFFICES ASSUME Inv, NEW i \in 1 .. Len(analyzed)
               PROVE  LET request == analyzed[i].request
                          meta == analyzed[i].meta
                      IN  /\ request \in Requests
                          /\ \/ meta.body = request.body
                             \/ /\ meta.body.form = "object"
                                /\ [n \in 1 .. Len(meta.body.fields) |-> meta.body.fields[n][1]]
                                      = SortedKeys(Keys(meta.body.fields))
                          /\ meta.stream \in BOOLEAN
                          /\ meta.key # <<>> <=> DecodesObject(request.body) /\ request.cacheEnabled
    BY DEF TypeOK
  <2>1. PICK request, meta : request = analyzed[i].request /\ meta = analyzed[i].meta
    OBVIOUS
  <2>2. request \in Requests /\ meta = PrepareBody(request)
    BY <2>1, EntryOf
  <2>3. CASE ~DecodesObject(request.body)
    <3>1. meta = [body |-> request.body, model |-> NoModel, stream |-> FALSE, key |-> <<>>]
      BY ONLY <2>2, <2>3, PrepareBodyAsIs
    <3> QED
      BY ONLY <2>1, <2>2, <2>3, <3>1
  <2>4. CASE DecodesObject(request.body)
    <3>1. PICK patches, values : Prepares(request, meta, patches, values)
      BY ONLY <2>2, <2>4, PrepareBodyOf
    <3>2. SentAs(meta.body, request.body, patches) /\ meta.body = EffectiveBody(request.body, patches)
      BY <3>1 DEF Prepares
    <3>3. \/ meta.body = request.body
          \/ /\ meta.body.form = "object"
             /\ [n \in 1 .. Len(meta.body.fields) |-> meta.body.fields[n][1]]
                   = SortedKeys(Keys(meta.body.fields))
      BY <3>2 DEF SentAs, EffectiveBody
    <3>4. meta.stream \in BOOLEAN
      BY <3>1 DEF Prepares, Streams
    <3>5. CacheKey(request.path, values) # <<>>
      <4>1. request.path \in STRING /\ values \in Decodings
        BY <2>2, <3>1, RequestsAssumption DEF Prepares
      <4> QED
        BY ONLY <4>1, CacheKeyReads
    <3>6. meta.key # <<>> <=> request.cacheEnabled
      <4>1. meta.key = IF request.cacheEnabled THEN CacheKey(request.path, values) ELSE <<>>
        BY ONLY <3>1 DEF Prepares
      <4> QED
        BY ONLY <3>5, <4>1
    <3> QED
      BY ONLY <2>1, <2>2, <2>4, <3>3, <3>4, <3>6
  <2> QED
    BY <2>3, <2>4
<1> QED
  BY <1>1, Invariance, PTL

\* The fields that are decoded are those that came.
LEMMA FieldsPresent ==
    ASSUME NEW body, DecodesObject(body)
    PROVE  \A k \in KeyNames : Fields(body)[k] # Absent <=> k \in Keys(body.fields)
<1> SUFFICES ASSUME NEW k \in KeyNames PROVE Fields(body)[k] # Absent <=> k \in Keys(body.fields)
  OBVIOUS
<1>1. Fields(body)[k] = IF k \in Keys(body.fields) THEN Decode[RawOf(body.fields, k)] ELSE Absent
  BY DEF Fields, FieldsAs, Decode
<1>2. ASSUME k \in Keys(body.fields) PROVE Decode[RawOf(body.fields, k)] # Absent
  <2>1. RawOf(body.fields, k) \in NestedUpto[MaxDepth]
    BY <1>2, RawOfMember DEF DecodesObject, JSON
  <2>2. MaxDepth \in 0 .. MaxDepth
    BY CacheKeyAssumption
  <2>3. Decode[RawOf(body.fields, k)] \in DecodedUpto[MaxDepth]
    BY ONLY <2>1, <2>2, DecodeTyped
  <2> QED
    BY ONLY <2>2, <2>3, AbsentIsNoValue
<1> QED
  BY ONLY <1>1, <1>2

\* The model of the provider decodes to itself.
LEMMA OverrideDecoded ==
    ASSUME NEW request \in Requests
    PROVE  Decode[<<"string", request.override, "plain">>] = <<"string", request.override>>
<1>1. PICK raw, f : raw = <<"string", request.override, "plain">> /\ f = Decode
  OBVIOUS
<1>2. raw \in JSON
  <2>1. request.override \in STRING /\ "plain" \in Spellings
    BY RequestsAssumption, CacheKeyAssumption
  <2>2. raw \in Scalars
    BY <1>1, <2>1 DEF Scalars
  <2>3. 0 \in 0 .. MaxDepth
    BY CacheKeyAssumption
  <2> QED
    BY ONLY <2>2, <2>3, NestedLevels, NestedGrows
<1>3. f[raw] = Decoded(FALSE, f, raw)
  BY <1>1, <1>2, DecodedAsValues DEF Decode
<1> QED
  BY <1>1, <1>3 DEF Decoded

\* What the patches make of the fields that matter to the rest of the gateway.
LEMMA AfterPatches ==
    ASSUME NEW request \in Requests, DecodesObject(request.body), NEW meta, NEW patches, NEW values,
           Prepares(request, meta, patches, values)
    PROVE  /\ values["stream"] = Fields(request.body)["stream"]
           /\ request.override # NoModel => values["model"] = <<"string", request.override>>
           /\ Streams(values) /\ request.path \notin AnthropicPaths => values["stream_options"] # Absent
<1>1. PICK came : came = Fields(request.body)
  OBVIOUS
<1>2. /\ \A p \in patches : p[1] \in {"model", "stream_options"}
      /\ HasPatch(patches, "model")
            <=> request.override # NoModel /\ came["model"] # <<"string", request.override>>
      /\ HasPatch(patches, "model")
            => Patch(patches, "model")[2] = <<"string", request.override, "plain">>
      /\ HasPatch(patches, "stream_options")
            <=> /\ Streams(came) /\ request.path \notin AnthropicPaths
                /\ came["stream_options"] = Absent
  BY ONLY <1>1, request \in Requests, Prepares(request, meta, patches, values), PatchesOf DEF Prepares
<1>3. \A k \in KeyNames : values[k] = IF HasPatch(patches, k) THEN Decode[Patch(patches, k)[2]]
                                      ELSE came[k]
  BY <1>1 DEF Prepares, Patched, HasPatch, Patch
<1>4. "model" \in KeyNames /\ "stream" \in KeyNames /\ "stream_options" \in KeyNames
  BY CacheKeyAssumption
<1>5. values["stream"] = came["stream"]
  <2>1. ~HasPatch(patches, "stream")
    BY ONLY <1>2 DEF HasPatch
  <2> QED
    BY ONLY <1>3, <1>4, <2>1
<1>6. request.override # NoModel => values["model"] = <<"string", request.override>>
  BY ONLY <1>2, <1>3, <1>4, OverrideDecoded, request \in Requests
<1>7. ASSUME Streams(values), request.path \notin AnthropicPaths PROVE values["stream_options"] # Absent
  <2>1. Streams(came)
    BY ONLY <1>5, <1>7 DEF Streams
  <2>2. CASE HasPatch(patches, "stream_options")
    <3>1. Patch(patches, "stream_options") \in patches
      BY <2>2 DEF HasPatch, Patch
    <3>2. Patch(patches, "stream_options")[2] \in NestedUpto[MaxDepth]
      BY <3>1 DEF Prepares, PatchesTyped, JSON
    <3>3. MaxDepth \in 0 .. MaxDepth
      BY CacheKeyAssumption
    <3>4. Decode[Patch(patches, "stream_options")[2]] \in DecodedUpto[MaxDepth]
      BY ONLY <3>2, <3>3, DecodeTyped
    <3>5. values["stream_options"] = Decode[Patch(patches, "stream_options")[2]]
      BY ONLY <1>3, <1>4, <2>2
    <3> QED
      BY ONLY <3>3, <3>4, <3>5, AbsentIsNoValue
  <2>3. CASE ~HasPatch(patches, "stream_options")
    <3>1. values["stream_options"] = came["stream_options"]
      BY ONLY <1>3, <1>4, <2>3
    <3> QED
      BY ONLY <1>2, <1>7, <2>1, <2>3, <3>1
  <2> QED
    BY ONLY <2>2, <2>3
<1> QED
  BY ONLY <1>1, <1>5, <1>6, <1>7

\* A body that is sent is the client's but for the provider's model and the stream
\* options: no number of it goes through a float64, no field of it is lost, and none but
\* these two is put in (buildEffectiveBody).
THEOREM BodyIsTheClients == Spec => []BodySurvives
<1>1. Inv => BodySurvives
  <2> SUFFICES ASSUME Inv, NEW i \in 1 .. Len(analyzed)
               PROVE  LET request == analyzed[i].request
                          meta == analyzed[i].meta
                          sent == meta.body.fields
                          came == request.body.fields
                          patched == IF request.override = NoModel THEN {} ELSE {"model"}
                          added == IF meta.stream /\ request.path \notin AnthropicPaths
                                   THEN {"stream_options"} ELSE {}
                      IN  IF ~DecodesObject(request.body) THEN meta.body = request.body
                          ELSE /\ Keys(sent) = Keys(came) \cup patched \cup added
                               /\ \A k \in Keys(came) \ patched : RawOf(sent, k) = RawOf(came, k)
                               /\ \A k \in patched :
                                      Decode[RawOf(sent, k)] = <<"string", request.override>>
    BY DEF BodySurvives
  <2>1. PICK request, meta : request = analyzed[i].request /\ meta = analyzed[i].meta
    OBVIOUS
  <2>2. request \in Requests /\ meta = PrepareBody(request)
    BY <2>1, EntryOf
  <2>3. CASE ~DecodesObject(request.body)
    <3>1. meta.body = request.body
      BY ONLY <2>2, <2>3, PrepareBodyAsIs
    <3> QED
      BY ONLY <2>1, <2>3, <3>1
  <2>4. CASE DecodesObject(request.body)
    <3>1. PICK patches, values : Prepares(request, meta, patches, values)
      BY ONLY <2>2, <2>4, PrepareBodyOf
    <3>2. PICK sent, came, old : sent = meta.body.fields /\ came = request.body.fields
                                 /\ old = Fields(request.body)
      OBVIOUS
    <3>3. PICK patched, added :
             /\ patched = IF request.override = NoModel THEN {} ELSE {"model"}
             /\ added = IF meta.stream /\ request.path \notin AnthropicPaths
                        THEN {"stream_options"} ELSE {}
      OBVIOUS
    <3>4. /\ Keys(sent) = Keys(came) \cup {p[1] : p \in patches}
          /\ \A k \in Keys(sent) : RawOf(sent, k) = IF HasPatch(patches, k) THEN Patch(patches, k)[2]
                                                    ELSE RawOf(came, k)
      BY ONLY <3>1, <3>2 DEF Prepares, SentAs
    <3>5. /\ \A p \in patches : p[1] \in {"model", "stream_options"}
          /\ HasPatch(patches, "model")
                <=> request.override # NoModel /\ old["model"] # <<"string", request.override>>
          /\ HasPatch(patches, "stream_options")
                <=> /\ Streams(old) /\ request.path \notin AnthropicPaths
                    /\ old["stream_options"] = Absent
      BY ONLY <2>2, <3>1, <3>2, PatchesOf DEF Prepares
    <3>6. /\ values["stream"] = old["stream"]
          /\ request.override # NoModel => values["model"] = <<"string", request.override>>
      BY ONLY <2>2, <2>4, <3>1, <3>2, AfterPatches
    <3>7. meta.stream = Streams(old)
      BY ONLY <3>1, <3>6 DEF Prepares, Streams
    <3>8. "model" \in KeyNames /\ "stream_options" \in KeyNames
      BY CacheKeyAssumption
    <3>9. \A k \in KeyNames : old[k] # Absent <=> k \in Keys(came)
      BY ONLY <2>4, <3>2, FieldsPresent
    <3>10. HasPatch(patches, "model") => "model" \in patched
      BY ONLY <3>3, <3>5
    <3>11. ASSUME "model" \in patched PROVE "model" \in Keys(came) \/ HasPatch(patches, "model")
      <4>1. old["model"] = <<"string", request.override>> \/ HasPatch(patches, "model")
        BY ONLY <3>3, <3>5, <3>11
      <4>2. <<"string", request.override>> # Absent
        BY DEF Absent
      <4> QED
        BY ONLY <3>8, <3>9, <4>1, <4>2
    <3>12. HasPatch(patches, "stream_options") <=> "stream_options" \in added /\ "stream_options" \notin Keys(came)
      BY ONLY <3>3, <3>5, <3>7, <3>8, <3>9
    <3>13. {p[1] : p \in patches} = {k \in {"model", "stream_options"} : HasPatch(patches, k)}
      BY ONLY <3>5 DEF HasPatch
    <3>14. Keys(sent) = Keys(came) \cup patched \cup added
      <4>1. patched \subseteq {"model"} /\ added \subseteq {"stream_options"}
        BY ONLY <3>3
      <4> QED
        BY ONLY <3>4, <3>10, <3>11, <3>12, <3>13, <4>1
    <3>15. ASSUME NEW k \in Keys(came) \ patched PROVE RawOf(sent, k) = RawOf(came, k)
      <4>1. ~HasPatch(patches, k)
        <5>1. k \in {"model", "stream_options"} \/ ~HasPatch(patches, k)
          BY ONLY <3>5 DEF HasPatch
        <5> QED
          BY ONLY <3>10, <3>12, <3>15, <5>1
      <4>2. k \in Keys(sent)
        BY ONLY <3>4, <3>15
      <4> QED
        BY ONLY <3>4, <4>1, <4>2
    <3>16. ASSUME NEW k \in patched PROVE Decode[RawOf(sent, k)] = <<"string", request.override>>
      <4>1. k = "model" /\ request.override # NoModel
        BY ONLY <3>3, <3>16
      <4>2. k \in Keys(sent) /\ k \in KeyNames
        BY ONLY <3>8, <3>14, <3>16, <4>1
      <4>3. Fields(meta.body)[k] = Decode[RawOf(sent, k)]
        BY <3>2, <4>2 DEF Fields, FieldsAs, Decode
      <4>4. Fields(meta.body) = values
        BY ONLY <3>1 DEF Prepares
      <4> QED
        BY ONLY <3>6, <4>1, <4>3, <4>4
    <3> QED
      BY ONLY <2>1, <2>4, <3>2, <3>3, <3>14, <3>15, <3>16
  <2> QED
    BY <2>3, <2>4
<1> QED
  BY <1>1, Invariance, PTL

\* The key, the model and the stream flag are those of the body that is sent: analysing
\* it for a provider without an override finds the same and patches nothing
\* (analyzeRequestCommon patches what it decoded before it hashes it).
THEOREM MetaIsOfTheSentBody == Spec => []MetaDescribesSentBody
<1>1. Inv => MetaDescribesSentBody
  <2> SUFFICES ASSUME Inv, NEW i \in 1 .. Len(analyzed)
               PROVE  LET request == analyzed[i].request
                          meta == analyzed[i].meta
                      IN  PrepareBody([request EXCEPT !.body = meta.body, !.override = NoModel]) = meta
    BY DEF MetaDescribesSentBody
  <2>1. PICK request, meta : request = analyzed[i].request /\ meta = analyzed[i].meta
    OBVIOUS
  <2>2. request \in Requests /\ meta = PrepareBody(request)
    BY <2>1, EntryOf
  <2>3. PICK again : again = [request EXCEPT !.body = meta.body, !.override = NoModel]
    OBVIOUS
  <2>4. /\ again.body = meta.body /\ again.override = NoModel
        /\ again.path = request.path /\ again.cacheEnabled = request.cacheEnabled
    <3>1. request = [path |-> request.path, body |-> request.body,
                     override |-> request.override, cacheEnabled |-> request.cacheEnabled]
      BY ONLY <2>2, RequestsAssumption
    <3> QED
      BY ONLY <2>3, <3>1
  <2>5. CASE ~DecodesObject(request.body)
    <3>1. meta = [body |-> request.body, model |-> NoModel, stream |-> FALSE, key |-> <<>>]
      BY ONLY <2>2, <2>5, PrepareBodyAsIs
    <3>2. again.body = request.body /\ ~DecodesObject(again.body)
      BY ONLY <2>4, <2>5, <3>1
    <3>3. PrepareBody(again) = [body |-> again.body, model |-> NoModel, stream |-> FALSE, key |-> <<>>]
      BY ONLY <3>2, PrepareBodyAsIs
    <3> QED
      BY ONLY <2>1, <2>3, <3>1, <3>2, <3>3
  <2>6. CASE DecodesObject(request.body)
    <3>1. PICK patches, values : Prepares(request, meta, patches, values)
      BY ONLY <2>2, <2>6, PrepareBodyOf
    <3>2. PICK sent : sent = meta.body
      OBVIOUS
    <3>3. /\ DecodesObject(sent) /\ Fields(sent) = values /\ values \in Decodings
          /\ meta = [body   |-> sent,
                     model  |-> EffectiveModel(values),
                     stream |-> Streams(values),
                     key    |-> IF request.cacheEnabled THEN CacheKey(request.path, values) ELSE <<>>]
      BY ONLY <3>1, <3>2 DEF Prepares, SentAs
    <3>4. Patches(again, values) = {}
      <4>1. Streams(values) /\ request.path \notin AnthropicPaths => values["stream_options"] # Absent
        BY ONLY <2>2, <2>6, <3>1, AfterPatches
      <4>2. ModelPatch(again, values) = {}
        BY ONLY <2>4 DEF ModelPatch
      <4>3. StreamPatch(again, values) = {}
        BY ONLY <2>4, <4>1 DEF StreamPatch
      <4> QED
        BY ONLY <4>2, <4>3 DEF Patches
    <3>5. Patched(values, {}) = values
      BY ONLY <3>3 DEF Patched, Decodings
    <3>6. EffectiveBody(sent, {}) = sent
      BY ONLY TRUE DEF EffectiveBody
    <3>7. PrepareBody(again)
             = [body   |-> EffectiveBody(sent, {}),
                model  |-> EffectiveModel(Patched(values, {})),
                stream |-> Streams(Patched(values, {})),
                key    |-> IF request.cacheEnabled THEN CacheKey(request.path, Patched(values, {}))
                           ELSE <<>>]
      BY ONLY <2>4, <3>2, <3>3, <3>4 DEF PrepareBody
    <3>8. PrepareBody(again) = meta
      BY ONLY <3>3, <3>5, <3>6, <3>7
    <3> QED
      BY ONLY <2>1, <2>3, <3>8
  <2> QED
    BY <2>5, <2>6
<1> QED
  BY <1>1, Invariance, PTL

\* What a request with a key asks, and the key it has.
LEMMA Keyed ==
    ASSUME NEW request \in Requests, NEW meta, meta = PrepareBody(request), meta.key # <<>>
    PROVE  \E values \in Decodings :
              /\ meta.key = CacheKey(request.path, values)
              /\ meta.model = EffectiveModel(values) /\ meta.stream = Streams(values)
              /\ Question(FALSE, request, meta) = [path |-> request.path, asked |-> Asked(request.path, values)]
<1>1. DecodesObject(request.body)
  <2>1. SUFFICES ASSUME ~DecodesObject(request.body) PROVE FALSE
    OBVIOUS
  <2>2. meta = [body |-> request.body, model |-> NoModel, stream |-> FALSE, key |-> <<>>]
    BY ONLY <2>1, meta = PrepareBody(request), PrepareBodyAsIs
  <2> QED
    BY ONLY <2>2, meta.key # <<>>
<1>2. PICK patches, values : Prepares(request, meta, patches, values)
  BY ONLY <1>1, request \in Requests, meta = PrepareBody(request), PrepareBodyOf
<1>3. /\ values \in Decodings /\ Fields(meta.body) = values
      /\ meta.model = EffectiveModel(values) /\ meta.stream = Streams(values)
      /\ meta.key = IF request.cacheEnabled THEN CacheKey(request.path, values) ELSE <<>>
  BY ONLY <1>2 DEF Prepares
<1>4. meta.key = CacheKey(request.path, values)
  BY ONLY <1>3, meta.key # <<>>
<1>5. PICK silent : silent = IF request.path \in AnthropicPaths THEN {"metadata"}
                             ELSE {"user", "stream_options"}
  OBVIOUS
<1>6. Question(FALSE, request, meta)
         = [path  |-> request.path,
            asked |-> {<<k, values[k]>> : k \in Present(values) \ silent} \ {<<"stream", <<"bool", FALSE>>>>}]
  BY ONLY <1>3, <1>5 DEF Question, Fields
<1>7. Kept(request.path, values) = {k \in Present(values) \ silent : ~StreamsNot(k, values[k])}
  BY ONLY <1>5 DEF Kept, Excluded
<1>8. {<<k, values[k]>> : k \in Present(values) \ silent} \ {<<"stream", <<"bool", FALSE>>>>}
         = {<<k, values[k]>> : k \in {l \in Present(values) \ silent : ~StreamsNot(l, values[l])}}
  <2>1. PICK P, off : P = Present(values) \ silent /\ off = <<"bool", FALSE>>
    OBVIOUS
  <2>2. {<<k, values[k]>> : k \in P} \ {<<"stream", off>>}
           = {<<k, values[k]>> : k \in {l \in P : ~(l = "stream" /\ values[l] = off)}}
    OBVIOUS
  <2> QED
    BY ONLY <2>1, <2>2 DEF StreamsNot
<1>9. Question(FALSE, request, meta) = [path |-> request.path, asked |-> Asked(request.path, values)]
  BY ONLY <1>6, <1>7, <1>8 DEF Asked
<1> QED
  BY ONLY <1>3, <1>4, <1>9

\* What the request of an entry asks, and what came out, for the decoded fields v.
KeyedAs(entry, path, v) ==
    /\ entry.meta.key = CacheKey(path, v)
    /\ entry.meta.model = EffectiveModel(v) /\ entry.meta.stream = Streams(v)
    /\ Question(FALSE, entry.request, entry.meta) = [path |-> path, asked |-> Asked(path, v)]

\* Two requests that both have a key.
LEMMA KeyedPair ==
    ASSUME Inv, NEW pair \in KeyedPairs
    PROVE  \E p, q \in STRING : \E v, w \in Decodings :
              KeyedAs(pair[1], p, v) /\ KeyedAs(pair[2], q, w)
<1>1. PICK i, j \in 1 .. Len(analyzed) : pair = <<analyzed[i], analyzed[j]>>
  BY DEF KeyedPairs
<1>2. PICK r, s, m, n : /\ r = analyzed[i].request /\ m = analyzed[i].meta
                        /\ s = analyzed[j].request /\ n = analyzed[j].meta
  OBVIOUS
<1>3. r \in Requests /\ m = PrepareBody(r) /\ s \in Requests /\ n = PrepareBody(s)
  BY <1>2, EntryOf
<1>4. m.key # <<>> /\ n.key # <<>>
  BY <1>1, <1>2 DEF KeyedPairs
<1>5. PICK p \in STRING, q \in STRING : p = r.path /\ q = s.path
  BY <1>3, RequestsAssumption
<1>6. PICK v \in Decodings :
         /\ m.key = CacheKey(p, v) /\ m.model = EffectiveModel(v) /\ m.stream = Streams(v)
         /\ Question(FALSE, r, m) = [path |-> p, asked |-> Asked(p, v)]
  BY ONLY <1>3, <1>4, <1>5, Keyed
<1>7. PICK w \in Decodings :
         /\ n.key = CacheKey(q, w) /\ n.model = EffectiveModel(w) /\ n.stream = Streams(w)
         /\ Question(FALSE, s, n) = [path |-> q, asked |-> Asked(q, w)]
  BY ONLY <1>3, <1>4, <1>5, Keyed
<1>8. /\ pair[1].request = r /\ pair[1].meta = m
      /\ pair[2].request = s /\ pair[2].meta = n
  BY ONLY <1>1, <1>2
<1>9. KeyedAs(pair[1], p, v) /\ KeyedAs(pair[2], q, w)
  BY ONLY <1>6, <1>7, <1>8 DEF KeyedAs
<1> QED
  BY ONLY <1>9, p \in STRING, q \in STRING, v \in Decodings, w \in Decodings

\* Requests that ask the same share a key, whatever the order, the spelling and the
\* repetition of their fields and whatever was patched into them: the second one can be
\* answered from the cache.
THEOREM LayoutDoesNotMatter == Spec => []KeyIgnoresLayout
<1>1. Inv => KeyIgnoresLayout
  <2> SUFFICES ASSUME Inv, NEW pair \in KeyedPairs,
                      Question(FALSE, pair[1].request, pair[1].meta)
                         = Question(FALSE, pair[2].request, pair[2].meta)
               PROVE  pair[1].meta.key = pair[2].meta.key
    BY DEF KeyIgnoresLayout
  <2>1. PICK p \in STRING, q \in STRING, v \in Decodings, w \in Decodings :
           KeyedAs(pair[1], p, v) /\ KeyedAs(pair[2], q, w)
    BY ONLY KeyedPair, Inv, pair \in KeyedPairs
  <2>2. [path |-> p, asked |-> Asked(p, v)] = [path |-> q, asked |-> Asked(q, w)]
    BY <2>1 DEF KeyedAs
  <2>3. p = q /\ Asked(p, v) = Asked(q, w)
    BY ONLY <2>2
  <2>4. Request(p, v) = Request(q, w)
    <3>1. Request(p, v) = RequestFrom(Asked(p, v)) /\ Request(q, w) = RequestFrom(Asked(q, w))
      BY ONLY RequestSame
    <3> QED
      BY ONLY <2>3, <3>1
  <2>5. CacheKey(p, v) = CacheKey(q, w)
    <3>1. /\ CacheKey(p, v) = Text("object", <<Member("path", <<<<"string", p>>>>),
                                               Member("request", Request(p, v))>>)
          /\ CacheKey(q, w) = Text("object", <<Member("path", <<<<"string", q>>>>),
                                               Member("request", Request(q, w))>>)
      BY CacheKeyText
    <3> QED
      BY ONLY <2>3, <2>4, <3>1
  <2> QED
    BY ONLY <2>1, <2>5 DEF KeyedAs
<1> QED
  BY <1>1, Invariance, PTL

\* Requests that share a key ask the same of the same model on the same path, and both
\* want a stream or neither: a stored answer is only replayed to a request it answers
\* (buildCacheKeyWithFilter leaves nothing of the question out of the text it hashes).
THEOREM KeyTellsTheQuestion == Spec => []SameKeySameAnswer
<1>1. Inv => SameKeySameAnswer
  <2> SUFFICES ASSUME Inv, NEW pair \in KeyedPairs, pair[1].meta.key = pair[2].meta.key
               PROVE  /\ Question(FALSE, pair[1].request, pair[1].meta)
                            = Question(FALSE, pair[2].request, pair[2].meta)
                      /\ pair[1].meta.stream = pair[2].meta.stream
                      /\ pair[1].meta.model = pair[2].meta.model
    BY DEF SameKeySameAnswer
  <2>1. PICK p, q, v, w : /\ p \in STRING /\ q \in STRING /\ v \in Decodings /\ w \in Decodings
                          /\ KeyedAs(pair[1], p, v) /\ KeyedAs(pair[2], q, w)
    <3>1. \E p, q \in STRING : \E v, w \in Decodings :
             KeyedAs(pair[1], p, v) /\ KeyedAs(pair[2], q, w)
      BY ONLY KeyedPair, Inv, pair \in KeyedPairs
    <3> QED
      BY ONLY <3>1
  <2>2. p = q /\ Asked(p, v) = Asked(q, w)
    <3>1. CacheKey(p, v) = CacheKey(q, w)
      BY <2>1 DEF KeyedAs
    <3>2. Tells(p, v)
      BY ONLY CacheKeyReads, <2>1
    <3> QED
      BY ONLY <2>1, <3>1, <3>2 DEF Tells
  <2>3. PICK K : K = Kept(p, v) /\ K = Kept(q, w) /\ \A k \in K : v[k] = w[k]
    <3>1. Kept(p, v) = Kept(q, w) /\ \A k \in Kept(p, v) : v[k] = w[k]
      <4>1. Asked(p, v) = Asked(q, w)
        BY ONLY <2>2
      <4> QED
        BY ONLY <4>1, AskedSame
    <3> QED
      BY ONLY <3>1
  <2>4. "model" \in KeyNames /\ "stream" \in KeyNames
    BY CacheKeyAssumption
  <2>5. /\ "model" \in K <=> v["model"] # Absent
        /\ "model" \in K <=> w["model"] # Absent
    BY ONLY <2>3, <2>4 DEF Kept, Present, Excluded, StreamsNot
  <2>6. v["model"] = w["model"]
    BY ONLY <2>3, <2>5
  <2>7. /\ "stream" \in K <=> v["stream"] # Absent /\ v["stream"] # <<"bool", FALSE>>
        /\ "stream" \in K <=> w["stream"] # Absent /\ w["stream"] # <<"bool", FALSE>>
    BY ONLY <2>3, <2>4 DEF Kept, Present, Excluded, StreamsNot
  <2>8. Streams(v) = Streams(w)
    <3>1. <<"bool", TRUE>> # Absent /\ <<"bool", TRUE>> # <<"bool", FALSE>>
      BY DEF Absent
    <3>2. Streams(v) <=> "stream" \in K /\ v["stream"] = <<"bool", TRUE>>
      BY ONLY <2>7, <3>1 DEF Streams
    <3>3. Streams(w) <=> "stream" \in K /\ w["stream"] = <<"bool", TRUE>>
      BY ONLY <2>7, <3>1 DEF Streams
    <3>4. Streams(v) <=> Streams(w)
      BY ONLY <2>3, <3>2, <3>3
    <3> QED
      BY ONLY <3>4 DEF Streams
  <2>9. EffectiveModel(v) = EffectiveModel(w)
    BY ONLY <2>6 DEF EffectiveModel
  <2>10. [path |-> p, asked |-> Asked(p, v)] = [path |-> q, asked |-> Asked(q, w)]
    BY ONLY <2>2
  <2> QED
    BY ONLY <2>1, <2>8, <2>9, <2>10 DEF KeyedAs
<1> QED
  BY <1>1, Invariance, PTL
=============================================================================
