---------------------------- MODULE StreamProofs ----------------------------
(***************************************************************************)
(* Theorems about Stream, for all bodies, limits and protocols, and every  *)
(* way the network cuts a body into chunks.                                *)
(***************************************************************************)
EXTENDS Stream, DataProofs

-----------------------------------------------------------------------------
(* One line and one symbol.                                                *)

LEMMA ProcessLineType ==
    ASSUME NEW a \in Auditors, NEW line
    PROVE  /\ ProcessLine(a, line) \in Auditors
           /\ ProcessLine(a, line).pending = a.pending
<1>1. ASSUME NEW kinds \in SUBSET Counts, NEW old \in Counts
      PROVE  CountAfter(line, kinds, old) \in Counts
  BY DEF CountAfter
<1>2. PromptLines(a.proto) \in SUBSET Counts /\ CompletionLines(a.proto) \in SUBSET Counts
  BY DEF PromptLines, CompletionLines, Counts
<1>3. /\ CountAfter(line, PromptLines(a.proto), a.prompt) \in Counts
      /\ CountAfter(line, CompletionLines(a.proto), a.completion) \in Counts
  BY <1>1, <1>2 DEF Auditors
<1> QED
  BY <1>3 DEF ProcessLine, Auditors

\* The auditor with p still to look at.
With(a, p) == [a EXCEPT !.pending = p]

LEMMA WithProperties ==
    ASSUME NEW a \in Auditors, NEW p \in Seq(Symbols), NEW q \in Seq(Symbols)
    PROVE  /\ With(a, p) \in Auditors
           /\ With(a, p).pending = p
           /\ With(With(a, p), q) = With(a, q)
           /\ With(a, a.pending) = a
           /\ a.pending \in Seq(Symbols)
BY DEF With, Auditors

\* What the auditor still has to look at makes no difference to a line.
LEMMA ProcessLinePending ==
    ASSUME NEW a \in Auditors, NEW line, NEW p \in Seq(Symbols)
    PROVE  ProcessLine(With(a, p), line) = With(ProcessLine(a, line), p)
<1>1. With(a, p).proto = a.proto
  BY DEF With, Auditors
<1> QED
  BY <1>1 DEF ProcessLine, Auditors, With

LEMMA FeedValue ==
    ASSUME NEW a, NEW symbol
    PROVE  /\ symbol = Newline => Feed(a, symbol) = With(ProcessLine(a, a.pending), <<>>)
           /\ symbol # Newline => Feed(a, symbol) = With(a, Append(a.pending, symbol))
BY DEF Feed, With

LEMMA FeedType ==
    ASSUME NEW a \in Auditors, NEW symbol \in Symbols
    PROVE  Feed(a, symbol) \in Auditors
<1>1. <<>> \in Seq(Symbols) /\ Append(a.pending, symbol) \in Seq(Symbols)
  BY EmptySeq, AppendProperties DEF Auditors
<1>2. CASE symbol = Newline
  BY <1>1, <1>2, ProcessLineType DEF Feed, Auditors
<1>3. CASE symbol # Newline
  BY <1>1, <1>3 DEF Feed, Auditors
<1> QED
  BY <1>2, <1>3
-----------------------------------------------------------------------------
(* The reference auditor.                                                  *)

LEMMA FedValues ==
    ASSUME NEW a, NEW s, a \in Auditors, s \in Seq(Symbols)
    PROVE  /\ Fed(a, s) \in [0 .. Len(s) -> Auditors]
           /\ Fed(a, s)[0] = a
           /\ \A i \in 1 .. Len(s) : Fed(a, s)[i] = Feed(Fed(a, s)[i - 1], s[i])
<1>1. PICK n \in Nat : n = Len(s)
  OBVIOUS
<1>2. PICK X, base : X = Auditors /\ base = a /\ base \in X
  OBVIOUS
<1>3. PICK G : G = [i \in 1 .. n |-> [q \in X |-> Feed(q, s[i])]]
  OBVIOUS
<1>4. ASSUME NEW i \in 1 .. n, NEW q \in X PROVE Feed(q, s[i]) \in X
  <2>1. s[i] \in Symbols
    BY <1>1
  <2> QED
    BY <1>2, <2>1, FeedType
<1>5. G \in [1 .. n -> [X -> X]]
  BY <1>3, <1>4
<1>6. PICK F \in [0 .. n -> X] :
          /\ F[0] = base
          /\ \A i \in 1 .. n : F[i] = G[i][F[i - 1]]
  <2>1. n \in Nat /\ base \in X
    BY <1>2
  <2> QED
    BY ONLY <2>1, <1>5, LoopHasValues
<1>7. ASSUME NEW i \in 1 .. n PROVE G[i][F[i - 1]] = Feed(F[i - 1], s[i])
  <2>1. i - 1 \in 0 .. n
    OBVIOUS
  <2>2. F[i - 1] \in X
    BY <2>1
  <2> QED
    BY <1>3, <2>2
<1>8. F = [i \in 0 .. n |-> IF i = 0 THEN a ELSE Feed(F[i - 1], s[i])]
  <2>1. ASSUME NEW i \in 0 .. n
        PROVE  F[i] = IF i = 0 THEN a ELSE Feed(F[i - 1], s[i])
    <3>1. CASE i = 0
      BY <3>1, <1>2, <1>6
    <3>2. CASE i # 0
      <4>1. i \in 1 .. n
        BY <3>2
      <4> QED
        BY <3>2, <4>1, <1>6, <1>7
    <3> QED
      BY <3>1, <3>2
  <2> QED
    BY <2>1
<1>9. PICK H : H = Fed(a, s)
  OBVIOUS
<1>10. H = [i \in 0 .. n |-> IF i = 0 THEN a ELSE Feed(H[i - 1], s[i])]
  BY <1>1, <1>8, <1>9 DEF Fed
<1>11. H[0] = a /\ \A i \in 1 .. n : H[i] = Feed(H[i - 1], s[i])
  <2>1. 0 \in 0 .. n /\ \A i \in 1 .. n : i \in 0 .. n /\ i # 0
    OBVIOUS
  <2> QED
    BY <2>1, <1>10, Zenon
<1>12. H \in [0 .. n -> X]
  <2>1. DOMAIN H = 0 .. n /\ H = [i \in DOMAIN H |-> H[i]]
    BY <1>10
  <2>2. H[0] \in X
    BY <1>2, <1>11
  <2>3. \A i \in 1 .. n : H[i - 1] \in X => H[i] \in X
    <3>1. ASSUME NEW i \in 1 .. n, H[i - 1] \in X PROVE H[i] \in X
      <4>1. s[i] \in Symbols
        BY <1>1
      <4> QED
        BY <1>2, <1>11, <3>1, <4>1, FeedType
    <3> QED
      BY <3>1
  <2> QED
    BY ONLY <2>1, <2>2, <2>3, n \in Nat, LoopStaysInside
<1> QED
  BY <1>1, <1>2, <1>9, <1>11, <1>12

\* s has t in it, behind its first m symbols.
Has(s, t, m) == m + Len(t) <= Len(s) /\ \A i \in 1 .. Len(t) : s[m + i] = t[i]

\* The auditor that is fed s from the middle on is the one fed the rest of s.
LEMMA FedFrom ==
    ASSUME NEW a, NEW s, NEW t, a \in Auditors, s \in Seq(Symbols), t \in Seq(Symbols),
           NEW m \in Nat, Has(s, t, m)
    PROVE  \A i \in 0 .. Len(t) : Fed(a, s)[m + i] = Fed(Fed(a, s)[m], t)[i]
<1>1. PICK F, n : F = Fed(a, s) /\ n = Len(t) /\ n \in Nat
  OBVIOUS
<1>2. /\ F \in [0 .. Len(s) -> Auditors]
      /\ \A i \in 1 .. Len(s) : F[i] = Feed(F[i - 1], s[i])
  BY <1>1, FedValues
<1>3. m \in 0 .. Len(s)
  BY DEF Has
<1>4. PICK b : b = F[m] /\ b \in Auditors
  BY <1>2, <1>3
<1>5. PICK H : H = Fed(b, t)
  OBVIOUS
<1>6. H[0] = b /\ \A i \in 1 .. n : H[i] = Feed(H[i - 1], t[i])
  <2>1. b \in Auditors /\ t \in Seq(Symbols)
    BY <1>4
  <2>2. H[0] = b /\ \A i \in 1 .. Len(t) : H[i] = Feed(H[i - 1], t[i])
    BY ONLY <2>1, <1>5, FedValues
  <2> QED
    BY <2>2, <1>1
<1>7. PICK Y : Y = {i \in 0 .. n : F[m + i] = H[i]}
  OBVIOUS
<1>8. 0 \in Y
  BY <1>1, <1>4, <1>6, <1>7
<1>9. ASSUME NEW i \in 1 .. n, i - 1 \in Y PROVE i \in Y
  <2>1. m + i \in 1 .. Len(s) /\ (m + i) - 1 = m + (i - 1)
    BY <1>1 DEF Has
  <2>2. F[m + i] = Feed(F[m + (i - 1)], s[m + i])
    BY <1>2, <2>1
  <2>3. F[m + (i - 1)] = H[i - 1] /\ s[m + i] = t[i]
    BY <1>1, <1>7, <1>9 DEF Has
  <2> QED
    BY <1>6, <1>7, <2>2, <2>3
<1>10. 0 .. n \subseteq Y
  BY ONLY <1>1, <1>8, <1>9, InductionUpto
<1> QED
  BY <1>1, <1>4, <1>5, <1>7, <1>10

LEMMA FedConcat ==
    ASSUME NEW a, NEW s, NEW t, a \in Auditors, s \in Seq(Symbols), t \in Seq(Symbols)
    PROVE  Fed(a, s \o t)[Len(s \o t)] = Fed(Fed(a, s)[Len(s)], t)[Len(t)]
<1>1. PICK u, k, l : u = s \o t /\ k = Len(s) /\ l = Len(t) /\ k \in Nat /\ l \in Nat
  <2>1. Len(s) \in Nat /\ Len(t) \in Nat
    OBVIOUS
  <2> QED
    BY <2>1, Zenon
<1>2. /\ u \in Seq(Symbols) /\ Len(u) = k + l
      /\ \A i \in 1 .. k + l : u[i] = IF i <= k THEN s[i] ELSE t[i - k]
  BY <1>1, ConcatProperties
<1>3. Has(u, s, 0)
  BY <1>1, <1>2 DEF Has
<1>4. Has(u, t, k)
  BY <1>1, <1>2 DEF Has
<1>5. Fed(a, u)[k] = Fed(a, s)[k]
  <2>1. a \in Auditors /\ u \in Seq(Symbols) /\ s \in Seq(Symbols) /\ 0 \in Nat
    BY <1>2
  <2>2. \A i \in 0 .. Len(s) : Fed(a, u)[0 + i] = Fed(Fed(a, u)[0], s)[i]
    BY ONLY <2>1, <1>3, FedFrom
  <2>3. Fed(a, u)[0] = a
    BY <1>2, FedValues
  <2>4. k \in 0 .. Len(s) /\ 0 + k = k
    BY <1>1
  <2> QED
    BY <2>2, <2>3, <2>4
<1>6. Fed(a, u)[k + l] = Fed(Fed(a, u)[k], t)[l]
  <2>1. a \in Auditors /\ u \in Seq(Symbols) /\ t \in Seq(Symbols) /\ k \in Nat
    BY <1>1, <1>2
  <2>2. \A i \in 0 .. Len(t) : Fed(a, u)[k + i] = Fed(Fed(a, u)[k], t)[i]
    BY ONLY <2>1, <1>4, FedFrom
  <2>3. l \in 0 .. Len(t)
    BY <1>1
  <2> QED
    BY <2>2, <2>3
<1> QED
  BY <1>1, <1>2, <1>5, <1>6

\* No newline in s.
Plain(s) == \A i \in 1 .. Len(s) : s[i] # Newline

\* Without a newline all that happens is that the symbols are kept.
LEMMA FedPlain ==
    ASSUME NEW a, NEW s, a \in Auditors, s \in Seq(Symbols), Plain(s)
    PROVE  Fed(a, s)[Len(s)] = With(a, a.pending \o s)
<1>1. PICK F, n : F = Fed(a, s) /\ n = Len(s) /\ n \in Nat
  OBVIOUS
<1>2. F[0] = a /\ \A i \in 1 .. n : F[i] = Feed(F[i - 1], s[i])
  BY <1>1, FedValues
<1>3. PICK Y : Y = {i \in 0 .. n : F[i] = With(a, a.pending \o SubSeq(s, 1, i))}
  OBVIOUS
<1>4. 0 \in Y
  <2>1. SubSeq(s, 1, 0) = <<>> /\ a.pending \in Seq(Symbols)
    BY DEF Auditors
  <2>2. a.pending \o SubSeq(s, 1, 0) = a.pending
    BY <2>1
  <2>3. With(a, a.pending) = a
    BY <2>1, WithProperties
  <2>4. F[0] = With(a, a.pending \o SubSeq(s, 1, 0)) /\ 0 \in 0 .. n
    <3>1. With(a, a.pending \o SubSeq(s, 1, 0)) = a
      BY <2>2, <2>3, Zenon
    <3> QED
      BY <1>1, <1>2, <3>1
  <2> QED
    BY <1>3, <2>4
<1>5. ASSUME NEW i \in 1 .. n, i - 1 \in Y PROVE i \in Y
  <2>1. PICK p, q : p = a.pending \o SubSeq(s, 1, i - 1) /\ q = a.pending \o SubSeq(s, 1, i)
    OBVIOUS
  <2>2. Append(p, s[i]) = q /\ p \in Seq(Symbols) /\ q \in Seq(Symbols)
    <3>1. a.pending \in Seq(Symbols) /\ i \in 1 .. Len(s)
      BY <1>1 DEF Auditors
    <3> QED
      BY <2>1, <3>1, PrefixGrows
  <2>3. F[i - 1] = With(a, p) /\ s[i] # Newline
    BY <1>1, <1>3, <1>5, <2>1 DEF Plain
  <2>4. F[i] = With(a, q)
    <3>1. F[i] = Feed(With(a, p), s[i])
      BY <1>2, <2>3
    <3>2. With(a, p).pending = p /\ With(With(a, p), q) = With(a, q)
      BY <2>2, WithProperties
    <3> QED
      BY <2>2, <2>3, <3>1, <3>2, FeedValue
  <2> QED
    BY <1>3, <2>1, <2>4
<1>6. 0 .. n \subseteq Y
  BY ONLY <1>1, <1>4, <1>5, InductionUpto
<1>7. n \in Y /\ SubSeq(s, 1, n) = s
  BY <1>1, <1>6
<1> QED
  BY <1>1, <1>3, <1>7
-----------------------------------------------------------------------------
(* The loop of Write.                                                      *)

LEMMA CutLinePlain ==
    ASSUME NEW a \in Auditors, Plain(a.pending)
    PROVE  CutLine(a) = a
BY DEF CutLine, Plain

LEMMA CutLineAtFirst ==
    ASSUME NEW a, a \in Auditors, ~Plain(a.pending)
    PROVE  \E f \in 1 .. Len(a.pending) :
              /\ a.pending[f] = Newline
              /\ \A i \in 1 .. f - 1 : a.pending[i] # Newline
              /\ CutLine(a) = With(ProcessLine(a, SubSeq(a.pending, 1, f - 1)),
                                  SubSeq(a.pending, f + 1, Len(a.pending)))
<1>1. PICK newlines : newlines = {i \in 1 .. Len(a.pending) : a.pending[i] = Newline}
  OBVIOUS
<1>2. newlines # {} /\ newlines \subseteq Nat
  BY <1>1 DEF Plain
<1>3. PICK f : f = CHOOSE i \in newlines : \A j \in newlines : i <= j
  OBVIOUS
<1>4. f \in newlines /\ \A j \in newlines : f <= j
  <2>1. \E i \in newlines : \A j \in newlines : i <= j
    BY ONLY <1>2, LeastElement
  <2> QED
    BY <1>3, <2>1, Zenon
<1>5. a.pending \in Seq(Symbols) /\ Len(a.pending) \in Nat
  BY DEF Auditors
<1>6. f \in 1 .. Len(a.pending) /\ a.pending[f] = Newline
  BY <1>1, <1>4
<1>7. ASSUME NEW i \in 1 .. f - 1 PROVE a.pending[i] # Newline
  <2>1. i \in 1 .. Len(a.pending) /\ ~(f <= i)
    BY <1>5, <1>6
  <2> QED
    BY <1>1, <1>4, <2>1
<1>8. ProcessLine(a, SubSeq(a.pending, 1, f - 1)).pending = a.pending
  BY ProcessLineType
<1>9. CutLine(a) = With(ProcessLine(a, SubSeq(a.pending, 1, f - 1)),
                        SubSeq(a.pending, f + 1, Len(a.pending)))
  BY <1>1, <1>2, <1>3, <1>8 DEF CutLine, With
<1> QED
  BY <1>6, <1>7, <1>9

LEMMA CutLineType ==
    ASSUME NEW a, a \in Auditors
    PROVE  CutLine(a) \in Auditors
<1>1. CASE Plain(a.pending)
  BY <1>1, CutLinePlain
<1>2. CASE ~Plain(a.pending)
  <2>1. PICK f \in 1 .. Len(a.pending) :
           CutLine(a) = With(ProcessLine(a, SubSeq(a.pending, 1, f - 1)),
                             SubSeq(a.pending, f + 1, Len(a.pending)))
    BY <1>2, CutLineAtFirst
  <2>2. a.pending \in Seq(Symbols) /\ f \in Nat
    BY DEF Auditors
  <2>3. SubSeq(a.pending, f + 1, Len(a.pending)) \in Seq(Symbols)
    BY <2>2
  <2>4. ProcessLine(a, SubSeq(a.pending, 1, f - 1)) \in Auditors
    BY ProcessLineType
  <2> QED
    BY <2>1, <2>3, <2>4, WithProperties
<1> QED
  BY <1>1, <1>2

LEMMA RoundsValues ==
    ASSUME NEW a, a \in Auditors
    PROVE  /\ Rounds(a) \in [0 .. Len(a.pending) -> Auditors]
           /\ Rounds(a)[0] = a
           /\ \A i \in 1 .. Len(a.pending) : Rounds(a)[i] = CutLine(Rounds(a)[i - 1])
<1>1. PICK n \in Nat : n = Len(a.pending)
  BY DEF Auditors
<1>2. PICK X, base : X = Auditors /\ base = a /\ base \in X
  OBVIOUS
<1>3. PICK G : G = [i \in 1 .. n |-> [q \in X |-> CutLine(q)]]
  OBVIOUS
<1>4. ASSUME NEW i \in 1 .. n, NEW q \in X PROVE CutLine(q) \in X
  BY <1>2, CutLineType
<1>5. G \in [1 .. n -> [X -> X]]
  BY <1>3, <1>4
<1>6. PICK F \in [0 .. n -> X] :
          /\ F[0] = base
          /\ \A i \in 1 .. n : F[i] = G[i][F[i - 1]]
  <2>1. n \in Nat /\ base \in X
    BY <1>2
  <2> QED
    BY ONLY <2>1, <1>5, LoopHasValues
<1>7. ASSUME NEW i \in 1 .. n PROVE G[i][F[i - 1]] = CutLine(F[i - 1])
  <2>1. i - 1 \in 0 .. n
    OBVIOUS
  <2>2. F[i - 1] \in X
    BY <2>1
  <2> QED
    BY <1>3, <2>2
<1>8. F = [i \in 0 .. n |-> IF i = 0 THEN a ELSE CutLine(F[i - 1])]
  <2>1. ASSUME NEW i \in 0 .. n
        PROVE  F[i] = IF i = 0 THEN a ELSE CutLine(F[i - 1])
    <3>1. CASE i = 0
      BY <3>1, <1>2, <1>6
    <3>2. CASE i # 0
      <4>1. i \in 1 .. n
        BY <3>2
      <4> QED
        BY <3>2, <4>1, <1>6, <1>7
    <3> QED
      BY <3>1, <3>2
  <2> QED
    BY <2>1
<1>9. PICK H : H = Rounds(a)
  OBVIOUS
<1>10. H = [i \in 0 .. n |-> IF i = 0 THEN a ELSE CutLine(H[i - 1])]
  BY <1>1, <1>8, <1>9 DEF Rounds
<1>11. H[0] = a /\ \A i \in 1 .. n : H[i] = CutLine(H[i - 1])
  <2>1. 0 \in 0 .. n /\ \A i \in 1 .. n : i \in 0 .. n /\ i # 0
    OBVIOUS
  <2> QED
    BY <2>1, <1>10, Zenon
<1>12. H \in [0 .. n -> X]
  <2>1. DOMAIN H = 0 .. n /\ H = [i \in DOMAIN H |-> H[i]]
    BY <1>10
  <2>2. H[0] \in X
    BY <1>2, <1>11
  <2>3. \A i \in 1 .. n : H[i - 1] \in X => H[i] \in X
    BY <1>2, <1>11, CutLineType
  <2> QED
    BY ONLY <2>1, <2>2, <2>3, n \in Nat, LoopStaysInside
<1> QED
  BY <1>1, <1>2, <1>9, <1>11, <1>12

\* Auditor a has m symbols of the text behind it, with their lines, and the rest
\* before it.
At(a, b, text, m) ==
    /\ a.pending = SubSeq(text, m + 1, Len(text))
    /\ Fed(b, text)[m] = With(a, <<>>)

\* A round of the loop takes it behind the next newline.
LEMMA RoundStep ==
    ASSUME NEW b, NEW text, NEW a, NEW m \in Nat,
           b \in Auditors, text \in Seq(Symbols), a \in Auditors, m <= Len(text),
           At(a, b, text, m), ~Plain(a.pending)
    PROVE  \E k \in Nat : m < k /\ k <= Len(text) /\ At(CutLine(a), b, text, k)
<1>1. PICK p, N : p = a.pending /\ N = Len(text) /\ N \in Nat
  OBVIOUS
<1>2. /\ p \in Seq(Symbols) /\ Len(p) = N - m
      /\ \A i \in 1 .. N - m : p[i] = text[m + i]
  BY <1>1 DEF At, Auditors
<1>3. PICK f \in 1 .. Len(p) :
         /\ p[f] = Newline
         /\ \A i \in 1 .. f - 1 : p[i] # Newline
         /\ CutLine(a) = With(ProcessLine(a, SubSeq(p, 1, f - 1)), SubSeq(p, f + 1, Len(p)))
  BY <1>1, CutLineAtFirst
<1>4. PICK line, rest : line = SubSeq(p, 1, f - 1) /\ rest = SubSeq(p, f + 1, Len(p))
  OBVIOUS
<1>5. f \in Nat /\ f >= 1 /\ f <= N - m /\ m + f \in Nat /\ m + f <= N
  BY <1>1, <1>2
<1>6. /\ line \in Seq(Symbols) /\ rest \in Seq(Symbols) /\ <<>> \in Seq(Symbols)
      /\ Len(line) = f - 1
      /\ \A i \in 1 .. f - 1 : line[i] = p[i]
  BY <1>2, <1>4, <1>5
<1>7. Plain(line)
  BY <1>3, <1>6 DEF Plain
<1>8. PICK c : c = With(a, <<>>) /\ c \in Auditors /\ c.pending = <<>>
  BY <1>6, WithProperties
<1>9. Fed(b, text)[m] = c
  BY <1>8 DEF At
<1>10. Fed(b, text)[m + (f - 1)] = Fed(c, line)[f - 1]
  <2>1. m + Len(line) <= Len(text)
    BY <1>1, <1>5, <1>6
  <2>2. Has(text, line, m)
    BY <1>2, <1>5, <1>6, <2>1 DEF Has
  <2>3. \A i \in 0 .. Len(line) : Fed(b, text)[m + i] = Fed(Fed(b, text)[m], line)[i]
    <3>1. b \in Auditors /\ text \in Seq(Symbols) /\ line \in Seq(Symbols) /\ m \in Nat
      BY <1>6
    <3> QED
      BY ONLY <3>1, <2>2, FedFrom
  <2>4. f - 1 \in 0 .. Len(line)
    BY <1>5, <1>6
  <2> QED
    BY <1>9, <2>3, <2>4
<1>11. Fed(c, line)[f - 1] = With(a, line)
  <2>1. Fed(c, line)[Len(line)] = With(c, c.pending \o line)
    BY <1>6, <1>7, <1>8, FedPlain
  <2>2. c.pending \o line = line
    BY <1>6, <1>8
  <2>3. With(c, line) = With(a, line)
    BY <1>6, <1>8, WithProperties
  <2> QED
    BY <1>6, <2>1, <2>2, <2>3
<1>12. Fed(b, text)[m + f] = Feed(With(a, line), Newline)
  <2>1. m + f \in 1 .. Len(text) /\ (m + f) - 1 = m + (f - 1)
    BY <1>1, <1>5
  <2>2. Fed(b, text)[m + f] = Feed(Fed(b, text)[m + (f - 1)], text[m + f])
    BY <2>1, FedValues
  <2>3. text[m + f] = Newline
    BY <1>2, <1>3, <1>5
  <2> QED
    BY <1>10, <1>11, <2>2, <2>3
<1>13. PICK d : d = ProcessLine(a, line) /\ d \in Auditors
  BY ProcessLineType
<1>14. Fed(b, text)[m + f] = With(d, <<>>)
  <2>1. With(a, line).pending = line
    BY <1>6, WithProperties
  <2>2. Feed(With(a, line), Newline) = With(ProcessLine(With(a, line), line), <<>>)
    BY <2>1, FeedValue
  <2>3. ProcessLine(With(a, line), line) = With(d, line)
    BY <1>6, <1>13, ProcessLinePending
  <2>4. With(With(d, line), <<>>) = With(d, <<>>)
    BY <1>13 DEF With, Auditors
  <2> QED
    BY <1>12, <2>2, <2>3, <2>4
<1>15. CutLine(a) = With(d, rest)
  BY <1>3, <1>4, <1>13
<1>16. With(CutLine(a), <<>>) = With(d, <<>>) /\ CutLine(a).pending = rest
  BY <1>13, <1>15 DEF With, Auditors
<1>17. rest = SubSeq(text, (m + f) + 1, N)
  <2>1. p = SubSeq(text, m + 1, Len(text)) /\ m + f <= Len(text)
    BY <1>1, <1>5 DEF At
  <2>2. SubSeq(p, f + 1, Len(p)) = SubSeq(text, (m + f) + 1, Len(text))
    BY <1>5, <2>1, SuffixOfSuffix
  <2> QED
    BY <1>1, <1>4, <2>2
<1> WITNESS m + f \in Nat
<1> QED
  BY <1>1, <1>5, <1>14, <1>16, <1>17 DEF At

LEMMA FedPlainFromNothing ==
    ASSUME NEW a, NEW s, a \in Auditors, s \in Seq(Symbols), Plain(s)
    PROVE  Fed(With(a, <<>>), s)[Len(s)] = With(a, s)
<1>1. PICK c : c = With(a, <<>>)
  OBVIOUS
<1>2. c \in Auditors /\ c.pending = <<>> /\ With(c, s) = With(a, s)
  <2>1. <<>> \in Seq(Symbols)
    BY EmptySeq
  <2> QED
    BY <1>1, <2>1 DEF With, Auditors
<1>3. Fed(c, s)[Len(s)] = With(c, c.pending \o s)
  BY <1>2, FedPlain
<1>4. c.pending \o s = s
  BY <1>2
<1> QED
  BY <1>1, <1>2, <1>3, <1>4

\* Write leaves the auditor where the one that is fed symbol by symbol is.
LEMMA AuditWriteFeeds ==
    ASSUME NEW a, NEW piece, a \in Auditors, Plain(a.pending), piece \in Seq(Symbols)
    PROVE  /\ AuditWrite(a, piece) \in Auditors
           /\ AuditWrite(a, piece) = Fed(a, piece)[Len(piece)]
           /\ Plain(AuditWrite(a, piece).pending)
<1>1. PICK p, text, N : p = a.pending /\ text = p \o piece /\ N = Len(text)
  OBVIOUS
<1>2. p \in Seq(Symbols) /\ text \in Seq(Symbols) /\ N \in Nat /\ <<>> \in Seq(Symbols)
  <2>1. p \in Seq(Symbols)
    BY <1>1 DEF Auditors
  <2> QED
    BY <1>1, <2>1, ConcatProperties, EmptySeq
<1>3. PICK start, b : start = With(a, text) /\ b = With(a, <<>>)
  OBVIOUS
<1>4. /\ start \in Auditors /\ start.pending = text /\ With(start, <<>>) = b
      /\ b \in Auditors /\ With(b, p) = a
  BY <1>1, <1>2, <1>3 DEF With, Auditors
<1>5. PICK R : R = Rounds(start)
  OBVIOUS
<1>6. /\ R \in [0 .. N -> Auditors]
      /\ R[0] = start
      /\ \A i \in 1 .. N : R[i] = CutLine(R[i - 1])
  <2>1. N = Len(start.pending)
    BY ONLY <1>1, <1>4
  <2>2. start \in Auditors
    BY ONLY <1>4
  <2> QED
    BY ONLY <1>5, <2>1, <2>2, RoundsValues
<1>7. PICK Y : Y = {n \in 0 .. N :
                      \E m \in Nat : m <= N /\ At(R[n], b, text, m) /\ (n <= m \/ Plain(R[n].pending))}
  OBVIOUS
<1>8. 0 \in Y
  <2>1. SubSeq(text, 0 + 1, Len(text)) = text
    BY <1>2
  <2>2. At(R[0], b, text, 0)
    BY <1>2, <1>4, <1>6, <2>1, FedValues DEF At
  <2> QED
    BY <1>2, <1>7, <2>2
<1>9. ASSUME NEW n \in 1 .. N, n - 1 \in Y PROVE n \in Y
  <2>1. PICK c : c = R[n - 1]
    OBVIOUS
  <2>2. PICK m \in Nat : m <= N /\ At(c, b, text, m) /\ (n - 1 <= m \/ Plain(c.pending))
    BY <1>7, <1>9, <2>1
  <2>3. c \in Auditors /\ R[n] = CutLine(c) /\ n \in 0 .. N
    <3>1. n - 1 \in 0 .. N
      BY <1>2
    <3> QED
      BY <1>2, <1>6, <2>1, <3>1
  <2>4. CASE Plain(c.pending)
    <3>1. R[n] = c
      BY <2>3, <2>4, CutLinePlain
    <3> QED
      BY <1>7, <2>2, <2>3, <2>4, <3>1
  <2>5. CASE ~Plain(c.pending)
    <3>1. PICK k \in Nat : m < k /\ k <= N /\ At(CutLine(c), b, text, k)
      BY <1>1, <1>2, <1>4, <2>2, <2>3, <2>5, RoundStep
    <3>2. n <= k
      BY <2>2, <2>5, <3>1
    <3> QED
      BY <1>7, <2>3, <3>1, <3>2
  <2> QED
    BY <2>4, <2>5
<1>10. N \in Y
  <2>1. 0 .. N \subseteq Y
    BY ONLY <1>2, <1>8, <1>9, InductionUpto
  <2> QED
    BY <1>2, <2>1
<1>11. PICK e : e = R[N] /\ e \in Auditors
  BY <1>2, <1>6
<1>12. AuditWrite(a, piece) = e
  BY <1>1, <1>3, <1>4, <1>5, <1>11 DEF AuditWrite, Buffered, With
<1>13. PICK m \in Nat : m <= N /\ At(e, b, text, m) /\ (N <= m \/ Plain(e.pending))
  BY <1>7, <1>10, <1>11
<1>14. PICK q : q = e.pending
  OBVIOUS
<1>15. /\ q \in Seq(Symbols) /\ Len(q) = N - m
       /\ \A i \in 1 .. N - m : q[i] = text[m + i]
  <2>1. q = SubSeq(text, m + 1, Len(text)) /\ m <= Len(text)
    BY <1>1, <1>13, <1>14 DEF At
  <2>2. /\ q \in Seq(Symbols) /\ Len(q) = Len(text) - m
        /\ \A i \in 1 .. Len(text) - m : q[i] = text[m + i]
    BY ONLY <1>2, <2>1, m \in Nat, SuffixValues
  <2> QED
    BY <1>1, <2>2
<1>16. Plain(q)
  BY <1>2, <1>13, <1>14, <1>15 DEF Plain
<1>17. Fed(b, text)[N] = e
  <2>1. Has(text, q, m)
    <3>1. m + Len(q) <= Len(text) /\ 1 .. Len(q) = 1 .. N - m
      BY <1>1, <1>2, <1>13, <1>15
    <3> QED
      BY <1>15, <3>1 DEF Has
  <2>2. b \in Auditors /\ text \in Seq(Symbols) /\ q \in Seq(Symbols) /\ m \in Nat
    BY <1>2, <1>4, <1>15
  <2>3. \A i \in 0 .. Len(q) : Fed(b, text)[m + i] = Fed(Fed(b, text)[m], q)[i]
    BY ONLY <2>1, <2>2, FedFrom
  <2>4. Len(q) \in 0 .. Len(q) /\ m + Len(q) = N
    BY <1>2, <1>15
  <2>5. Fed(b, text)[m] = With(e, <<>>)
    BY <1>13 DEF At
  <2>6. Fed(With(e, <<>>), q)[Len(q)] = With(e, q)
    BY <1>11, <1>15, <1>16, FedPlainFromNothing
  <2>7. With(e, q) = e
    BY <1>11, <1>14 DEF With, Auditors
  <2> QED
    BY <2>3, <2>4, <2>5, <2>6, <2>7
<1>18. Fed(b, text)[N] = Fed(a, piece)[Len(piece)]
  <2>1. Fed(b, p)[Len(p)] = a
    <3>1. Plain(p)
      BY <1>1
    <3> QED
      BY <1>1, <1>2, <1>3, <3>1, FedPlainFromNothing DEF With, Auditors
  <2>2. Fed(b, p \o piece)[Len(p \o piece)] = Fed(Fed(b, p)[Len(p)], piece)[Len(piece)]
    BY <1>2, <1>4, FedConcat
  <2> QED
    BY <1>1, <2>1, <2>2
<1> QED
  BY <1>11, <1>12, <1>14, <1>16, <1>17, <1>18
-----------------------------------------------------------------------------
(* The end marker.                                                         *)

\* The marker is a line of s, or at least looks like one.
Marked(s) == \E j, k \in 0 .. Len(s) : j < k /\ SubSeq(s, j + 1, k) = Line("stop")

\* Auditor a has s behind it and has seen nothing that is not there.
Saw(a, s) == EndsWith(s, a.pending) /\ (a.complete => Marked(s))

LEMMA MarkedAtEnd ==
    ASSUME NEW s \in Seq(Symbols), EndsWith(s, Line("stop"))
    PROVE  Marked(s)
<1>1. PICK n \in Nat : n = Len(s)
  OBVIOUS
<1>2. PICK k \in 0 .. n : Line("stop") = SubSeq(s, k + 1, n)
  BY <1>1 DEF EndsWith
<1>3. k # n
  <2>1. SubSeq(s, n + 1, n) = <<>> /\ Line("stop") # <<>>
    BY <1>1 DEF Line
  <2> QED
    BY <1>2, <2>1
<1>4. k < n /\ n \in 0 .. n
  BY <1>3
<1> QED
  BY <1>1, <1>2, <1>4 DEF Marked

LEMMA MarkedStays ==
    ASSUME NEW s \in Seq(Symbols), NEW symbol \in Symbols, Marked(s)
    PROVE  Marked(Append(s, symbol))
<1>1. PICK n, t : n = Len(s) /\ t = Append(s, symbol) /\ n \in Nat
  <2>1. Len(s) \in Nat
    OBVIOUS
  <2> QED
    BY <2>1, Zenon
<1>2. /\ t \in Seq(Symbols) /\ Len(t) = n + 1
      /\ \A i \in 1 .. n : t[i] = s[i]
  BY <1>1, AppendProperties
<1>3. PICK j \in 0 .. n, k \in 0 .. n : j < k /\ SubSeq(s, j + 1, k) = Line("stop")
  BY <1>1 DEF Marked
<1>4. SubSeq(t, j + 1, k) = SubSeq(s, j + 1, k)
  BY <1>1, <1>2, <1>3
<1>5. j \in 0 .. n + 1 /\ k \in 0 .. n + 1
  BY <1>1
<1> QED
  BY <1>1, <1>2, <1>3, <1>4, <1>5 DEF Marked

LEMMA FeedSees ==
    ASSUME NEW a \in Auditors, NEW s \in Seq(Symbols), NEW symbol \in Symbols, Saw(a, s)
    PROVE  Saw(Feed(a, symbol), Append(s, symbol))
<1>1. PICK n, t, b : /\ n = Len(s) /\ t = Append(s, symbol) /\ b = Feed(a, symbol)
                     /\ n \in Nat
  <2>1. Len(s) \in Nat
    OBVIOUS
  <2> QED
    BY <2>1, Zenon
<1>2. /\ t \in Seq(Symbols) /\ Len(t) = n + 1
      /\ \A i \in 1 .. n : t[i] = s[i]
      /\ t[n + 1] = symbol
  BY <1>1, AppendProperties
<1>3. a.complete => Marked(t)
  BY <1>1, MarkedStays DEF Saw
<1>4. CASE symbol = Newline
  <2>1. b = With(ProcessLine(a, a.pending), <<>>)
    BY <1>1, <1>4, FeedValue
  <2>2. b.pending = <<>> /\ b.complete = IF a.pending = Line("stop") THEN TRUE ELSE a.complete
    BY <2>1 DEF With, ProcessLine, Auditors
  <2>3. a.pending = Line("stop") => Marked(t)
    BY <1>1, MarkedAtEnd, MarkedStays DEF Saw
  <2>4. EndsWith(t, <<>>)
    <3>1. SubSeq(t, Len(t) + 1, Len(t)) = <<>> /\ Len(t) \in 0 .. Len(t)
      BY <1>2
    <3> QED
      BY <3>1 DEF EndsWith
  <2> QED
    BY <1>1, <1>3, <2>2, <2>3, <2>4 DEF Saw
<1>5. CASE symbol # Newline
  <2>1. b = With(a, Append(a.pending, symbol))
    BY <1>1, <1>5, FeedValue
  <2>2. b.pending = Append(a.pending, symbol) /\ b.complete = a.complete
    BY <2>1 DEF With, Auditors
  <2>3. PICK k \in 0 .. n : a.pending = SubSeq(s, k + 1, n)
    BY <1>1, Zenon DEF Saw, EndsWith
  <2>4. Append(SubSeq(s, k + 1, n), symbol) = SubSeq(t, k + 1, n + 1)
    <3>1. PICK p, q : p = Append(SubSeq(s, k + 1, n), symbol) /\ q = SubSeq(t, k + 1, n + 1)
      OBVIOUS
    <3>2. /\ p \in Seq(Symbols) /\ Len(p) = (n - k) + 1
          /\ \A i \in 1 .. n - k : p[i] = s[k + i]
          /\ p[(n - k) + 1] = symbol
      BY <1>1, <3>1
    <3>3. /\ q \in Seq(Symbols) /\ Len(q) = (n - k) + 1
          /\ \A i \in 1 .. (n - k) + 1 : q[i] = t[k + i]
      <4>1. k \in Nat /\ k <= Len(t) /\ Len(t) - k = (n - k) + 1 /\ q = SubSeq(t, k + 1, Len(t))
        BY <1>1, <1>2, <3>1
      <4>2. /\ q \in Seq(Symbols) /\ Len(q) = Len(t) - k
            /\ \A i \in 1 .. Len(t) - k : q[i] = t[k + i]
        BY ONLY <1>2, <4>1, SuffixValues
      <4> QED
        BY <4>1, <4>2
    <3>4. ASSUME NEW i \in 1 .. (n - k) + 1 PROVE p[i] = q[i]
      <4>1. q[i] = t[k + i] /\ i \in Nat
        BY <1>1, <3>3
      <4>2. CASE i \in 1 .. n - k
        <5>1. k + i \in 1 .. n
          BY <1>1, <4>2
        <5> QED
          BY <1>2, <3>2, <4>1, <4>2, <5>1
      <4>3. CASE i = (n - k) + 1
        <5>1. k + i = n + 1
          BY <1>1, <4>3
        <5> QED
          BY <1>2, <3>2, <4>1, <4>3, <5>1
      <4> QED
        BY <1>1, <4>2, <4>3
    <3>5. p = q
      BY ONLY <3>2, <3>3, <3>4, SeqEqual
    <3> QED
      BY <3>1, <3>5
  <2>5. EndsWith(t, b.pending)
    <3>1. k \in 0 .. Len(t) /\ Len(t) = n + 1
      BY <1>1, <1>2
    <3>2. b.pending = SubSeq(t, k + 1, Len(t))
      BY <2>2, <2>3, <2>4, <3>1
    <3> QED
      BY <3>1, <3>2 DEF EndsWith
  <2> QED
    BY <1>1, <1>3, <2>2, <2>5 DEF Saw
<1> QED
  BY <1>4, <1>5

LEMMA FedSees ==
    ASSUME NEW a, NEW s, NEW t, a \in Auditors, s \in Seq(Symbols), t \in Seq(Symbols), Saw(a, s)
    PROVE  Saw(Fed(a, t)[Len(t)], s \o t)
<1>1. PICK n, F : n = Len(t) /\ F = Fed(a, t) /\ n \in Nat
  <2>1. Len(t) \in Nat
    OBVIOUS
  <2> QED
    BY <2>1, Zenon
<1>2. /\ F \in [0 .. n -> Auditors] /\ F[0] = a
      /\ \A i \in 1 .. n : F[i] = Feed(F[i - 1], t[i])
  BY <1>1, FedValues
<1>3. PICK Y : Y = {i \in 0 .. n : Saw(F[i], s \o SubSeq(t, 1, i))}
  OBVIOUS
<1>4. 0 \in Y
  <2>1. s \o SubSeq(t, 1, 0) = s
    OBVIOUS
  <2>2. Saw(F[0], s \o SubSeq(t, 1, 0))
    BY <1>2, <2>1, Zenon
  <2>3. 0 \in 0 .. n
    BY <1>1
  <2> QED
    BY <1>3, <2>2, <2>3, Zenon
<1>5. ASSUME NEW i \in 1 .. n, i - 1 \in Y PROVE i \in Y
  <2>1. PICK u, v : u = s \o SubSeq(t, 1, i - 1) /\ v = s \o SubSeq(t, 1, i)
    OBVIOUS
  <2>2. u \in Seq(Symbols) /\ v = Append(u, t[i])
    BY <1>1, <2>1, PrefixGrows
  <2>3. F[i - 1] \in Auditors
    BY <1>1, <1>2
  <2>4. t[i] \in Symbols /\ i \in 0 .. n
    BY <1>1
  <2>5. Saw(F[i - 1], u)
    BY <1>3, <1>5, <2>1, Zenon
  <2>6. Saw(Feed(F[i - 1], t[i]), v)
    BY <2>2, <2>3, <2>4, <2>5, FeedSees
  <2>7. Saw(F[i], s \o SubSeq(t, 1, i))
    BY <1>2, <2>1, <2>6, Zenon
  <2> QED
    BY <1>3, <2>4, <2>7, Zenon
<1>6. n \in Y
  <2>1. 0 .. n \subseteq Y
    BY ONLY <1>1, <1>4, <1>5, InductionUpto
  <2> QED
    BY <1>1, <2>1
<1>7. SubSeq(t, 1, n) = t
  BY <1>1
<1> QED
  BY <1>1, <1>3, <1>6, <1>7
-----------------------------------------------------------------------------
(* The inductive invariant.                                                *)

\* What the handler knows between two steps.
StreamInv ==
    /\ TypeOK
    /\ audit = Fed(NewAudit, delivered)[Len(delivered)]
    /\ Plain(audit.pending)
    /\ Saw(audit, delivered)
    /\ Capturing /\ ~truncated => captured = delivered
    /\ CaptureLimit = 0 => ~truncated
    /\ pc \in {"reading", "writing"} => failure = None
    /\ pc \in {"finishing", "done"} /\ failure = None => /\ readErr = "eof"
                                                        /\ EndsWith(delivered, chunk)
    /\ failure = "canceled" => client = "gone"
    /\ saved = IF pc = "done" THEN <<Exchange>> ELSE <<>>

\* What is saved.
Exchanges == [status : {200, 400, 499, 502}, cached : BOOLEAN,
              body : Seq(Symbols), prompt : Counts, completion : Counts]

LEMMA StreamInitial == Init => StreamInv
<1> SUFFICES ASSUME Init PROVE StreamInv
  OBVIOUS
<1> USE DEF Init
<1>1. NewAudit \in Auditors /\ NewAudit.pending = <<>> /\ ~NewAudit.complete
  BY DEF NewAudit, Settings, Auditors, Counts
<1>2. TypeOK
  <2>1. /\ chunk \in Seq(Symbols) /\ delivered \in Seq(Symbols) /\ captured \in Seq(Symbols)
        /\ saved \in Seq(Exchanges)
    BY EmptySeq
  <2> QED
    BY <1>1, <2>1 DEF TypeOK, Exchanges
<1>3. <<>> \in Seq(Symbols) /\ Len(<<>>) = 0
  OBVIOUS
<1>4. audit = Fed(NewAudit, delivered)[Len(delivered)]
  <2>1. Fed(NewAudit, <<>>)[0] = NewAudit
    BY ONLY <1>1, <1>3, FedValues
  <2> QED
    BY <1>3, <2>1, Zenon
<1>5. Plain(audit.pending)
  BY <1>1, <1>3 DEF Plain
<1>6. Saw(audit, delivered)
  <2>1. EndsWith(<<>>, <<>>)
    <3>1. SubSeq(<<>>, 0 + 1, Len(<<>>)) = <<>> /\ 0 \in 0 .. Len(<<>>)
      OBVIOUS
    <3> QED
      BY <3>1 DEF EndsWith
  <2> QED
    BY <1>1, <2>1 DEF Saw
<1> QED
  BY <1>2, <1>4, <1>5, <1>6 DEF StreamInv, None

LEMMA ReadKeeps ==
    ASSUME StreamInv, Read
    PROVE  StreamInv'
<1> USE DEF Read, inputs, copying
<1>1. chunk' \in Seq(Symbols) /\ readErr' \in {None, "eof", "error"}
  <2>1. PICK n \in 0 .. Len(body) - Len(delivered), e \in {None, "eof", "error"} :
           /\ chunk' = SubSeq(body, Len(delivered) + 1, Len(delivered) + n)
           /\ readErr' = e
    OBVIOUS
  <2>2. body \in Seq(Symbols) /\ Len(delivered) \in Nat
    BY StreamAssumption DEF StreamInv, TypeOK
  <2>3. SubSeq(body, Len(delivered) + 1, Len(delivered) + n) \in Seq(Symbols)
    BY <2>2
  <2> QED
    BY <2>1, <2>3
<1>2. TypeOK'
  BY <1>1 DEF StreamInv, TypeOK, CaptureLimit
<1>3. NewAudit' = NewAudit /\ CaptureLimit' = CaptureLimit /\ Capturing' = Capturing
  BY DEF NewAudit, CaptureLimit, Capturing
<1>4. pc = "reading" /\ pc' = "writing" /\ saved = <<>> /\ saved' = <<>>
  BY DEF StreamInv
<1> QED
  BY <1>2, <1>3, <1>4 DEF StreamInv

LEMMA DeliverKeeps ==
    ASSUME StreamInv, Deliver
    PROVE  StreamInv'
<1>1. /\ audit \in Auditors /\ chunk \in Seq(Symbols) /\ delivered \in Seq(Symbols)
      /\ captured \in Seq(Symbols) /\ setting \in Settings
      /\ delivered' = delivered \o chunk
      /\ audit' = AuditWrite(audit, chunk)
      /\ audit = Fed(NewAudit, delivered)[Len(delivered)]
      /\ Plain(audit.pending)
      /\ Saw(audit, delivered)
  BY DEF StreamInv, TypeOK, Deliver
<1>2. /\ audit' \in Auditors
      /\ audit' = Fed(audit, chunk)[Len(chunk)]
      /\ Plain(audit.pending)'
  BY <1>1, AuditWriteFeeds
<1>3. NewAudit' = NewAudit /\ NewAudit \in Auditors
  BY <1>1 DEF Deliver, inputs, NewAudit, Settings, Auditors, Counts
<1>4. (audit = Fed(NewAudit, delivered)[Len(delivered)])'
  <2>1. Fed(NewAudit, delivered \o chunk)[Len(delivered \o chunk)]
           = Fed(Fed(NewAudit, delivered)[Len(delivered)], chunk)[Len(chunk)]
    <3>1. NewAudit \in Auditors /\ delivered \in Seq(Symbols) /\ chunk \in Seq(Symbols)
      BY <1>1, <1>3
    <3> QED
      BY ONLY <3>1, FedConcat
  <2> QED
    BY <1>1, <1>2, <1>3, <2>1, Zenon
<1>5. Saw(audit, delivered)'
  BY <1>1, <1>2, FedSees, Zenon
<1>6. CaptureLimit' = CaptureLimit /\ Capturing' = Capturing /\ CaptureLimit \in Int
  <2>1. setting' = setting
    BY DEF Deliver, inputs
  <2>2. setting.maxBody \in Int
    BY <1>1, StreamAssumption DEF Settings
  <2> QED
    BY <2>1, <2>2 DEF CaptureLimit, Capturing
<1>7. delivered' \in Seq(Symbols) /\ captured \o chunk \in Seq(Symbols)
  BY <1>1
<1>8. /\ captured' \in Seq(Symbols) /\ truncated' \in BOOLEAN
      /\ CaptureLimit # 0 /\ captured' # <<>> => Len(captured') <= CaptureLimit
      /\ Capturing /\ ~truncated' => captured' = delivered'
      /\ CaptureLimit = 0 => ~truncated'
  <2>1. /\ truncated \in BOOLEAN
        /\ CaptureLimit # 0 /\ captured # <<>> => Len(captured) <= CaptureLimit
        /\ Capturing /\ ~truncated => captured = delivered
        /\ CaptureLimit = 0 => ~truncated
    BY DEF StreamInv, TypeOK
  <2>2. CASE ~Capturing
    BY <1>1, <2>1, <2>2 DEF Deliver, Capture
  <2>3. CASE Capturing /\ chunk = <<>>
    <3>1. delivered' = delivered
      BY <1>1, <2>3
    <3>2. captured' = captured /\ truncated' = truncated
      BY <2>3 DEF Deliver, Capture
    <3> QED
      BY <1>1, <2>1, <3>1, <3>2
  <2>4. CASE Capturing /\ chunk # <<>> /\ (CaptureLimit = 0 \/ Fits)
    <3>1. captured' = captured \o chunk /\ truncated' = truncated
      BY <2>4 DEF Deliver, Capture
    <3>2. Len(captured \o chunk) = Len(captured) + Len(chunk)
      BY <1>1
    <3> QED
      BY <1>1, <1>7, <2>1, <2>4, <3>1, <3>2 DEF Fits
  <2>5. CASE Capturing /\ chunk # <<>> /\ CaptureLimit # 0 /\ ~Fits
    <3>1. captured' = captured /\ truncated' = TRUE
      BY <2>5 DEF Deliver, Capture
    <3> QED
      BY <1>1, <2>1, <2>5, <3>1
  <2> QED
    BY <2>2, <2>3, <2>4, <2>5
<1>9. /\ failure' \in {None, "read", "canceled"}
      /\ failure' = "canceled" => client' = "gone"
      /\ pc' \in {"reading", "finishing"}
      /\ pc' = "reading" => failure' = None
      /\ pc' = "finishing" /\ failure' = None => readErr' = "eof"
      /\ saved' = <<>>
  BY DEF StreamInv, TypeOK, Deliver, Blame, None
<1>10. TypeOK'
  BY <1>2, <1>6, <1>7, <1>8, <1>9 DEF StreamInv, TypeOK, Deliver, inputs
<1>11. EndsWith(delivered, chunk)'
  <2>1. Len(delivered) \in 0 .. Len(delivered \o chunk)
    BY <1>1
  <2>2. chunk = SubSeq(delivered \o chunk, Len(delivered) + 1, Len(delivered \o chunk))
    BY <1>1
  <2>3. chunk' = chunk
    BY DEF Deliver
  <2> QED
    BY <1>1, <2>1, <2>2, <2>3 DEF EndsWith
<1> QED
  BY <1>2, <1>4, <1>5, <1>6, <1>8, <1>9, <1>10, <1>11 DEF StreamInv

LEMMA WriteFailsKeeps ==
    ASSUME StreamInv, WriteFails
    PROVE  StreamInv'
<1> USE DEF WriteFails, inputs, copying
<1>1. /\ failure' \in {"write", "canceled"}
      /\ failure' = "canceled" => client' = "gone"
      /\ pc' = "finishing" /\ saved' = <<>>
  BY DEF StreamInv, Blame
<1>2. TypeOK'
  BY <1>1 DEF StreamInv, TypeOK, CaptureLimit
<1>3. NewAudit' = NewAudit /\ CaptureLimit' = CaptureLimit /\ Capturing' = Capturing
  BY DEF NewAudit, CaptureLimit, Capturing
<1> QED
  BY <1>1, <1>2, <1>3 DEF StreamInv, None

LEMMA ExchangeType ==
    ASSUME TypeOK
    PROVE  Exchange \in Exchanges
<1>1. StatusCode \in {200, 400, 499, 502}
  BY DEF TypeOK, StatusCode
<1>2. AuditEnd(audit) \in Auditors
  BY ProcessLineType DEF TypeOK, AuditEnd
<1>3. CanCache \in BOOLEAN
  BY DEF CanCache
<1>4. (IF setting.logBody \/ CanCache THEN captured ELSE <<>>) \in Seq(Symbols)
  BY DEF TypeOK
<1>5. AuditEnd(audit).prompt \in Counts /\ AuditEnd(audit).completion \in Counts
  BY <1>2 DEF Auditors
<1> QED
  BY <1>1, <1>3, <1>4, <1>5 DEF Exchange, Exchanges

LEMMA FinishKeeps ==
    ASSUME StreamInv, Finish
    PROVE  StreamInv'
<1>1. pc = "finishing" /\ pc' = "done" /\ saved = <<>>
  BY DEF StreamInv, Finish
<1>2. Exchange' = Exchange
  BY DEF Finish, inputs, copying, Exchange, StatusCode, CanCache, IsComplete, AuditEnd,
         ProcessLine
<1>3. saved' = <<Exchange>> /\ <<Exchange>> \in Seq(Exchanges)
  <2>1. Exchange \in Exchanges
    BY ExchangeType DEF StreamInv
  <2>2. saved' = Append(saved, Exchange)
    BY DEF Finish
  <2> QED
    BY <1>1, <2>1, <2>2
<1>4. TypeOK'
  <2>1. saved' \in Seq(Exchanges)
    BY <1>3, Zenon
  <2> QED
    BY <1>1, <2>1 DEF StreamInv, TypeOK, Finish, inputs, copying, CaptureLimit, Exchanges
<1>5. NewAudit' = NewAudit /\ CaptureLimit' = CaptureLimit /\ Capturing' = Capturing
  BY DEF Finish, inputs, NewAudit, CaptureLimit, Capturing
<1>6. saved' = IF pc' = "done" THEN <<Exchange'>> ELSE <<>>
  BY <1>1, <1>2, <1>3
<1> QED
  BY <1>1, <1>4, <1>5, <1>6 DEF StreamInv, Finish, inputs, copying

LEMMA DisconnectKeeps ==
    ASSUME StreamInv, Disconnect
    PROVE  StreamInv'
<1> USE DEF Disconnect, inputs, copying
<1>1. TypeOK'
  BY DEF StreamInv, TypeOK, CaptureLimit
<1>2. NewAudit' = NewAudit /\ CaptureLimit' = CaptureLimit /\ Capturing' = Capturing
  BY DEF NewAudit, CaptureLimit, Capturing
<1>3. pc # "done" /\ pc' # "done" /\ saved' = <<>>
  BY DEF StreamInv
<1> QED
  BY <1>1, <1>2, <1>3 DEF StreamInv

LEMMA StutterKeeps ==
    ASSUME StreamInv, UNCHANGED vars
    PROVE  StreamInv'
<1> USE DEF vars, inputs, copying
<1>1. TypeOK'
  BY DEF StreamInv, TypeOK, CaptureLimit
<1>2. NewAudit' = NewAudit /\ CaptureLimit' = CaptureLimit /\ Capturing' = Capturing
  BY DEF NewAudit, CaptureLimit, Capturing
<1>3. Exchange' = Exchange
  BY DEF Exchange, StatusCode, CanCache, IsComplete, AuditEnd, ProcessLine
<1> QED
  BY <1>1, <1>2, <1>3 DEF StreamInv

\* StreamInv holds in every reachable state: the auditor is where one symbol at a
\* time would have taken it, the capture is whole unless it is marked truncated,
\* and one exchange is saved at the end.
THEOREM StreamInvariance == Spec => []StreamInv
<1>1. StreamInv /\ [Next]_vars => StreamInv'
  <2> SUFFICES ASSUME StreamInv, [Next]_vars PROVE StreamInv'
    OBVIOUS
  <2>1. CASE Read
    BY <2>1, ReadKeeps
  <2>2. CASE Deliver
    BY <2>2, DeliverKeeps
  <2>3. CASE WriteFails
    BY <2>3, WriteFailsKeeps
  <2>4. CASE Finish
    BY <2>4, FinishKeeps
  <2>5. CASE Disconnect
    BY <2>5, DisconnectKeeps
  <2>6. CASE Done
    BY <2>6, StutterKeeps DEF Done
  <2>7. CASE UNCHANGED vars
    BY <2>7, StutterKeeps
  <2> QED
    BY <2>1, <2>2, <2>3, <2>4, <2>5, <2>6, <2>7 DEF Next
<1> QED
  BY <1>1, StreamInitial, PTL DEF Spec
-----------------------------------------------------------------------------
(* What follows.                                                           *)

\* Every variable keeps its type; what is captured never exceeds the limit.
THEOREM StreamTypeCorrect == Spec => []TypeOK
<1>1. StreamInv => TypeOK
  BY DEF StreamInv
<1> QED
  BY <1>1, StreamInvariance, PTL

\* The one exchange that is saved.
LEMMA SavedExchange ==
    ASSUME StreamInv, NEW i \in 1 .. Len(saved)
    PROVE  pc = "done" /\ saved[i] = Exchange
<1>1. pc = "done"
  <2>1. Len(<<>>) = 0
    OBVIOUS
  <2>2. saved # <<>>
    BY <2>1
  <2> QED
    BY <2>2 DEF StreamInv
<1>2. saved = <<Exchange>>
  BY <1>1 DEF StreamInv
<1>3. i = 1
  BY <1>2
<1> QED
  BY <1>1, <1>2, <1>3

\* A marker that was seen, or stands at the end without newline, was sent.
LEMMA CompleteIsMarked ==
    ASSUME StreamInv, AuditEnd(audit).complete
    PROVE  Marked(delivered)
<1>1. audit \in Auditors /\ delivered \in Seq(Symbols) /\ Saw(audit, delivered)
  BY DEF StreamInv, TypeOK
<1>2. CASE audit.complete
  BY <1>1, <1>2 DEF Saw
<1>3. CASE ~audit.complete
  <2>1. audit.pending = Line("stop")
    BY <1>1, <1>3 DEF AuditEnd, ProcessLine, Auditors
  <2>2. EndsWith(delivered, Line("stop"))
    BY <1>1, <2>1, Zenon DEF Saw
  <2> QED
    BY <1>1, <2>2, MarkedAtEnd
<1> QED
  BY <1>2, <1>3

\* The token counts that are logged do not depend on how the network cuts the
\* stream into chunks, for every body and every way to cut it.
THEOREM ChunksMakeNoDifference == Spec => []AuditIgnoresChunks
<1>1. StreamInv => AuditIgnoresChunks
  <2> SUFFICES ASSUME StreamInv PROVE AuditIgnoresChunks
    OBVIOUS
  <2>1. PICK whole : whole = Fed(NewAudit, delivered)[Len(delivered)] /\ audit = whole
    BY DEF StreamInv
  <2>2. ASSUME NEW i \in 1 .. Len(saved)
        PROVE  /\ saved[i].prompt = ProcessLine(whole, whole.pending).prompt
               /\ saved[i].completion = ProcessLine(whole, whole.pending).completion
    <3>1. saved[i] = Exchange
      BY <2>2, SavedExchange
    <3> QED
      BY <2>1, <3>1 DEF Exchange, AuditEnd
  <2> QED
    BY <2>1, <2>2 DEF AuditIgnoresChunks
<1> QED
  BY <1>1, StreamInvariance, PTL

\* Only a stream that ended well, with its end marker, is cached, and all of it.
THEOREM OnlyWholeStreams == Spec => []OnlyWholeStreamsCached
<1>1. StreamInv => OnlyWholeStreamsCached
  <2> SUFFICES ASSUME StreamInv, NEW i \in 1 .. Len(saved), saved[i].cached
               PROVE  /\ saved[i].status = 200
                      /\ saved[i].body = delivered
                      /\ readErr = "eof"
                      /\ Marked(delivered)
                      /\ setting.maxBody > 0 => Len(saved[i].body) <= setting.maxBody
    BY DEF OnlyWholeStreamsCached, Marked
  <2>1. pc = "done" /\ saved[i] = Exchange
    BY SavedExchange
  <2>2. CanCache
    BY <2>1 DEF Exchange
  <2>3. StatusCode = 200 /\ saved[i].status = 200
    BY <2>1, <2>2 DEF CanCache, Exchange
  <2>4. failure = None
    BY <2>3 DEF StreamInv, TypeOK, StatusCode
  <2>5. readErr = "eof"
    BY <2>1, <2>4 DEF StreamInv
  <2>6. saved[i].body = captured /\ captured = delivered
    BY <2>1, <2>2 DEF Exchange, CanCache, IsComplete, StreamInv, Capturing
  <2>7. Marked(delivered)
    BY <2>2, CompleteIsMarked DEF CanCache, IsComplete
  <2>8. setting.maxBody > 0 => Len(saved[i].body) <= setting.maxBody
    BY <2>2, <2>6 DEF CanCache
  <2> QED
    BY <2>3, <2>5, <2>6, <2>7, <2>8
<1> QED
  BY <1>1, StreamInvariance, PTL

\* A body in the log is all that was sent to the client, or nothing.
THEOREM BodiesAreStoredAsSent == Spec => []StoredAsSent
<1>1. StreamInv => StoredAsSent
  <2> SUFFICES ASSUME StreamInv, NEW i \in 1 .. Len(saved)
               PROVE  saved[i].body \in {delivered, <<>>}
    BY DEF StoredAsSent
  <2>1. saved[i] = Exchange
    BY SavedExchange
  <2>2. CASE setting.logBody
    <3>1. CaptureLimit = 0 /\ Capturing
      BY <2>2 DEF CaptureLimit, Capturing
    <3>2. captured = delivered
      BY <3>1 DEF StreamInv
    <3> QED
      BY <2>1, <2>2, <3>2 DEF Exchange
  <2>3. CASE CanCache
    <3>1. captured = delivered
      BY <2>3 DEF CanCache, IsComplete, StreamInv, Capturing
    <3> QED
      BY <2>1, <2>3, <3>1 DEF Exchange
  <2>4. CASE ~setting.logBody /\ ~CanCache
    BY <2>1, <2>4 DEF Exchange
  <2> QED
    BY <2>2, <2>3, <2>4
<1> QED
  BY <1>1, StreamInvariance, PTL

\* The logged status is the upstream's own only when all of the stream was passed
\* on, and 499 only when the client had left.
THEOREM StatusIsTrue == Spec => []StatusTellsOutcome
<1>1. StreamInv => StatusTellsOutcome
  <2> SUFFICES ASSUME StreamInv PROVE StatusTellsOutcome
    OBVIOUS
  <2>1. Len(saved) = IF pc = "done" THEN 1 ELSE 0
    <3>1. CASE pc = "done"
      BY <3>1 DEF StreamInv
    <3>2. CASE pc # "done"
      <4>1. saved = <<>> /\ Len(<<>>) = 0
        BY <3>2 DEF StreamInv
      <4> QED
        BY <3>2, <4>1
    <3> QED
      BY <3>1, <3>2
  <2>2. ASSUME NEW i \in 1 .. Len(saved)
        PROVE  /\ saved[i].status = status => /\ readErr = "eof"
                                              /\ EndsWith(delivered, chunk)
                                              /\ failure = None
               /\ saved[i].status = 499 => client = "gone"
    <3>1. pc = "done" /\ saved[i].status = StatusCode
      BY SavedExchange DEF Exchange
    <3>2. StatusCode = status => failure = None
      BY DEF StreamInv, TypeOK, StatusCode
    <3>3. StatusCode = 499 => failure = "canceled"
      BY DEF StreamInv, TypeOK, StatusCode
    <3> QED
      BY <3>1, <3>2, <3>3 DEF StreamInv
  <2> QED
    BY <2>1, <2>2 DEF StatusTellsOutcome
<1> QED
  BY <1>1, StreamInvariance, PTL
=============================================================================
