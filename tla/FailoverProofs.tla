--------------------------- MODULE FailoverProofs ---------------------------
(***************************************************************************)
(* Theorems about Failover, for every set of providers, every order and    *)
(* selection of the active ones, and every outcome of their attempts.      *)
(***************************************************************************)
EXTENDS Failover, DataProofs, FiniteSetTheorems, FunctionTheorems

-----------------------------------------------------------------------------
(* The invariant.                                                          *)

ActiveSet == {active[i] : i \in 1 .. Len(active)}

\* What NewGateway and ServeAPIHTTP hand over.
ConfigInv ==
    /\ active \in Seq(Providers)
    /\ \A i, j \in 1 .. Len(active) : active[i] = active[j] => i = j
    /\ capable \subseteq Providers
    /\ primary \in capable
    /\ mayFailover \in BOOLEAN
    /\ mayFailover => primary \in ActiveSet

\* The attempts went to the candidates one after the other.
InOrder ==
    /\ Len(att) <= Len(Candidates)
    /\ pc = "waiting" => Len(att) < Len(Candidates)
    /\ \A i \in 1 .. Len(att) : att[i].provider = Candidates[i]

\* k is the last attempt with this outcome, or 0.
IsLast(k, kind) ==
    \/ k = 0 /\ Indices(kind) = {}
    \/ k \in Indices(kind) /\ \A j \in Indices(kind) : j <= k

\* The variables lastHTTP and lastErr of the loop mean what they are named for,
\* and the loop goes on only as long as nothing was good.
LoopInv ==
    /\ IsLast(lastHTTP, "retry")
    /\ IsLast(lastErr, "error")
    /\ pc \in {"loop", "waiting"} => chosen = 0 /\ Indices("good") = {}
    /\ pc = "waiting" => current \in Metas
    /\ att = <<>> => pc \in {"loop", "waiting"}

\* What forwardWithFailover returns, and why.
ReturnInv ==
    Returned =>
        /\ chosen \in 1 .. Len(att)
        /\ log = LogOf(att[chosen])
        /\ \/ Indices("good") = {Len(att)} /\ chosen = Len(att)
           \/ /\ Indices("good") = {}
              /\ chosen = IF lastHTTP # 0 THEN lastHTTP ELSE lastErr
              /\ Len(att) = Len(Candidates) \/ client = "gone"

\* Nothing is saved or answered before the end, one of each at the end.
EndInv ==
    /\ pc # "done" => saved = <<>> /\ reply = None
    /\ pc = "done" => Len(saved) = 1

FailoverInv ==
    /\ TypeOK
    /\ ConfigInv
    /\ InOrder
    /\ LoopInv
    /\ ReturnInv
    /\ EndInv
    /\ BodiesReleased
    /\ AttributedToAnswer
-----------------------------------------------------------------------------
(* The candidates.                                                         *)

\* The loop over activeProviders yields the primary and then each of the others
\* that can be asked, none of them twice.
LEMMA CandidatesCorrect ==
    ASSUME ConfigInv
    PROVE  /\ Candidates \in Seq(Providers)
           /\ Len(Candidates) >= 1
           /\ \A i, j \in 1 .. Len(Candidates) : Candidates[i] = Candidates[j] => i = j
           /\ {Candidates[i] : i \in 1 .. Len(Candidates)}
                 = {primary} \cup (IF mayFailover THEN capable \cap ActiveSet ELSE {})
<1>0. PICK others : others = IF mayFailover /\ Len(active) > 1
                           THEN Selected(active, capable \ {primary})
                           ELSE <<>>
  OBVIOUS
<1>1. /\ others \in Seq(Providers)
      /\ \A i, j \in 1 .. Len(others) : others[i] = others[j] => i = j
      /\ {others[i] : i \in 1 .. Len(others)}
            = IF mayFailover THEN (capable \ {primary}) \cap ActiveSet ELSE {}
  <2>1. CASE mayFailover /\ Len(active) > 1
    <3>1. others = Selected(active, capable \ {primary})
      BY <1>0, <2>1
    <3>2. /\ others \in Seq(Providers)
          /\ {others[i] : i \in 1 .. Len(others)} = (capable \ {primary}) \cap ActiveSet
      BY <3>1, SelectedMembers DEF ConfigInv, ActiveSet
    <3>3. \A i, j \in 1 .. Len(others) : others[i] = others[j] => i = j
      BY <3>1, SelectedDistinct DEF ConfigInv
    <3> QED
      BY <2>1, <3>2, <3>3
  <2>2. CASE ~(mayFailover /\ Len(active) > 1)
    <3>1. others = <<>>
      BY <1>0, <2>2
    <3>2. mayFailover => ActiveSet \subseteq {primary}
      <4>1. SUFFICES ASSUME mayFailover PROVE ActiveSet \subseteq {primary}
        OBVIOUS
      <4>2. Len(active) \in Nat /\ ~(Len(active) > 1)
        BY <4>1, <2>2 DEF ConfigInv
      <4>3. \A i, j \in 1 .. Len(active) : i = j
        BY <4>2
      <4> QED
        BY <4>1, <4>3 DEF ConfigInv, ActiveSet
    <3> QED
      BY <3>1, <3>2
  <2> QED
    BY <2>1, <2>2
<1>2. Candidates = <<primary>> \o others
  BY <1>0 DEF Candidates
<1>3. <<primary>> \in Seq(Providers) /\ Len(<<primary>>) = 1 /\ <<primary>>[1] = primary
  BY DEF ConfigInv
<1>4. /\ Candidates \in Seq(Providers)
      /\ Len(Candidates) = 1 + Len(others)
      /\ Candidates[1] = primary
      /\ \A i \in 2 .. 1 + Len(others) : Candidates[i] = others[i - 1]
      /\ Len(others) \in Nat
  BY <1>1, <1>2, <1>3, ConcatProperties
<1>5. \A i \in 1 .. Len(others) : others[i] # primary
  BY <1>1
<1>6. ASSUME NEW i \in 1 .. Len(Candidates), NEW j \in 1 .. Len(Candidates),
             Candidates[i] = Candidates[j]
      PROVE  i = j
  <2>1. CASE i = 1 /\ j # 1
    BY <2>1, <1>4, <1>5, <1>6
  <2>2. CASE i # 1 /\ j = 1
    BY <2>2, <1>4, <1>5, <1>6
  <2>3. CASE i # 1 /\ j # 1
    BY <2>3, <1>1, <1>4, <1>6
  <2> QED
    BY <2>1, <2>2, <2>3
<1>7. {Candidates[i] : i \in 1 .. Len(Candidates)}
        = {primary} \cup {others[i] : i \in 1 .. Len(others)}
  <2>1. \A i \in 1 .. Len(Candidates) :
           Candidates[i] \in {primary} \cup {others[k] : k \in 1 .. Len(others)}
    BY <1>4
  <2>2. \A k \in 1 .. Len(others) :
           k + 1 \in 1 .. Len(Candidates) /\ others[k] = Candidates[k + 1]
    BY <1>4
  <2>3. 1 \in 1 .. Len(Candidates) /\ primary = Candidates[1]
    BY <1>4
  <2> QED
    BY <2>1, <2>2, <2>3
<1>8. {Candidates[i] : i \in 1 .. Len(Candidates)}
        = {primary} \cup (IF mayFailover THEN capable \cap ActiveSet ELSE {})
  <2>1. PICK E : E = {others[i] : i \in 1 .. Len(others)}
    OBVIOUS
  <2>2. E = IF mayFailover THEN (capable \ {primary}) \cap ActiveSet ELSE {}
    BY <2>1, <1>1
  <2>3. {primary} \cup E = {primary} \cup (IF mayFailover THEN capable \cap ActiveSet ELSE {})
    BY <2>2
  <2> QED
    BY <2>1, <2>3, <1>7
<1> QED
  BY <1>4, <1>6, <1>8

LEMMA CandidatesFixed ==
    ASSUME UNCHANGED config
    PROVE  Candidates' = Candidates
BY DEF config, Candidates

LEMMA ConfigFixed ==
    ASSUME ConfigInv, UNCHANGED config
    PROVE  ConfigInv'
BY DEF ConfigInv, config, ActiveSet
-----------------------------------------------------------------------------
(* What an attempt adds.                                                   *)

AttType == [provider : Providers, meta : Metas, kind : Kinds]

LEMMA AttemptAdded ==
    ASSUME FailoverInv, pc = "waiting", NEW kind \in Kinds,
           att' = Append(att, Attempt(kind)), UNCHANGED config
    PROVE  /\ att' \in Seq(AttType)
           /\ Len(att) \in Nat
           /\ Len(att') = Len(att) + 1
           /\ Len(att') <= Len(Candidates')
           /\ \A i \in 1 .. Len(att) : att'[i] = att[i]
           /\ att'[Len(att')] = Attempt(kind)
           /\ Attempt(kind) \in AttType
           /\ Attempt(kind).kind = kind
           /\ \A i \in 1 .. Len(att') : att'[i].provider = Candidates'[i]
<1>1. /\ att \in Seq(AttType) /\ ConfigInv /\ Len(att) < Len(Candidates)
      /\ \A i \in 1 .. Len(att) : att[i].provider = Candidates[i]
      /\ current \in Metas
  BY DEF FailoverInv, TypeOK, AttType, InOrder, LoopInv
<1>2. Candidates \in Seq(Providers)
  BY <1>1, CandidatesCorrect
<1>3. Len(att) \in Nat /\ Len(Candidates) \in Nat
  BY <1>1, <1>2
<1>4. Candidates[Len(att) + 1] \in Providers
  BY <1>1, <1>2, <1>3, ElementOfSeq
<1>5. /\ Attempt(kind) \in AttType
      /\ Attempt(kind).kind = kind
      /\ Attempt(kind).provider = Candidates[Len(att) + 1]
  BY <1>1, <1>4 DEF Attempt, AttType
<1>6. /\ att' \in Seq(AttType)
      /\ Len(att') = Len(att) + 1
      /\ \A i \in 1 .. Len(att) : att'[i] = att[i]
      /\ att'[Len(att) + 1] = Attempt(kind)
  BY <1>1, <1>5, AppendProperties
<1>7. Candidates' = Candidates
  BY CandidatesFixed
<1>8. \A i \in 1 .. Len(att') : att'[i].provider = Candidates'[i]
  BY <1>1, <1>3, <1>5, <1>6, <1>7
<1> QED
  BY <1>1, <1>3, <1>5, <1>6, <1>7, <1>8

LEMMA IndicesAdded ==
    ASSUME FailoverInv, pc = "waiting", NEW kind \in Kinds,
           att' = Append(att, Attempt(kind)), UNCHANGED config, NEW k \in Kinds
    PROVE  {i \in 1 .. Len(att') : att'[i].kind = k}
             = Indices(k) \cup (IF k = kind THEN {Len(att')} ELSE {})
<1>1. /\ Len(att) \in Nat
      /\ Len(att') = Len(att) + 1
      /\ \A i \in 1 .. Len(att) : att'[i] = att[i]
      /\ att'[Len(att')] = Attempt(kind)
      /\ Attempt(kind).kind = kind
  BY AttemptAdded
<1> QED
  BY <1>1 DEF Indices
-----------------------------------------------------------------------------
(* The steps of the loop.                                                  *)

LEMMA StartAttemptKeeps ==
    ASSUME FailoverInv, StartAttempt
    PROVE  FailoverInv'
<1> USE DEF StartAttempt
<1>1. /\ ConfigInv /\ TypeOK /\ pc = "loop"
      /\ UNCHANGED <<config, att, lastHTTP, lastErr, chosen, open, log, ending,
                     expired, client>>
  BY DEF FailoverInv
<1>2. current' \in Metas
  <2>1. Candidates \in Seq(Providers)
    BY <1>1, CandidatesCorrect
  <2>2. Len(att) \in Nat /\ Len(att) + 1 \in 1 .. Len(Candidates)
    BY <1>1, <2>1 DEF TypeOK
  <2>3. Candidates[Len(att) + 1] \in Providers
    BY <2>1, <2>2, ElementOfSeq
  <2> QED
    BY <1>1, <2>3 DEF TypeOK, Metas
<1>3. TypeOK'
  BY <1>1, <1>2 DEF TypeOK, config, ending
<1>4. ConfigInv' /\ Candidates' = Candidates
  BY <1>1, ConfigFixed, CandidatesFixed
<1>5. InOrder'
  BY <1>1, <1>4 DEF FailoverInv, InOrder
<1>6. LoopInv' /\ ReturnInv'
  BY <1>1, <1>2 DEF FailoverInv, LoopInv, ReturnInv, Returned, IsLast, Indices
<1>7. EndInv' /\ AttributedToAnswer' /\ BodiesReleased'
  BY <1>1 DEF FailoverInv, EndInv, AttributedToAnswer, BodiesReleased, ending
<1> QED
  BY <1>3, <1>4, <1>5, <1>6, <1>7 DEF FailoverInv

LEMMA AttemptFailsKeeps ==
    ASSUME FailoverInv, AttemptFails
    PROVE  FailoverInv'
<1> USE DEF AttemptFails
<1>1. /\ pc = "waiting" /\ "error" \in Kinds /\ att' = Append(att, Attempt("error"))
      /\ UNCHANGED config
  BY DEF Kinds
<1>2. /\ att' \in Seq(AttType)
      /\ Len(att) \in Nat /\ Len(att') = Len(att) + 1 /\ Len(att') <= Len(Candidates')
      /\ \A i \in 1 .. Len(att') : att'[i].provider = Candidates'[i]
      /\ att'[Len(att')] = Attempt("error") /\ Attempt("error") \in AttType
  BY <1>1, AttemptAdded
<1>3. /\ Indices("retry")' = Indices("retry")
      /\ Indices("error")' = Indices("error") \cup {Len(att')}
      /\ Indices("good")' = Indices("good")
  <2>1. {"retry", "error", "good"} \subseteq Kinds
    BY DEF Kinds
  <2> QED
    BY <1>1, <2>1, IndicesAdded DEF Indices
<1>4. /\ IsLast(lastHTTP, "retry") /\ IsLast(lastErr, "error") /\ Indices("good") = {}
      /\ chosen = 0 /\ saved = <<>> /\ reply = None
      /\ open = {lastHTTP} \ {0}
  BY <1>1 DEF FailoverInv, LoopInv, EndInv, BodiesReleased
<1>5. \A kind \in Kinds : Indices(kind) \subseteq 1 .. Len(att)
  BY DEF Indices
<1>6. ConfigInv'
  BY <1>1, ConfigFixed DEF FailoverInv
<1>7. TypeOK'
  <2>1. expired \subseteq 1 .. Len(att) /\ open \subseteq 1 .. Len(att)
    BY DEF FailoverInv, TypeOK
  <2>2. 1 .. Len(att) \subseteq 1 .. Len(att') /\ Len(att') \in 1 .. Len(att')
    BY <1>2
  <2>3. expired' \subseteq 1 .. Len(att')
    BY <2>1, <2>2
  <2>4. open' \subseteq 1 .. Len(att')
    BY <2>1, <2>2
  <2>5. {lastHTTP', lastErr', chosen'} \subseteq 0 .. Len(att')
    BY <1>2, <1>4 DEF FailoverInv, TypeOK
  <2> QED
    BY <1>1, <1>2, <1>4, <2>3, <2>4, <2>5
       DEF FailoverInv, TypeOK, AttType, config, ending
<1>8. InOrder'
  BY <1>2 DEF InOrder
<1>9. LoopInv'
  <2>1. Len(att') \in Nat /\ \A i \in 1 .. Len(att) : i <= Len(att')
    BY <1>2
  <2>2. IsLast(lastErr, "error")'
    BY <2>1, <1>2, <1>3, <1>4, <1>5 DEF IsLast, Kinds
  <2>3. IsLast(lastHTTP, "retry")'
    BY <1>3, <1>4 DEF IsLast
  <2>4. att' # <<>>
    BY <1>2
  <2> QED
    BY <2>2, <2>3, <2>4, <1>3, <1>4 DEF LoopInv
<1>10. ReturnInv'
  BY DEF ReturnInv, Returned
<1>11. EndInv' /\ AttributedToAnswer'
  BY <1>4 DEF EndInv, AttributedToAnswer, ending
<1>12. BodiesReleased'
  BY <1>4 DEF BodiesReleased
<1> QED
  BY <1>6, <1>7, <1>8, <1>9, <1>10, <1>11, <1>12 DEF FailoverInv

LEMMA AttemptRefusedKeeps ==
    ASSUME FailoverInv, AttemptRefused
    PROVE  FailoverInv'
<1> USE DEF AttemptRefused
<1>1. /\ pc = "waiting" /\ "retry" \in Kinds /\ att' = Append(att, Attempt("retry"))
      /\ UNCHANGED config
  BY DEF Kinds
<1>2. /\ att' \in Seq(AttType)
      /\ Len(att) \in Nat /\ Len(att') = Len(att) + 1 /\ Len(att') <= Len(Candidates')
      /\ \A i \in 1 .. Len(att') : att'[i].provider = Candidates'[i]
      /\ att'[Len(att')] = Attempt("retry") /\ Attempt("retry") \in AttType
  BY <1>1, AttemptAdded
<1>3. /\ Indices("retry")' = Indices("retry") \cup {Len(att')}
      /\ Indices("error")' = Indices("error")
      /\ Indices("good")' = Indices("good")
  <2>1. {"retry", "error", "good"} \subseteq Kinds
    BY DEF Kinds
  <2> QED
    BY <1>1, <2>1, IndicesAdded DEF Indices
<1>4. /\ IsLast(lastHTTP, "retry") /\ IsLast(lastErr, "error") /\ Indices("good") = {}
      /\ chosen = 0 /\ saved = <<>> /\ reply = None
      /\ open = {lastHTTP} \ {0}
  BY <1>1 DEF FailoverInv, LoopInv, EndInv, BodiesReleased
<1>5. \A kind \in Kinds : Indices(kind) \subseteq 1 .. Len(att)
  BY DEF Indices
<1>6. ConfigInv'
  BY <1>1, ConfigFixed DEF FailoverInv
<1>7. TypeOK'
  BY <1>1, <1>2, <1>4 DEF FailoverInv, TypeOK, AttType, config, ending, Drained
<1>8. InOrder'
  BY <1>2 DEF InOrder
<1>9. LoopInv'
  <2>1. Len(att') \in Nat /\ \A i \in 1 .. Len(att) : i <= Len(att')
    BY <1>2
  <2>2. IsLast(lastHTTP, "retry")'
    BY <2>1, <1>2, <1>3, <1>4, <1>5 DEF IsLast, Kinds
  <2>3. IsLast(lastErr, "error")'
    BY <1>3, <1>4 DEF IsLast
  <2>4. att' # <<>>
    BY <1>2
  <2> QED
    BY <2>2, <2>3, <2>4, <1>3, <1>4 DEF LoopInv
<1>10. ReturnInv'
  BY DEF ReturnInv, Returned
<1>11. EndInv' /\ AttributedToAnswer'
  BY <1>4 DEF EndInv, AttributedToAnswer, ending
<1>12. BodiesReleased'
  BY <1>2, <1>4 DEF BodiesReleased, Drained
<1> QED
  BY <1>6, <1>7, <1>8, <1>9, <1>10, <1>11, <1>12 DEF FailoverInv

LEMMA AttemptSucceedsKeeps ==
    ASSUME FailoverInv, AttemptSucceeds
    PROVE  FailoverInv'
<1> USE DEF AttemptSucceeds
<1>1. /\ pc = "waiting" /\ "good" \in Kinds /\ att' = Append(att, Attempt("good"))
      /\ UNCHANGED config
  BY DEF Kinds
<1>2. /\ att' \in Seq(AttType)
      /\ Len(att) \in Nat /\ Len(att') = Len(att) + 1 /\ Len(att') <= Len(Candidates')
      /\ \A i \in 1 .. Len(att') : att'[i].provider = Candidates'[i]
      /\ att'[Len(att')] = Attempt("good") /\ Attempt("good") \in AttType
  BY <1>1, AttemptAdded
<1>3. /\ Indices("retry")' = Indices("retry")
      /\ Indices("error")' = Indices("error")
      /\ Indices("good")' = Indices("good") \cup {Len(att')}
  <2>1. {"retry", "error", "good"} \subseteq Kinds
    BY DEF Kinds
  <2> QED
    BY <1>1, <2>1, IndicesAdded DEF Indices
<1>4. /\ IsLast(lastHTTP, "retry") /\ IsLast(lastErr, "error") /\ Indices("good") = {}
      /\ chosen = 0 /\ saved = <<>> /\ reply = None
      /\ open = {lastHTTP} \ {0}
  BY <1>1 DEF FailoverInv, LoopInv, EndInv, BodiesReleased
<1>5. \A kind \in Kinds : Indices(kind) \subseteq 1 .. Len(att)
  BY DEF Indices
<1>6. ConfigInv'
  BY <1>1, ConfigFixed DEF FailoverInv
<1>7. TypeOK'
  BY <1>1, <1>2, <1>4 DEF FailoverInv, TypeOK, AttType, config, ending, Drained, LogOf
<1>8. InOrder'
  BY <1>2 DEF InOrder
<1>9. LoopInv'
  <2>1. att' # <<>>
    BY <1>2
  <2> QED
    BY <2>1, <1>3, <1>4 DEF LoopInv, IsLast
<1>10. ReturnInv'
  BY <1>2, <1>3, <1>4 DEF ReturnInv, Returned, LogOf
<1>11. EndInv' /\ AttributedToAnswer'
  BY <1>4 DEF EndInv, AttributedToAnswer, ending
<1>12. BodiesReleased'
  <2>1. Len(att') \notin Indices("error")'
    BY <1>2, <1>3, <1>5 DEF Kinds
  <2>2. open' = {chosen'}
    BY <1>4 DEF Drained
  <2> QED
    BY <2>1, <2>2 DEF BodiesReleased
<1> QED
  BY <1>6, <1>7, <1>8, <1>9, <1>10, <1>11, <1>12 DEF FailoverInv

LEMMA GiveUpKeeps ==
    ASSUME FailoverInv, GiveUp
    PROVE  FailoverInv'
<1> USE DEF GiveUp
<1>1. /\ ConfigInv /\ TypeOK /\ pc = "loop" /\ att # <<>>
      /\ UNCHANGED <<config, att, current, lastHTTP, lastErr, open, ending, expired,
                     client>>
  BY DEF FailoverInv
<1>2. /\ IsLast(lastHTTP, "retry") /\ IsLast(lastErr, "error") /\ Indices("good") = {}
      /\ saved = <<>> /\ reply = None
      /\ open = {lastHTTP} \ {0}
  BY <1>1 DEF FailoverInv, LoopInv, EndInv, BodiesReleased
<1>3. att \in Seq(AttType) /\ Len(att) \in Nat \ {0}
  BY <1>1, EmptySeq DEF TypeOK, AttType
\* An attempt that was made has one of the outcomes.
<1>4. chosen' \in 1 .. Len(att)
  <2>0. Len(att) \in 1 .. Len(att) /\ att[Len(att)] \in AttType
    BY ONLY <1>3, ElementOfSeq
  <2>1. Len(att) \in Indices(att[Len(att)].kind) /\ att[Len(att)].kind \in Kinds
    BY <2>0 DEF Indices, AttType
  <2>2. Indices("retry") # {} \/ Indices("error") # {}
    BY <2>1, <1>2 DEF Kinds
  <2> QED
    BY <2>2, <1>2, <1>3 DEF IsLast, Indices
<1>5. att[chosen'] \in AttType
  BY <1>3, <1>4, ElementOfSeq
<1>6. TypeOK'
  BY <1>1, <1>4, <1>5 DEF TypeOK, AttType, LogOf, config, ending
<1>7. ConfigInv' /\ Candidates' = Candidates
  BY <1>1, ConfigFixed, CandidatesFixed
<1>8. InOrder'
  BY <1>1, <1>7 DEF FailoverInv, InOrder
<1>9. LoopInv'
  BY <1>1, <1>2 DEF LoopInv, IsLast, Indices
<1>10. ReturnInv'
  BY <1>1, <1>2, <1>4, <1>7 DEF ReturnInv, Returned, Indices, LogOf
<1>11. EndInv' /\ AttributedToAnswer'
  BY <1>1, <1>2 DEF EndInv, AttributedToAnswer, ending
<1>12. BodiesReleased'
  <2>1. CASE lastHTTP # 0
    <3>1. chosen' \notin Indices("error")'
      BY <2>1, <1>1, <1>2 DEF IsLast, Indices
    <3> QED
      BY <2>1, <3>1, <1>1, <1>2 DEF BodiesReleased
  <2>2. CASE lastHTTP = 0
    <3>1. chosen' \in Indices("error")'
      BY <2>2, <1>1, <1>2, <1>4 DEF IsLast, Indices
    <3> QED
      BY <2>2, <3>1, <1>1, <1>2 DEF BodiesReleased
  <2> QED
    BY <2>1, <2>2
<1> QED
  BY <1>6, <1>7, <1>8, <1>9, <1>10, <1>11, <1>12 DEF FailoverInv
-----------------------------------------------------------------------------
(* The steps of ServeAPIHTTP and of the environment.                       *)

\* An exchange that is saved under no key or that of the answer, with the body
\* of the answer or none.
LEMMA FinishKeeps ==
    ASSUME FailoverInv, pc = "returned",
           NEW answer \in {"upstream"} \cup BadGateway, NEW key, NEW content,
           Finish(answer, key, content),
           content = IF answer = "upstream" THEN chosen ELSE 0,
           key # None => key = log.meta /\ key \in Metas /\ answer = "upstream"
    PROVE  FailoverInv'
<1>1. /\ ConfigInv /\ TypeOK /\ Returned
      /\ UNCHANGED <<config, att, current, lastHTTP, lastErr, chosen, log, expired,
                     client>>
      /\ pc' = "done" /\ open' = open \ {chosen} /\ reply' = answer
  BY DEF FailoverInv, Returned, Finish
<1>2. saved = <<>> /\ chosen \in 1 .. Len(att) /\ log = LogOf(att[chosen])
  BY <1>1 DEF FailoverInv, EndInv, ReturnInv
<1>3. PICK e : e = [log |-> log, key |-> key, body |-> content]
  OBVIOUS
<1> DEFINE Saved == [log : [provider : Providers, meta : Metas],
                     key : Metas \cup {None}, body : 0 .. Len(att)]
<1>4. e \in Saved
  BY <1>1, <1>2, <1>3 DEF TypeOK
<1>5. saved' = Append(<<>>, e)
  BY <1>2, <1>3 DEF Finish
<1>6. saved' \in Seq(Saved) /\ Len(saved') = 1 /\ saved'[1] = e
  <2> HIDE DEF Saved
  <2> QED
    BY <1>4, <1>5, EmptySeq, AppendProperties
<1>7. TypeOK'
  BY <1>1, <1>6 DEF TypeOK, config
<1>8. ConfigInv' /\ Candidates' = Candidates
  BY <1>1, ConfigFixed, CandidatesFixed
<1>9. InOrder'
  BY <1>1, <1>8 DEF FailoverInv, InOrder
<1>10. LoopInv' /\ ReturnInv'
  BY <1>1, <1>8 DEF FailoverInv, LoopInv, ReturnInv, Returned, IsLast, Indices, LogOf
<1>11. EndInv' /\ AttributedToAnswer'
  BY <1>1, <1>2, <1>3, <1>6 DEF EndInv, AttributedToAnswer, LogOf, BadGateway
<1>12. BodiesReleased'
  BY <1>1 DEF FailoverInv, BodiesReleased
<1> QED
  BY <1>7, <1>8, <1>9, <1>10, <1>11, <1>12 DEF FailoverInv

LEMMA NoResponseKeeps ==
    ASSUME FailoverInv, NoResponse
    PROVE  FailoverInv'
<1>1. pc = "returned" /\ Finish("noResponse", None, 0)
  BY DEF NoResponse
<1> QED
  BY <1>1, FinishKeeps DEF BadGateway

LEMMA ReadBodyKeeps ==
    ASSUME FailoverInv, ReadBody
    PROVE  FailoverInv'
<1>1. pc = "returned"
  BY DEF ReadBody
<1>2. CASE \E key \in StorableKeys : Finish("upstream", key, chosen)
  <2>1. PICK key \in StorableKeys : Finish("upstream", key, chosen)
    BY <1>2
  <2>2. key # None => key = log.meta /\ key \in Metas
    BY DEF StorableKeys, FailoverInv, TypeOK
  <2> QED
    BY <1>1, <2>1, <2>2, FinishKeeps
<1>3. CASE Finish("broken", None, 0)
  BY <1>1, <1>3, FinishKeeps DEF BadGateway
<1>4. CASE Finish("unreadable", None, 0)
  BY <1>1, <1>4, FinishKeeps DEF BadGateway
<1> QED
  BY <1>2, <1>3, <1>4 DEF ReadBody

LEMMA EnvironmentKeeps ==
    ASSUME FailoverInv, Disconnect \/ (\E i \in open : Expire(i)) \/ UNCHANGED vars
    PROVE  FailoverInv'
<1>1. /\ UNCHANGED <<config, loop, ending, pc>>
      /\ client' \in {client, "gone"}
      /\ expired' = expired \/ \E i \in open : expired' = expired \cup {i}
  BY DEF Disconnect, Expire, vars
<1> USE DEF loop, ending
<1>2. TypeOK'
  <2>1. expired' \subseteq 1 .. Len(att)
    BY <1>1 DEF FailoverInv, TypeOK
  <2> QED
    BY <1>1, <2>1 DEF FailoverInv, TypeOK, config
<1>3. ConfigInv' /\ Candidates' = Candidates
  BY <1>1, ConfigFixed, CandidatesFixed DEF FailoverInv
<1>4. InOrder'
  BY <1>1, <1>3 DEF FailoverInv, InOrder
<1>5. LoopInv' /\ ReturnInv'
  BY <1>1, <1>3 DEF FailoverInv, LoopInv, ReturnInv, Returned, IsLast, Indices, LogOf
<1>6. EndInv' /\ AttributedToAnswer'
  BY <1>1 DEF FailoverInv, EndInv, AttributedToAnswer, LogOf
<1>7. BodiesReleased'
  BY <1>1 DEF FailoverInv, BodiesReleased, Indices
<1> QED
  BY <1>2, <1>3, <1>4, <1>5, <1>6, <1>7 DEF FailoverInv
-----------------------------------------------------------------------------
(* The theorems.                                                           *)

LEMMA FailoverInit == Init => FailoverInv
<1> SUFFICES ASSUME Init PROVE FailoverInv
  OBVIOUS
<1> USE DEF Init
<1>1. active \in Seq(Providers) /\ \A i, j \in 1 .. Len(active) : active[i] = active[j] => i = j
  <2>1. PICK n \in Nat : /\ active \in [1 .. n -> Providers]
                         /\ \A i, j \in 1 .. n : active[i] = active[j] => i = j
    <3>1. Cardinality(Providers) \in Nat
      BY FailoverAssumption, FS_CardinalityType
    <3> QED
      BY <3>1 DEF DistinctSeqs
  <2> QED
    BY <2>1
<1>2. ConfigInv
  BY <1>1 DEF ConfigInv, ActiveSet
<1>3. TypeOK
  BY <1>1 DEF TypeOK, Metas
<1>4. Len(Candidates) \in Nat /\ Len(Candidates) >= 1
  BY <1>2, CandidatesCorrect
<1>5. InOrder /\ LoopInv /\ ReturnInv /\ EndInv /\ BodiesReleased /\ AttributedToAnswer
  BY <1>4 DEF InOrder, LoopInv, IsLast, Indices, ReturnInv, Returned, EndInv,
              BodiesReleased, AttributedToAnswer
<1> QED
  BY <1>2, <1>3, <1>5 DEF FailoverInv

\* Every step of a request keeps the invariant: the attempts go down the list of
\* candidates, lastHTTP and lastErr point to the last of their kind, and what
\* forwardWithFailover returns is one of the attempts.
THEOREM FailoverInvariance == Spec => []FailoverInv
<1>1. FailoverInv /\ [Next]_vars => FailoverInv'
  <2> SUFFICES ASSUME FailoverInv, [Next]_vars PROVE FailoverInv'
    OBVIOUS
  <2>1. CASE StartAttempt
    BY <2>1, StartAttemptKeeps
  <2>2. CASE AttemptFails
    BY <2>2, AttemptFailsKeeps
  <2>3. CASE AttemptRefused
    BY <2>3, AttemptRefusedKeeps
  <2>4. CASE AttemptSucceeds
    BY <2>4, AttemptSucceedsKeeps
  <2>5. CASE GiveUp
    BY <2>5, GiveUpKeeps
  <2>6. CASE NoResponse
    BY <2>6, NoResponseKeeps
  <2>7. CASE ReadBody
    BY <2>7, ReadBodyKeeps
  <2>8. CASE Disconnect \/ (\E i \in open : Expire(i)) \/ UNCHANGED vars
    BY <2>8, EnvironmentKeeps
  <2> QED
    BY <2>1, <2>2, <2>3, <2>4, <2>5, <2>6, <2>7, <2>8 DEF Next, Step, Done
<1> QED
  BY <1>1, FailoverInit, PTL DEF Spec

\* The variables of forwardWithFailover keep their types; the indices it keeps
\* point into the list of attempts.
THEOREM FailoverTypeCorrect == Spec => []TypeOK
<1>1. FailoverInv => TypeOK
  BY DEF FailoverInv
<1> QED
  BY <1>1, FailoverInvariance, PTL

\* drainAndCloseBody and the deferred Close release every response of every
\* request: none that was replaced stays open, none is open in the end.
THEOREM ResponsesAreReleased == Spec => []BodiesReleased
<1>1. FailoverInv => BodiesReleased
  BY DEF FailoverInv
<1> QED
  BY <1>1, FailoverInvariance, PTL

\* The exchange that is saved is that of the answer: its provider and metadata,
\* its body, and no key but its own.
THEOREM AnswerIsAttributed == Spec => []AttributedToAnswer
<1>1. FailoverInv => AttributedToAnswer
  BY DEF FailoverInv
<1> QED
  BY <1>1, FailoverInvariance, PTL

LEMMA LastIsMaximum ==
    ASSUME NEW S, S \subseteq Nat, NEW k \in S, \A j \in S : j <= k
    PROVE  Last(S) = k
<1>1. Last(S) \in S /\ \A j \in S : j <= Last(S)
  BY DEF Last
<1>2. Last(S) <= k /\ k <= Last(S) /\ Last(S) \in Nat /\ k \in Nat
  BY <1>1
<1> QED
  BY <1>2

\* forwardWithFailover returns the first success, else the last response, else
\* the last error, whatever happened in between.
THEOREM AnswerIsBest == Spec => []BestAnswer
<1>1. FailoverInv => BestAnswer
  <2> SUFFICES ASSUME FailoverInv, Returned
               PROVE  chosen = CASE Indices("good") # {}  -> Last(Indices("good"))
                                 [] Indices("good") = {} /\ Indices("retry") # {}
                                                          -> Last(Indices("retry"))
                                 [] OTHER                 -> Last(Indices("error"))
    BY DEF BestAnswer
  <2>1. /\ chosen \in 1 .. Len(att)
        /\ \/ Indices("good") = {Len(att)} /\ chosen = Len(att)
           \/ /\ Indices("good") = {}
              /\ chosen = IF lastHTTP # 0 THEN lastHTTP ELSE lastErr
    BY DEF FailoverInv, ReturnInv
  <2>2. IsLast(lastHTTP, "retry") /\ IsLast(lastErr, "error")
    BY DEF FailoverInv, LoopInv
  <2>3. Len(att) \in Nat
    BY DEF FailoverInv, TypeOK
  <2>4. /\ Indices("good") \subseteq Nat \ {0}
        /\ Indices("retry") \subseteq Nat \ {0}
        /\ Indices("error") \subseteq Nat \ {0}
    BY <2>3 DEF Indices
  <2>5. CASE Indices("good") = {Len(att)} /\ chosen = Len(att)
    <3>1. Last(Indices("good")) = chosen
      BY <2>3, <2>4, <2>5, LastIsMaximum
    <3> QED
      BY <2>5, <3>1
  <2>6. CASE Indices("good") = {} /\ lastHTTP # 0 /\ chosen = lastHTTP
    <3>1. lastHTTP \in Indices("retry") /\ \A j \in Indices("retry") : j <= lastHTTP
      BY <2>2, <2>6 DEF IsLast
    <3>2. Last(Indices("retry")) = lastHTTP
      BY <3>1, <2>4, LastIsMaximum
    <3> QED
      BY <2>6, <3>1, <3>2
  <2>7. CASE Indices("good") = {} /\ lastHTTP = 0 /\ chosen = lastErr
    <3>1. Indices("retry") = {}
      BY <2>2, <2>4, <2>7 DEF IsLast
    <3>2. lastErr \in Indices("error") /\ \A j \in Indices("error") : j <= lastErr
      BY <2>1, <2>2, <2>7 DEF IsLast
    <3>3. Last(Indices("error")) = lastErr
      BY <3>2, <2>4, LastIsMaximum
    <3> QED
      BY <2>7, <3>1, <3>3
  <2> QED
    BY <2>1, <2>5, <2>6, <2>7
<1> QED
  BY <1>1, FailoverInvariance, PTL

\* No provider is asked twice for a request, none that is not a candidate, and
\* a client that waits gets a failure only when all of them have failed.
THEOREM ProvidersAskedOnce == Spec => []EachProviderOnce
<1>1. FailoverInv => EachProviderOnce
  <2> SUFFICES ASSUME FailoverInv PROVE EachProviderOnce
    OBVIOUS
  <2> DEFINE asked == {att[i].provider : i \in 1 .. Len(att)}
             others == {p \in capable : \E i \in 1 .. Len(active) : active[i] = p}
             Named == {Candidates[i] : i \in 1 .. Len(Candidates)}
  <2>1. /\ Candidates \in Seq(Providers)
        /\ \A i, j \in 1 .. Len(Candidates) : Candidates[i] = Candidates[j] => i = j
        /\ Named = {primary} \cup (IF mayFailover THEN capable \cap ActiveSet ELSE {})
    BY CandidatesCorrect DEF FailoverInv
  <2>2. others = capable \cap ActiveSet
    BY DEF ActiveSet
  <2>3. /\ Len(att) \in Nat /\ Len(att) <= Len(Candidates) /\ Len(Candidates) \in Nat
        /\ \A i \in 1 .. Len(att) : att[i].provider = Candidates[i]
    BY <2>1 DEF FailoverInv, TypeOK, InOrder
  <2>4. Cardinality(asked) = Len(att)
    <3>1. PICK f : f = [i \in 1 .. Len(att) |-> att[i].provider]
      OBVIOUS
    <3>2. f \in Bijection(1 .. Len(att), asked)
      <4>1. f \in [1 .. Len(att) -> asked]
        BY <3>1
      <4>2. \A i, j \in 1 .. Len(att) : f[i] = f[j] => i = j
        BY <3>1, <2>1, <2>3
      <4>3. \A p \in asked : \E i \in 1 .. Len(att) : f[i] = p
        BY <3>1
      <4> QED
        BY <4>1, <4>2, <4>3 DEF Bijection, Injection, Surjection, IsInjective
    <3>3. ExistsBijection(1 .. Len(att), asked)
      BY <3>2 DEF ExistsBijection
    <3> HIDE DEF asked
    <3> QED
      BY <2>3, <3>3, FS_CountingElements
  <2>5. asked \subseteq Named
    BY <2>3
  <2>6. Len(att) = Len(Candidates) => Named \subseteq asked
    BY <2>3
  <2>7. Returned /\ Indices("good") = {} /\ client = "connected" => Len(att) = Len(Candidates)
    BY <2>3 DEF FailoverInv, ReturnInv
  <2>8. asked \subseteq {primary} \cup (IF mayFailover THEN others ELSE {})
    BY <2>1, <2>2, <2>5
  <2>9. (Returned /\ Indices("good") = {} /\ client = "connected" /\ mayFailover)
          => others \subseteq asked
    BY <2>1, <2>2, <2>6, <2>7
  <2> HIDE DEF asked, others
  <2> QED
    BY <2>4, <2>8, <2>9 DEF EachProviderOnce, asked, others
<1> QED
  BY <1>1, FailoverInvariance, PTL
=============================================================================
