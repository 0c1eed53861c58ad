---------------------------- MODULE GatewayProofs ---------------------------
(***************************************************************************)
(* Theorems about Gateway, for every number of requests and providers,     *)
(* every set of calls, model overrides, max_age, retention and any number  *)
(* of restarts.                                                            *)
(***************************************************************************)
EXTENDS Gateway, DataProofs

-----------------------------------------------------------------------------
(* The invariant.                                                          *)

\* The handler has not got an answer yet.
Early == {"new", "arrived", "missed"}

\* What a handler has at hand, place by place.
HandlerRight(r) ==
    /\ pc[r] \in {"arrived", "missed", "answered", "saved"} =>
          call[r] \in Calls /\ provider[r] \in Providers
    /\ created[r] <= clock
    /\ pc[r] \in Early => exchange[r] = NoExchange /\ reply[r] = NoAnswer
    /\ pc[r] = "answered" /\ reply[r] # NoAnswer => Streams(r)
    /\ pc[r] = "saved" => Traced(r)

\* The body of AnswersAreAudited.
Audited(r) ==
    reply[r] # NoAnswer =>
        \/ Traced(r)
        \/ Streams(r) /\ pc[r] \in {"answered", "killed"}
        \/ exchange[r] = NoExchange /\ reply[r].body = Problem

\* An exchange a provider answered has no key but that of the body this provider
\* got, and has one only with a whole answer of its own.
KeyRight(r) ==
    exchange[r].key # None /\ exchange[r].source = None =>
        /\ cacheOn
        /\ call[r].post /\ call[r].content.object
        /\ exchange[r].status = 200
        /\ exchange[r].key = KeyOf(Effective(exchange[r].by, call[r].content))
        /\ exchange[r].body \in {r, Empty}

\* The bodies of HitAnswersThisRequest and HitIsFresh, and that the answer that is
\* replayed is settled, so that it does not change any more.
ReplayRight(r) ==
    exchange[r].source # None =>
        LET s == response[r].body
        IN  /\ s \in Requests
            /\ pc[s] \notin Early
            /\ cacheOn
            /\ exchange[s].status = 200
            /\ call[s].post /\ call[s].content.object
            /\ KeyOf(Effective(exchange[s].by, call[s].content))
                  = KeyOf(Effective(provider[r], call[r].content))
            /\ MaxAge > 0 => created[r] - created[s] <= MaxAge

Offered == Store!Members(pending) \cup durable \cup reported

GatewayInv ==
    /\ TypeOK
    /\ \A r \in Requests : HandlerRight(r) /\ Audited(r) /\ KeyRight(r) /\ ReplayRight(r)
    \* The store has only what a handler is done with.
    /\ \A r \in Offered : pc[r] \in {"saved", "done", "killed"}
-----------------------------------------------------------------------------
(* Type correctness.                                                       *)

Exchange == [key : Keys, by : Providers \cup {None}, status : Statuses \cup {None},
             body : Bodies, source : Requests \cup {None}]

LEMMA KeyType ==
    ASSUME GatewayInv, NEW r \in Requests, call[r] \in Calls, NEW p \in Providers
    PROVE  KeyAt(r, p) \in Keys
BY DEF KeyAt, Keys

LEMMA AnswererType ==
    ASSUME GatewayInv, NEW r \in Requests, pc[r] = "missed", NEW p \in Answerers(r)
    PROVE  p \in Providers /\ call[r] \in Calls
<1>1. call[r] \in Calls /\ provider[r] \in Providers
  BY DEF GatewayInv, HandlerRight
<1> QED
  BY <1>1, GatewayAssumption DEF Answerers, Balanced

\* A provider's answer gets a key only for good reason.
LEMMA AnswerStep ==
    ASSUME NEW r \in Requests, Answer(r)
    PROVE  \E p \in Answerers(r), status \in {200, 429}, body \in {r, Empty, Cut},
             canCache \in BOOLEAN :
           /\ exchange' = [exchange EXCEPT ![r] = Recorded(r, p, status, body, canCache)]
           /\ response' = [response EXCEPT ![r] = [status |-> status, body |-> body]]
           /\ canCache => Cacheable(r, p) /\ status = 200 /\ body # Cut
<1> DEFINE Logged(p, status, body, canCache) ==
              exchange' = [exchange EXCEPT ![r] = Recorded(r, p, status, body, canCache)]
           Sent(status, body) ==
              response' = [response EXCEPT ![r] = [status |-> status, body |-> body]]
<1>1. \E p \in Answerers(r), status \in {200, 429}, body \in {r, Empty, Cut} :
         /\ body = Cut => Streams(r)
         /\ \E canCache \in CanCache(r, p, status, body) : Logged(p, status, body, canCache)
         /\ Sent(status, body)
  BY DEF Answer
<1> HIDE DEF Logged, Sent
<1>2. PICK p \in Answerers(r), status \in {200, 429}, body \in {r, Empty, Cut} :
         /\ \E canCache \in CanCache(r, p, status, body) : Logged(p, status, body, canCache)
         /\ Sent(status, body)
  BY <1>1
<1>3. PICK canCache \in CanCache(r, p, status, body) : Logged(p, status, body, canCache)
  BY <1>2
<1>4. /\ canCache \in BOOLEAN
      /\ canCache => Cacheable(r, p) /\ status = 200 /\ body # Cut
  BY DEF CanCache
<1>5. \E p_1 \in Answerers(r), status_1 \in {200, 429}, body_1 \in {r, Empty, Cut},
             canCache_1 \in BOOLEAN :
           /\ Logged(p_1, status_1, body_1, canCache_1)
           /\ Sent(status_1, body_1)
           /\ canCache_1 => Cacheable(r, p_1) /\ status_1 = 200 /\ body_1 # Cut
  <2>1. canCache \in BOOLEAN
    BY <1>4
  <2> WITNESS p \in Answerers(r), status \in {200, 429}, body \in {r, Empty, Cut}, canCache \in BOOLEAN
  <2> QED
    BY <1>2, <1>3, <1>4
<1> QED
  BY <1>5 DEF Logged, Sent

HandlerStep(r) ==
    \/ Arrive(r) \/ TurnAway(r) \/ Hit(r) \/ Miss(r) \/ Reject(r)
    \/ Answer(r) \/ AnswerFails(r) \/ Save(r) \/ Reply(r)

LEMMA HandlerTypes ==
    ASSUME GatewayInv, NEW r \in Requests, HandlerStep(r)
    PROVE  TypeOK'
<1> USE GatewayAssumption DEF Goto, world, settings, outcome, store, request
<1>0. TypeOK /\ HandlerRight(r) /\ Store!TypeOK
  BY DEF GatewayInv, TypeOK
<1>1. CASE Arrive(r)
  <2>1. call' \in [Requests -> Calls \cup {None}] /\ provider' \in [Requests -> Providers \cup {None}]
    <3>1. PICK c \in Calls : \E p \in IF c.pin # None THEN {c.pin} ELSE Balanced(c) :
             /\ call' = [call EXCEPT ![r] = c]
             /\ provider' = [provider EXCEPT ![r] = p]
      BY <1>1 DEF Arrive
    <3>2. PICK p \in IF c.pin # None THEN {c.pin} ELSE Balanced(c) :
             /\ call' = [call EXCEPT ![r] = c]
             /\ provider' = [provider EXCEPT ![r] = p]
      BY <3>1
    <3>3. p \in Providers
      BY DEF Balanced
    <3> QED
      BY <1>0, <3>2, <3>3 DEF TypeOK
  <2> QED
    BY <1>0, <1>1, <2>1 DEF TypeOK, Arrive, Store!TypeOK, Expired
<1>2. CASE TurnAway(r)
  <2>1. call' \in [Requests -> Calls \cup {None}]
    BY <1>0, <1>2 DEF TypeOK, TurnAway
  <2>2. Rejection(400) \in Answers /\ Rejection(503) \in Answers
    BY DEF Rejection, Answers, Statuses, Bodies
  <2>3. reply' \in [Requests -> Answers]
    BY <1>0, <1>2, <2>2 DEF TypeOK, TurnAway
  <2> QED
    BY <1>0, <1>2, <2>1, <2>3 DEF TypeOK, TurnAway, Store!TypeOK, Expired
<1>3. CASE Hit(r)
  <2>1. PICK s \in durable :
           /\ response' = [response EXCEPT ![r] = [status |-> 200, body |-> exchange[s].body]]
           /\ exchange' = [exchange EXCEPT ![r] =
                [key |-> KeyAt(r, provider[r]), by |-> provider[r], status |-> 200,
                 body |-> IF logBody THEN exchange[s].body ELSE Empty, source |-> s]]
    BY <1>3 DEF Hit, Cached
  <2>2. provider[r] \in Providers /\ KeyAt(r, provider[r]) \in Keys
    BY <1>0, <1>3, KeyType DEF Hit, HandlerRight
  <2>3. s \in Requests /\ exchange[s].body \in Bodies /\ Empty \in Bodies /\ 200 \in Statuses
    BY <1>0 DEF Store!TypeOK, TypeOK, Bodies, Statuses
  <2>4. response' \in [Requests -> Answers]
    BY <1>0, <2>1, <2>3 DEF TypeOK, Answers
  <2>5. exchange' \in [Requests -> Exchange]
    <3>1. exchange \in [Requests -> Exchange]
      BY <1>0 DEF TypeOK, Exchange
    <3>2. [key |-> KeyAt(r, provider[r]), by |-> provider[r], status |-> 200,
           body |-> IF logBody THEN exchange[s].body ELSE Empty, source |-> s] \in Exchange
      BY <2>2, <2>3 DEF Exchange
    <3> QED
      BY <2>1, <3>1, <3>2
  <2> QED
    BY <1>0, <1>3, <2>4, <2>5 DEF TypeOK, Hit, Store!TypeOK, Expired, Exchange
<1>4. CASE Miss(r)
  BY <1>0, <1>4 DEF TypeOK, Miss, Store!TypeOK, Expired
<1>5. CASE Reject(r)
  BY <1>0, <1>5 DEF TypeOK, Reject, Store!TypeOK, Expired, Rejection, Answers, Statuses, Bodies
<1>6. CASE Answer(r)
  <2>1. PICK p \in Answerers(r), status \in {200, 429}, body \in {r, Empty, Cut},
             canCache \in BOOLEAN :
           /\ exchange' = [exchange EXCEPT ![r] = Recorded(r, p, status, body, canCache)]
           /\ response' = [response EXCEPT ![r] = [status |-> status, body |-> body]]
    BY <1>6, AnswerStep
  <2>2. p \in Providers /\ KeyAt(r, p) \in Keys /\ None \in Keys
    BY <1>6, KeyType, AnswererType DEF Answer, Keys
  <2>3. body \in Bodies /\ Empty \in Bodies /\ {200, 429, 502} \subseteq Statuses
    BY DEF Bodies, Statuses
  <2>4. response' \in [Requests -> Answers]
    BY <1>0, <2>1, <2>3 DEF TypeOK, Answers
  <2>5. exchange' \in [Requests -> Exchange]
    <3>1. exchange \in [Requests -> Exchange]
      BY <1>0 DEF TypeOK, Exchange
    <3>2. Recorded(r, p, status, body, canCache) \in Exchange
      BY <2>2, <2>3 DEF Exchange, Recorded
    <3> QED
      BY <2>1, <3>1, <3>2
  <2>6. reply' \in [Requests -> Answers]
    BY <1>0, <1>6, <2>4 DEF TypeOK, Answer
  <2> QED
    BY <1>0, <1>6, <2>4, <2>5, <2>6 DEF TypeOK, Answer, Store!TypeOK, Expired, Exchange
<1>7. CASE AnswerFails(r)
  <2>1. PICK p \in Answerers(r) :
           exchange' = [exchange EXCEPT ![r] =
              [key |-> None, by |-> p, status |-> 502, body |-> Problem, source |-> None]]
    BY <1>7 DEF AnswerFails
  <2>2. [key |-> None, by |-> p, status |-> 502, body |-> Problem, source |-> None] \in Exchange
    BY <1>7, AnswererType DEF AnswerFails, Exchange, Keys, Bodies, Statuses
  <2>3. exchange' \in [Requests -> Exchange]
    BY <1>0, <2>1, <2>2 DEF TypeOK, Exchange
  <2> QED
    BY <1>0, <1>7, <2>3 DEF TypeOK, AnswerFails, Store!TypeOK, Expired, Answers, Statuses, Bodies, Exchange
<1>8. CASE Save(r)
  <2>1. pending' \in Seq(Requests) /\ reported' \subseteq Requests
    <3>1. Append(pending, r) \in Seq(Requests)
      BY <1>0, AppendProperties DEF Store!TypeOK
    <3> QED
      BY <1>0, <1>8, <3>1 DEF Save, Store!TypeOK, Store!Accept, Store!Refuse
  <2> QED
    BY <1>0, <1>8, <2>1 DEF TypeOK, Save, Store!TypeOK, Expired, Store!Accept, Store!Refuse
<1>9. CASE Reply(r)
  BY <1>0, <1>9 DEF TypeOK, Reply, Store!TypeOK, Expired
<1> QED
  BY <1>1, <1>2, <1>3, <1>4, <1>5, <1>6, <1>7, <1>8, <1>9, Zenon DEF HandlerStep

LEMMA WorldTypes ==
    ASSUME GatewayInv, StoreStep \/ Cleanup \/ Tick \/ Restart
    PROVE  TypeOK'
<1> USE GatewayAssumption DEF world, settings, outcome, request, store
<1>0. TypeOK /\ Store!TypeOK
  BY DEF GatewayInv, TypeOK
<1>1. CASE StoreStep
  <2>1. pending # <<>> => Tail(pending) \in Seq(Requests) /\ Head(pending) \in Requests
    BY <1>0, ValuesOfTail DEF Store!TypeOK
  <2> QED
    BY <1>0, <1>1, <2>1 DEF StoreStep, Store!Persist, Store!Lose, Store!Close, TypeOK,
                            Store!TypeOK, Expired
<1>2. CASE Cleanup
  BY <1>0, <1>2 DEF Cleanup, Store!Purge, TypeOK, Store!TypeOK, Expired
<1>3. CASE Tick
  BY <1>0, <1>3 DEF Tick, TypeOK, Store!TypeOK, Expired
<1>4. CASE Restart
  <2>1. Store!Members(pending) \subseteq Requests
    BY <1>0 DEF Store!TypeOK, Store!Members
  <2>2. <<>> \in Seq(Requests)
    BY EmptySeq
  <2>3. pc' \in [Requests -> {"new", "arrived", "missed", "answered", "saved", "done", "killed"}]
    BY <1>0, <1>4 DEF Restart, TypeOK
  <2>4. wiped' \subseteq Requests /\ crashes' \in 0 .. MaxCrashes
    BY <1>0, <1>4, <2>1 DEF Restart, TypeOK
  <2>5. Store!TypeOK'
    BY <1>0, <1>4, <2>2 DEF Restart, Store!Restart, Store!TypeOK, Expired
  <2> QED
    BY <1>0, <1>4, <2>3, <2>4, <2>5 DEF Restart, TypeOK
<1> QED
  BY <1>1, <1>2, <1>3, <1>4

LEMMA NextSplits ==
    ASSUME [Next]_vars
    PROVE  \/ \E r \in Requests : HandlerStep(r)
           \/ StoreStep \/ Cleanup \/ Tick \/ Restart
           \/ UNCHANGED vars
BY Zenon DEF Next, HandlerStep

LEMMA TypesKept ==
    ASSUME GatewayInv, [Next]_vars
    PROVE  TypeOK'
<1>1. CASE UNCHANGED vars
  BY <1>1 DEF GatewayInv, TypeOK, vars, world, settings, outcome, request, store,
              Store!TypeOK, Expired
<1> QED
  BY <1>1, NextSplits, HandlerTypes, WorldTypes
-----------------------------------------------------------------------------
(* What a step does to a request.                                          *)

\* What a request is and what came of it, but for the reply.
SameAt(r) ==
    /\ call'[r] = call[r] /\ provider'[r] = provider[r] /\ created'[r] = created[r]
    /\ response'[r] = response[r] /\ exchange'[r] = exchange[r]

\* The step is none of its handler's, which it may kill.
Bystander(r) ==
    /\ SameAt(r)
    /\ reply'[r] = reply[r]
    /\ pc'[r] # pc[r] => pc[r] \notin {"new", "done"} /\ pc'[r] = "killed"

LEMMA StepOf ==
    ASSUME GatewayInv, [Next]_vars, NEW r \in Requests
    PROVE  HandlerStep(r) \/ Bystander(r)
<1> USE DEF world, settings, outcome, request, store, SameAt
<1>0. TypeOK
  BY DEF GatewayInv
<1>1. ASSUME NEW q \in Requests, HandlerStep(q), q # r PROVE Bystander(r)
  <2>1. CASE Arrive(q)
    BY <1>0, <1>1, <2>1 DEF TypeOK, Arrive, Goto, Bystander
  <2>2. CASE TurnAway(q)
    BY <1>0, <1>1, <2>2 DEF TypeOK, TurnAway, Goto, Bystander
  <2>3. CASE Hit(q)
    <3>1. PICK s \in Cached(KeyAt(q, provider[q])) :
             /\ response' = [response EXCEPT ![q] = [status |-> 200, body |-> exchange[s].body]]
             /\ exchange' = [exchange EXCEPT ![q] =
                  [key |-> KeyAt(q, provider[q]), by |-> provider[q], status |-> 200,
                   body |-> IF logBody THEN exchange[s].body ELSE Empty, source |-> s]]
      BY <2>3 DEF Hit
    <3>2. exchange'[r] = exchange[r] /\ response'[r] = response[r]
      BY <1>0, <1>1, <3>1 DEF TypeOK
    <3> QED
      BY <1>0, <1>1, <2>3, <3>2 DEF TypeOK, Hit, Goto, Bystander
  <2>4. CASE Miss(q)
    BY <1>0, <1>1, <2>4 DEF TypeOK, Miss, Goto, Bystander
  <2>5. CASE Reject(q)
    BY <1>0, <1>1, <2>5 DEF TypeOK, Reject, Goto, Bystander
  <2>6. CASE Answer(q)
    <3>1. PICK p \in Answerers(q), status \in {200, 429}, body \in {q, Empty, Cut},
               canCache \in BOOLEAN :
             /\ exchange' = [exchange EXCEPT ![q] = Recorded(q, p, status, body, canCache)]
             /\ response' = [response EXCEPT ![q] = [status |-> status, body |-> body]]
      BY <2>6, AnswerStep
    <3>2. exchange'[r] = exchange[r] /\ response'[r] = response[r]
      BY <1>0, <1>1, <3>1 DEF TypeOK
    <3> QED
      BY <1>0, <1>1, <2>6, <3>2 DEF TypeOK, Answer, Goto, Bystander
  <2>7. CASE AnswerFails(q)
    BY <1>0, <1>1, <2>7 DEF TypeOK, AnswerFails, Goto, Bystander
  <2>8. CASE Save(q)
    BY <1>0, <1>1, <2>8 DEF TypeOK, Save, Goto, Bystander
  <2>9. CASE Reply(q)
    BY <1>0, <1>1, <2>9 DEF TypeOK, Reply, Goto, Bystander
  <2> QED
    BY <1>1, <2>1, <2>2, <2>3, <2>4, <2>5, <2>6, <2>7, <2>8, <2>9, Zenon DEF HandlerStep
<1>2. CASE StoreStep \/ Cleanup \/ Tick
  BY <1>2 DEF StoreStep, Cleanup, Tick, Bystander
<1>3. CASE Restart
  BY <1>0, <1>3 DEF TypeOK, Restart, Bystander
<1>4. CASE UNCHANGED vars
  BY <1>4 DEF vars, Bystander
<1> QED
  BY <1>1, <1>2, <1>3, <1>4, NextSplits

LEMMA SettledStays ==
    ASSUME GatewayInv, [Next]_vars, NEW r \in Requests, pc[r] \notin Early
    PROVE  SameAt(r) /\ pc'[r] \notin Early
<1> USE DEF world, settings, outcome, request, store, Early
<1>0. TypeOK
  BY DEF GatewayInv
<1>1. CASE Bystander(r)
  BY <1>1 DEF Bystander
<1>2. CASE HandlerStep(r)
  <2>1. Save(r) \/ Reply(r)
    BY <1>2 DEF HandlerStep, Arrive, TurnAway, Hit, Miss, Reject, Answer, AnswerFails
  <2> QED
    BY <1>0, <2>1 DEF TypeOK, Save, Reply, Goto, SameAt
<1> QED
  BY <1>1, <1>2, StepOf
-----------------------------------------------------------------------------
(* The store.                                                              *)

LEMMA TracedStays ==
    ASSUME GatewayInv, [Next]_vars, NEW r \in Requests, pc[r] \notin Early, Traced(r)
    PROVE  Traced(r)'
<1> USE DEF world, settings, outcome, request, store
<1>0. TypeOK /\ Store!TypeOK
  BY DEF GatewayInv, TypeOK
<1>1. created'[r] = created[r]
  BY SettledStays DEF SameAt
<1>2. r \in Expired => r \in Expired'
  <2>1. clock' \in Nat /\ clock \in Nat /\ clock' >= clock /\ created[r] \in Nat
    <3>1. clock' >= clock
      <4>1. clock' = clock \/ clock' = clock + 1
        <5>1. ASSUME NEW q \in Requests, HandlerStep(q) PROVE clock' = clock
          BY <5>1 DEF HandlerStep, Arrive, TurnAway, Hit, Miss, Reject, Answer, AnswerFails,
                      Save, Reply
        <5> QED
          BY <5>1, NextSplits DEF vars, StoreStep, Cleanup, Tick, Restart
      <4> QED
        BY <4>1, <1>0 DEF TypeOK
    <3> QED
      BY <3>1, <1>0, TypesKept, GatewayAssumption DEF TypeOK
  <2> QED
    BY <1>1, <2>1, GatewayAssumption DEF Expired
<1>3. ASSUME NEW q \in Requests, HandlerStep(q)
      PROVE  /\ Store!Members(pending) \subseteq Store!Members(pending')
             /\ durable' = durable /\ reported \subseteq reported' /\ wiped' = wiped
  <2>1. CASE Save(q)
    <3>1. Store!Members(pending) \subseteq Store!Members(Append(pending, q))
      BY <1>0, ValuesOfAppend DEF Store!TypeOK, Store!Members
    <3> QED
      BY <2>1, <3>1 DEF Save, Store!Accept, Store!Refuse
  <2> QED
    BY <1>3, <2>1 DEF HandlerStep, Arrive, TurnAway, Hit, Miss, Reject, Answer, AnswerFails, Reply
<1>4. ASSUME StoreStep \/ Cleanup \/ Tick \/ UNCHANGED vars
      PROVE  r \in Store!Members(pending) \cup durable \cup reported \cup wiped =>
                r \in Store!Members(pending') \cup durable' \cup reported' \cup wiped' \cup Expired
  <2>1. pending # <<>> =>
           Store!Members(pending) = {Head(pending)} \cup Store!Members(Tail(pending))
    BY <1>0, ValuesOfTail DEF Store!TypeOK, Store!Members
  <2>2. CASE StoreStep
    BY <2>1, <2>2 DEF StoreStep, Store!Persist, Store!Lose, Store!Close
  <2>3. CASE Cleanup
    BY <2>3 DEF Cleanup, Store!Purge
  <2> QED
    BY <1>4, <2>2, <2>3 DEF Tick, vars
<1>5. CASE Restart
  BY <1>2, <1>5 DEF Restart, Store!Restart, Traced
<1>6. CASE \E q \in Requests : HandlerStep(q)
  BY <1>2, <1>3, <1>6 DEF Traced
<1>7. CASE StoreStep \/ Cleanup \/ Tick \/ UNCHANGED vars
  BY <1>2, <1>4, <1>7 DEF Traced
<1> QED
  BY <1>5, <1>6, <1>7, NextSplits

LEMMA OfferedStep ==
    ASSUME GatewayInv, [Next]_vars, NEW r \in Offered'
    PROVE  r \in Offered \/ (r \in Requests /\ Save(r))
<1> USE DEF world, settings, outcome, request, store
<1>0. TypeOK /\ Store!TypeOK
  BY DEF GatewayInv, TypeOK
<1>1. ASSUME NEW q \in Requests, HandlerStep(q) PROVE r \in Offered \/ (r \in Requests /\ Save(r))
  <2>1. CASE Save(q)
    <3>1. Store!Members(Append(pending, q)) = Store!Members(pending) \cup {q}
      BY <1>0, ValuesOfAppend DEF Store!TypeOK, Store!Members
    <3>2. r \in Offered \/ r = q
      BY <2>1, <3>1 DEF Save, Store!Accept, Store!Refuse, Offered
    <3> QED
      BY <2>1, <3>2
  <2> QED
    BY <1>1, <2>1 DEF HandlerStep, Arrive, TurnAway, Hit, Miss, Reject, Answer, AnswerFails,
                      Reply, Offered
<1>2. CASE StoreStep \/ Cleanup \/ Tick \/ UNCHANGED vars
  <2>1. pending # <<>> =>
           Store!Members(pending) = {Head(pending)} \cup Store!Members(Tail(pending))
    BY <1>0, ValuesOfTail DEF Store!TypeOK, Store!Members
  <2>2. CASE StoreStep
    BY <2>1, <2>2 DEF StoreStep, Store!Persist, Store!Lose, Store!Close, Offered
  <2>3. CASE Cleanup
    BY <2>3 DEF Cleanup, Store!Purge, Offered
  <2> QED
    BY <1>2, <2>2, <2>3 DEF Tick, vars, Offered
<1>3. CASE Restart
  BY <1>3 DEF Restart, Store!Restart, Store!Members, Offered
<1> QED
  BY <1>1, <1>2, <1>3, NextSplits
-----------------------------------------------------------------------------
(* The steps that give a request its exchange.                             *)

LEMMA HitRight ==
    ASSUME GatewayInv, NEW r \in Requests, Hit(r)
    PROVE  KeyRight(r)' /\ ReplayRight(r)'
<1> USE DEF world, settings, outcome, request, store
<1>0. TypeOK /\ Store!TypeOK /\ HandlerRight(r)
  BY DEF GatewayInv, TypeOK
<1>1. PICK s \in Cached(KeyAt(r, provider[r])) :
         /\ response' = [response EXCEPT ![r] = [status |-> 200, body |-> exchange[s].body]]
         /\ exchange' = [exchange EXCEPT ![r] =
              [key |-> KeyAt(r, provider[r]), by |-> provider[r], status |-> 200,
               body |-> IF logBody THEN exchange[s].body ELSE Empty, source |-> s]]
  BY DEF Hit
<1>2. /\ exchange'[r].source = s
      /\ response'[r].body = exchange[s].body
      /\ \A q \in Requests : q # r => exchange'[q] = exchange[q]
  BY <1>0, <1>1 DEF TypeOK
<1>3. /\ s \in durable /\ s \in Requests
      /\ exchange[s].key = KeyAt(r, provider[r])
      /\ FromUpstream(s)
      /\ MaxAge > 0 => created[s] >= clock - MaxAge
  BY <1>0 DEF Cached, Store!TypeOK
<1>4. /\ pc[r] = "arrived" /\ Cacheable(r, provider[r])
      /\ call' = call /\ provider' = provider /\ created' = created /\ cacheOn' = cacheOn
      /\ Goto(r, "answered")
  BY DEF Hit
<1>5. pc[s] \notin Early /\ s # r
  BY <1>3, <1>4 DEF GatewayInv, Offered, Early
<1>6. KeyRight(s) /\ s # None
  BY <1>3, GatewayAssumption DEF GatewayInv
<1>7. /\ exchange[s].key # None
      /\ exchange[s].key = KeyOf(Effective(provider[r], call[r].content))
  BY <1>3, <1>4 DEF Cacheable, KeyAt
<1>8. KeyRight(r)'
  BY <1>2, <1>6 DEF KeyRight
<1>9. /\ cacheOn /\ call[s].post /\ call[s].content.object /\ exchange[s].status = 200
      /\ KeyOf(Effective(exchange[s].by, call[s].content))
            = KeyOf(Effective(provider[r], call[r].content))
      /\ exchange[s].body = s
  BY <1>3, <1>6, <1>7 DEF KeyRight, FromUpstream
<1>10. MaxAge > 0 => created[r] - created[s] <= MaxAge
  <2>1. created[r] \in Nat /\ created[s] \in Nat /\ clock \in Nat /\ MaxAge \in Nat
    BY <1>0, <1>3, GatewayAssumption DEF TypeOK
  <2>2. created[r] <= clock
    BY <1>0 DEF HandlerRight
  <2> QED
    BY <1>3, <2>1, <2>2
<1>11. pc'[s] \notin Early
  BY <1>0, <1>3, <1>4, <1>5 DEF Goto, TypeOK
<1>12. exchange'[s] = exchange[s] /\ response'[r].body = s
  BY <1>2, <1>3, <1>5, <1>9
<1>13. ReplayRight(r)'
  BY <1>3, <1>4, <1>9, <1>10, <1>11, <1>12 DEF ReplayRight, Early
<1> QED
  BY <1>8, <1>13

LEMMA AnswerRight ==
    ASSUME GatewayInv, NEW r \in Requests, Answer(r)
    PROVE  KeyRight(r)' /\ ReplayRight(r)'
<1> USE DEF world, settings, outcome, request, store
<1>0. TypeOK
  BY DEF GatewayInv
<1>1. PICK p \in Answerers(r), status \in {200, 429}, body \in {r, Empty, Cut},
           canCache \in BOOLEAN :
         /\ exchange' = [exchange EXCEPT ![r] = Recorded(r, p, status, body, canCache)]
         /\ response' = [response EXCEPT ![r] = [status |-> status, body |-> body]]
         /\ canCache => Cacheable(r, p) /\ status = 200 /\ body # Cut
  BY AnswerStep
<1>2. exchange'[r] = Recorded(r, p, status, body, canCache)
  BY <1>0, <1>1 DEF TypeOK
<1>3. exchange'[r].source = None
  BY <1>2 DEF Recorded
<1>4. call' = call /\ cacheOn' = cacheOn
  BY DEF Answer
<1>5. ASSUME exchange'[r].key # None PROVE KeyRight(r)'
  <2>1. canCache /\ exchange'[r].key = KeyAt(r, p)
    BY <1>2, <1>5 DEF Recorded
  <2>2. Cacheable(r, p) /\ status = 200 /\ body # Cut
    BY <1>1, <2>1
  <2>3. /\ cacheOn /\ call[r].post /\ call[r].content.object
        /\ KeyAt(r, p) = KeyOf(Effective(p, call[r].content))
    BY <2>2 DEF Cacheable, KeyAt
  <2>4. exchange'[r].status = 200 /\ exchange'[r].by = p /\ exchange'[r].body \in {r, Empty}
    BY <1>2, <2>2 DEF Recorded
  <2> QED
    BY <1>4, <2>1, <2>3, <2>4 DEF KeyRight
<1> QED
  BY <1>3, <1>5 DEF KeyRight, ReplayRight

\* No other step gives a request an exchange that has a key or a source.
LEMMA ExchangeStep ==
    ASSUME GatewayInv, [Next]_vars, NEW r \in Requests, pc[r] \in Early
    PROVE  \/ Hit(r) \/ Answer(r)
           \/ exchange'[r].key = None /\ exchange'[r].source = None
<1> USE DEF world, settings, outcome, request, store
<1>0. TypeOK /\ exchange[r] = NoExchange
  BY DEF GatewayInv, HandlerRight
<1>1. CASE Bystander(r)
  BY <1>0, <1>1 DEF Bystander, SameAt, NoExchange
<1>2. CASE AnswerFails(r)
  BY <1>0, <1>2 DEF AnswerFails, TypeOK
<1>3. CASE Arrive(r) \/ TurnAway(r) \/ Miss(r) \/ Reject(r) \/ Save(r) \/ Reply(r)
  BY <1>0, <1>3 DEF Arrive, TurnAway, Miss, Reject, Save, Reply, NoExchange
<1> QED
  BY <1>1, <1>2, <1>3, StepOf DEF HandlerStep

LEMMA KeyAndReplay ==
    ASSUME GatewayInv, [Next]_vars, NEW r \in Requests
    PROVE  KeyRight(r)' /\ ReplayRight(r)'
<1>1. CASE pc[r] \in Early
  BY <1>1, HitRight, AnswerRight, ExchangeStep DEF KeyRight, ReplayRight
<1>2. CASE pc[r] \notin Early
  <2>1. SameAt(r)
    BY <1>2, SettledStays
  <2>2. cacheOn' = cacheOn
    <3>1. ASSUME NEW q \in Requests, HandlerStep(q) PROVE cacheOn' = cacheOn
      BY <3>1 DEF HandlerStep, Arrive, TurnAway, Hit, Miss, Reject, Answer, AnswerFails,
                  Save, Reply, world, settings
    <3> QED
      BY <3>1, NextSplits DEF vars, StoreStep, Cleanup, Tick, Restart, world, settings
  <2>3. KeyRight(r)'
    BY <2>1, <2>2 DEF KeyRight, SameAt, GatewayInv
  <2>4. ASSUME exchange[r].source # None PROVE ReplayRight(r)'
    <3>1. PICK s : s = response[r].body
      OBVIOUS
    <3>2. s \in Requests /\ pc[s] \notin Early
      BY <2>4, <3>1 DEF GatewayInv, ReplayRight
    <3>3. SameAt(s) /\ pc'[s] \notin Early
      BY <3>2, SettledStays
    <3> QED
      BY <2>1, <2>2, <2>4, <3>1, <3>2, <3>3 DEF ReplayRight, SameAt, GatewayInv, Early
  <2> QED
    BY <2>1, <2>3, <2>4 DEF ReplayRight, SameAt
<1> QED
  BY <1>1, <1>2
-----------------------------------------------------------------------------
(* The handlers and the log.                                               *)

\* A request that is saved has left its trace.
LEMMA SaveLeavesTrace ==
    ASSUME GatewayInv, NEW r \in Requests, Save(r)
    PROVE  Traced(r)'
<1>1. pending \in Seq(Requests)
  BY DEF GatewayInv, TypeOK, Store!TypeOK
<1>2. Store!Members(Append(pending, r)) = Store!Members(pending) \cup {r}
  BY <1>1, ValuesOfAppend DEF Store!Members
<1> QED
  BY <1>2 DEF Save, Store!Accept, Store!Refuse, Traced

LEMMA HandlerRightKept ==
    ASSUME GatewayInv, [Next]_vars, NEW r \in Requests
    PROVE  HandlerRight(r)'
<1> USE DEF world, settings, outcome, request, store
<1>0. TypeOK /\ TypeOK' /\ HandlerRight(r)
  BY TypesKept DEF GatewayInv
<1>1. created'[r] <= clock'
  <2>1. clock' \in Nat /\ clock \in Nat /\ created[r] \in Nat /\ created[r] <= clock
    BY <1>0, GatewayAssumption DEF TypeOK, HandlerRight
  <2>2. ASSUME NEW q \in Requests, HandlerStep(q)
        PROVE  clock' = clock /\ (created' = created \/ created' = [created EXCEPT ![q] = clock])
    BY <2>2 DEF HandlerStep, Arrive, TurnAway, Hit, Miss, Reject, Answer, AnswerFails,
                Save, Reply
  <2>3. CASE \E q \in Requests : HandlerStep(q)
    BY <1>0, <2>1, <2>2, <2>3 DEF TypeOK
  <2>4. CASE StoreStep \/ Cleanup \/ Tick \/ Restart \/ UNCHANGED vars
    BY <2>1, <2>4 DEF vars, StoreStep, Cleanup, Tick, Restart
  <2> QED
    BY <2>3, <2>4, NextSplits
<1>2. CASE Bystander(r)
  <2>1. pc[r] = "saved" => Traced(r)'
    BY <1>0, <1>2, TracedStays DEF HandlerRight, Early
  <2> QED
    BY <1>0, <1>1, <1>2, <2>1 DEF HandlerRight, Bystander, SameAt, Early, Streams
<1>3. CASE HandlerStep(r)
  <2>1. CASE Arrive(r)
    <3>1. PICK c \in Calls : \E p \in IF c.pin # None THEN {c.pin} ELSE Balanced(c) :
             /\ call' = [call EXCEPT ![r] = c]
             /\ provider' = [provider EXCEPT ![r] = p]
      BY <2>1 DEF Arrive
    <3>2. PICK p \in IF c.pin # None THEN {c.pin} ELSE Balanced(c) :
             /\ call' = [call EXCEPT ![r] = c]
             /\ provider' = [provider EXCEPT ![r] = p]
      BY <3>1
    <3>3. p \in Providers
      BY GatewayAssumption DEF Balanced
    <3>4. call'[r] \in Calls /\ provider'[r] \in Providers
      BY <1>0, <3>2, <3>3 DEF TypeOK
    <3> QED
      BY <1>0, <1>1, <2>1, <3>4 DEF HandlerRight, Arrive, Goto, TypeOK, Early
  <2>2. CASE TurnAway(r)
    BY <1>0, <1>1, <2>2 DEF HandlerRight, TurnAway, Goto, TypeOK, Early
  <2>3. CASE Hit(r)
    BY <1>0, <1>1, <2>3 DEF HandlerRight, Hit, Goto, TypeOK, Early
  <2>4. CASE Miss(r)
    BY <1>0, <1>1, <2>4 DEF HandlerRight, Miss, Goto, TypeOK, Early
  <2>5. CASE Reject(r)
    BY <1>0, <1>1, <2>5 DEF HandlerRight, Reject, Goto, TypeOK, Early
  <2>6. CASE Answer(r)
    <3>1. /\ pc[r] = "missed" /\ pc'[r] = "answered"
          /\ reply' = IF Streams(r) THEN [reply EXCEPT ![r] = response'[r]] ELSE reply
          /\ call' = call /\ provider' = provider
      BY <1>0, <2>6 DEF Answer, Goto, TypeOK
    <3> QED
      BY <1>0, <1>1, <3>1 DEF HandlerRight, TypeOK, Early, Streams
  <2>7. CASE AnswerFails(r)
    BY <1>0, <1>1, <2>7 DEF HandlerRight, AnswerFails, Goto, TypeOK, Early
  <2>8. CASE Save(r)
    <3>1. pc[r] = "answered" /\ pc'[r] \in {"saved", "done"} /\ call' = call /\ provider' = provider
      BY <1>0, <2>8 DEF Save, Goto, TypeOK
    <3>2. Traced(r)'
      BY <2>8, SaveLeavesTrace
    <3> QED
      BY <1>0, <1>1, <3>1, <3>2 DEF HandlerRight, Early
  <2>9. CASE Reply(r)
    BY <1>0, <1>1, <2>9 DEF HandlerRight, Reply, Goto, TypeOK, Early
  <2> QED
    BY <1>3, <2>1, <2>2, <2>3, <2>4, <2>5, <2>6, <2>7, <2>8, <2>9, Zenon DEF HandlerStep
<1> QED
  BY <1>2, <1>3, StepOf

LEMMA AuditedKept ==
    ASSUME GatewayInv, [Next]_vars, NEW r \in Requests
    PROVE  Audited(r)'
<1> USE DEF world, settings, outcome, request, store
<1>0. TypeOK /\ TypeOK' /\ HandlerRight(r) /\ HandlerRight(r)' /\ Audited(r)
  BY TypesKept, HandlerRightKept DEF GatewayInv
<1>1. CASE pc[r] \in Early
  <2>1. reply[r] = NoAnswer /\ exchange[r] = NoExchange
    BY <1>0, <1>1 DEF HandlerRight
  <2>2. CASE TurnAway(r) \/ Reject(r)
    BY <1>0, <2>1, <2>2 DEF TurnAway, Reject, Rejection, TypeOK, Audited
  <2>3. CASE Answer(r)
    <3>1. pc'[r] = "answered"
      BY <1>0, <2>3 DEF Answer, Goto, TypeOK
    <3> QED
      BY <1>0, <3>1 DEF HandlerRight, Audited
  <2>4. CASE ~(TurnAway(r) \/ Reject(r) \/ Answer(r))
    <3>1. reply'[r] = reply[r]
      <4>1. CASE Bystander(r)
        BY <4>1 DEF Bystander
      <4>2. CASE HandlerStep(r)
        BY <1>1, <2>4, <4>2 DEF HandlerStep, Arrive, Hit, Miss, AnswerFails, Save, Reply, Early
      <4> QED
        BY <4>1, <4>2, StepOf
    <3> QED
      BY <2>1, <3>1 DEF Audited, NoAnswer
  <2> QED
    BY <2>2, <2>3, <2>4
<1>2. CASE pc[r] \notin Early
  <2>1. SameAt(r)
    BY <1>2, SettledStays
  <2>2. Traced(r) => Traced(r)'
    BY <1>2, TracedStays
  <2>3. CASE Save(r)
    BY <2>3, SaveLeavesTrace DEF Audited
  <2>4. CASE Reply(r)
    BY <1>0, <2>2, <2>4 DEF Reply, HandlerRight, Audited
  <2>5. CASE Bystander(r)
    BY <1>0, <2>1, <2>2, <2>5 DEF Audited, Bystander, SameAt, Streams
  <2>6. CASE HandlerStep(r)
    BY <1>2, <2>3, <2>4, <2>6 DEF HandlerStep, Arrive, TurnAway, Hit, Miss, Reject, Answer,
                                  AnswerFails, Early
  <2> QED
    BY <2>5, <2>6, StepOf
<1> QED
  BY <1>1, <1>2

LEMMA OfferedRight ==
    ASSUME GatewayInv, [Next]_vars, NEW r \in Offered'
    PROVE  pc'[r] \in {"saved", "done", "killed"}
<1>0. TypeOK /\ Store!TypeOK
  BY DEF GatewayInv, TypeOK
<1>1. CASE r \in Requests /\ Save(r)
  BY <1>0, <1>1 DEF Save, Goto, TypeOK
<1>2. CASE r \in Offered
  <2>1. r \in Requests /\ pc[r] \in {"saved", "done", "killed"}
    BY <1>0, <1>2 DEF GatewayInv, Offered, Store!TypeOK, Store!Members
  <2>2. CASE Bystander(r)
    BY <2>1, <2>2 DEF Bystander
  <2>3. CASE HandlerStep(r)
    BY <1>0, <2>1, <2>3 DEF HandlerStep, Arrive, TurnAway, Hit, Miss, Reject, Answer,
                            AnswerFails, Save, Reply, Goto, TypeOK
  <2> QED
    BY <2>1, <2>2, <2>3, StepOf
<1> QED
  BY <1>1, <1>2, OfferedStep
-----------------------------------------------------------------------------
(* The theorems.                                                           *)

LEMMA GatewayInit ==
    ASSUME Init
    PROVE  GatewayInv
<1> USE GatewayAssumption
<1>1. TypeOK
  <2>1. NoExchange \in Exchange /\ NoAnswer \in Answers
    BY DEF NoExchange, NoAnswer, Exchange, Answers, Keys, Bodies
  <2>2. /\ exchange \in [Requests -> Exchange]
        /\ {response, reply} \subseteq [Requests -> Answers]
    BY <2>1 DEF Init
  <2>3. Store!TypeOK
    BY EmptySeq DEF Init, Store!Init, Store!TypeOK, Expired
  <2> QED
    BY <2>2, <2>3 DEF Init, TypeOK, Exchange
<1>2. ASSUME NEW r \in Requests
      PROVE  HandlerRight(r) /\ Audited(r) /\ KeyRight(r) /\ ReplayRight(r)
  BY DEF Init, HandlerRight, Audited, KeyRight, ReplayRight, NoExchange, NoAnswer
<1>3. Offered = {}
  BY DEF Init, Store!Init, Offered, Store!Members
<1> QED
  BY <1>1, <1>2, <1>3 DEF GatewayInv

\* The handlers, the cache and the log keep GatewayInv, whatever the requests,
\* failovers, cleanups and restarts and in whatever order: a key stands for the body
\* its answer was generated for, a replayed answer is settled, and the store is
\* only offered what a handler is done with.
THEOREM GatewayInvariance == Spec => []GatewayInv
<1>1. Init => GatewayInv
  BY GatewayInit
<1>2. GatewayInv /\ [Next]_vars => GatewayInv'
  <2> SUFFICES ASSUME GatewayInv, [Next]_vars PROVE GatewayInv'
    OBVIOUS
  <2>1. TypeOK'
    BY TypesKept
  <2>2. \A r \in Requests :
           (HandlerRight(r) /\ Audited(r) /\ KeyRight(r) /\ ReplayRight(r))'
    BY HandlerRightKept, AuditedKept, KeyAndReplay
  <2>3. \A r \in Offered' : pc'[r] \in {"saved", "done", "killed"}
    BY OfferedRight
  <2> QED
    BY <2>1, <2>2, <2>3 DEF GatewayInv
<1> QED
  BY <1>1, <1>2, PTL DEF Spec

\* Every variable of the request handlers keeps its type.
THEOREM GatewayTypeCorrect == Spec => []TypeOK
<1>1. GatewayInv => TypeOK
  BY DEF GatewayInv
<1> QED
  BY <1>1, GatewayInvariance, PTL

\* Whatever is replayed from the log by serveCachedResponse is a whole 200 answer
\* to a POST that asked its provider for what this request asks of its primary,
\* the user aside, however the two went through failovers and model overrides.
THEOREM HitsAnswerTheRequest == Spec => []HitAnswersThisRequest
<1>1. GatewayInv => HitAnswersThisRequest
  BY DEF GatewayInv, ReplayRight, HitAnswersThisRequest
<1> QED
  BY <1>1, GatewayInvariance, PTL

\* A replayed answer was generated at most max_age ago: a replay is logged with
\* its own time, but FindCachedResponse never takes a replay for an answer.
THEOREM HitsAreFresh == Spec => []HitIsFresh
<1>1. GatewayInv => HitIsFresh
  BY DEF GatewayInv, ReplayRight, HitIsFresh
<1> QED
  BY <1>1, GatewayInvariance, PTL

\* A client never gets an answer that was not offered to the store before,
\* unless it is a stream that is being copied or was not read at all.
THEOREM AnswersAreLogged == Spec => []AnswersAreAudited
<1>1. GatewayInv => AnswersAreAudited
  BY DEF GatewayInv, Audited, AnswersAreAudited
<1> QED
  BY <1>1, GatewayInvariance, PTL

\* Seen from the log, the gateway is one of the programs AuditLog allows: handlers
\* offer exchanges by Accept and Refuse, the goroutines of the store and the restart
\* take its other steps, and lookups, failovers and replies leave it alone.  So what
\* Storage is proved to implement is what the cache relies on.
THEOREM GatewayUsesTheLog == Spec => Store!Spec
<1>1. Init => Store!Init
  BY DEF Init
<1>2. ASSUME [Next]_vars PROVE [Store!Next]_(Store!log)
  <2>1. ASSUME UNCHANGED store PROVE UNCHANGED Store!log
    BY <2>1 DEF store, Store!log
  <2>2. CASE UNCHANGED vars
    BY <2>1, <2>2 DEF vars
  <2>3. ASSUME NEW r \in Requests,
               \/ Arrive(r) \/ TurnAway(r) \/ Hit(r) \/ Miss(r) \/ Reject(r)
               \/ Answer(r) \/ AnswerFails(r) \/ Reply(r)
        PROVE  UNCHANGED Store!log
    BY <2>1, <2>3 DEF Arrive, TurnAway, Hit, Miss, Reject, Answer, AnswerFails, Reply
  <2>4. ASSUME NEW r \in Requests, Save(r) PROVE Store!Next
    BY <2>4 DEF Save, Store!Next
  <2>5. CASE StoreStep
    BY <2>5 DEF StoreStep, Store!Next
  <2>6. CASE Cleanup
    BY <2>6 DEF Cleanup, Store!Next
  <2>7. CASE Tick
    BY <2>1, <2>7 DEF Tick
  <2>8. CASE Restart
    BY <2>8 DEF Restart, Store!Next
  <2> QED
    BY <1>2, <2>2, <2>3, <2>4, <2>5, <2>6, <2>7, <2>8 DEF Next
<1> QED
  BY <1>1, <1>2, PTL DEF Spec, Store!Spec
=============================================================================
