--------------------------- MODULE StorageProofs ---------------------------
(***************************************************************************)
(* Theorems about Storage and the reports over its tables, for every number *)
(* of exchanges, every capacity of the queue, every retention period and    *)
(* any number of crashes.                                                   *)
(***************************************************************************)
EXTENDS Reports, DataProofs

-----------------------------------------------------------------------------
(* What the operations on the queue do to the set of its members.          *)

LEMMA MembersEmpty == Members(<<>>) = {}
BY DEF Members

LEMMA MembersAppend ==
    ASSUME NEW S, NEW q \in Seq(S), NEW e \in S
    PROVE  Members(Append(q, e)) = Members(q) \cup {e}
<1>1. /\ Append(q, e) \in Seq(S)
      /\ Len(Append(q, e)) = Len(q) + 1
      /\ \A i \in 1 .. Len(q) : Append(q, e)[i] = q[i]
      /\ Append(q, e)[Len(q) + 1] = e
  BY AppendProperties
<1>2. Len(q) \in Nat
  OBVIOUS
<1>3. \A x : x \in Members(Append(q, e)) <=> x \in Members(q) \cup {e}
  BY <1>1, <1>2 DEF Members
<1> QED
  BY <1>3

LEMMA MembersHeadTail ==
    ASSUME NEW S, NEW q \in Seq(S), q # <<>>
    PROVE  Members(q) = {Head(q)} \cup Members(Tail(q))
<1>1. /\ Tail(q) \in Seq(S)
      /\ Len(Tail(q)) = Len(q) - 1
      /\ \A i \in 1 .. Len(Tail(q)) : Tail(q)[i] = q[i + 1]
  BY HeadTailProperties
<1>2. Len(q) \in Nat /\ Len(q) >= 1 /\ Head(q) = q[1]
  OBVIOUS
<1>3. ASSUME NEW x \in Members(q) PROVE x \in {Head(q)} \cup Members(Tail(q))
  <2>1. PICK i \in 1 .. Len(q) : x = q[i]
    BY <1>3 DEF Members
  <2>2. CASE i = 1
    BY <2>1, <2>2, <1>2
  <2>3. CASE i # 1
    <3>1. i - 1 \in 1 .. Len(Tail(q)) /\ Tail(q)[i - 1] = q[i]
      BY <2>1, <2>3, <1>1, <1>2
    <3> QED
      BY <3>1, <2>1 DEF Members
  <2> QED
    BY <2>2, <2>3
<1>4. ASSUME NEW x \in Members(Tail(q)) PROVE x \in Members(q)
  <2>1. PICK i \in 1 .. Len(Tail(q)) : x = Tail(q)[i]
    BY <1>4 DEF Members
  <2>2. i + 1 \in 1 .. Len(q) /\ x = q[i + 1]
    BY <2>1, <1>1, <1>2
  <2> QED
    BY <2>2 DEF Members
<1>5. Head(q) \in Members(q)
  BY <1>2 DEF Members
<1> QED
  BY <1>3, <1>4, <1>5

LEMMA MembersConcat ==
    ASSUME NEW S, NEW p \in Seq(S), NEW q \in Seq(S)
    PROVE  Members(p \o q) = Members(p) \cup Members(q)
<1>1. /\ p \o q \in Seq(S)
      /\ Len(p \o q) = Len(p) + Len(q)
      /\ \A i \in 1 .. Len(p) + Len(q) :
            (p \o q)[i] = IF i <= Len(p) THEN p[i] ELSE q[i - Len(p)]
  BY ConcatProperties
<1>2. Len(p) \in Nat /\ Len(q) \in Nat
  OBVIOUS
<1>3. ASSUME NEW x \in Members(p \o q) PROVE x \in Members(p) \cup Members(q)
  <2>1. PICK i \in 1 .. Len(p) + Len(q) : x = (p \o q)[i]
    BY <1>1, <1>3 DEF Members
  <2>2. CASE i <= Len(p)
    BY <2>1, <2>2, <1>1, <1>2 DEF Members
  <2>3. CASE ~(i <= Len(p))
    <3>1. i - Len(p) \in 1 .. Len(q) /\ x = q[i - Len(p)]
      BY <2>1, <2>3, <1>1, <1>2
    <3> QED
      BY <3>1 DEF Members
  <2> QED
    BY <2>2, <2>3
<1>4. ASSUME NEW x \in Members(p) PROVE x \in Members(p \o q)
  <2>1. PICK i \in 1 .. Len(p) : x = p[i]
    BY <1>4 DEF Members
  <2>2. i \in 1 .. Len(p \o q) /\ x = (p \o q)[i]
    BY <2>1, <1>1, <1>2
  <2> QED
    BY <2>2 DEF Members
<1>5. ASSUME NEW x \in Members(q) PROVE x \in Members(p \o q)
  <2>1. PICK i \in 1 .. Len(q) : x = q[i]
    BY <1>5 DEF Members
  <2>2. Len(p) + i \in 1 .. Len(p \o q) /\ x = (p \o q)[Len(p) + i]
    BY <2>1, <1>1, <1>2
  <2> QED
    BY <2>2 DEF Members
<1> QED
  BY <1>3, <1>4, <1>5

LEMMA MembersType ==
    ASSUME NEW S, NEW q \in Seq(S)
    PROVE  Members(q) \subseteq S
BY DEF Members
-----------------------------------------------------------------------------
(* Type correctness.                                                       *)

LEMMA HandlerTypes ==
    ASSUME TypeOK, NEW e \in Exchanges, Handler(e)
    PROVE  TypeOK'
<1> USE StorageAssumption
<1>1. CASE Begin(e)
  BY <1>1 DEF TypeOK, Begin, CallerStates, processVars, workerVars
<1>2. CASE CheckStopping(e)
  BY <1>2 DEF TypeOK, CheckStopping, CallerStates, processVars, workerVars
<1>3. CASE Send(e)
  <2>1. Append(queue, e) \in Seq(Exchanges)
    BY AppendProperties DEF TypeOK
  <2>2. queue' \in Seq(Exchanges)
    BY <1>3, <2>1 DEF TypeOK, Send
  <2>3. caller' \in [Exchanges -> CallerStates] /\ reported' \subseteq Exchanges
    BY <1>3 DEF TypeOK, Send, CallerStates
  <2> QED
    BY <1>3, <2>2, <2>3 DEF TypeOK, Send, workerVars
<1> QED
  BY <1>1, <1>2, <1>3 DEF Handler

LEMMA WorkerTypes ==
    ASSUME TypeOK, Worker
    PROVE  TypeOK'
<1>1. CASE Receive
  <2>1. /\ Head(queue) \in Exchanges
        /\ Tail(queue) \in Seq(Exchanges)
        /\ Len(Tail(queue)) = Len(queue) - 1
    BY <1>1, HeadTailProperties DEF TypeOK, Receive
  <2>2. Len(Tail(queue)) <= QueueCap
    BY <2>1, StorageAssumption DEF TypeOK
  <2> QED
    BY <1>1, <2>1, <2>2 DEF TypeOK, Receive, handlerVars
<1>2. CASE Insert
  <2>1. task # <<>> /\ Head(task) \in Exchanges
    BY <1>2, HeadTailProperties DEF TypeOK, Insert
  <2>2. RowsOf(Head(task)) \subseteq Tables
    BY <2>1 DEF TypeOK, RowsOf, Tables
  <2> QED
    BY <1>2, <2>2 DEF TypeOK, Insert, handlerVars
<1>3. CASE Commit
  <2>1. Head(task) \in Exchanges
    BY <1>3, HeadTailProperties DEF TypeOK, Commit
  <2> QED
    BY <1>3, <2>1 DEF TypeOK, Commit, EndTransaction, handlerVars
<1>4. CASE Rollback
  <2>1. Head(task) \in Exchanges
    BY <1>4, HeadTailProperties DEF TypeOK, Rollback
  <2> QED
    BY <1>4, <2>1 DEF TypeOK, Rollback, EndTransaction, handlerVars
<1>5. CASE WorkerExit
  BY <1>5 DEF TypeOK, WorkerExit, handlerVars
<1> QED
  BY <1>1, <1>2, <1>3, <1>4, <1>5 DEF Worker

LEMMA CleanerTypes ==
    ASSUME TypeOK, Cleaner
    PROVE  TypeOK'
<1>1. Cleanup => db' \in [Tables -> SUBSET Exchanges]
  BY DEF TypeOK, Cleanup, DeleteExpired
<1>2. CASE StartRetention
  BY <1>1, <1>2 DEF TypeOK, StartRetention, handlerVars, workerVars
<1>4. CASE PeriodicCleanup
  BY <1>1, <1>4 DEF TypeOK, PeriodicCleanup, handlerVars, processVars, workerVars
<1>5. CASE CleanerExit
  BY <1>5 DEF TypeOK, CleanerExit, handlerVars, workerVars
<1> QED
  BY <1>2, <1>4, <1>5 DEF Cleaner

LEMMA CloseTypes ==
    ASSUME TypeOK, Close
    PROVE  TypeOK'
BY DEF TypeOK, Close, SetStopping, CloseSignal, CloseQueue, CloseDB, CloseStep,
       CloserStates, handlerVars, workerVars

LEMMA EnvironmentTypes ==
    ASSUME TypeOK, Tick \/ Crash \/ UNCHANGED vars
    PROVE  TypeOK'
<1> USE StorageAssumption
<1>1. CASE Tick
  BY <1>1 DEF TypeOK, Tick, handlerVars, processVars, workerVars
<1>2. CASE Crash
  <2>1. Members(Pending) \subseteq Exchanges
    BY ConcatProperties, MembersType DEF TypeOK, Pending
  <2>2. caller' \in [Exchanges -> CallerStates]
    BY <1>2 DEF TypeOK, Crash, CallerStates
  <2> QED
    BY <1>2, <2>1, <2>2 DEF TypeOK, Crash, CloserStates
<1>3. CASE UNCHANGED vars
  BY <1>3 DEF TypeOK, vars, handlerVars, processVars, workerVars
<1> QED
  BY <1>1, <1>2, <1>3

LEMMA InitTypes == Init => TypeOK
BY StorageAssumption DEF Init, TypeOK, CallerStates, CloserStates

LEMMA NextTypes == TypeOK /\ [Next]_vars => TypeOK'
<1> SUFFICES ASSUME TypeOK, [Next]_vars
             PROVE  TypeOK'
  OBVIOUS
<1>1. CASE \E e \in Exchanges : Handler(e)
  BY <1>1, HandlerTypes
<1>2. CASE Worker
  BY <1>2, WorkerTypes
<1>3. CASE Cleaner
  BY <1>3, CleanerTypes
<1>4. CASE Close
  BY <1>4, CloseTypes
<1>5. CASE Tick \/ Crash \/ UNCHANGED vars
  BY <1>5, EnvironmentTypes
<1> QED
  BY <1>1, <1>2, <1>3, <1>4, <1>5 DEF Next, Terminated

\* Every variable of the store keeps its type, whatever the interleaving of
\* handlers, worker, retention goroutine, Close and crashes.
THEOREM TypeCorrect == Spec => []TypeOK
<1>1. Init => TypeOK
  BY InitTypes
<1>2. TypeOK /\ [Next]_vars => TypeOK'
  BY NextTypes
<1> QED
  BY <1>1, <1>2, PTL DEF Spec
-----------------------------------------------------------------------------
(* What is pending, step by step.                                          *)

LEMMA PendingMembers ==
    ASSUME TypeOK
    PROVE  /\ Pending \in Seq(Exchanges)
           /\ Members(Pending) = Members(task) \cup Members(queue)
           /\ Members(Pending) \subseteq Exchanges
BY ConcatProperties, MembersConcat, MembersType DEF TypeOK, Pending

\* A task is a sequence of at most one exchange.
LEMMA TaskShape ==
    ASSUME TypeOK, OneTask, task # <<>>
    PROVE  /\ Head(task) \in Exchanges
           /\ task = <<Head(task)>>
           /\ Members(task) = {Head(task)}
<1>1. Len(task) = 1 /\ task[1] \in Exchanges /\ Head(task) = task[1]
  <2>1. task \in Seq(Exchanges) /\ Len(task) \in Nat \ {0}
    BY EmptySeq DEF TypeOK
  <2>2. Len(task) = 1
    BY <2>1 DEF OneTask
  <2> QED
    BY <2>1, <2>2
<1>2. task = <<task[1]>>
  <2>1. <<task[1]>> \in Seq(Exchanges) /\ Len(<<task[1]>>) = 1
    BY <1>1
  <2> QED
    BY <1>1, <2>1, SeqEqual DEF TypeOK
<1>3. Members(task) = {task[1]}
  BY <1>1 DEF Members
<1> QED
  BY <1>1, <1>2, <1>3

LEMMA PendingEmpty ==
    ASSUME TypeOK, task = <<>>, queue = <<>>
    PROVE  Pending = <<>>
BY DEF Pending

LEMMA PendingKept ==
    ASSUME UNCHANGED <<task, queue>>
    PROVE  Pending' = Pending
BY DEF Pending
-----------------------------------------------------------------------------
(* Each step preserves StoreInv: one lemma per action, one step per        *)
(* conjunct the action can disturb.                                        *)

LEMMA BeginInv ==
    ASSUME StoreInv, NEW e \in Exchanges, Begin(e)
    PROVE  StoreInv'
<1> USE DEF Begin, processVars, workerVars
<1>1. TypeOK /\ TypeOK'
  BY HandlerTypes DEF StoreInv, Handler
<1>2. Pending' = Pending /\ UNCHANGED <<task, queue, db, parts, reported, wiped, clock>>
  BY PendingKept
<1>3. /\ caller' = [caller EXCEPT ![e] = "serving"]
      /\ \A x \in Exchanges \ {e} : caller'[x] = caller[x] /\ created'[x] = created[x]
      /\ caller[e] = "new" /\ caller'[e] = "serving"
  BY <1>1 DEF TypeOK
<1>4. WholeExchanges'
  BY <1>2 DEF StoreInv, WholeExchanges, RowsOf
<1>5. NoSilentLoss'
  BY <1>2, <1>3 DEF StoreInv, NoSilentLoss, Expired
<1>6. HandedOver'
  <2>1. Members(Pending) \cup db["request_logs"] \cup reported \subseteq Exchanges
    BY <1>1, PendingMembers DEF TypeOK, Tables, MandatoryTables
  <2> QED
    BY <2>1, <1>2, <1>3 DEF StoreInv, HandedOver
<1>7. QuietWhenClosed' /\ OneTask' /\ StopOrder'
  BY <1>2 DEF StoreInv, QuietWhenClosed, OneTask, StopOrder, RowsOf, QueueClosed
<1> QED
  BY <1>1, <1>4, <1>5, <1>6, <1>7 DEF StoreInv

LEMMA CheckStoppingInv ==
    ASSUME StoreInv, NEW e \in Exchanges, CheckStopping(e)
    PROVE  StoreInv'
<1> USE DEF CheckStopping, processVars, workerVars
<1>1. TypeOK /\ TypeOK'
  BY HandlerTypes DEF StoreInv, Handler
<1>2. Pending' = Pending /\ UNCHANGED <<task, queue, db, wiped, clock, created>>
  BY PendingKept
<1>3. /\ caller[e] = "serving"
      /\ caller'[e] \in {"sending", "refused"}
      /\ caller'[e] = "refused" => e \in reported'
      /\ \A x \in Exchanges \ {e} : caller'[x] = caller[x] /\ parts'[x] = parts[x]
      /\ reported \subseteq reported'
      /\ reported' \subseteq (IF caller'[e] = "refused" THEN reported \cup {e} ELSE reported)
  BY <1>1 DEF TypeOK
<1>4. e \notin Members(Pending) /\ e \notin db["request_logs"] /\ e \notin reported
  BY <1>3 DEF StoreInv, HandedOver
<1>5. WholeExchanges'
  BY <1>2, <1>3, <1>4 DEF StoreInv, WholeExchanges, RowsOf
<1>6. NoSilentLoss'
  BY <1>2, <1>3 DEF StoreInv, NoSilentLoss, Expired
<1>7. HandedOver'
  <2>1. Members(Pending) \cup db["request_logs"] \cup reported \subseteq Exchanges
    BY <1>1, PendingMembers DEF TypeOK, Tables, MandatoryTables
  <2> QED
    BY <2>1, <1>2, <1>3, <1>4 DEF StoreInv, HandedOver
<1>8. OneTask'
  <2>1. task # <<>> => Head(task) \in Exchanges \ {e}
    BY <1>1, <1>4, TaskShape, PendingMembers DEF StoreInv
  <2> QED
    BY <2>1, <1>2, <1>3 DEF StoreInv, OneTask, RowsOf
<1>9. QuietWhenClosed' /\ StopOrder'
  BY <1>2 DEF StoreInv, QuietWhenClosed, StopOrder, QueueClosed
<1> QED
  BY <1>1, <1>5, <1>6, <1>7, <1>8, <1>9 DEF StoreInv

LEMMA SendInv ==
    ASSUME StoreInv, NEW e \in Exchanges, Send(e)
    PROVE  StoreInv'
<1> USE DEF Send, workerVars
<1>1. TypeOK /\ TypeOK'
  BY HandlerTypes DEF StoreInv, Handler
<1>2. UNCHANGED <<task, txRows, db, wiped, clock, created, parts, worker, cleaner, closer>>
  OBVIOUS
<1>3. /\ caller[e] = "sending"
      /\ \A x \in Exchanges \ {e} : caller'[x] = caller[x]
      /\ reported \subseteq reported'
      /\ reported' \subseteq reported \cup {e}
      /\ caller'[e] \in {"accepted", "dropped", "panicked"}
  BY <1>1 DEF TypeOK
<1>4. \/ /\ caller'[e] = "accepted" /\ reported' = reported /\ ~QueueClosed
         /\ Members(Pending') = Members(Pending) \cup {e}
      \/ /\ caller'[e] # "accepted" /\ e \in reported' /\ Pending' = Pending
  <2>1. CASE queue' = queue
    BY <1>1, <2>1, PendingKept DEF TypeOK
  <2>2. CASE queue' = Append(queue, e) /\ caller'[e] = "accepted" /\ ~QueueClosed
                /\ reported' = reported
    <3>1. Members(queue') = Members(queue) \cup {e}
      BY <1>1, <2>2, MembersAppend DEF TypeOK
    <3>2. Members(Pending') = Members(task') \cup Members(queue')
      BY <1>1, MembersConcat DEF TypeOK, Pending
    <3>3. Members(Pending) = Members(task) \cup Members(queue)
      BY <1>1, PendingMembers
    <3> QED
      BY <3>1, <3>2, <3>3, <2>2, <1>2
  <2> QED
    BY <2>1, <2>2, <1>1 DEF TypeOK
<1>5. Members(Pending) \cup db["request_logs"] \cup reported \subseteq Exchanges
  BY <1>1, PendingMembers DEF TypeOK, Tables, MandatoryTables
<1>6. e \notin Members(Pending) \cup db["request_logs"] \cup reported
  BY <1>3 DEF StoreInv, HandedOver
<1>7. WholeExchanges'
  BY <1>2 DEF StoreInv, WholeExchanges, RowsOf
<1>8. NoSilentLoss'
  <2> SUFFICES ASSUME NEW x \in Exchanges,
                      caller'[x] \in {"accepted", "dropped", "refused", "panicked"}
               PROVE  \/ x \in Members(Pending') \cup db'["request_logs"] \cup reported' \cup wiped'
                      \/ Retention > 0 /\ Expired(x)'
    BY DEF NoSilentLoss
  <2>1. CASE x = e
    BY <2>1, <1>4
  <2>2. CASE x # e
    BY <2>2, <1>2, <1>3, <1>4 DEF StoreInv, NoSilentLoss, Expired
  <2> QED
    BY <2>1, <2>2
<1>9. HandedOver'
  <2>1. ASSUME NEW x \in Members(Pending') \cup db'["request_logs"]
        PROVE  caller'[x] = "accepted"
    BY <1>2, <1>3, <1>4, <1>5, <1>6 DEF StoreInv, HandedOver
  <2>2. ASSUME NEW x \in reported'
        PROVE  caller'[x] \notin {"new", "serving", "sending"}
    BY <1>3, <1>5 DEF StoreInv, HandedOver
  <2> QED
    BY <2>1, <2>2 DEF HandedOver
<1>10. QuietWhenClosed' /\ StopOrder'
  BY <1>2, <1>4 DEF StoreInv, QuietWhenClosed, StopOrder, QueueClosed
<1>11. OneTask'
  BY <1>2 DEF StoreInv, OneTask, RowsOf
<1> QED
  BY <1>1, <1>7, <1>8, <1>9, <1>10, <1>11 DEF StoreInv

\* Taking a task off the channel changes nothing about what is pending.
LEMMA ReceivePending ==
    ASSUME TypeOK, Receive
    PROVE  /\ Pending' = Pending
           /\ queue = <<Head(queue)>> \o Tail(queue)
           /\ Pending = queue
<1>1. Head(queue) \in Exchanges /\ Tail(queue) \in Seq(Exchanges)
  BY HeadTailProperties DEF TypeOK, Receive
<1>2. queue = <<Head(queue)>> \o Tail(queue)
  <2>1. <<Head(queue)>> \in Seq(Exchanges) /\ Len(<<Head(queue)>>) = 1
    BY <1>1
  <2> DEFINE r == <<Head(queue)>> \o Tail(queue)
  <2>2. /\ r \in Seq(Exchanges)
        /\ Len(r) = 1 + Len(Tail(queue))
        /\ \A i \in 1 .. 1 + Len(Tail(queue)) :
              r[i] = IF i <= 1 THEN <<Head(queue)>>[i] ELSE Tail(queue)[i - 1]
    BY <1>1, <2>1, ConcatProperties
  <2>3. /\ Len(Tail(queue)) = Len(queue) - 1
        /\ \A i \in 1 .. Len(Tail(queue)) : Tail(queue)[i] = queue[i + 1]
        /\ Len(queue) \in Nat /\ Len(queue) >= 1 /\ Head(queue) = queue[1]
    BY HeadTailProperties DEF TypeOK, Receive
  <2>4. Len(r) = Len(queue)
    BY <2>2, <2>3
  <2>5. ASSUME NEW i \in 1 .. Len(r) PROVE r[i] = queue[i]
    <3>1. CASE i = 1
      BY <3>1, <2>2, <2>3
    <3>2. CASE i # 1
      <4>1. i - 1 \in 1 .. Len(Tail(queue)) /\ r[i] = Tail(queue)[i - 1]
        BY <3>2, <2>2, <2>3
      <4> QED
        BY <4>1, <2>3
    <3> QED
      BY <3>1, <3>2
  <2> QED
    BY <2>2, <2>4, <2>5, SeqEqual DEF TypeOK
<1>3. <<>> \o queue = queue
  BY ConcatEmptySeq DEF TypeOK
<1> QED
  BY <1>2, <1>3 DEF Receive, Pending

LEMMA ReceiveInv ==
    ASSUME StoreInv, Receive
    PROVE  StoreInv'
<1> USE DEF Receive, handlerVars
<1>1. TypeOK /\ TypeOK'
  BY WorkerTypes DEF StoreInv, Worker
<1>2. /\ Pending' = Pending /\ Pending = queue
      /\ UNCHANGED <<db, parts, caller, created, reported, wiped, clock, txRows, worker, cleaner, closer>>
  BY <1>1, ReceivePending
<1>3. WholeExchanges' /\ NoSilentLoss' /\ HandedOver'
  BY <1>2 DEF StoreInv, WholeExchanges, NoSilentLoss, HandedOver, RowsOf, Expired
<1>4. QuietWhenClosed' /\ StopOrder'
  BY <1>2 DEF StoreInv, QuietWhenClosed, StopOrder, QueueClosed
<1>5. OneTask'
  <2>1. txRows = {}
    BY DEF StoreInv, OneTask
  <2>2. Len(task') = 1
    OBVIOUS
  <2> QED
    BY <2>1, <2>2, <1>2 DEF OneTask
<1> QED
  BY <1>1, <1>3, <1>4, <1>5 DEF StoreInv

LEMMA InsertInv ==
    ASSUME StoreInv, Insert
    PROVE  StoreInv'
<1> USE DEF Insert, handlerVars
<1>1. TypeOK /\ TypeOK'
  BY WorkerTypes DEF StoreInv, Worker
<1>2. /\ Pending' = Pending
      /\ UNCHANGED <<task, db, parts, caller, created, reported, wiped, clock, worker, cleaner, closer>>
  BY PendingKept
<1>3. WholeExchanges' /\ NoSilentLoss' /\ HandedOver'
  BY <1>2 DEF StoreInv, WholeExchanges, NoSilentLoss, HandedOver, RowsOf, Expired
<1>4. QuietWhenClosed' /\ StopOrder'
  BY <1>2 DEF StoreInv, QuietWhenClosed, StopOrder, QueueClosed
<1>5. OneTask'
  <2>1. txRows' \subseteq RowsOf(Head(task))
    BY DEF StoreInv, OneTask
  <2> QED
    BY <2>1, <1>2 DEF StoreInv, OneTask, RowsOf
<1> QED
  BY <1>1, <1>3, <1>4, <1>5 DEF StoreInv

\* The end of a transaction takes the oldest exchange off what is pending.
LEMMA EndPending ==
    ASSUME TypeOK, OneTask, task # <<>>, EndTransaction
    PROVE  /\ Pending' = queue
           /\ Members(Pending) = {Head(task)} \cup Members(Pending')
           /\ UNCHANGED <<queue, parts, caller, created, wiped, clock, worker, cleaner, closer>>
<1>1. task' = <<>> /\ queue' = queue
  BY DEF EndTransaction
<1>2. Pending' = queue
  BY <1>1, ConcatEmptySeq DEF TypeOK, Pending
<1>3. Members(Pending) = {Head(task)} \cup Members(queue)
  BY PendingMembers, TaskShape
<1> QED
  BY <1>2, <1>3 DEF EndTransaction, handlerVars

\* Commit makes the exchange at hand durable as a whole, Rollback reports it.
LEMMA EndInv ==
    ASSUME StoreInv, Commit \/ Rollback
    PROVE  StoreInv'
<1>1. TypeOK /\ TypeOK'
  BY WorkerTypes DEF StoreInv, Worker
<1>2. task # <<>> /\ OneTask /\ EndTransaction
  BY DEF StoreInv, Commit, Rollback
<1>3. /\ Pending' = queue
      /\ Members(Pending) = {Head(task)} \cup Members(Pending')
      /\ UNCHANGED <<queue, parts, caller, created, wiped, clock, worker, cleaner, closer>>
  BY <1>1, <1>2, EndPending
<1>4. Head(task) \in Exchanges /\ "request_logs" \in Tables
  BY <1>1, <1>2, TaskShape DEF Tables, MandatoryTables
<1>5. \/ /\ Commit /\ txRows = RowsOf(Head(task)) /\ reported' = reported
         /\ \A t \in Tables : db'[t] = IF t \in txRows THEN db[t] \cup {Head(task)} ELSE db[t]
      \/ Rollback /\ reported' = reported \cup {Head(task)} /\ db' = db
  <2>1. CASE Commit
    BY <2>1, <1>2 DEF Commit, OneTask
  <2>2. CASE Rollback
    BY <2>2 DEF Rollback
  <2> QED
    BY <2>1, <2>2
<1>6. /\ db["request_logs"] \subseteq db'["request_logs"] /\ reported \subseteq reported'
      /\ db'["request_logs"] \subseteq db["request_logs"] \cup {Head(task)}
      /\ Head(task) \in db'["request_logs"] \cup reported'
      /\ reported' \subseteq reported \cup {Head(task)}
  BY <1>4, <1>5 DEF RowsOf, MandatoryTables
<1>7. WholeExchanges'
  <2> SUFFICES ASSUME NEW x \in Exchanges, NEW t \in Tables
               PROVE  x \in db'[t] <=> x \in db'["request_logs"] /\ t \in RowsOf(x)'
    BY DEF WholeExchanges
  <2>1. x \in db[t] <=> x \in db["request_logs"] /\ t \in RowsOf(x)
    BY DEF StoreInv, WholeExchanges
  <2>2. RowsOf(x)' = RowsOf(x) /\ "request_logs" \in RowsOf(x)
    BY <1>3 DEF RowsOf, MandatoryTables
  <2>3. CASE Rollback /\ db' = db
    BY <2>1, <2>2, <2>3
  <2>4. CASE /\ txRows = RowsOf(Head(task))
             /\ \A u \in Tables : db'[u] = IF u \in txRows THEN db[u] \cup {Head(task)} ELSE db[u]
    <3>1. db'["request_logs"] = db["request_logs"] \cup {Head(task)}
      BY <2>4, <1>4 DEF RowsOf, MandatoryTables
    <3>2. CASE x = Head(task)
      <4>1. txRows = RowsOf(x) /\ x \in db'["request_logs"]
        BY <2>4, <3>1, <3>2
      <4>2. x \in db'[t] <=> t \in RowsOf(x)
        BY <2>1, <2>4, <3>2, <4>1
      <4> QED
        BY <4>1, <4>2, <2>2
    <3>3. CASE x # Head(task)
      <4>1. x \in db'[t] <=> x \in db[t]
        BY <2>4, <3>3
      <4>2. x \in db'["request_logs"] <=> x \in db["request_logs"]
        BY <3>1, <3>3
      <4> QED
        BY <4>1, <4>2, <2>1, <2>2
    <3> QED
      BY <3>2, <3>3
  <2> QED
    BY <2>3, <2>4, <1>5
<1>8. NoSilentLoss'
  BY <1>3, <1>6 DEF StoreInv, NoSilentLoss, Expired
<1>9. HandedOver'
  <2>1. caller[Head(task)] = "accepted"
    BY <1>3 DEF StoreInv, HandedOver
  <2>2. ASSUME NEW x \in Members(Pending') \cup db'["request_logs"]
        PROVE  caller'[x] = "accepted"
    BY <2>1, <1>3, <1>6 DEF StoreInv, HandedOver
  <2>3. ASSUME NEW x \in reported'
        PROVE  caller'[x] \notin {"new", "serving", "sending"}
    BY <2>1, <1>3, <1>6 DEF StoreInv, HandedOver
  <2> QED
    BY <2>2, <2>3 DEF HandedOver
<1>10. OneTask'
  BY <1>2, EmptySeq DEF OneTask, EndTransaction
<1>11. QuietWhenClosed' /\ StopOrder'
  <2>1. Pending # <<>>
    BY <1>3, MembersEmpty
  <2>2. worker # "exited"
    BY <2>1 DEF StoreInv, StopOrder
  <2> QED
    BY <2>2, <1>3 DEF StoreInv, QuietWhenClosed, StopOrder
<1> QED
  BY <1>1, <1>7, <1>8, <1>9, <1>10, <1>11 DEF StoreInv

LEMMA WorkerExitInv ==
    ASSUME StoreInv, WorkerExit
    PROVE  StoreInv'
<1> USE DEF WorkerExit, handlerVars
<1>1. TypeOK /\ TypeOK'
  BY WorkerTypes DEF StoreInv, Worker
<1>2. /\ Pending' = Pending /\ Pending = <<>>
      /\ UNCHANGED <<task, txRows, db, parts, caller, created, reported, wiped, clock, cleaner, closer>>
  BY <1>1, PendingKept, PendingEmpty
<1>3. WholeExchanges' /\ NoSilentLoss' /\ HandedOver' /\ OneTask'
  BY <1>2 DEF StoreInv, WholeExchanges, NoSilentLoss, HandedOver, RowsOf, Expired, OneTask
<1>4. QuietWhenClosed' /\ StopOrder'
  BY <1>2 DEF StoreInv, QuietWhenClosed, StopOrder, QueueClosed
<1> QED
  BY <1>1, <1>3, <1>4 DEF StoreInv

\* A cleanup deletes whole exchanges, and expired ones only.
LEMMA CleanupFacts ==
    ASSUME StoreInv, Cleanup
    PROVE  /\ \A t \in Tables : db'[t] = db[t] \ (db["request_logs"] \ db'["request_logs"])
           /\ db'["request_logs"] \subseteq db["request_logs"]
           /\ \A e \in db["request_logs"] \ db'["request_logs"] : Expired(e)
<1>1. /\ "request_logs" \in Tables
      /\ db \in [Tables -> SUBSET Exchanges]
  BY DEF StoreInv, TypeOK, Tables, MandatoryTables
<1>2. CASE DeleteExpired
  <2> DEFINE old == {e \in db["request_logs"] : Expired(e)}
  <2>1. \A t \in Tables : db'[t] = db[t] \ old
    BY <1>2, <1>1 DEF DeleteExpired
  <2>2. db["request_logs"] \ db'["request_logs"] = old
    BY <2>1, <1>1
  <2> QED
    BY <2>1, <2>2, <1>1
<1>3. CASE UNCHANGED db
  BY <1>3, <1>1
<1> QED
  BY <1>2, <1>3 DEF Cleanup

LEMMA CleanerInv ==
    ASSUME StoreInv, Cleaner
    PROVE  StoreInv'
<1>1. TypeOK /\ TypeOK'
  BY CleanerTypes DEF StoreInv
<1>2. /\ Pending' = Pending
      /\ UNCHANGED <<task, queue, txRows, parts, caller, created, reported, wiped, clock, worker, closer>>
  BY PendingKept DEF Cleaner, StartRetention, PeriodicCleanup,
                     CleanerExit, handlerVars, workerVars, processVars
<1>3. \/ UNCHANGED db /\ (Retention > 0 \/ cleaner' = "exited")
      \/ Cleanup /\ Retention > 0 /\ cleaner \in {"starting", "waiting"}
                 /\ cleaner' = "waiting"
  BY StorageAssumption DEF StoreInv, StopOrder, Cleaner, StartRetention,
         PeriodicCleanup, CleanerExit, processVars
<1>4. cleaner = "exited" => cleaner' = "exited" /\ UNCHANGED db
  BY DEF Cleaner, StartRetention, PeriodicCleanup, CleanerExit
<1>5. CASE UNCHANGED db
  <2>1. WholeExchanges' /\ NoSilentLoss' /\ HandedOver' /\ OneTask'
    BY <1>2, <1>5 DEF StoreInv, WholeExchanges, NoSilentLoss, HandedOver, RowsOf, Expired, OneTask
  <2>2. QuietWhenClosed' /\ StopOrder'
    BY <1>2, <1>3, <1>4 DEF StoreInv, QuietWhenClosed, StopOrder, QueueClosed
  <2> QED
    BY <1>1, <2>1, <2>2 DEF StoreInv
<1>6. CASE Cleanup /\ Retention > 0 /\ cleaner \in {"starting", "waiting"}
           /\ cleaner' = "waiting"
  <2>1. /\ \A t \in Tables : db'[t] = db[t] \ (db["request_logs"] \ db'["request_logs"])
        /\ db'["request_logs"] \subseteq db["request_logs"]
        /\ \A e \in db["request_logs"] \ db'["request_logs"] : Expired(e)
    BY <1>6, CleanupFacts
  <2>2. WholeExchanges'
    <3> SUFFICES ASSUME NEW x \in Exchanges, NEW t \in Tables
                 PROVE  x \in db'[t] <=> x \in db'["request_logs"] /\ t \in RowsOf(x)'
      BY DEF WholeExchanges
    <3>1. x \in db[t] <=> x \in db["request_logs"] /\ t \in RowsOf(x)
      BY DEF StoreInv, WholeExchanges
    <3>2. RowsOf(x)' = RowsOf(x)
      BY <1>2 DEF RowsOf
    <3> QED
      BY <3>1, <3>2, <2>1
  <2>3. NoSilentLoss'
    BY <1>2, <1>6, <2>1 DEF StoreInv, NoSilentLoss, Expired
  <2>4. HandedOver' /\ OneTask'
    BY <1>2, <2>1 DEF StoreInv, HandedOver, OneTask, RowsOf
  <2>5. QuietWhenClosed' /\ StopOrder'
    BY <1>2, <1>6 DEF StoreInv, QuietWhenClosed, StopOrder, QueueClosed
  <2> QED
    BY <1>1, <2>2, <2>3, <2>4, <2>5 DEF StoreInv
<1> QED
  BY <1>3, <1>5, <1>6

LEMMA CloseInv ==
    ASSUME StoreInv, Close
    PROVE  StoreInv'
<1>1. TypeOK /\ TypeOK'
  BY CloseTypes DEF StoreInv
<1>2. /\ Pending' = Pending
      /\ UNCHANGED <<task, queue, txRows, db, parts, caller, created, reported, wiped, clock, worker, cleaner>>
  BY PendingKept DEF Close, SetStopping, CloseSignal, CloseQueue, CloseDB, CloseStep,
                     handlerVars, workerVars
<1>3. /\ QueueClosed => QueueClosed'
      /\ closer' = "closed" => WorkersDone
  BY DEF Close, SetStopping, CloseSignal, CloseQueue, CloseDB, CloseStep, QueueClosed
<1>4. WholeExchanges' /\ NoSilentLoss' /\ HandedOver' /\ OneTask'
  BY <1>2 DEF StoreInv, WholeExchanges, NoSilentLoss, HandedOver, RowsOf, Expired, OneTask
<1>5. QuietWhenClosed' /\ StopOrder'
  BY <1>2, <1>3 DEF StoreInv, QuietWhenClosed, StopOrder, WorkersDone
<1> QED
  BY <1>1, <1>4, <1>5 DEF StoreInv

LEMMA TickInv ==
    ASSUME StoreInv, Tick
    PROVE  StoreInv'
<1> USE DEF Tick, handlerVars, processVars, workerVars
<1>1. TypeOK /\ TypeOK'
  BY EnvironmentTypes DEF StoreInv
<1>2. Pending' = Pending
  BY PendingKept
<1>3. WholeExchanges' /\ HandedOver' /\ OneTask'
  BY <1>2 DEF StoreInv, WholeExchanges, HandedOver, RowsOf, OneTask
<1>4. NoSilentLoss'
  <2>1. ASSUME NEW e \in Exchanges, Expired(e) PROVE Expired(e)'
    BY <1>1, <2>1, StorageAssumption DEF TypeOK, Expired
  <2> QED
    BY <1>2, <2>1 DEF StoreInv, NoSilentLoss
<1>5. QuietWhenClosed' /\ StopOrder'
  BY <1>2 DEF StoreInv, QuietWhenClosed, StopOrder, QueueClosed
<1> QED
  BY <1>1, <1>3, <1>4, <1>5 DEF StoreInv

LEMMA CrashInv ==
    ASSUME StoreInv, Crash
    PROVE  StoreInv'
<1> USE DEF Crash
<1>1. TypeOK /\ TypeOK'
  BY EnvironmentTypes DEF StoreInv
<1>2. Pending' = <<>> /\ Members(Pending') = {}
  BY MembersEmpty, ConcatEmptySeq DEF Pending
<1>3. \A e \in Exchanges :
          /\ caller[e] \notin {"serving", "sending"} => caller'[e] = caller[e]
          /\ caller[e] \in {"serving", "sending"} => caller'[e] = "killed"
  BY <1>1 DEF TypeOK
<1>4. db["request_logs"] \cup reported \subseteq Exchanges
  BY <1>1 DEF TypeOK, Tables, MandatoryTables
<1>5. WholeExchanges'
  BY DEF StoreInv, WholeExchanges, RowsOf
<1>6. NoSilentLoss'
  BY <1>3 DEF StoreInv, NoSilentLoss, Expired
<1>7. HandedOver'
  BY <1>2, <1>3, <1>4 DEF StoreInv, HandedOver
<1>8. OneTask' /\ StopOrder' /\ QuietWhenClosed'
  BY EmptySeq DEF OneTask, StopOrder, QuietWhenClosed
<1> QED
  BY <1>1, <1>5, <1>6, <1>7, <1>8 DEF StoreInv

LEMMA StutterInv ==
    ASSUME StoreInv, UNCHANGED vars
    PROVE  StoreInv'
<1> USE DEF vars, handlerVars, processVars, workerVars
<1>1. TypeOK'
  BY EnvironmentTypes DEF StoreInv
<1>2. Pending' = Pending
  BY PendingKept
<1>3. WholeExchanges' /\ NoSilentLoss' /\ HandedOver' /\ OneTask'
  BY <1>2 DEF StoreInv, WholeExchanges, NoSilentLoss, HandedOver, RowsOf, Expired, OneTask
<1>4. QuietWhenClosed' /\ StopOrder'
  BY <1>2 DEF StoreInv, QuietWhenClosed, StopOrder, QueueClosed
<1> QED
  BY <1>1, <1>3, <1>4 DEF StoreInv

LEMMA InitInv == Init => StoreInv
<1> SUFFICES ASSUME Init PROVE StoreInv
  OBVIOUS
<1>1. TypeOK
  BY InitTypes
<1>2. Pending = <<>> /\ Members(Pending) = {}
  BY MembersEmpty, ConcatEmptySeq DEF Init, Pending
<1>3. WholeExchanges /\ NoSilentLoss /\ HandedOver
  BY <1>2 DEF Init, WholeExchanges, NoSilentLoss, HandedOver, Tables, MandatoryTables
<1>4. OneTask /\ StopOrder /\ QuietWhenClosed
  BY EmptySeq DEF Init, OneTask, StopOrder, QuietWhenClosed
<1> QED
  BY <1>1, <1>3, <1>4 DEF StoreInv

LEMMA NextInv == StoreInv /\ [Next]_vars => StoreInv'
<1> SUFFICES ASSUME StoreInv, [Next]_vars PROVE StoreInv'
  OBVIOUS
<1>1. ASSUME NEW e \in Exchanges, Handler(e) PROVE StoreInv'
  BY <1>1, BeginInv, CheckStoppingInv, SendInv DEF Handler
<1>2. CASE Worker
  BY <1>2, ReceiveInv, InsertInv, EndInv, WorkerExitInv DEF Worker
<1>3. CASE Cleaner
  BY <1>3, CleanerInv
<1>4. CASE Close
  BY <1>4, CloseInv
<1>5. CASE Tick
  BY <1>5, TickInv
<1>6. CASE Crash
  BY <1>6, CrashInv
<1>7. CASE UNCHANGED vars
  BY <1>7, StutterInv
<1> QED
  BY <1>1, <1>2, <1>3, <1>4, <1>5, <1>6, <1>7 DEF Next, Terminated

\* The inductive invariant, and with it each of the guarantees it contains.
THEOREM Invariance == Spec => []StoreInv
<1>1. Init => StoreInv
  BY InitInv
<1>2. StoreInv /\ [Next]_vars => StoreInv'
  BY NextInv
<1> QED
  BY <1>1, <1>2, PTL DEF Spec

\* No reader ever sees part of an exchange, whatever tables its rows are in
\* and wherever a crash, a failed INSERT or a cleanup cuts in.
THEOREM ExchangesAreWhole == Spec => []WholeExchanges
<1>1. StoreInv => WholeExchanges
  BY DEF StoreInv
<1> QED
  BY <1>1, Invariance, PTL

\* No exchange a handler was done with is lost without a trace, for any queue
\* capacity and any number of handlers racing with Close and the cleanup.
THEOREM LossIsReported == Spec => []NoSilentLoss
<1>1. StoreInv => NoSilentLoss
  BY DEF StoreInv
<1> QED
  BY <1>1, Invariance, PTL

\* After Close nothing is pending and no goroutine can touch the database.
THEOREM ClosedIsQuiet == Spec => []QuietWhenClosed
<1>1. StoreInv => QuietWhenClosed
  BY DEF StoreInv
<1> QED
  BY <1>1, Invariance, PTL

\* With retention_days = 0 no committed exchange is ever deleted: only Commit and
\* the retention goroutine write to the database, and that one has returned.
THEOREM NothingExpires == Spec => KeptForever
<1>1. StoreInv /\ [Next]_vars
        => [Retention = 0 => db["request_logs"] \subseteq db'["request_logs"]]_vars
  <2> SUFFICES ASSUME StoreInv, Next, Retention = 0
               PROVE  db["request_logs"] \subseteq db'["request_logs"]
    BY DEF vars
  <2>1. db \in [Tables -> SUBSET Exchanges] /\ "request_logs" \in Tables
    BY DEF StoreInv, TypeOK, Tables, MandatoryTables
  <2>2. CASE Commit
    BY <2>1, <2>2 DEF Commit
  <2>3. ~PeriodicCleanup /\ (StartRetention => UNCHANGED db)
    BY DEF StoreInv, StopOrder, StartRetention, PeriodicCleanup
  <2>4. CASE UNCHANGED db
    BY <2>4
  <2>5. Commit \/ UNCHANGED db
    BY <2>3 DEF Next, Handler, Begin, CheckStopping, Send, Worker, Receive, Insert,
                Rollback, WorkerExit, Cleaner, CleanerExit, Close,
                SetStopping, CloseSignal, CloseQueue, CloseDB, CloseStep, Tick,
                Crash, Terminated, vars
  <2> QED
    BY <2>2, <2>4, <2>5
<1> QED
  BY <1>1, Invariance, PTL DEF Spec, KeptForever
-----------------------------------------------------------------------------
(* The store implements AuditLog: each step is a step of the log or none.  *)

LEMMA SameMembers == \A q : Log!Members(q) = Members(q)
BY DEF Log!Members, Members

LEMMA LogStutter ==
    ASSUME Pending' = Pending, UNCHANGED <<db, reported, closer>>
    PROVE  UNCHANGED Log!log
BY DEF Log!log

LEMMA HandlerImplements ==
    ASSUME StoreInv, StoreInv', NEW e \in Exchanges, Handler(e)
    PROVE  [Log!Next]_(Log!log)
<1>1. TypeOK
  BY DEF StoreInv
<1>2. CASE Begin(e)
  BY <1>2, PendingKept, LogStutter DEF Begin, processVars, workerVars
<1>3. CASE CheckStopping(e)
  <2>1. Pending' = Pending /\ UNCHANGED <<db, closer>>
    BY <1>3, PendingKept DEF CheckStopping, processVars, workerVars
  <2>2. e \notin db["request_logs"] \cup reported \cup Log!Members(Pending)
    BY <1>3, SameMembers DEF CheckStopping, StoreInv, HandedOver
  <2>3. CASE reported' = reported
    BY <2>1, <2>3, LogStutter
  <2>4. CASE reported' = reported \cup {e}
    BY <2>1, <2>2, <2>4 DEF Log!Next, Log!Refuse
  <2> QED
    BY <1>3, <2>3, <2>4 DEF CheckStopping
<1>4. CASE Send(e)
  <2>1. UNCHANGED <<db, closer, task>>
    BY <1>4 DEF Send, workerVars
  <2>2. e \notin db["request_logs"] \cup reported \cup Log!Members(Pending)
    BY <1>4, SameMembers DEF Send, StoreInv, HandedOver
  <2>3. CASE reported' = reported \cup {e} /\ queue' = queue
    BY <2>1, <2>2, <2>3, PendingKept DEF Log!Next, Log!Refuse
  <2>4. CASE reported' = reported /\ queue' = Append(queue, e) /\ ~QueueClosed
    <3>1. Pending' = Append(Pending, e)
      <4>1. /\ Append(queue, e) = queue \o <<e>>
            /\ Append(Pending, e) = Pending \o <<e>>
            /\ <<e>> \in Seq(Exchanges)
        BY <1>1, PendingMembers, AppendIsConcat DEF TypeOK
      <4>2. task \o (queue \o <<e>>) = (task \o queue) \o <<e>>
        BY <1>1, <4>1, ConcatAssociative DEF TypeOK
      <4> QED
        BY <4>1, <4>2, <2>1, <2>4 DEF Pending
    <3>2. closer # "closed"
      BY <2>4 DEF QueueClosed
    <3> QED
      BY <2>1, <2>2, <2>4, <3>1, <3>2 DEF Log!Next, Log!Accept
  <2> QED
    BY <1>4, <2>3, <2>4 DEF Send
<1> QED
  BY <1>2, <1>3, <1>4 DEF Handler

LEMMA WorkerImplements ==
    ASSUME StoreInv, StoreInv', Worker
    PROVE  [Log!Next]_(Log!log)
<1>1. TypeOK /\ OneTask /\ QuietWhenClosed
  BY DEF StoreInv
<1>2. CASE Receive
  BY <1>1, <1>2, ReceivePending, LogStutter DEF Receive
<1>3. CASE Insert
  BY <1>3, PendingKept, LogStutter DEF Insert
<1>4. CASE Commit \/ Rollback
  <2>1. task # <<>> /\ EndTransaction
    BY <1>4 DEF Commit, Rollback
  <2>2. Pending' = queue /\ closer' = closer
    BY <1>1, <2>1, EndPending
  <2>3. Pending # <<>> /\ Head(Pending) = Head(task) /\ Tail(Pending) = queue
    <3>1. Len(task) = 1 /\ task[1] = Head(task) /\ Head(task) \in Exchanges
      BY <1>1, <2>1, TaskShape
    <3>2. /\ Pending \in Seq(Exchanges)
          /\ Len(Pending) = 1 + Len(queue)
          /\ \A i \in 1 .. 1 + Len(queue) :
                Pending[i] = IF i <= 1 THEN task[i] ELSE queue[i - 1]
      <4>1. task \in Seq(Exchanges) /\ queue \in Seq(Exchanges)
        BY <1>1 DEF TypeOK
      <4>2. /\ task \o queue \in Seq(Exchanges)
            /\ Len(task \o queue) = Len(task) + Len(queue)
            /\ \A i \in 1 .. Len(task) + Len(queue) :
                  (task \o queue)[i] = IF i <= Len(task) THEN task[i] ELSE queue[i - Len(task)]
        BY <4>1, ConcatProperties
      <4> QED
        BY <3>1, <4>2 DEF Pending
    <3>3. Len(queue) \in Nat /\ queue \in Seq(Exchanges)
      BY <1>1 DEF TypeOK
    <3>4. Pending # <<>> /\ Head(Pending) = Head(task)
      <4>1. Len(Pending) >= 1 /\ Pending[1] = task[1]
        BY <3>2, <3>3
      <4>2. Pending # <<>>
        BY <4>1
      <4> QED
        BY <3>1, <3>2, <4>1, <4>2
    <3>5. /\ Tail(Pending) \in Seq(Exchanges)
          /\ Len(Tail(Pending)) = Len(queue)
          /\ \A i \in 1 .. Len(Tail(Pending)) : Tail(Pending)[i] = Pending[i + 1]
      BY <3>2, <3>3, <3>4, HeadTailProperties
    <3>6. ASSUME NEW i \in 1 .. Len(Tail(Pending))
          PROVE  Tail(Pending)[i] = queue[i]
      BY <3>2, <3>3, <3>5
    <3> QED
      BY <3>3, <3>4, <3>5, <3>6, SeqEqual
  <2>4. closer # "closed"
    BY <1>1, <2>3 DEF QuietWhenClosed
  <2>5. CASE Commit
    <3>1. "request_logs" \in txRows /\ "request_logs" \in Tables
      BY <2>5 DEF Commit, RowsOf, Tables, MandatoryTables
    <3>2. db'["request_logs"] = db["request_logs"] \cup {Head(task)} /\ reported' = reported
      BY <2>5, <3>1 DEF Commit
    <3> QED
      BY <2>2, <2>3, <2>4, <3>2 DEF Log!Next, Log!Persist
  <2>6. CASE Rollback
    <3>1. db' = db /\ reported' = reported \cup {Head(task)}
      BY <2>6 DEF Rollback
    <3> QED
      BY <2>2, <2>3, <2>4, <3>1 DEF Log!Next, Log!Lose
  <2> QED
    BY <1>4, <2>5, <2>6
<1>5. CASE WorkerExit
  BY <1>5, PendingKept, LogStutter DEF WorkerExit
<1> QED
  BY <1>2, <1>3, <1>4, <1>5 DEF Worker

LEMMA CleanerImplements ==
    ASSUME StoreInv, StoreInv', Cleaner
    PROVE  [Log!Next]_(Log!log)
<1>1. Pending' = Pending /\ UNCHANGED <<reported, closer>>
  BY PendingKept DEF Cleaner, StartRetention, PeriodicCleanup,
                     CleanerExit, workerVars, processVars
<1>2. UNCHANGED db \/ (Cleanup /\ cleaner \in {"starting", "waiting"})
  BY DEF Cleaner, StartRetention, PeriodicCleanup, CleanerExit
<1>3. CASE UNCHANGED db
  BY <1>1, <1>3, LogStutter
<1>4. CASE Cleanup /\ cleaner \in {"starting", "waiting"}
  <2>1. /\ db'["request_logs"] \in SUBSET db["request_logs"]
        /\ \A e \in db["request_logs"] \ db'["request_logs"] : Expired(e)
    BY <1>4, CleanupFacts
  <2>2. db["request_logs"] \ db'["request_logs"] \subseteq {e \in Exchanges : Expired(e)}
    BY <2>1 DEF StoreInv, TypeOK, Tables, MandatoryTables
  <2>3. closer # "closed"
    BY <1>4 DEF StoreInv, QuietWhenClosed
  <2> QED
    BY <1>1, <2>1, <2>2, <2>3 DEF Log!Next, Log!Purge
<1> QED
  BY <1>2, <1>3, <1>4

LEMMA CloseImplements ==
    ASSUME StoreInv, StoreInv', Close
    PROVE  [Log!Next]_(Log!log)
<1>1. Pending' = Pending /\ UNCHANGED <<db, reported>>
  BY PendingKept DEF Close, SetStopping, CloseSignal, CloseQueue, CloseDB, CloseStep,
                     workerVars
<1>2. CASE closer' # "closed"
  <2>1. closer # "closed"
    BY DEF Close, SetStopping, CloseSignal, CloseQueue, CloseDB, CloseStep
  <2> QED
    BY <1>1, <1>2, <2>1 DEF Log!log
<1>3. CASE closer' = "closed"
  <2>1. closer = "draining" /\ Pending = <<>>
    BY <1>1, <1>3 DEF Close, SetStopping, CloseSignal, CloseQueue, CloseDB, CloseStep,
                      StoreInv, QuietWhenClosed
  <2> QED
    BY <1>1, <1>3, <2>1 DEF Log!Next, Log!Close
<1> QED
  BY <1>2, <1>3

LEMMA EnvironmentImplements ==
    ASSUME StoreInv, Tick \/ Crash \/ UNCHANGED vars
    PROVE  [Log!Next]_(Log!log)
<1>1. CASE Tick
  BY <1>1, PendingKept, LogStutter DEF Tick, processVars, workerVars
<1>2. CASE Crash
  <2>1. Pending' = <<>>
    BY <1>2, ConcatEmptySeq DEF Crash, Pending
  <2> QED
    BY <1>2, <2>1 DEF Crash, Log!Next, Log!Restart
<1>3. CASE UNCHANGED vars
  BY <1>3, PendingKept, LogStutter DEF vars, processVars, workerVars
<1> QED
  BY <1>1, <1>2, <1>3

\* Whatever a handler, a report or the cache can observe of the store is a
\* behaviour of AuditLog: losses are reported, order is kept, a closed log is
\* silent, and only expired exchanges disappear.
THEOREM Implementation == Spec => ImplementsAuditLog
<1>1. Init => Log!Init
  BY ConcatEmptySeq DEF Init, Log!Init, Pending, Tables, MandatoryTables
<1>2. StoreInv /\ StoreInv' /\ [Next]_vars => [Log!Next]_(Log!log)
  <2> SUFFICES ASSUME StoreInv, StoreInv', [Next]_vars
               PROVE  [Log!Next]_(Log!log)
    OBVIOUS
  <2>1. ASSUME NEW e \in Exchanges, Handler(e) PROVE [Log!Next]_(Log!log)
    BY <2>1, HandlerImplements
  <2>2. CASE Worker
    BY <2>2, WorkerImplements
  <2>3. CASE Cleaner
    BY <2>3, CleanerImplements
  <2>4. CASE Close
    BY <2>4, CloseImplements
  <2>5. CASE Tick \/ Crash \/ UNCHANGED vars
    BY <2>5, EnvironmentImplements
  <2> QED
    BY <2>1, <2>2, <2>3, <2>4, <2>5 DEF Next, Terminated
<1> QED
  BY <1>1, <1>2, Invariance, PTL DEF Spec, ImplementsAuditLog, Log!Spec
-----------------------------------------------------------------------------
(* The reports over the tables.                                            *)

\* The rows of a report add up to the totals of what it groups, by whatever label.
LEMMA GroupTotals ==
    ASSUME NEW S, IsFiniteSet(S), S \subseteq Exchanges, NEW label
    PROVE  AddTotals(GroupBy(label, S)) = Totals(S)
<1> DEFINE Group(v) == {d \in S : label[d] = v}
           Line(v) == [label |-> v, totals |-> Totals(Group(v))]
<1>1. PICK r : r = [e \in S |-> Line(label[e])]
  OBVIOUS
<1>2. PICK rows : rows = {r[e] : e \in S}
  OBVIOUS
<1>3. GroupBy(label, S) = rows
  <2>1. \A e \in S : r[e] = Line(label[e])
    BY <1>1
  <2>2. GroupBy(label, S) = {Line(v) : v \in {label[e] : e \in S}}
    BY DEF GroupBy
  <2> HIDE DEF Line
  <2> QED
    BY <1>2, <2>1, <2>2
<1>4. ASSUME NEW v \in rows
      PROVE  \E G : G = {e \in S : r[e] = v} /\ v.totals = Totals(G)
  <2>1. PICK e \in S : v = r[e]
    BY <1>2
  <2>2. r[e] = Line(label[e]) /\ \A d \in S : r[d] = Line(label[d])
    BY <1>1
  <2>3. \A a : Line(a).label = a /\ Line(a).totals = Totals(Group(a))
    OBVIOUS
  <2> HIDE DEF Line
  <2>4. {d \in S : r[d] = v} = Group(label[e])
    BY <2>1, <2>2, <2>3
  <2> QED
    BY <2>1, <2>2, <2>3, <2>4
<1>5. ASSUME NEW f, \A e \in S : f[e] \in Nat,
             NEW g, g = [v \in rows |-> SumFunctionOnSet(f, {e \in S : r[e] = v})]
      PROVE  SumFunction(g) = SumFunctionOnSet(f, S)
  <2>1. \A v \in rows : g[v] = SumFunctionOnSet(f, {e \in S : r[e] = v})
    BY <1>5
  <2>2. SumFunctionOnSet(g, rows) = SumFunctionOnSet(f, S)
    BY ONLY <1>2, <1>5, <2>1, IsFiniteSet(S), SumByGroups
  <2>3. DOMAIN g = rows
    BY <1>5
  <2> QED
    BY <2>2, <2>3 DEF SumFunction
<1>6. ASSUME NEW f, NEW T \in SUBSET S, \A e \in T : f[e] = 1
      PROVE  SumFunctionOnSet(f, T) = Cardinality(T)
  BY <1>6, SumOfOnes, FS_Subset
<1>7. PICK one : one = [e \in S |-> 1]
  OBVIOUS
<1>8. SumFunction([v \in rows |-> v.totals.requests]) = Cardinality(S)
  <2>1. PICK g : g = [v \in rows |-> SumFunctionOnSet(one, {e \in S : r[e] = v})]
    OBVIOUS
  <2>2. ASSUME NEW v \in rows PROVE g[v] = v.totals.requests
    <3>1. PICK G : G = {e \in S : r[e] = v} /\ v.totals = Totals(G)
      BY <1>4
    <3>2. G \in SUBSET S /\ \A e \in G : one[e] = 1
      BY <1>7, <3>1
    <3>3. SumFunctionOnSet(one, G) = Cardinality(G)
      BY <1>6, <3>2
    <3> QED
      BY <2>1, <3>1, <3>3 DEF Totals
  <2>3. [v \in rows |-> v.totals.requests] = g
    BY <2>1, <2>2
  <2>4. SumFunction(g) = SumFunctionOnSet(one, S)
    BY <1>5, <1>7, <2>1
  <2>5. SumFunctionOnSet(one, S) = Cardinality(S)
    BY <1>6, <1>7
  <2> QED
    BY <2>3, <2>4, <2>5
<1>9. SumFunction([v \in rows |-> v.totals.hits]) = SumFunctionOnSet(Hits, S)
  <2>1. PICK g : g = [v \in rows |-> SumFunctionOnSet(Hits, {e \in S : r[e] = v})]
    OBVIOUS
  <2>2. ASSUME NEW v \in rows PROVE g[v] = v.totals.hits
    <3>1. PICK G : G = {e \in S : r[e] = v} /\ v.totals = Totals(G)
      BY <1>4
    <3> QED
      BY <2>1, <3>1 DEF Totals
  <2>3. [v \in rows |-> v.totals.hits] = g
    BY <2>1, <2>2
  <2>4. \A e \in S : Hits[e] \in Nat
    BY DEF Hits
  <2> QED
    BY <1>5, <2>1, <2>3, <2>4
<1>10. SumFunction([v \in rows |-> v.totals.tokens]) = SumFunctionOnSet(Tokens, S)
  <2>1. PICK g : g = [v \in rows |-> SumFunctionOnSet(Tokens, {e \in S : r[e] = v})]
    OBVIOUS
  <2>2. ASSUME NEW v \in rows PROVE g[v] = v.totals.tokens
    <3>1. PICK G : G = {e \in S : r[e] = v} /\ v.totals = Totals(G)
      BY <1>4
    <3> QED
      BY <2>1, <3>1 DEF Totals
  <2>3. [v \in rows |-> v.totals.tokens] = g
    BY <2>1, <2>2
  <2>4. \A e \in S : Tokens[e] \in Nat
    BY ReportsAssumption DEF Tokens
  <2> QED
    BY <1>5, <2>1, <2>3, <2>4
<1> QED
  BY <1>3, <1>8, <1>9, <1>10 DEF AddTotals, Totals

\* There is a newest page of every size.
LEMMA NewestExist ==
    ASSUME TypeOK, NEW A, IsFiniteSet(A), A \subseteq Exchanges, NEW n \in 0 .. Cardinality(A)
    PROVE  \E S \in SUBSET A : /\ Cardinality(S) = n
                               /\ \A e \in S : \A o \in A \ S : created[e] >= created[o]
<1> DEFINE Page(S, i) == /\ Cardinality(S) = i
                         /\ \A e \in S : \A o \in A \ S : created[e] >= created[o]
<1>1. PICK Y : Y = {i \in 0 .. n : \E S \in SUBSET A : Page(S, i)}
  OBVIOUS
<1>2. n \in Nat /\ Cardinality(A) \in Nat
  BY FS_CardinalityType
<1>3. 0 \in Y
  <2>1. Cardinality({}) = 0
    BY FS_EmptySet
  <2>2. Page({}, 0)
    BY <2>1
  <2> QED
    BY <1>1, <1>2, <2>2
<1>4. ASSUME NEW i \in 1 .. n, i - 1 \in Y PROVE i \in Y
  <2>1. PICK S \in SUBSET A : Page(S, i - 1)
    BY <1>1, <1>4
  <2>2. IsFiniteSet(S) /\ A \ S # {}
    <3>1. IsFiniteSet(S)
      BY FS_Subset
    <3>2. S # A
      BY <1>2, <2>1
    <3> QED
      BY <3>1, <3>2
  <2>3. PICK ages : ages = {MaxClock - created[o] : o \in A \ S}
    OBVIOUS
  <2>4. \A o \in A : created[o] \in 0 .. MaxClock
    BY DEF TypeOK
  <2>5. MaxClock \in Nat
    BY StorageAssumption
  <2>6. ages \subseteq Nat /\ ages # {}
    BY <2>2, <2>3, <2>4, <2>5
  <2>7. PICK a \in ages : \A b \in ages : a <= b
    BY <2>6, LeastElement
  <2>8. PICK o \in A \ S : a = MaxClock - created[o]
    BY <2>3
  <2>9. ASSUME NEW p \in A \ S PROVE created[o] >= created[p]
    <3>1. a <= MaxClock - created[p]
      BY <2>3, <2>7
    <3> QED
      BY <2>4, <2>5, <2>8, <3>1
  <2>10. Cardinality(S \cup {o}) = i
    <3>1. Cardinality(S \cup {o}) = Cardinality(S) + 1
      BY <2>2, FS_AddElement
    <3> QED
      BY <1>2, <2>1, <3>1
  <2>11. Page(S \cup {o}, i)
    BY <2>1, <2>9, <2>10
  <2>12. S \cup {o} \in SUBSET A /\ i \in 0 .. n
    BY <1>2
  <2> HIDE DEF Page
  <2> QED
    BY <1>1, <2>11, <2>12
<1>5. n \in Y
  <2>1. 0 .. n \subseteq Y
    BY <1>2, <1>3, <1>4, InductionUpto
  <2> QED
    BY <1>2, <2>1
<1> QED
  BY <1>1, <1>5

\* The tables are finite: a commit adds one exchange.
LEMMA TableStaysFinite ==
    ASSUME StoreInv, IsFiniteSet(db["request_logs"]), [Next]_vars
    PROVE  IsFiniteSet(db'["request_logs"])
<1>1. db \in [Tables -> SUBSET Exchanges] /\ "request_logs" \in Tables
  BY DEF StoreInv, TypeOK, Tables, MandatoryTables
<1>2. CASE Commit
  <2>1. \/ db'["request_logs"] = db["request_logs"] \cup {Head(task)}
        \/ db'["request_logs"] = db["request_logs"]
    BY <1>1, <1>2 DEF Commit
  <2> QED
    BY <2>1, FS_AddElement
<1>3. CASE Cleanup
  <2>1. db'["request_logs"] \in SUBSET db["request_logs"]
    BY <1>3, CleanupFacts
  <2> QED
    BY <2>1, FS_Subset
<1>4. CASE UNCHANGED db
  BY <1>4
<1>5. Commit \/ Cleanup \/ UNCHANGED db
  BY DEF Next, Handler, Begin, CheckStopping, Send, Worker, Receive, Insert,
         Rollback, WorkerExit, Cleaner, StartRetention, PeriodicCleanup, CleanerExit,
         Close, SetStopping, CloseSignal, CloseQueue, CloseDB, CloseStep, Tick,
         Crash, Terminated, vars
<1> QED
  BY <1>2, <1>3, <1>4, <1>5

\* Over whole exchanges the reports agree.
LEMMA WholeExchangesAgree ==
    ASSUME StoreInv, IsFiniteSet(db["request_logs"])
    PROVE  ReportsAgree
<1> SUFFICES ASSUME NEW days \in Windows
             PROVE  LET total == AddTotals(ModelUsageReports(days))
                        all == Cardinality(Answered(days))
                    IN  /\ AddTotals(DailyUsage(days)) = total
                        /\ AddTotals(ProviderUsageReports(days)) = total
                        /\ UsageSummary(days) = IF total.requests = 0 THEN {} ELSE {total}
                        /\ \A listed \in RequestLogs(days, all) :
                              /\ Cardinality(listed) = total.requests
                              /\ \A e \in listed : RequestDetail(e) = {Tokens[e]}
                        /\ \A limit \in 1 .. all : RequestLogs(days, limit) # {}
  BY DEF ReportsAgree
<1>1. db["request_logs"] = db["response_logs"] /\ db["request_logs"] \subseteq Exchanges
  <2>1. /\ db \in [Tables -> SUBSET Exchanges]
        /\ "request_logs" \in Tables /\ "response_logs" \in Tables
        /\ \A e \in Exchanges : "response_logs" \in RowsOf(e)
    BY DEF StoreInv, TypeOK, RowsOf, Tables, MandatoryTables
  <2>2. \A e \in Exchanges : e \in db["response_logs"] <=> e \in db["request_logs"]
    BY <2>1 DEF StoreInv, WholeExchanges
  <2> QED
    BY <2>1, <2>2
<1>2. PICK A : A = Answered(days)
  OBVIOUS
<1>3. /\ InWindow(days) = A /\ A \subseteq Exchanges
      /\ A \subseteq db["request_logs"] \cap db["response_logs"]
  BY <1>1, <1>2 DEF Answered, InWindow
<1>4. IsFiniteSet(A)
  BY <1>3, FS_Subset
<1>5. PICK total : total = Totals(A)
  OBVIOUS
<1>6. /\ AddTotals(ModelUsageReports(days)) = total
      /\ AddTotals(ProviderUsageReports(days)) = total
      /\ AddTotals(DailyUsage(days)) = total
  BY <1>2, <1>3, <1>4, <1>5, GroupTotals DEF ModelUsageReports, ProviderUsageReports, DailyUsage
<1>7. total.requests = Cardinality(A)
  BY <1>5 DEF Totals
<1>8. UsageSummary(days) = IF total.requests = 0 THEN {} ELSE {total}
  <2>1. Cardinality(A) = 0 <=> A = {}
    BY <1>4, FS_EmptySet
  <2> QED
    BY <1>2, <1>5, <1>7, <2>1 DEF UsageSummary
<1>9. ASSUME NEW listed \in RequestLogs(days, Cardinality(A))
      PROVE  /\ Cardinality(listed) = total.requests
             /\ \A e \in listed : RequestDetail(e) = {Tokens[e]}
  <2>1. listed \subseteq A /\ (Cardinality(listed) = Cardinality(A) \/ listed = A)
    BY <1>2, <1>9 DEF RequestLogs
  <2>2. ASSUME NEW e \in listed PROVE RequestDetail(e) = {Tokens[e]}
    BY <1>3, <2>1 DEF RequestDetail
  <2> QED
    BY <1>7, <2>1, <2>2
<1>10. ASSUME NEW limit \in 1 .. Cardinality(A) PROVE RequestLogs(days, limit) # {}
  <2>1. limit \in 0 .. Cardinality(A)
    BY <1>4, FS_CardinalityType
  <2>2. PICK S \in SUBSET A : /\ Cardinality(S) = limit
                              /\ \A e \in S : \A o \in A \ S : created[e] >= created[o]
    BY <1>3, <1>4, <2>1, NewestExist DEF StoreInv
  <2>3. S \in RequestLogs(days, limit)
    BY <1>2, <2>2 DEF RequestLogs
  <2> QED
    BY <2>3
<1> QED
  BY <1>2, <1>6, <1>8, <1>9, <1>10

\* The dashboard's figures fit together in every reachable state of the store.
THEOREM DashboardAddsUp == Spec => []ReportsAgree
<1>1. Init => IsFiniteSet(db["request_logs"])
  <2> SUFFICES ASSUME Init PROVE IsFiniteSet(db["request_logs"])
    OBVIOUS
  <2>1. db["request_logs"] = {}
    BY DEF Init, Tables, MandatoryTables
  <2> QED
    BY <2>1, FS_EmptySet
<1>2. StoreInv /\ IsFiniteSet(db["request_logs"]) /\ [Next]_vars
        => IsFiniteSet(db["request_logs"])'
  BY TableStaysFinite
<1>3. StoreInv /\ IsFiniteSet(db["request_logs"]) => ReportsAgree
  BY WholeExchangesAgree
<1> QED
  BY <1>1, <1>2, <1>3, Invariance, PTL DEF Spec
=============================================================================
