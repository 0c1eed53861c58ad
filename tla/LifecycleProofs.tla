-------------------------- MODULE LifecycleProofs --------------------------
(***************************************************************************)
(* Theorems about Lifecycle: what a stop without error guarantees, for any *)
(* number of handlers and however long they hang.                          *)
(***************************************************************************)
EXTENDS Lifecycle, StorageProofs

-----------------------------------------------------------------------------
(* The process runs the store as Storage specifies it, so that every       *)
(* theorem about Storage holds of it.                                      *)

LEMMA LifeStep == [LifeNext]_lifeVars => [Next]_vars
<1> SUFFICES ASSUME [LifeNext]_lifeVars PROVE [Next]_vars
  OBVIOUS
<1>1. ASSUME NEW e \in Exchanges, APIRequest(e) \/ APIHandler(e)
      PROVE  Next
  BY <1>1 DEF APIRequest, APIHandler, Next, Handler
<1>2. CASE \/ WebRequest \/ WebAnswer \/ Signal \/ ListenError \/ Deadline
           \/ ShutdownAPI \/ ShutdownWeb \/ Exit \/ Ended \/ UNCHANGED lifeVars
  BY <1>2 DEF WebRequest, WebAnswer, Signal, ListenError, Deadline, ShutdownAPI,
              ShutdownWeb, Exit, Ended, lifeVars
<1>3. CASE CloseStorage \/ Background \/ Time \/ Restart
  BY <1>3 DEF CloseStorage, Background, Time, Restart, Next
<1> QED
  BY <1>1, <1>2, <1>3 DEF LifeNext

\* The store inside the process behaves as Storage specifies.
THEOREM RunsStorage == LifeSpec => Spec
<1>1. LifeInit => Init
  BY DEF LifeInit
<1>2. [LifeNext]_lifeVars => [Next]_vars
  BY LifeStep
<1> QED
  BY <1>1, <1>2, PTL DEF LifeSpec, Spec

LEMMA StoreInvHolds == LifeSpec => []StoreInv
BY RunsStorage, Invariance, PTL

\* A new process serves, or stops at once because its gateway was refused.
LEMMA Starting ==
    ASSUME NEW p, NEW f, NEW d,
           \E s \in StartStates : p = s.phase /\ f = s.failed /\ d = s.down
    PROVE  \/ p = "serving" /\ f = FALSE /\ d = {}
           \/ p = "closing" /\ f = TRUE /\ d = {"api", "web"}
BY DEF StartStates

LEMMA LifeTypes == TypeOK /\ LifeTypeOK /\ [LifeNext]_lifeVars => LifeTypeOK'
<1> SUFFICES ASSUME TypeOK, LifeTypeOK, [LifeNext]_lifeVars PROVE LifeTypeOK'
  OBVIOUS
<1>1. TypeOK'
  BY LifeStep, NextTypes
<1>2. ASSUME NEW e \in Exchanges, APIRequest(e) \/ APIHandler(e)
      PROVE  UNCHANGED <<mainVars, webQuery>>
  BY <1>2 DEF APIRequest, APIHandler
<1>3. CASE UNCHANGED <<mainVars, webQuery>>
  BY <1>1, <1>3 DEF LifeTypeOK, mainVars
<1>4. CASE WebRequest \/ WebAnswer
  BY <1>1, <1>4 DEF LifeTypeOK, WebRequest, WebAnswer, mainVars
<1>5. CASE Signal \/ ListenError \/ Deadline \/ Exit
  BY <1>1, <1>5 DEF LifeTypeOK, Signal, ListenError, Deadline, Exit, Phases
<1>8. CASE Restart
  BY <1>1, <1>8, Starting DEF LifeTypeOK, Restart, Phases
<1>6. CASE ShutdownAPI
  BY <1>1, <1>6 DEF LifeTypeOK, ShutdownAPI, Phases
<1>7. CASE ShutdownWeb
  BY <1>1, <1>7 DEF LifeTypeOK, ShutdownWeb, Phases
<1> QED
  BY <1>2, <1>3, <1>4, <1>5, <1>6, <1>7, <1>8
     DEF LifeNext, CloseStorage, Background, Time, Ended, lifeVars

\* The variables of run keep their types, beside those of the store.
THEOREM LifeTypeCorrect == LifeSpec => []LifeTypeOK
<1>1. LifeInit => LifeTypeOK
  BY InitTypes, Starting DEF LifeInit, LifeTypeOK, Phases
<1>2. StoreInv /\ LifeTypeOK /\ [LifeNext]_lifeVars => LifeTypeOK'
  BY LifeTypes DEF StoreInv
<1> QED
  BY <1>1, <1>2, StoreInvHolds, PTL DEF LifeSpec
-----------------------------------------------------------------------------
(* StopInv is inductive.                                                   *)

\* The steps of the store's goroutines and the clock leave handlers alone.
LEMMA BackgroundKeeps ==
    ASSUME Worker \/ Cleaner \/ Tick
    PROVE  UNCHANGED <<caller, closer>>
BY DEF Worker, Receive, Insert, Commit, Rollback, EndTransaction, WorkerExit,
       Cleaner, StartRetention, Cleanup, DeleteExpired, PeriodicCleanup, CleanerExit,
       Tick, handlerVars, processVars

LEMMA HandlerKeeps ==
    ASSUME NEW e \in Exchanges, Handler(e)
    PROVE  closer' = closer
BY DEF Handler, Begin, CheckStopping, Send, processVars

LEMMA IdleKept ==
    ASSUME APIIdle, UNCHANGED caller
    PROVE  APIIdle'
BY DEF APIIdle

LEMMA StopInvStep ==
    ASSUME StoreInv, LifeTypeOK, StopInv, [LifeNext]_lifeVars
    PROVE  StopInv'
<1>1. caller \in [Exchanges -> CallerStates]
  BY DEF StoreInv, TypeOK
<1>2. ASSUME NEW e \in Exchanges, APIRequest(e) PROVE StopInv'
  <2>1. /\ "api" \notin down /\ phase # "exited"
        /\ UNCHANGED <<closer, phase, failed, down, webQuery>>
    BY <1>2, HandlerKeeps DEF APIRequest, Serves, mainVars, Handler
  <2> QED
    BY <2>1 DEF StopInv
<1>3. ASSUME NEW e \in Exchanges, APIHandler(e) PROVE StopInv'
  <2>1. /\ UNCHANGED <<closer, phase, failed, down, webQuery>>
        /\ caller[e] \in {"serving", "sending"}
    BY <1>3, HandlerKeeps DEF APIHandler, mainVars, Handler, CheckStopping, Send
  <2>2. "api" \notin down
    BY <2>1 DEF StopInv, APIIdle
  <2> QED
    BY <2>1, <2>2 DEF StopInv
<1>4. CASE WebRequest \/ WebAnswer
  <2>1. UNCHANGED <<caller, closer, phase, failed, down>>
    BY <1>4 DEF WebRequest, WebAnswer, vars, handlerVars, processVars, mainVars
  <2>2. "web" \in down => webQuery' # "reading"
    BY <1>4 DEF WebRequest, WebAnswer, Serves
  <2> QED
    BY <2>1, <2>2, IdleKept DEF StopInv
<1>5. CASE Signal \/ ListenError \/ Deadline \/ Exit
  <2>1. UNCHANGED <<caller, closer, down, webQuery>>
    BY <1>5 DEF Signal, ListenError, Deadline, Exit, vars, handlerVars, processVars
  <2>2. CASE Signal
    BY <2>1, <2>2, IdleKept DEF StopInv, Signal
  <2>3. CASE ListenError
    BY <2>1, <2>3, IdleKept DEF StopInv, ListenError
  <2>4. CASE Deadline
    BY <2>1, <2>4, IdleKept DEF StopInv, Deadline
  <2>5. CASE Exit
    BY <2>1, <2>5, IdleKept DEF StopInv, Exit
  <2> QED
    BY <1>5, <2>2, <2>3, <2>4, <2>5
<1>6. CASE ShutdownAPI
  <2>1. UNCHANGED <<caller, closer, webQuery>>
    BY <1>6 DEF ShutdownAPI, vars, handlerVars, processVars
  <2>2. CASE APIIdle /\ phase' = "stoppingWeb" /\ down' = down \cup {"api"}
    BY <1>6, <2>1, <2>2, IdleKept DEF StopInv, ShutdownAPI
  <2>3. CASE phase' = "closing" /\ failed' = TRUE /\ UNCHANGED down
    BY <2>1, <2>3, IdleKept DEF StopInv
  <2> QED
    BY <1>6, <2>2, <2>3 DEF ShutdownAPI
<1>7. CASE ShutdownWeb
  <2>1. UNCHANGED <<caller, closer, webQuery>> /\ phase = "stoppingWeb" /\ phase' = "closing"
    BY <1>7 DEF ShutdownWeb, vars, handlerVars, processVars
  <2>2. CASE webQuery # "reading" /\ down' = down \cup {"web"} /\ UNCHANGED failed
    BY <2>1, <2>2, IdleKept DEF StopInv, LifeTypeOK
  <2>3. CASE failed' = TRUE /\ UNCHANGED down
    BY <2>1, <2>3, IdleKept DEF StopInv
  <2> QED
    BY <1>7, <2>2, <2>3 DEF ShutdownWeb
<1>8. CASE CloseStorage
  <2>1. UNCHANGED <<caller, phase, failed, down, webQuery>> /\ phase = "closing"
    BY <1>8 DEF CloseStorage, Close, SetStopping, CloseSignal, CloseQueue, CloseDB,
                CloseStep, handlerVars, mainVars
  <2> QED
    BY <2>1, IdleKept DEF StopInv
<1>9. CASE Background \/ Time \/ Ended \/ UNCHANGED lifeVars
  <2>1. UNCHANGED <<caller, closer, phase, failed, down, webQuery>>
    BY <1>9, BackgroundKeeps DEF Background, Time, Ended, lifeVars, vars, handlerVars,
                                 processVars, mainVars
  <2> QED
    BY <2>1, IdleKept DEF StopInv
<1>10. CASE Restart
  <2>1. caller' = [e \in Exchanges |->
                     IF caller[e] \in {"serving", "sending"} THEN "killed" ELSE caller[e]]
    BY <1>10 DEF Restart, Crash
  <2>2. APIIdle'
    BY <2>1 DEF APIIdle
  <2> QED
    BY <1>10, <2>2, Starting DEF Restart, Crash, StopInv
<1> QED
  BY <1>2, <1>3, <1>4, <1>5, <1>6, <1>7, <1>8, <1>9, <1>10 DEF LifeNext

\* In every phase of main.run the servers that are down, the handlers that are left and
\* the progress of Close fit together.
THEOREM StopInvariance == LifeSpec => []StopInv
<1>1. LifeInit => StopInv
  <2> SUFFICES ASSUME LifeInit PROVE StopInv
    OBVIOUS
  <2>1. APIIdle /\ closer = "running" /\ webQuery = "idle"
    BY DEF LifeInit, Init, APIIdle
  <2> QED
    BY <2>1, Starting DEF LifeInit, StopInv
<1>2. StoreInv /\ LifeTypeOK /\ StopInv /\ [LifeNext]_lifeVars => StopInv'
  BY StopInvStep
<1> QED
  BY <1>1, <1>2, StoreInvHolds, LifeTypeCorrect, PTL DEF LifeSpec

\* A stop without error leaves no handler behind and nothing unwritten.
THEOREM StopIsClean == LifeSpec => []CleanStop
<1>1. StoreInv /\ StopInv => CleanStop
  BY DEF StoreInv, StopInv, CleanStop, QuietWhenClosed
<1> QED
  BY <1>1, StoreInvHolds, StopInvariance, PTL

\* Only a stop with an error turns exchanges away or fails web queries.
THEOREM OnlyErrorsTurnAway == LifeSpec => TurnedAwayOnlyOnError
<1> DEFINE A == /\ \A e \in Exchanges :
                      caller'[e] \in {"refused", "panicked"} /\ caller'[e] # caller[e] => failed
                /\ webQuery' = "failed" /\ webQuery # "failed" => failed
<1>1. StoreInv /\ StopInv /\ [LifeNext]_lifeVars => [A]_lifeVars
  <2> SUFFICES ASSUME StoreInv, StopInv, LifeNext PROVE A
    OBVIOUS
  <2>1. caller \in [Exchanges -> CallerStates]
    BY DEF StoreInv, TypeOK
  <2>2. ASSUME NEW e \in Exchanges,
               caller'[e] \in {"refused", "panicked"}, caller'[e] # caller[e]
        PROVE  failed
    <3>1. ASSUME NEW x \in Exchanges, APIRequest(x) PROVE caller'[e] # caller[e] => caller'[e] = "serving"
      BY <2>1, <3>1 DEF APIRequest, Begin
    <3>2. ASSUME NEW x \in Exchanges, APIHandler(x) PROVE failed
      <4>1. x = e
        BY <2>1, <2>2, <3>2 DEF APIHandler, CheckStopping, Send
      <4>2. caller[e] \in {"serving", "sending"} /\ closer # "running" /\ phase # "exited"
        BY <2>1, <2>2, <3>2, <4>1 DEF APIHandler, CheckStopping, Send, Stopping, QueueClosed
      <4> QED
        BY <4>2 DEF StopInv, APIIdle
    <3>3. CASE \/ WebRequest \/ WebAnswer \/ Signal \/ ListenError \/ Deadline
               \/ ShutdownAPI \/ ShutdownWeb \/ Exit \/ Ended
      BY <3>3, <2>2 DEF WebRequest, WebAnswer, Signal, ListenError, Deadline, ShutdownAPI,
                  ShutdownWeb, Exit, Ended, lifeVars, vars, handlerVars
    <3>4. CASE CloseStorage
      BY <3>4, <2>2 DEF CloseStorage, Close, SetStopping, CloseSignal, CloseQueue, CloseDB,
                  CloseStep, handlerVars
    <3>5. CASE Background \/ Time
      BY <3>5, <2>2, BackgroundKeeps DEF Background, Time
    <3>6. CASE Restart
      BY <3>6, <2>1, <2>2 DEF Restart, Crash
    <3> QED
      BY <2>2, <3>1, <3>2, <3>3, <3>4, <3>5, <3>6 DEF LifeNext
  <2>3. ASSUME webQuery' = "failed", webQuery # "failed"
        PROVE  failed
    <3>1. WebAnswer
      BY <2>3 DEF LifeNext, APIRequest, APIHandler, WebRequest, Signal, ListenError,
                  Deadline, ShutdownAPI, ShutdownWeb, CloseStorage, Exit, Background,
                  Time, Restart, Ended, lifeVars
    <3> QED
      BY <2>3, <3>1 DEF WebAnswer, StopInv
  <2> QED
    BY <2>2, <2>3
<1> QED
  BY <1>1, StoreInvHolds, StopInvariance, PTL DEF LifeSpec, TurnedAwayOnlyOnError
=============================================================================
