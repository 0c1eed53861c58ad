------------------------------ MODULE Storage ------------------------------
(***************************************************************************)
(* internal/storage.go: the asynchronous exchange store.  Handlers hand an *)
(* exchange to SaveExchange, which puts it on a bounded channel without    *)
(* blocking; one worker goroutine takes exchanges off the channel and      *)
(* writes each in one SQLite transaction over up to five tables; another   *)
(* goroutine deletes rows past the retention period; Close stops intake,   *)
(* drains and closes the database.  The process may also be killed at any  *)
(* moment and started again on the same database.                          *)
(*                                                                         *)
(* One action is one step another goroutine (or a crash) can observe.      *)
(***************************************************************************)
EXTENDS Integers, Sequences, FiniteSets

CONSTANTS Exchanges,    \* ids of the exchanges (RequestLog.ID)
          QueueCap,     \* capacity of Storage.queue, 1024 in OpenStorage
          Retention,    \* StorageConfig.RetentionDays, in ticks of the clock
          PartChoices,  \* the optional tables an exchange may have rows in
          MaxClock,     \* bound: last value of the clock
          MaxCrashes    \* bound: number of times the process is killed

\* Tables every exchange has a row in, and those it may have one in.
MandatoryTables == {"request_logs", "response_logs"}
OptionalTables == {"request_bodies", "response_bodies", "usage_logs"}
Tables == MandatoryTables \cup OptionalTables

\* Position of a table's INSERT in saveExchangeSync.
InsertOrder == [request_logs |-> 1, response_logs |-> 2, request_bodies |-> 3,
                response_bodies |-> 4, usage_logs |-> 5]

ASSUME StorageAssumption ==
    /\ QueueCap \in Nat \ {0}
    /\ Retention \in Nat
    /\ MaxClock \in Nat
    /\ MaxCrashes \in Nat
    /\ PartChoices \subseteq SUBSET OptionalTables
    /\ PartChoices # {}

VARIABLES clock,        \* wall-clock time, in retention units
          caller,       \* where the handler that saves an exchange is
          created,      \* RequestLog.CreatedAt
          parts,        \* the optional tables the exchange has rows in
          queue,        \* Storage.queue
          worker,       \* where the goroutine of worker() is
          task, txRows, \* the exchange it is writing, if any, and the tables its
                      \* open transaction has inserted rows into
          db,           \* the committed rows of each table, by request id
          cleaner,      \* where the goroutine of retentionWorker() is
          closer,       \* where the goroutine running Close is
          reported,     \* exchanges whose loss was reported by an error
          wiped,        \* exchanges that were pending when the process died
          crashes

handlerVars == <<caller, created, parts>>
workerVars == <<worker, task, txRows>>
processVars == <<queue, workerVars, cleaner, closer>>
vars == <<clock, handlerVars, processVars, db, reported, wiped, crashes>>

CallerStates == {"new", "serving", "sending", "accepted", "dropped", "refused",
                 "panicked", "killed"}
CloserStates == {"running", "stopping", "signalled", "draining", "closed"}

TypeOK ==
    /\ clock \in 0 .. MaxClock
    /\ caller \in [Exchanges -> CallerStates]
    /\ created \in [Exchanges -> 0 .. MaxClock]
    /\ parts \in [Exchanges -> SUBSET OptionalTables]
    /\ queue \in Seq(Exchanges)
    /\ Len(queue) <= QueueCap
    /\ worker \in {"running", "exited"}
    /\ task \in Seq(Exchanges)
    /\ txRows \subseteq Tables
    /\ db \in [Tables -> SUBSET Exchanges]
    /\ cleaner \in {"starting", "waiting", "exited"}
    /\ closer \in CloserStates
    /\ reported \subseteq Exchanges
    /\ wiped \subseteq Exchanges
    /\ crashes \in 0 .. MaxCrashes
-----------------------------------------------------------------------------
\* Accepted and neither committed nor given up yet, oldest first.
Pending == task \o queue

Members(q) == {q[i] : i \in 1 .. Len(q)}

\* What Close has done so far: stopping.Store(true), close(s.closed),
\* close(s.queue).
Stopping == closer # "running"
SignalForgotten == FALSE    \* mutant: Close never closes s.closed
SignalClosed == closer \in {"signalled", "draining", "closed"}
QueueClosed == closer \in {"draining", "closed"}

\* The tables saveExchangeSync inserts exchange e into.
RowsOf(e) == MandatoryTables \cup parts[e]

\* An exchange older than the retention period.
Expired(e) == created[e] < clock - Retention

Init ==
    /\ clock = 0
    /\ caller = [e \in Exchanges |-> "new"]
    /\ created = [e \in Exchanges |-> 0]
    /\ parts = [e \in Exchanges |-> {}]
    /\ queue = <<>>
    /\ worker = "running"
    /\ task = <<>>
    /\ txRows = {}
    /\ db = [t \in Tables |-> {}]
    /\ cleaner = "starting"
    /\ closer = "running"
    /\ reported = {}
    /\ wiped = {}
    /\ crashes = 0
-----------------------------------------------------------------------------
(* The request handlers.                                                   *)

\* A handler takes its start time, which becomes the row's created_at.
Begin(e) ==
    /\ caller[e] = "new"
    /\ caller' = [caller EXCEPT ![e] = "serving"]
    /\ created' = [created EXCEPT ![e] = clock]
    /\ UNCHANGED <<clock, parts, processVars, db, reported, wiped, crashes>>

\* SaveExchange up to its check of stopping; the exchange is complete now.
CheckStopping(e) ==
    /\ caller[e] = "serving"
    /\ \E p \in PartChoices : parts' = [parts EXCEPT ![e] = p]
    /\ \/ /\ Stopping
          /\ caller' = [caller EXCEPT ![e] = "refused"]
          /\ reported' = reported \cup {e}
       \/ /\ ~Stopping
          /\ caller' = [caller EXCEPT ![e] = "sending"]
          /\ UNCHANGED reported
    /\ UNCHANGED <<clock, created, processVars, db, wiped, crashes>>

\* Mutant: the send never finds the channel full.
SendUnbounded(e) ==
    /\ caller[e] = "sending"
    /\ ~QueueClosed
    /\ queue' = Append(queue, e)
    /\ caller' = [caller EXCEPT ![e] = "accepted"]
    /\ UNCHANGED <<clock, created, parts, workerVars, db, cleaner, closer,
                   reported, wiped, crashes>>

\* SaveExchange's select: the send, or default when the channel is full.  A
\* send on a closed channel panics in the handler's goroutine.
Send(e) ==
    /\ caller[e] = "sending"
    /\ \/ /\ QueueClosed
          /\ caller' = [caller EXCEPT ![e] = "panicked"]
          /\ reported' = reported \cup {e}
          /\ UNCHANGED queue
       \/ /\ ~QueueClosed
          /\ Len(queue) < QueueCap
          /\ queue' = Append(queue, e)
          /\ caller' = [caller EXCEPT ![e] = "accepted"]
          /\ UNCHANGED reported
       \/ /\ ~QueueClosed
          /\ Len(queue) >= QueueCap
          /\ caller' = [caller EXCEPT ![e] = "dropped"]
          /\ reported' = reported \cup {e}
          /\ UNCHANGED queue
    /\ UNCHANGED <<clock, created, parts, workerVars, db, cleaner, closer,
                   wiped, crashes>>
-----------------------------------------------------------------------------
(* The worker goroutine.                                                   *)

\* for task := range s.queue: also after the channel was closed, until empty.
Receive ==
    /\ worker = "running"
    /\ task = <<>>
    /\ queue # <<>>
    /\ task' = <<Head(queue)>>
    /\ queue' = Tail(queue)
    /\ UNCHANGED <<clock, handlerVars, worker, txRows, db, cleaner, closer,
                   reported, wiped, crashes>>

\* The next INSERT of the transaction; a child row needs its parent row.
Insert ==
    /\ task # <<>>
    /\ \E t \in RowsOf(Head(task)) \ txRows :
          /\ \A u \in RowsOf(Head(task)) \ txRows : InsertOrder[t] <= InsertOrder[u]
          /\ t = "request_logs" \/ "request_logs" \in txRows
          /\ txRows' = txRows \cup {t}
    /\ UNCHANGED <<clock, handlerVars, queue, worker, task, db, cleaner, closer,
                   reported, wiped, crashes>>

\* Mutant: the transaction is left open for the next task.
EndTaskOnly ==
    /\ task' = <<>>
    /\ UNCHANGED <<clock, handlerVars, queue, worker, txRows, cleaner, closer,
                   wiped, crashes>>

\* The transaction ends and the worker turns to the next task.
EndTransaction ==
    /\ task' = <<>>
    /\ txRows' = {}
    /\ UNCHANGED <<clock, handlerVars, queue, worker, cleaner, closer, wiped,
                   crashes>>

\* tx.Commit after the last INSERT.
Commit ==
    /\ task # <<>>
    /\ RowsOf(Head(task)) \subseteq txRows
    /\ db' = [t \in Tables |->
                IF t \in txRows THEN db[t] \cup {Head(task)} ELSE db[t]]
    /\ UNCHANGED reported
    /\ EndTransaction

\* Mutant: a failed exchange is put back on the channel to be tried again.
RollbackRetries ==
    /\ task # <<>>
    /\ queue' = Append(queue, Head(task))
    /\ task' = <<>>
    /\ txRows' = {}
    /\ UNCHANGED <<clock, handlerVars, worker, db, cleaner, closer, reported,
                   wiped, crashes>>

\* Begin, an INSERT or Commit fails (disk full, database locked for longer
\* than busy_timeout): the deferred Rollback runs and the worker prints an
\* error.
Rollback ==
    /\ task # <<>>
    /\ reported' = reported \cup {Head(task)}
    /\ UNCHANGED db
    /\ EndTransaction

\* Mutant: the worker returns when the channel is closed, without draining it.
WorkerExitUndrained ==
    /\ worker = "running"
    /\ task = <<>>
    /\ QueueClosed
    /\ worker' = "exited"
    /\ UNCHANGED <<clock, handlerVars, queue, task, txRows, db, cleaner, closer,
                   reported, wiped, crashes>>

\* The range loop ends when the channel is closed and drained.
WorkerExit ==
    /\ worker = "running"
    /\ task = <<>>
    /\ queue = <<>>
    /\ QueueClosed
    /\ worker' = "exited"
    /\ UNCHANGED <<clock, handlerVars, queue, task, txRows, db, cleaner, closer,
                   reported, wiped, crashes>>
-----------------------------------------------------------------------------
(* The retention goroutine.                                                *)

\* Mutants: foreign_keys is off on the connection that deletes; the threshold
\* is off by one.
DeleteWithoutCascade ==
    /\ txRows = {}
    /\ db' = [db EXCEPT !["request_logs"] = {e \in @ : ~Expired(e)}]

DeleteOneDayEarly ==
    /\ txRows = {}
    /\ db' = [t \in Tables |->
                db[t] \ {e \in db["request_logs"] : created[e] <= clock - Retention}]

\* DELETE FROM request_logs, cascading to the other tables.  It waits for the
\* worker's transaction when that has written already (one writer at a time).
DeleteExpired ==
    /\ txRows = {}
    /\ db' = [t \in Tables |->
                db[t] \ {e \in db["request_logs"] : Expired(e)}]

\* The DELETE of Cleanup succeeds, or fails and is only logged.
Cleanup ==
    \/ DeleteExpired
    \/ UNCHANGED db

\* Mutant: the goroutine does not return when retention_days is zero.
StartUnguarded ==
    /\ cleaner = "starting"
    /\ Cleanup
    /\ cleaner' = "waiting"
    /\ UNCHANGED <<clock, handlerVars, queue, workerVars, closer, reported,
                   wiped, crashes>>

\* The goroutine returns at once when retention_days <= 0, and nothing is ever
\* deleted; else it cleans up before it waits for its ticker.
StartRetention ==
    /\ cleaner = "starting"
    /\ IF Retention = 0 THEN cleaner' = "exited" /\ UNCHANGED db
                        ELSE cleaner' = "waiting" /\ Cleanup
    /\ UNCHANGED <<clock, handlerVars, queue, workerVars, closer, reported,
                   wiped, crashes>>

PeriodicCleanup ==
    /\ cleaner = "waiting"
    /\ Cleanup
    /\ UNCHANGED <<clock, handlerVars, processVars, reported, wiped, crashes>>

CleanerExit ==
    /\ cleaner = "waiting"
    /\ SignalClosed
    /\ cleaner' = "exited"
    /\ UNCHANGED <<clock, handlerVars, queue, workerVars, db, closer, reported,
                   wiped, crashes>>
-----------------------------------------------------------------------------
(* Close, one statement at a time.                                         *)

CloseStep(from, to) ==
    /\ closer = from
    /\ closer' = to
    /\ UNCHANGED <<clock, handlerVars, queue, workerVars, db, cleaner, reported,
                   wiped, crashes>>

SetStopping == CloseStep("running", "stopping")
CloseSignal == CloseStep("stopping", "signalled")
CloseQueue == CloseStep("signalled", "draining")

WorkerDone == worker = "exited"     \* mutant: wg.Add(1)

\* wg.Wait and then db.Close.
WorkersDone == worker = "exited" /\ cleaner = "exited"
CloseDB ==
    /\ WorkersDone
    /\ CloseStep("draining", "closed")
-----------------------------------------------------------------------------
(* The environment.                                                        *)

Tick ==
    /\ clock < MaxClock
    /\ clock' = clock + 1
    /\ UNCHANGED <<handlerVars, processVars, db, reported, wiped, crashes>>

\* The process is killed (or exits while handlers still run) and OpenStorage
\* runs in a new one: SQLite drops the uncommitted transaction, everything in
\* memory is gone.
Crash ==
    /\ crashes < MaxCrashes
    /\ crashes' = crashes + 1
    /\ wiped' = wiped \cup Members(Pending)
    /\ caller' = [e \in Exchanges |->
                    IF caller[e] \in {"serving", "sending"} THEN "killed"
                    ELSE caller[e]]
    /\ queue' = <<>>
    /\ worker' = "running"
    /\ task' = <<>>
    /\ txRows' = {}
    /\ cleaner' = "starting"
    /\ closer' = "running"
    /\ UNCHANGED <<clock, created, parts, db, reported>>

\* Close has returned and no handler is left.
Terminated ==
    /\ closer = "closed"
    /\ \A e \in Exchanges : caller[e] \notin {"new", "serving", "sending"}
    /\ UNCHANGED vars
-----------------------------------------------------------------------------
Handler(e) == Begin(e) \/ CheckStopping(e) \/ Send(e)
Worker == Receive \/ Insert \/ Commit \/ Rollback \/ WorkerExit
Cleaner == StartRetention \/ PeriodicCleanup \/ CleanerExit
Close == SetStopping \/ CloseSignal \/ CloseQueue \/ CloseDB

Next ==
    \/ \E e \in Exchanges : Handler(e)
    \/ Worker
    \/ Cleaner
    \/ Close
    \/ Tick
    \/ Crash
    \/ Terminated

Spec == Init /\ [][Next]_vars

\* The goroutines of the process are scheduled.  Nothing makes a signal, a
\* crash or the 24-hour ticker happen, and Begin is up to the clients.
Fairness ==
    /\ \A e \in Exchanges : WF_vars(CheckStopping(e)) /\ WF_vars(Send(e))
    /\ WF_vars(Worker)
    /\ WF_vars(StartRetention)
    /\ WF_vars(CleanerExit)
    /\ WF_vars(CloseSignal \/ CloseQueue \/ CloseDB)

FairSpec == Spec /\ Fairness
-----------------------------------------------------------------------------
(* What the store guarantees.                                              *)

\* A reader never sees part of an exchange: at every moment, also right after
\* a crash, a failed INSERT or a cleanup, the committed rows of an exchange are
\* all of its rows or none (one transaction in saveExchangeSync, ON DELETE
\* CASCADE in init).  The JOINs of FindCachedResponse and of the reports rely
\* on it.
WholeExchanges ==
    \A e \in Exchanges : \A t \in Tables :
        e \in db[t] <=> e \in db["request_logs"] /\ t \in RowsOf(e)

\* An exchange whose SaveExchange returned is still pending, or readable, or
\* its loss was reported to the log, unless it outlived the retention period
\* or was pending when the process died.
NoSilentLoss ==
    \A e \in Exchanges :
        caller[e] \in {"accepted", "dropped", "refused", "panicked"} =>
            \/ e \in Members(Pending) \cup db["request_logs"] \cup reported \cup wiped
            \/ Retention > 0 /\ Expired(e)

\* No goroutine touches the database once db.Close ran, and by then everything
\* on the channel was handled (wg.Wait and the drained range loop).
QuietWhenClosed ==
    closer = "closed" => /\ Pending = <<>>
                         /\ worker = "exited"
                         /\ cleaner = "exited"

\* retention_days = 0 keeps everything: a row that was committed is there for
\* good, across restarts too.  Cleanup with a threshold of zero days would delete
\* all but the newest rows, so this rests on the early return of retentionWorker.
KeptForever ==
    [][Retention = 0 => db["request_logs"] \subseteq db'["request_logs"]]_vars

\* The strengthening of the three that every step preserves.  The worker has at
\* most one exchange at hand and its transaction has rows of no other;
OneTask ==
    /\ Len(task) <= 1
    /\ txRows # {} => task # <<>> /\ txRows \subseteq RowsOf(Head(task))

\* an exchange is with the store only after its handler's send, and reported
\* only after its handler is done with it;
HandedOver ==
    /\ \A e \in Members(Pending) \cup db["request_logs"] : caller[e] = "accepted"
    /\ \A e \in reported : caller[e] \notin {"new", "serving", "sending"}

\* and the goroutines stop in order.
StopOrder ==
    /\ cleaner = "waiting" => Retention > 0
    /\ worker = "exited" => Pending = <<>> /\ QueueClosed

StoreInv ==
    /\ TypeOK
    /\ WholeExchanges
    /\ NoSilentLoss
    /\ QuietWhenClosed
    /\ OneTask
    /\ HandedOver
    /\ StopOrder

\* Close returns: the worker drains the channel and the retention goroutine
\* hears the signal.
CloseReturns == closer = "stopping" ~> closer \in {"closed", "running"}

\* An accepted exchange does not stay pending for ever, also when Close begins
\* while it waits.
AcceptedIsSettled ==
    \A e \in Exchanges : e \in Members(Pending) ~> e \notin Members(Pending)

\* The store implements the log the handlers are promised.
Log == INSTANCE AuditLog
         WITH pending <- Pending,
              durable <- db["request_logs"],
              expired <- {e \in Exchanges : Expired(e)},
              open    <- closer # "closed"

ImplementsAuditLog == Log!Spec
=============================================================================
