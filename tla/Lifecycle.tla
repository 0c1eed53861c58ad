----------------------------- MODULE Lifecycle -----------------------------
(***************************************************************************)
(* run in main.go: the process around the store.  Two HTTP servers serve   *)
(* until a signal arrives or a listener fails.  After a signal run calls   *)
(* Shutdown of the API server and then of the web server, under one        *)
(* deadline of ten seconds, and the deferred function closes the store;    *)
(* after an error it closes the store at once, while handlers still run.   *)
(* Handlers are killed where they are when run has returned.               *)
(*                                                                         *)
(* The steps of the store, of its goroutines and of the API handlers are   *)
(* the actions of Storage, each under the condition main.go puts on it.    *)
(***************************************************************************)
EXTENDS Storage

VARIABLES phase,        \* what run is doing
          deadline,     \* shutdownCtx is done
          failed,       \* run returns an error
          down,         \* the servers that take no request any more
          webQuery      \* a web handler reading a report from the database

mainVars == <<phase, deadline, failed, down>>
lifeVars == <<vars, mainVars, webQuery>>

Phases == {"serving", "stoppingAPI", "stoppingWeb", "closing", "exited"}

LifeTypeOK ==
    /\ TypeOK
    /\ phase \in Phases
    /\ deadline \in BOOLEAN
    /\ failed \in BOOLEAN
    /\ down \subseteq {"api", "web"}
    /\ webQuery \in {"idle", "reading", "failed"}

\* phase, failed and down once the store is open: the servers are started, or
\* NewGateway refused the configuration and they never are.
StartStates == {[phase |-> "serving", failed |-> FALSE, down |-> {}],
                [phase |-> "closing", failed |-> TRUE, down |-> {"api", "web"}]}

LifeInit ==
    /\ Init
    /\ \E s \in StartStates : phase = s.phase /\ failed = s.failed /\ down = s.down
    /\ deadline = FALSE
    /\ webQuery = "idle"
-----------------------------------------------------------------------------
(* The servers.  Shutdown closes the listener, but a connection that is    *)
(* open may still bring a request until Shutdown has returned nil.         *)

Serves(server) == phase # "exited" /\ server \notin down

\* No API handler is running.
APIIdle == \A e \in Exchanges : caller[e] \notin {"serving", "sending"}

APIRequest(e) ==
    /\ Serves("api")
    /\ Begin(e)
    /\ UNCHANGED <<mainVars, webQuery>>

\* A handler gets on with its exchange; nothing ends it but the process.
APIHandler(e) ==
    /\ phase # "exited"
    /\ CheckStopping(e) \/ Send(e)
    /\ UNCHANGED <<mainVars, webQuery>>

WebRequest ==
    /\ Serves("web")
    /\ webQuery = "idle"
    /\ webQuery' = "reading"
    /\ UNCHANGED <<vars, mainVars>>

\* The query returns rows, or "database is closed" and the handler answers 500.
WebAnswer ==
    /\ phase # "exited"
    /\ webQuery = "reading"
    /\ webQuery' = IF closer = "closed" THEN "failed" ELSE "idle"
    /\ UNCHANGED <<vars, mainVars>>
-----------------------------------------------------------------------------
(* run.                                                                    *)

Signal ==
    /\ phase = "serving"
    /\ phase' = "stoppingAPI"
    /\ UNCHANGED <<vars, deadline, failed, down, webQuery>>

\* One of the two ListenAndServe returned an error.
ListenError ==
    /\ phase = "serving"
    /\ phase' = "closing"
    /\ failed' = TRUE
    /\ UNCHANGED <<vars, deadline, down, webQuery>>

NoDeadline == FALSE /\ UNCHANGED lifeVars   \* mutant: no timeout on the context

\* Ten seconds after the signal.
Deadline ==
    /\ phase \in {"stoppingAPI", "stoppingWeb"}
    /\ ~deadline
    /\ deadline' = TRUE
    /\ UNCHANGED <<vars, phase, failed, down, webQuery>>

\* Mutants: the servers are closed instead of shut down.
CutOffAPI ==
    /\ phase = "stoppingAPI"
    /\ phase' = "stoppingWeb"
    /\ down' = down \cup {"api"}
    /\ UNCHANGED <<vars, deadline, failed, webQuery>>

CutOffWeb ==
    /\ phase = "stoppingWeb"
    /\ phase' = "closing"
    /\ down' = down \cup {"web"}
    /\ UNCHANGED <<vars, deadline, failed, webQuery>>

\* Shutdown returns nil when the server has no running handler, and the error
\* of its context when that is done first.
ShutdownAPI ==
    /\ phase = "stoppingAPI"
    /\ \/ /\ APIIdle
          /\ phase' = "stoppingWeb"
          /\ down' = down \cup {"api"}
          /\ UNCHANGED failed
       \/ /\ deadline
          /\ phase' = "closing"
          /\ failed' = TRUE
          /\ UNCHANGED down
    /\ UNCHANGED <<vars, deadline, webQuery>>

ShutdownWeb ==
    /\ phase = "stoppingWeb"
    /\ phase' = "closing"
    /\ \/ /\ webQuery # "reading"
          /\ down' = down \cup {"web"}
          /\ UNCHANGED failed
       \/ /\ deadline
          /\ failed' = TRUE
          /\ UNCHANGED down
    /\ UNCHANGED <<vars, deadline, webQuery>>

\* Mutant: the store is closed on the signal, beside the Shutdowns.
CloseOnSignal ==
    /\ phase \notin {"serving", "exited"}
    /\ Close
    /\ UNCHANGED <<mainVars, webQuery>>

\* The deferred storage.Close.
CloseStorage ==
    /\ phase = "closing"
    /\ Close
    /\ UNCHANGED <<mainVars, webQuery>>

Exit ==
    /\ phase = "closing"
    /\ closer = "closed"
    /\ phase' = "exited"
    /\ UNCHANGED <<vars, deadline, failed, down, webQuery>>

\* The goroutines of the store run as long as the process.
Background ==
    /\ phase # "exited"
    /\ Worker \/ Cleaner
    /\ UNCHANGED <<mainVars, webQuery>>

Time == Tick /\ UNCHANGED <<mainVars, webQuery>>

\* The process is killed, or had ended, and is started again.
Restart ==
    /\ Crash
    /\ \E s \in StartStates : phase' = s.phase /\ failed' = s.failed /\ down' = s.down
    /\ deadline' = FALSE
    /\ webQuery' = "idle"

Ended == phase = "exited" /\ UNCHANGED lifeVars

LifeNext ==
    \/ \E e \in Exchanges : APIRequest(e) \/ APIHandler(e)
    \/ WebRequest \/ WebAnswer
    \/ Signal \/ ListenError \/ Deadline \/ ShutdownAPI \/ ShutdownWeb
    \/ CloseStorage \/ Exit
    \/ Background
    \/ Time \/ Restart
    \/ Ended

LifeSpec == LifeInit /\ [][LifeNext]_lifeVars

\* main's own goroutine, the context's timer and the store's goroutines are
\* scheduled.  Handlers may hang on an upstream or on a client for any time.
LifeFairness ==
    /\ WF_lifeVars(Deadline)
    /\ WF_lifeVars(ShutdownAPI)
    /\ WF_lifeVars(ShutdownWeb)
    /\ WF_lifeVars(CloseStorage)
    /\ WF_lifeVars(Exit)
    /\ WF_lifeVars(phase # "exited" /\ Worker /\ UNCHANGED <<mainVars, webQuery>>)
    /\ WF_lifeVars(phase # "exited" /\ StartRetention /\ UNCHANGED <<mainVars, webQuery>>)
    /\ WF_lifeVars(phase # "exited" /\ CleanerExit /\ UNCHANGED <<mainVars, webQuery>>)

FairLifeSpec == LifeSpec /\ LifeFairness
-----------------------------------------------------------------------------
\* A stop without error is complete: when the store begins to close, no
\* handler is left that could still offer an exchange or read a report, so
\* after it every exchange that was begun has been handed over, and nothing
\* accepted was left behind.  This is what the order of the two Shutdowns and
\* the deferred Close in run is for.
CleanStop ==
    (phase \in {"closing", "exited"} /\ ~failed) =>
        /\ APIIdle
        /\ webQuery # "reading"
        /\ phase = "exited" => Pending = <<>>

\* Its strengthening: a Shutdown that returned nil left its server idle for
\* good, and the store closes only after both or after an error.
StopInv ==
    /\ phase = "stoppingWeb" /\ ~failed => "api" \in down
    /\ phase \in {"closing", "exited"} /\ ~failed => down = {"api", "web"}
    /\ "api" \in down => APIIdle
    /\ "web" \in down => webQuery # "reading"
    /\ closer # "running" => phase \in {"closing", "exited"}
    /\ phase = "exited" => closer = "closed"

\* Only a process that stops with an error turns an exchange away or fails a
\* web query: in no other does a handler meet a store that is closing.
TurnedAwayOnlyOnError ==
    [][/\ \A e \in Exchanges :
            caller'[e] \in {"refused", "panicked"} /\ caller'[e] # caller[e] => failed
       /\ webQuery' = "failed" /\ webQuery # "failed" => failed]_lifeVars

\* A signal ends the process, whatever its handlers hang on: at the latest the
\* deadline makes Shutdown return, and Close does not wait for handlers.
SignalEndsProcess ==
    \A n \in 0 .. MaxCrashes :
        phase = "stoppingAPI" /\ crashes = n ~> phase = "exited" \/ crashes # n

\* A handler that saves while the store closes gets an error back, it does not
\* panic on the closed channel.
NoPanic == \A e \in Exchanges : caller[e] # "panicked"
=============================================================================
