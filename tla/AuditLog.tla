------------------------------ MODULE AuditLog ------------------------------
(***************************************************************************)
(* What internal/storage.go promises the request handlers, whatever its    *)
(* queue, worker goroutines and transactions do.  An exchange is offered   *)
(* once, stays pending in the order it was accepted, and then becomes      *)
(* durable as one whole; it may instead be lost, but never without a       *)
(* trace: a failure is reported and a crash takes everything still         *)
(* pending.  A durable exchange stays until the retention period is over.  *)
(* A log that was closed has nothing pending and never changes again       *)
(* before it is opened anew.                                               *)
(*                                                                         *)
(* Storage.tla is shown to implement this specification.                   *)
(***************************************************************************)
EXTENDS Integers, Sequences

CONSTANT Exchanges          \* the exchanges handlers may offer

VARIABLES pending,          \* accepted and not yet durable, oldest first
          durable,          \* what a reader of the log finds
          reported,         \* exchanges whose loss was reported
          open,             \* FALSE once Close has returned
          expired           \* input: the exchanges past the retention period

log == <<pending, durable, reported, open>>

\* The exchanges of a queue, whatever their order.
Members(q) == {q[i] : i \in 1 .. Len(q)}

TypeOK ==
    /\ pending \in Seq(Exchanges)
    /\ durable \subseteq Exchanges
    /\ reported \subseteq Exchanges
    /\ open \in BOOLEAN
    /\ expired \subseteq Exchanges

Init ==
    /\ pending = <<>>
    /\ durable = {}
    /\ reported = {}
    /\ open = TRUE

Accept(e) ==
    /\ open
    /\ e \notin durable \cup reported \cup Members(pending)
    /\ pending' = Append(pending, e)
    /\ UNCHANGED <<durable, reported, open>>

Refuse(e) ==
    /\ e \notin durable \cup reported \cup Members(pending)
    /\ reported' = reported \cup {e}
    /\ UNCHANGED <<pending, durable, open>>

Persist ==
    /\ pending # <<>>
    /\ open
    /\ durable' = durable \cup {Head(pending)}
    /\ pending' = Tail(pending)
    /\ UNCHANGED <<reported, open>>

Lose ==
    /\ pending # <<>>
    /\ open
    /\ reported' = reported \cup {Head(pending)}
    /\ pending' = Tail(pending)
    /\ UNCHANGED <<durable, open>>

Purge ==
    /\ open
    /\ durable' \in SUBSET durable
    /\ durable \ durable' \subseteq expired
    /\ UNCHANGED <<pending, reported, open>>

Close ==
    /\ open
    /\ pending = <<>>
    /\ open' = FALSE
    /\ UNCHANGED <<pending, durable, reported>>

\* The process dies and is started again on the same database.
Restart ==
    /\ pending' = <<>>
    /\ open' = TRUE
    /\ UNCHANGED <<durable, reported>>

Next ==
    \/ \E e \in Exchanges : Accept(e) \/ Refuse(e)
    \/ Persist
    \/ Lose
    \/ Purge
    \/ Close
    \/ Restart

Spec == Init /\ [][Next]_log
=============================================================================
