------------------------------ MODULE Failover ------------------------------
(***************************************************************************)
(* internal/proxy.go: one non-stream request on its way to the upstream    *)
(* providers.  forwardWithFailover tries the primary provider and then, in *)
(* the order of Gateway.activeProviders, every other one that has the      *)
(* capability, until one answers with a status that is not worth a retry;  *)
(* it keeps the last response it did not like, and ServeAPIHTTP reads the  *)
(* body of the response it is given and answers the client.                *)
(*                                                                         *)
(* Requests share nothing here: the gateway is immutable after startup.    *)
(***************************************************************************)
EXTENDS Integers, Sequences, FiniteSets, Selection

CONSTANTS Providers,    \* names of cfg.Providers
          Raw           \* the metadata left when PrepareBody fails

ASSUME FailoverAssumption == IsFiniteSet(Providers) /\ Raw \notin Providers

VARIABLES active,       \* Gateway.activeProviders
          capable,      \* providers with the capability of the path
          primary,      \* provider chosen for the request
          mayFailover,  \* not pinned to a provider and failover.enable
          att,          \* the finished attempts, as attemptResults
          current,      \* metadata of the attempt that is running
          lastHTTP, lastErr, chosen,    \* indices into att, 0 for nil
          open,         \* attempts whose response body is not closed
          expired,      \* attempts whose http.Client timer fired
          log,          \* provider and metadata in requestLog
          saved,        \* the exchanges offered to the store
          reply,        \* what the client gets
          client,       \* "connected", or "gone": r.Context is done
          pc            \* where the handler is

config == <<active, capable, primary, mayFailover>>
loop == <<att, current, lastHTTP, lastErr, chosen, open, log>>
ending == <<saved, reply>>
vars == <<config, loop, ending, expired, client, pc>>

None == "none"
Metas == Providers \cup {Raw}
Kinds == {"error", "retry", "good"}

\* Causes of a 502: no candidate answered, the context of the attempt was done
\* before its body was read, or the upstream broke the body off.
BadGateway == {"noResponse", "unreadable", "broken"}
DistinctSeqs == UNION {{s \in [1 .. n -> Providers] :
                          \A i, j \in 1 .. n : s[i] = s[j] => i = j} :
                       n \in 1 .. Cardinality(Providers)}

TypeOK ==
    /\ active \in Seq(Providers)
    /\ capable \subseteq Providers
    /\ primary \in Providers
    /\ mayFailover \in BOOLEAN
    /\ att \in Seq([provider : Providers, meta : Metas, kind : Kinds])
    /\ current \in Metas \cup {None}
    /\ {lastHTTP, lastErr, chosen} \subseteq 0 .. Len(att)
    /\ open \subseteq 1 .. Len(att)
    /\ expired \subseteq 1 .. Len(att)
    /\ log \in [provider : Providers, meta : Metas]
    /\ saved \in Seq([log : [provider : Providers, meta : Metas],
                      key : Metas \cup {None}, body : 0 .. Len(att)])
    /\ reply \in {None, "upstream"} \cup BadGateway
    /\ client \in {"connected", "gone"}
    /\ pc \in {"loop", "waiting", "returned", "done"}

\* A pinned provider may be any configured one; otherwise it is active and has
\* the capability (pickProviderForCapability).
Init ==
    /\ active \in DistinctSeqs
    /\ capable \in SUBSET Providers
    /\ mayFailover \in BOOLEAN
    /\ primary \in capable
    /\ mayFailover => \E i \in 1 .. Len(active) : active[i] = primary
    /\ att = <<>>
    /\ current = None
    /\ lastHTTP = 0 /\ lastErr = 0 /\ chosen = 0
    /\ open = {} /\ expired = {}
    /\ log \in [provider : {primary}, meta : {primary, Raw}]
    /\ saved = <<>>
    /\ reply = None
    /\ client = "connected"
    /\ pc = "loop"
-----------------------------------------------------------------------------
\* Mutant: the primary is a candidate once more.
CandidatesTwice ==
    <<primary>> \o
        (IF mayFailover /\ Len(active) > 1
         THEN Selected(active, capable)
         ELSE <<>>)

\* The providers to try, in order.
Candidates ==
    <<primary>> \o
        (IF mayFailover /\ Len(active) > 1
         THEN Selected(active, capable \ {primary})
         ELSE <<>>)

\* The next candidate gets a body prepared for it (the primary's is ready) and
\* the request is sent.  A client that is gone is noticed here only.
StartAttempt ==
    /\ pc = "loop"
    /\ Len(att) < Len(Candidates)
    /\ att # <<>> => client = "connected"
    /\ current' \in IF att = <<>> THEN {log.meta} ELSE {Candidates[Len(att) + 1], Raw}
    /\ pc' = "waiting"
    /\ UNCHANGED <<config, att, lastHTTP, lastErr, chosen, open, log, ending,
                   expired, client>>

Attempt(kind) ==
    [provider |-> Candidates[Len(att) + 1], meta |-> current, kind |-> kind]

\* applyLogMetadata
LogOf(a) == [provider |-> a.provider, meta |-> a.meta]

Undrained == open    \* mutant: a response that is replaced is not closed

\* drainAndCloseBody of the response that was kept, if any.
Drained == open \ {lastHTTP}

\* Mutant: the same provider is tried again after an error.
AttemptRepeats ==
    /\ pc = "waiting"
    /\ current' = None
    /\ pc' = "loop"
    /\ UNCHANGED <<config, att, lastHTTP, lastErr, chosen, open, log, ending,
                   expired, client>>

\* No response: refused, reset, timed out or cancelled.  All timers run equally
\* long, so when this one has fired those of earlier responses have, too.
AttemptFails ==
    /\ pc = "waiting"
    /\ att' = Append(att, Attempt("error"))
    /\ lastErr' = Len(att')
    /\ current' = None
    /\ pc' = "loop"
    /\ expired' \in {expired, expired \cup open \cup {Len(att')}}
    /\ UNCHANGED <<config, lastHTTP, chosen, open, log, ending, client>>

\* Mutant: the index of the kept response is off by one.
AttemptMisplaced ==
    /\ pc = "waiting"
    /\ att' = Append(att, Attempt("retry"))
    /\ lastHTTP' = Len(att') + 1
    /\ open' = Drained \cup {Len(att')}
    /\ current' = None
    /\ pc' = "loop"
    /\ UNCHANGED <<config, lastErr, chosen, log, ending, expired, client>>

\* A response with a status shouldFailover asks another provider for.
AttemptRefused ==
    /\ pc = "waiting"
    /\ att' = Append(att, Attempt("retry"))
    /\ lastHTTP' = Len(att')
    /\ open' = Drained \cup {Len(att')}
    /\ current' = None
    /\ pc' = "loop"
    /\ UNCHANGED <<config, lastErr, chosen, log, ending, expired, client>>

\* Mutant: the log keeps what it had for the primary.
SuccessUnlogged ==
    /\ pc = "waiting"
    /\ att' = Append(att, Attempt("good"))
    /\ open' = Drained \cup {Len(att')}
    /\ chosen' = Len(att')
    /\ current' = None
    /\ pc' = "returned"
    /\ UNCHANGED <<config, lastHTTP, lastErr, log, ending, expired, client>>

\* Any other response is returned.
AttemptSucceeds ==
    /\ pc = "waiting"
    /\ att' = Append(att, Attempt("good"))
    /\ open' = Drained \cup {Len(att')}
    /\ chosen' = Len(att')
    /\ log' = LogOf(att'[chosen'])
    /\ current' = None
    /\ pc' = "returned"
    /\ UNCHANGED <<config, lastHTTP, lastErr, ending, expired, client>>

\* Mutant: an error is preferred to a response.
GiveUpWithError ==
    /\ pc = "loop"
    /\ att # <<>>
    /\ Len(att) = Len(Candidates) \/ client = "gone"
    /\ chosen' = IF lastErr # 0 THEN lastErr ELSE lastHTTP
    /\ log' = LogOf(att[chosen'])
    /\ pc' = "returned"
    /\ UNCHANGED <<config, att, current, lastHTTP, lastErr, open, ending, expired,
                   client>>

\* The loop ends without success: the last HTTP response, else the last error.
GiveUp ==
    /\ pc = "loop"
    /\ att # <<>>
    /\ Len(att) = Len(Candidates) \/ client = "gone"
    /\ chosen' = IF lastHTTP # 0 THEN lastHTTP ELSE lastErr
    /\ log' = LogOf(att[chosen'])
    /\ pc' = "returned"
    /\ UNCHANGED <<config, att, current, lastHTTP, lastErr, open, ending, expired,
                   client>>
-----------------------------------------------------------------------------
(* ServeAPIHTTP with what forwardWithFailover returned.                    *)

\* The exchange is saved with the metadata of log, under a cache key or none, and
\* with the body of an attempt, 0 for a JSON error of the gateway's own; the
\* deferred Close runs.
Finish(answer, key, body) ==
    /\ saved' = Append(saved, [log |-> log, key |-> key, body |-> body])
    /\ reply' = answer
    /\ open' = open \ {chosen}
    /\ pc' = "done"
    /\ UNCHANGED <<config, att, current, lastHTTP, lastErr, chosen, log, expired,
                   client>>

\* resp == nil: respondBadGateway.
NoResponse ==
    /\ pc = "returned"
    /\ att[chosen].kind = "error"
    /\ Finish("noResponse", None, 0)

\* The keys the response may be stored under: none, or that of the body it is
\* the answer to (canStoreCachedResponse; a body that was not prepared has none).
StorableKeys ==
    {None} \cup (IF att[chosen].kind = "good" THEN {log.meta} \ {Raw} ELSE {})

\* io.ReadAll reads to the end, or fails.
ReadBody ==
    /\ pc = "returned"
    /\ att[chosen].kind # "error"
    /\ \/ \E key \in StorableKeys : Finish("upstream", key, chosen)
       \/ Finish("broken", None, 0)
       \/ /\ chosen \in expired \/ client = "gone"
          /\ Finish("unreadable", None, 0)
-----------------------------------------------------------------------------
\* The client disconnects.
Disconnect ==
    /\ pc # "done"
    /\ client = "connected"
    /\ client' = "gone"
    /\ UNCHANGED <<config, loop, ending, expired, pc>>

\* upstream.timeout seconds after the attempt began.
Expire(i) ==
    /\ i \in open \ expired
    /\ expired' = expired \cup {i}
    /\ UNCHANGED <<config, loop, ending, client, pc>>

Done == pc = "done" /\ UNCHANGED vars

Step ==
    \/ StartAttempt
    \/ AttemptFails \/ AttemptRefused \/ AttemptSucceeds
    \/ GiveUp
    \/ NoResponse \/ ReadBody

Next ==
    \/ Step
    \/ Disconnect
    \/ \E i \in open : Expire(i)
    \/ Done

Spec == Init /\ [][Next]_vars

\* The handler's goroutine runs, and the timer of http.Client ends every attempt
\* and every read of a body (upstream.timeout > 0).
FairSpec == Spec /\ WF_vars(Step)
-----------------------------------------------------------------------------
(* What a client and the log can rely on.                                  *)

Returned == pc \in {"returned", "done"}
Indices(kind) == {i \in 1 .. Len(att) : att[i].kind = kind}
Last(S) == CHOOSE i \in S : \A j \in S : j <= i

\* The connections of failed attempts are released: of all responses received
\* at most the one that may still be returned has an open body, that one has
\* not been drained before the caller reads it, and none is open in the end.
BodiesReleased ==
    /\ pc \in {"loop", "waiting"} => open = {lastHTTP} \ {0}
    /\ pc = "returned" => open = {chosen} \ Indices("error")
    /\ pc = "done" => open = {}

\* The answer does not depend on how the loop got there: the first success,
\* else the last response, else the last error.
BestAnswer ==
    Returned =>
        chosen = CASE Indices("good") # {}  -> Last(Indices("good"))
                   [] Indices("good") = {} /\ Indices("retry") # {}
                                            -> Last(Indices("retry"))
                   [] OTHER                 -> Last(Indices("error"))

\* Failover is complete and never repeats itself: every provider is asked at
\* most once, each of them is the primary or an active one with the capability,
\* and a request of a client that is still there fails only after all of those
\* were asked.
EachProviderOnce ==
    LET asked == {att[i].provider : i \in 1 .. Len(att)}
        others == {p \in capable : \E i \in 1 .. Len(active) : active[i] = p}
    IN  /\ Cardinality(asked) = Len(att)
        /\ asked \subseteq {primary} \cup (IF mayFailover THEN others ELSE {})
        /\ (Returned /\ Indices("good") = {} /\ client = "connected" /\ mayFailover)
             => others \subseteq asked

\* Each answered request leaves one exchange, and what is stored under its
\* provider, model and cache key is the response of that provider to the body
\* prepared for it, not that of an earlier or later attempt.
AttributedToAnswer ==
    reply # None =>
        /\ Len(saved) = 1
        /\ saved[1].log = LogOf(att[chosen])
        /\ saved[1].body = IF reply = "upstream" THEN chosen ELSE 0
        /\ saved[1].key # None => /\ saved[1].key = att[chosen].meta
                                  /\ reply = "upstream"

\* Every request is answered, whatever its providers do.
RequestEnds == <>(reply # None)

\* When every provider fails, a client that waits gets the last response there
\* was: one that was kept while a further provider was tried is not replaced by
\* a 502 (unless its upstream breaks it off).
DegradesGracefully ==
    reply \in {"noResponse", "unreadable"} =>
        \/ lastHTTP = 0
        \/ chosen = Len(att)
        \/ client = "gone"
=============================================================================
