------------------------------ MODULE Gateway ------------------------------
(***************************************************************************)
(* ServeAPIHTTP in internal/proxy.go and the response cache: concurrent    *)
(* requests that look for a cached response, are served from it or ask the *)
(* upstream providers, and offer an exchange to the store, where it may    *)
(* become a cached response for others some time later.                    *)
(*                                                                         *)
(* The store is the abstract log AuditLog, which Storage implements.  What *)
(* forwardWithFailover and the copying of a response do is one step here;  *)
(* Failover and Stream have the steps inside.  A request that is turned    *)
(* away before it is read, or whose path is passed through, neither looks  *)
(* at this state nor changes it and is left out.                           *)
(***************************************************************************)
EXTENDS Integers, Sequences, FiniteSets

CONSTANTS Requests,     \* ids of the requests
          Calls,        \* what clients send: [content, pin, post]
          Providers, Active,    \* configured, and those with a weight
          Capable,      \* those with the capability of each path
          Override,     \* ProviderConfig.Model of each provider, or None
          CacheSettings,        \* values of cache.enable
          MaxAge,       \* cache.max_age in ticks, 0 for none
          Retention,    \* storage.retention_days in ticks, 0 for ever
          MaxClock, MaxCrashes, \* bounds
          None          \* no key, no provider, no exchange

Empty == "empty"        \* a body of no bytes, or one that is not stored
Cut == "cut"            \* the beginning of a stream that broke off
Problem == "problem"    \* a text of the gateway's own

ASSUME GatewayAssumption ==
    /\ Active \subseteq Providers
    /\ \A c \in Calls : /\ Capable[c.content.path] \subseteq Providers
                        /\ c.pin \in Providers \cup {None}
    /\ {None, Empty, Cut, Problem} \cap (Requests \cup Providers) = {}
    /\ CacheSettings \subseteq BOOLEAN
    /\ {MaxAge, Retention, MaxClock, MaxCrashes} \subseteq Nat

VARIABLES clock,
          logBody,      \* logging.log_response_body
          cacheOn,      \* cache.enable
          pc,           \* where the handler of each request is
          call, provider, created,  \* its request, primary provider and start
          response,     \* the answer of the upstream or the cache: [status, body]
          exchange,     \* requestLog and responseLog
          reply,        \* what the client got: [status, body]
          pending, durable, reported, open,     \* the store
          wiped, crashes        \* exchanges lost in a crash; crashes so far

store == <<pending, durable, reported, open>>
request == <<call, provider, created>>
outcome == <<response, exchange, reply>>
settings == <<logBody, cacheOn>>
world == <<clock, settings, wiped, crashes>>
vars == <<world, pc, request, outcome, store>>

Expired == {r \in Requests : Retention > 0 /\ created[r] < clock - Retention}

Store == INSTANCE AuditLog WITH Exchanges <- Requests, expired <- Expired
-----------------------------------------------------------------------------
\* The request body as provider p gets it: a JSON object with its model.
Effective(p, content) ==
    IF Override[p] = None \/ ~content.object THEN content
    ELSE [content EXCEPT !.model = Override[p]]

\* The fields of a body that its cache key stands for: all but the user.
KeyOf(body) ==
    [path |-> body.path, prompt |-> body.prompt, model |-> body.model,
     stream |-> body.stream]

\* Mutant: after a failover the key is still that of the primary.
KeyOfPrimary(r, p) ==
    IF cacheOn /\ call[r].content.object
    THEN KeyOf(Effective(provider[r], call[r].content)) ELSE None

\* Mutant: a body that cannot be decoded has the key of its bytes.
KeyOfBytes(r, p) ==
    IF cacheOn THEN KeyOf(Effective(p, call[r].content)) ELSE None

\* meta.CacheKey of the attempt at provider p; only a JSON object has one, and only
\* with the cache enabled.
KeyAt(r, p) ==
    IF cacheOn /\ call[r].content.object
    THEN KeyOf(Effective(p, call[r].content)) ELSE None

Keys == {None} \cup {KeyOf(Effective(p, c.content)) :
                        p \in Providers, c \in {d \in Calls : d.content.object}}

\* canUseCache; without the cache there is no key.
Cacheable(r, p) == call[r].post /\ KeyAt(r, p) # None

Streams(r) == call[r].content.object /\ call[r].content.stream

\* The body of an answer is named after the request it was generated for.
Bodies == Requests \cup {Empty, Cut, Problem}
Statuses == {200, 400, 429, 502, 503}    \* 429 for all an upstream may send but 200
NoExchange == [key |-> None, by |-> None, status |-> None, body |-> Empty, source |-> None]
Answers == [status : Statuses \cup {None}, body : Bodies]
NoAnswer == [status |-> None, body |-> Empty]
Rejection(status) == [status |-> status, body |-> Problem]

TypeOK ==
    /\ clock \in 0 .. MaxClock
    /\ logBody \in BOOLEAN
    /\ cacheOn \in CacheSettings
    /\ pc \in [Requests -> {"new", "arrived", "missed", "answered", "saved", "done", "killed"}]
    /\ call \in [Requests -> Calls \cup {None}]
    /\ provider \in [Requests -> Providers \cup {None}]
    /\ created \in [Requests -> 0 .. MaxClock]
    /\ exchange \in [Requests -> [key : Keys, by : Providers \cup {None},
                                  status : Statuses \cup {None}, body : Bodies,
                                  source : Requests \cup {None}]]
    /\ {response, reply} \subseteq [Requests -> Answers]
    /\ Store!TypeOK
    /\ wiped \subseteq Requests
    /\ crashes \in 0 .. MaxCrashes

Init ==
    /\ clock = 0
    /\ logBody \in BOOLEAN
    /\ cacheOn \in CacheSettings
    /\ pc = [r \in Requests |-> "new"]
    /\ call = [r \in Requests |-> None]
    /\ provider = [r \in Requests |-> None]
    /\ created = [r \in Requests |-> 0]
    /\ exchange = [r \in Requests |-> NoExchange]
    /\ response = [r \in Requests |-> NoAnswer]
    /\ reply = [r \in Requests |-> NoAnswer]
    /\ Store!Init
    /\ wiped = {} /\ crashes = 0
-----------------------------------------------------------------------------
(* The handler of a request.                                               *)

Goto(r, place) == pc' = [pc EXCEPT ![r] = place]

\* The active providers a request may go to when it is not pinned.
Balanced(c) == Active \cap Capable[c.content.path]

\* The request is read and its primary provider settled: pinned or picked.
Arrive(r) ==
    /\ pc[r] = "new"
    /\ \E c \in Calls : \E p \in IF c.pin # None THEN {c.pin} ELSE Balanced(c) :
          /\ call' = [call EXCEPT ![r] = c]
          /\ provider' = [provider EXCEPT ![r] = p]
    /\ created' = [created EXCEPT ![r] = clock]
    /\ Goto(r, "arrived")
    /\ UNCHANGED <<world, outcome, store>>

\* The body cannot be read, or nobody active speaks the protocol of the path.
TurnAway(r) ==
    /\ pc[r] = "new"
    /\ \E c \in Calls :
          /\ call' = [call EXCEPT ![r] = c]
          /\ \/ reply' = [reply EXCEPT ![r] = Rejection(400)]
             \/ /\ c.pin = None /\ Balanced(c) = {}
                /\ reply' = [reply EXCEPT ![r] = Rejection(503)]
    /\ Goto(r, "done")
    /\ UNCHANGED <<world, provider, created, response, exchange, store>>

\* Mutant: hits are found as well, and an answer is handed on for ever.
FromAnywhere(s) == exchange[s].status = 200 /\ exchange[s].body # Empty

\* rs.status_code = 200, rs.from_cache = 0, and a row in response_bodies.
FromUpstream(s) ==
    /\ exchange[s].status = 200
    /\ exchange[s].source = None
    /\ exchange[s].body # Empty

\* What FindCachedResponse may return: the newest that are young enough.
Cached(key) ==
    LET found == {s \in durable : /\ exchange[s].key = key
                                  /\ FromUpstream(s)
                                  /\ MaxAge > 0 => created[s] >= clock - MaxAge}
    IN  {s \in found : \A t \in found : created[t] <= created[s]}

\* serveCachedResponse: the primary is on record as provider, asked or not.
Hit(r) ==
    /\ pc[r] = "arrived"
    /\ open
    /\ Cacheable(r, provider[r])
    /\ \E s \in Cached(KeyAt(r, provider[r])) :
          /\ response' = [response EXCEPT ![r] = [status |-> 200, body |-> exchange[s].body]]
          /\ exchange' = [exchange EXCEPT ![r] =
                [key |-> KeyAt(r, provider[r]), by |-> provider[r], status |-> 200,
                 body |-> IF logBody THEN exchange[s].body ELSE Empty, source |-> s]]
    /\ Goto(r, "answered")
    /\ UNCHANGED <<world, request, reply, store>>

\* Nothing usable is cached or the query fails, as it may at any time.
Miss(r) ==
    /\ pc[r] = "arrived"
    /\ provider[r] \in Capable[call[r].content.path]
    /\ Goto(r, "missed")
    /\ UNCHANGED <<world, request, outcome, store>>

\* A pinned provider without the capability is not asked, nor is this logged.
Reject(r) ==
    /\ pc[r] = "arrived"
    /\ provider[r] \notin Capable[call[r].content.path]
    /\ reply' = [reply EXCEPT ![r] = Rejection(400)]
    /\ Goto(r, "done")
    /\ UNCHANGED <<world, request, response, exchange, store>>

\* The primary, or after a failover another one.
Answerers(r) == {provider[r]} \cup IF call[r].pin # None THEN {} ELSE Balanced(call[r])

\* canStoreCachedResponse.  Whether an answer is too large, or a stream has no
\* end marker, is left open.
CanCache(r, p, status, body) ==
    IF Cacheable(r, p) /\ status = 200 /\ body # Cut THEN BOOLEAN ELSE {FALSE}

\* What the logs say of an answer of p: its provider, its key and its body.
Recorded(r, p, status, body, canCache) ==
    [key |-> IF canCache THEN KeyAt(r, p) ELSE None, by |-> p,
     status |-> IF body = Cut THEN 502 ELSE status,
     body |-> IF logBody \/ canCache THEN body ELSE Empty,
     source |-> None]

\* A provider answers, in one piece or as a stream, which is copied to the
\* client while it comes and may break off.
Answer(r) ==
    /\ pc[r] = "missed"
    /\ \E p \in Answerers(r), status \in {200, 429}, body \in {r, Empty, Cut} :
          /\ body = Cut => Streams(r)
          /\ \E canCache \in CanCache(r, p, status, body) :
                exchange' = [exchange EXCEPT ![r] = Recorded(r, p, status, body, canCache)]
          /\ response' = [response EXCEPT ![r] = [status |-> status, body |-> body]]
    /\ reply' = IF Streams(r) THEN [reply EXCEPT ![r] = response'[r]] ELSE reply
    /\ Goto(r, "answered")
    /\ UNCHANGED <<world, request, store>>

\* No provider answers, or the answer cannot be read.
AnswerFails(r) ==
    /\ pc[r] = "missed"
    /\ \E p \in Answerers(r) :
          exchange' = [exchange EXCEPT ![r] =
              [key |-> None, by |-> p, status |-> 502, body |-> Problem, source |-> None]]
    /\ response' = [response EXCEPT ![r] = [status |-> 502, body |-> Problem]]
    /\ Goto(r, "answered")
    /\ UNCHANGED <<world, request, reply, store>>

\* saveExchange: handed to the store or dropped with an error in the log.
Save(r) ==
    /\ pc[r] = "answered"
    /\ Store!Accept(r) \/ Store!Refuse(r)
    /\ Goto(r, IF reply[r] = NoAnswer THEN "saved" ELSE "done")
    /\ UNCHANGED <<world, request, outcome>>

\* Mutant: the answer is sent before the exchange is saved.
ReplyFirst(r) ==
    /\ pc[r] \in {"answered", "saved"}
    /\ reply' = [reply EXCEPT ![r] = response[r]]
    /\ IF pc[r] = "saved" THEN Goto(r, "done") ELSE UNCHANGED pc
    /\ UNCHANGED <<world, request, response, exchange, store>>

\* WriteHeader and Write of an answer that is no upstream stream.
Reply(r) ==
    /\ pc[r] = "saved"
    /\ reply' = [reply EXCEPT ![r] = response[r]]
    /\ Goto(r, "done")
    /\ UNCHANGED <<world, request, response, exchange, store>>
-----------------------------------------------------------------------------
(* The store and the process.                                              *)

StoreStep ==
    /\ Store!Persist \/ Store!Lose \/ Store!Close
    /\ UNCHANGED <<world, pc, request, outcome>>

Cleanup ==
    /\ Expired # {}
    /\ Store!Purge
    /\ UNCHANGED <<world, pc, request, outcome>>

Tick ==
    /\ clock < MaxClock
    /\ clock' = clock + 1
    /\ UNCHANGED <<settings, pc, request, outcome, store, wiped, crashes>>

\* The process dies with all its handlers and starts again.
Restart ==
    /\ crashes < MaxCrashes
    /\ crashes' = crashes + 1
    /\ Store!Restart
    /\ wiped' = wiped \cup Store!Members(pending)
    /\ pc' = [r \in Requests |-> IF pc[r] \in {"new", "done"} THEN pc[r] ELSE "killed"]
    /\ UNCHANGED <<clock, settings, request, outcome>>

Next ==
    \/ \E r \in Requests :
          \/ Arrive(r) \/ TurnAway(r) \/ Hit(r) \/ Miss(r) \/ Reject(r)
          \/ Answer(r) \/ AnswerFails(r) \/ Save(r) \/ Reply(r)
    \/ StoreStep \/ Cleanup \/ Tick \/ Restart

Spec == Init /\ [][Next]_vars
-----------------------------------------------------------------------------
(* What a client and the owner of the log can rely on.                     *)

\* A cached answer is a whole 200 answer some provider generated for a request
\* that differs from this one, as the primary would have got it, in no more
\* than the user: through failovers, model overrides and pinned providers; and
\* never with the cache disabled, though the log is full of answers.
HitAnswersThisRequest ==
    \A r \in Requests : exchange[r].source # None =>
        LET s == response[r].body
        IN  /\ cacheOn
            /\ s \in Requests
            /\ exchange[s].status = 200
            /\ call[s].post /\ call[s].content.object
            /\ KeyOf(Effective(exchange[s].by, call[s].content))
                  = KeyOf(Effective(provider[r], call[r].content))

\* max_age bounds the age of the generated answer itself, however often it was
\* replayed and logged again since.
HitIsFresh ==
    \A r \in Requests : exchange[r].source # None /\ MaxAge > 0 =>
        created[r] - created[response[r].body] <= MaxAge

\* Where the exchange of r went.
Traced(r) == r \in Store!Members(pending) \cup durable \cup reported \cup wiped \cup Expired

\* No answer goes out unlogged: what a client got, from the cache or from a
\* provider, was offered to the store before; after the copying when it is a
\* stream.  Only a request that is turned away leaves no trace.
AnswersAreAudited ==
    \A r \in Requests : reply[r] # NoAnswer =>
        \/ Traced(r)
        \/ Streams(r) /\ pc[r] \in {"answered", "killed"}
        \/ exchange[r] = NoExchange /\ reply[r].body = Problem

\* README.md: log_response_body = false keeps response bodies out of the
\* database.
BodyOnlyWhenLogged ==
    \A r \in durable : ~logBody => exchange[r].body \notin Requests
=============================================================================
