------------------------------ MODULE Dispatch ------------------------------
(***************************************************************************)
(* How a request finds its upstream: LoadConfig of internal/config.go, then *)
(* NewGateway, the head of ServeAPIHTTP, the weighted choice of a provider, *)
(* and forwardUpstream with the URL and the headers it sends, all in        *)
(* internal/proxy.go and the ApplyHeaders of the two protocols.             *)
(*                                                                          *)
(* Handlers share nothing but the configuration, which no one changes, so   *)
(* one request is enough.  A path is a sequence of tokens, a slash or a name *)
(* each, with a slash between any two names; a header has a sequence of     *)
(* values, a bare <<key>> or a <<"Bearer", key>>.  What the upstreams answer *)
(* is the module Failover.                                                  *)
(***************************************************************************)
EXTENDS Integers, Sequences, FiniteSets, Selection

CONSTANTS Files,        \* what the configuration file may say
          Requests,     \* [path, headers] a client may send
          Names,        \* provider names, a sequence in byte order
          Unset,        \* values that refer to a variable that is not set
          MaxInt,       \* the largest Go int
          None          \* no provider, no protocol, no request yet

ASSUME DispatchAssumption ==
    /\ MaxInt \in Nat \ {0}
    /\ Names \in Seq(STRING)
    /\ \A i, j \in 1 .. Len(Names) : i # j => Names[i] # Names[j]
    /\ \A i \in 1 .. Len(Names) : Names[i] # "/"
    /\ None \notin STRING \cup {400, 401, 503} \cup Requests

\* Weights are Go ints.  The gateway's token is nobody's key: else a provider may
\* well be sent it.
ASSUME FilesAssumption ==
    \A f \in Files :
        /\ f.auth.enable => f.auth.token # "2023-06-01"
        /\ \A name \in DOMAIN f.providers :
              LET p == f.providers[name]
              IN  /\ p.path \in Seq(STRING)
                  /\ p.weight \in -(MaxInt + 1) .. MaxInt
                  /\ f.auth.enable => /\ p.apiKey # f.auth.token
                                      /\ \A h \in DOMAIN p.headers : p.headers[h] # f.auth.token

\* A client presents the gateway's token only where the gateway looks for it.
ASSUME RequestsAssumption ==
    \A r \in Requests :
        /\ r.path \in Seq(STRING)
        /\ \A i \in 1 .. Len(r.path) - 1 : r.path[i] = "/" \/ r.path[i + 1] = "/"
        /\ \A f \in Files, h \in DOMAIN r.headers : f.auth.enable =>
              \A i \in 1 .. Len(r.headers[h]) :
                  /\ r.headers[h][i] = <<f.auth.token>> => h \in {"Authorization", "X-Api-Key"}
                  /\ r.headers[h][i] = <<"Bearer", f.auth.token>> => h = "Authorization"

OpenAI == "openai-completions"
Anthropic == "anthropic-messages"
Protocols == {OpenAI, Anthropic}

VARIABLES file,         \* the configuration file
          phase,        \* how far the process has come
          providers,    \* cfg.Providers, by name
          active,       \* Gateway.activeProviders
          request,      \* the request that is served
          answer,       \* the status the gateway itself answers with, if any
          attempts      \* what was sent upstream, and to whom

vars == <<file, phase, providers, active, request, answer, attempts>>
-----------------------------------------------------------------------------
(* LoadConfig.                                                             *)

\* os.ExpandEnv: a variable that is not set becomes the empty string.
Expand(value) == IF value \in Unset THEN "" ELSE value

ValidProvider(name, p) ==
    /\ name \in {Names[i] : i \in 1 .. Len(Names)}
    /\ p.url = "ok"
    /\ p.proxy # "invalid"
    /\ p.weight >= 0
    /\ p.capabilities \subseteq Protocols

\* "complete" stands for a file that can be read and parsed and whose addresses and
\* database path are not blank.
Valid(f) ==
    /\ f.complete
    /\ f.auth.enable => /\ f.auth.user # ""
                        /\ Expand(f.auth.password) # ""
                        /\ Expand(f.auth.token) # ""
    /\ f.timeout >= 0
    /\ \A name \in DOMAIN f.providers : ValidProvider(name, f.providers[name])
    /\ \E name \in DOMAIN f.providers : f.providers[name].weight > 0

\* strings.TrimRight(BaseURL, "/"): a query after the path keeps its slashes.
Trimmed(path, query) ==
    IF query THEN path
    ELSE SubSeq(path, 1, CHOOSE n \in 0 .. Len(path) :
                           /\ n = 0 \/ path[n] # "/"
                           /\ \A i \in n + 1 .. Len(path) : path[i] = "/")

\* Mutant: a provider that lists no capability has none.
LoadedBare(p) ==
    [base |-> Trimmed(p.path, p.query),
     apiKey |-> Expand(p.apiKey),
     headers |-> p.headers,
     weight |-> p.weight,
     capabilities |-> p.capabilities]

\* What LoadConfig makes of the table of a provider.
Loaded(p) ==
    [base |-> Trimmed(p.path, p.query),
     apiKey |-> Expand(p.apiKey),
     headers |-> [h \in DOMAIN p.headers |-> Expand(p.headers[h])],
     weight |-> p.weight,
     capabilities |-> IF p.capabilities = {} THEN {OpenAI} ELSE p.capabilities]

LoadConfig ==
    /\ phase = "loading"
    /\ IF Valid(file)
       THEN /\ phase' = "loaded"
            /\ providers' = [name \in DOMAIN file.providers |->
                               Loaded(file.providers[name])]
       ELSE phase' = "refused" /\ UNCHANGED providers
    /\ UNCHANGED <<file, active, request, answer, attempts>>
-----------------------------------------------------------------------------
(* NewGateway.                                                             *)

Weight(name) == providers[name].weight

Position(name) == CHOOSE i \in 1 .. Len(Names) : Names[i] = name

\* Mutant: the comparison ignores the names.
HeavierFirst(a, b) == Weight(a) > Weight(b)

\* The comparison of buildActiveProviders.
Before(a, b) ==
    \/ Weight(a) > Weight(b)
    \/ Weight(a) = Weight(b) /\ Position(a) < Position(b)

\* Every result the sort may have, whatever the order of the map was.
Sorted(S) ==
    {s \in [1 .. Cardinality(S) -> S] :
        \A i, j \in 1 .. Cardinality(S) :
            i < j => s[i] # s[j] /\ ~Before(s[j], s[i])}

\* The weights of the first i of a sequence of providers together.
Upto(candidates) ==
    LET sum[i \in 0 .. Len(candidates)] ==
            IF i = 0 THEN 0 ELSE sum[i - 1] + Weight(candidates[i])
    IN  sum

Sum(candidates) == Upto(candidates)[Len(candidates)]

\* totalWeight is an int and wraps around.
TotalWeight(candidates) ==
    ((Sum(candidates) + MaxInt + 1) % (2 * (MaxInt + 1))) - (MaxInt + 1)

NewGateway ==
    /\ phase = "loaded"
    /\ \E s \in Sorted({name \in DOMAIN providers : Weight(name) > 0}) :
          /\ active' = s
          /\ phase' = IF s = <<>> \/ TotalWeight(s) <= 0 THEN "refused" ELSE "serving"
    /\ UNCHANGED <<file, providers, request, answer, attempts>>
-----------------------------------------------------------------------------
(* resolveProvider, findProtocol and the weighted choice.                  *)

HasPrefix(path, prefix) ==
    Len(path) >= Len(prefix) /\ SubSeq(path, 1, Len(prefix)) = prefix

Root == <<"/", "provider">>
Pinned(path) == path = Root \/ HasPrefix(path, Append(Root, "/"))

\* The token after "/provider/": the empty name, if there is none.
PinOf(path) ==
    IF Len(path) < 4 \/ path[4] = "/" THEN None ELSE path[4]

\* The path that is sent upstream, "/" for a bare "/provider/<name>".
Remaining(path) ==
    IF ~Pinned(path) THEN path
    ELSE <<"/">> \o SubSeq(path, 6, Len(path))

Protocol(path) ==
    CASE path \in {v \o p : v \in {<<>>, <<"/", "v1">>},
                            p \in {<<"/", "chat", "/", "completions">>, <<"/", "responses">>}}
           -> OpenAI
      [] path \in {<<"/", "v1", "/", "messages">>, <<"/", "messages">>} -> Anthropic
      [] OTHER -> None

HasCapability(name, protocol) == protocol \in providers[name].capabilities

CapableOf(protocol) ==
    Selected(active, {p \in DOMAIN providers : protocol = None \/ HasCapability(p, protocol)})

\* What the random number may be; one candidate, or a total that wrapped around,
\* needs none.
Draws(candidates) ==
    IF Len(candidates) = 1 \/ TotalWeight(candidates) <= 0 THEN {0}
    ELSE 0 .. TotalWeight(candidates) - 1

\* Mutant: the walk goes on at "pick == 0".
PickLate(candidates, pick) ==
    LET covering == {i \in 1 .. Len(candidates) : pick <= Upto(candidates)[i]}
    IN  candidates[CHOOSE i \in covering : \A j \in covering : i <= j]

\* The first candidate whose cumulative range covers the number, or the last one.
Pick(candidates, pick) ==
    LET covering == {i \in 1 .. Len(candidates) : pick < Upto(candidates)[i]}
    IN  IF covering = {} THEN candidates[Len(candidates)]
        ELSE candidates[CHOOSE i \in covering : \A j \in covering : i <= j]
-----------------------------------------------------------------------------
(* forwardUpstream.                                                        *)

\* joinURLPath.
Join(base, path) ==
    CASE base = <<>> -> path
      [] base # <<>> /\ path = <<>> -> base
      [] base # <<>> /\ path # <<>> ->
           LET ends == base[Len(base)] = "/"
               starts == path[1] = "/"
           IN  IF ends /\ starts THEN base \o Tail(path)
               ELSE IF ends \/ starts THEN base \o path
               ELSE base \o <<"/">> \o path

Present(headers, h) == h \in DOMAIN headers
First(headers, h) == IF Present(headers, h) THEN headers[h][1] ELSE <<>>
Without(headers, h) == [k \in DOMAIN headers \ {h} |-> headers[k]]
Set(headers, h, value) ==
    [k \in DOMAIN headers \cup {h} |-> IF k = h THEN <<value>> ELSE headers[k]]

HopByHop == {"Connection", "Transfer-Encoding", "Upgrade"}
Credentials == {"Authorization", "X-Api-Key"}

Token == Expand(file.auth.token)
AnyValue(values, value) == \E i \in 1 .. Len(values) : values[i] = value

\* Mutant: only the first value of x-api-key is looked at, as authentication does.
IsProviderHeaderFirst(h, values, p) ==
    \/ file.auth.enable /\ h = "Authorization"
    \/ file.auth.enable /\ h = "X-Api-Key" /\ values[1] = <<Token>>
    \/ p.apiKey # "" /\ h \in Credentials
    \/ h \in DOMAIN p.headers

\* isProviderHeader: headers of the client that the provider does not get.
IsProviderHeader(h, values, p) ==
    \/ file.auth.enable /\ h = "Authorization"
    \/ file.auth.enable /\ h = "X-Api-Key" /\ AnyValue(values, <<Token>>)
    \/ p.apiKey # "" /\ h \in Credentials
    \/ h \in DOMAIN p.headers

\* copyRequestHeaders.
CopiedHeaders(headers, p) ==
    LET copied == {h \in DOMAIN headers :
                     /\ h \notin HopByHop \cup {"Accept-Encoding", "Content-Length"}
                     /\ ~IsProviderHeader(h, headers[h], p)}
    IN  [h \in copied |-> headers[h]]

WithBearer(headers, key) == Set(headers, "Authorization", <<"Bearer", key>>)
WithApiKey(headers, key) == Set(headers, "X-Api-Key", <<key>>)
WithVersion(headers) ==
    IF First(headers, "Anthropic-Version") # <<>> THEN headers
    ELSE Set(headers, "Anthropic-Version", <<"2023-06-01">>)

\* isAnthropicPath.
IsAnthropicPath(path) ==
    \E v \in {<<>>, <<"/", "v1">>}, p \in {"messages", "complete"} :
        HasPrefix(path, v \o <<"/", p>>)

\* ApplyHeaders of the OpenAI and of the Anthropic protocol.
OpenAIHeaders(headers, p) ==
    IF p.apiKey = "" THEN headers ELSE WithBearer(headers, p.apiKey)

AnthropicHeaders(headers, p) ==
    LET cleared == Without(headers, "Authorization")
    IN  WithVersion(IF p.apiKey = "" THEN cleared ELSE WithApiKey(cleared, p.apiKey))

\* The passthrough part of applyProviderHeaders.
OtherHeaders(headers, p, path) ==
    CASE p.apiKey = "" -> headers
      [] p.apiKey # "" /\ (IsAnthropicPath(path) \/ p.capabilities = {Anthropic}) ->
           AnthropicHeaders(headers, p)
      [] OTHER ->
           IF Anthropic \in p.capabilities
           THEN WithVersion(WithApiKey(WithBearer(headers, p.apiKey), p.apiKey))
           ELSE WithBearer(headers, p.apiKey)

\* applyProviderHeaders: the custom headers come last and win.
ProviderHeaders(headers, p, path) ==
    LET sent == CASE Protocol(path) = OpenAI -> OpenAIHeaders(headers, p)
                  [] Protocol(path) = Anthropic -> AnthropicHeaders(headers, p)
                  [] OTHER -> OtherHeaders(headers, p, path)
    IN  [h \in DOMAIN sent \cup DOMAIN p.headers |->
            IF h \in DOMAIN p.headers THEN <<<<p.headers[h]>>>> ELSE sent[h]]

Forward(r, name) ==
    LET p == providers[name]
        path == Remaining(r.path)
    IN  [provider |-> name,
         path |-> Join(p.base, path),
         headers |-> ProviderHeaders(CopiedHeaders(r.headers, p), p, path)]
-----------------------------------------------------------------------------
(* ServeAPIHTTP.                                                           *)

Authorized(r) ==
    \/ ~file.auth.enable
    \/ First(r.headers, "Authorization") = <<"Bearer", Token>>
    \/ First(r.headers, "X-Api-Key") = <<Token>>

\* resolveProvider returns an error.
Unresolved(r) == Pinned(r.path) /\ PinOf(r.path) \notin DOMAIN providers

Answers(r, status) ==
    /\ answer' = status
    /\ UNCHANGED attempts

Sends(r, name) ==
    /\ attempts' = <<Forward(r, name)>>
    /\ UNCHANGED answer

\* A pinned provider that lacks the protocol, after the cache was no help; the
\* capability plays no part in a passthrough.
Incapable(r) ==
    /\ Protocol(Remaining(r.path)) # None
    /\ ~HasCapability(PinOf(r.path), Protocol(Remaining(r.path)))

\* What happens to an authorized request: the weighted choice, if it names nobody.
Dispatched(r) ==
    \/ Unresolved(r) /\ Answers(r, 400)
    \/ /\ Pinned(r.path) /\ ~Unresolved(r)
       /\ IF Incapable(r) THEN Answers(r, 400) ELSE Sends(r, PinOf(r.path))
    \/ /\ ~Pinned(r.path)
       /\ LET candidates == CapableOf(Protocol(r.path))
          IN  IF candidates = <<>> THEN Answers(r, 503)
              ELSE \E pick \in Draws(candidates) : Sends(r, Pick(candidates, pick))

ServeAPIHTTP(r) ==
    /\ phase = "serving"
    /\ request = None
    /\ request' = r
    /\ \/ ~Authorized(r) /\ Answers(r, 401)
       \/ Authorized(r) /\ Dispatched(r)
    /\ UNCHANGED <<file, phase, providers, active>>

\* Mutant: a failover takes any active provider.
AnyCandidate(r) == active

\* forwardWithFailover: whom an unpinned request of a protocol may be sent to.
Candidates(r) == CapableOf(Protocol(r.path))

Others(r, primary) == Selected(Candidates(r), DOMAIN providers \ {primary})

\* The attempts so far failed: the next of the other candidates.
Failover ==
    /\ attempts # <<>>
    /\ ~Pinned(request.path)
    /\ Protocol(request.path) # None
    /\ LET others == Others(request, attempts[1].provider)
       IN  /\ Len(attempts) <= Len(others)
           /\ attempts' = Append(attempts, Forward(request, others[Len(attempts)]))
    /\ UNCHANGED <<file, phase, providers, active, request, answer>>

Init ==
    /\ file \in Files
    /\ phase = "loading"
    /\ providers = <<>>
    /\ active = <<>>
    /\ request = None
    /\ answer = None
    /\ attempts = <<>>

Next ==
    \/ LoadConfig
    \/ NewGateway
    \/ \E r \in Requests : ServeAPIHTTP(r)
    \/ Failover

Spec == Init /\ [][Next]_vars
-----------------------------------------------------------------------------
(* What operators and clients are told.                                    *)

TypeOK ==
    /\ file \in Files
    /\ phase \in {"loading", "loaded", "refused", "serving"}
    /\ \A name \in DOMAIN providers :
          /\ providers[name].capabilities \in (SUBSET Protocols) \ {{}}
          /\ Weight(name) \in 0 .. MaxInt
    /\ {active[i] : i \in 1 .. Len(active)} \subseteq DOMAIN providers
    /\ request \in Requests \cup {None}
    /\ answer \in {None, 400, 401, 503}
    /\ request # None <=> (answer # None \/ attempts # <<>>)
    /\ \A i \in 1 .. Len(attempts) : attempts[i].provider \in DOMAIN providers

\* The gateway starts with every valid file unless the weights together exceed an
\* int; then the number of draws that pick a provider is proportional to its weight
\* (README, Weighted Providers), for a passthrough and among the capable ones, and
\* the number to draw from is positive, since IntN panics on any other.
WeightsHold ==
    /\ phase = "refused" /\ Valid(file) => Sum(active) > MaxInt
    /\ phase = "serving" => TotalWeight(active) > 0
    /\ phase = "serving" /\ Sum(active) <= MaxInt =>
          \A protocol \in Protocols \cup {None} :
              LET candidates == CapableOf(protocol)
                  chosen(p) == {d \in Draws(candidates) : Pick(candidates, d) = p}
              IN  \A i \in 1 .. Len(candidates) :
                      Cardinality(chosen(candidates[i])) * Sum(candidates)
                        = Weight(candidates[i]) * Cardinality(Draws(candidates))

Part(path) == Selected(path, STRING \ {"/"})

Asked(path) == IF Pinned(path) THEN SubSeq(Part(path), 3, Len(Part(path))) ELSE Part(path)

DoubleSlash(path) == \E i \in 1 .. Len(path) - 1 : path[i] = "/" /\ path[i + 1] = "/"

\* A request goes to the provider it names, also one of weight zero, and to no other;
\* without a name only to active ones; in both cases only to one that speaks its
\* protocol.  It is turned away with 503 only when there is none, with 400 only when
\* the name is at fault.  The URL is the provider's followed by what the client asked
\* for behind the name, joined by exactly one slash.
RoutedRight ==
    /\ \A i \in 1 .. Len(attempts) :
          LET a == attempts[i]
              protocol == Protocol(Remaining(request.path))
          IN  /\ protocol # None => HasCapability(a.provider, protocol)
              /\ IF Pinned(request.path)
                 THEN Len(attempts) = 1 /\ a.provider = request.path[4]
                 ELSE Weight(a.provider) > 0
              /\ Part(a.path) = Part(providers[a.provider].base) \o Asked(request.path)
              /\ DoubleSlash(a.path) => \/ DoubleSlash(request.path)
                                        \/ DoubleSlash(providers[a.provider].base)
    /\ answer = 503 =>
          \A name \in DOMAIN providers :
              Weight(name) > 0 => ~HasCapability(name, Protocol(request.path))
    /\ answer = 400 =>
          /\ Pinned(request.path)
          /\ \A name \in DOMAIN providers :
                HasPrefix(request.path, <<"/", "provider", "/", name>>) =>
                    ~HasCapability(name, Protocol(Remaining(request.path)))

\* After the first one the attempts go down the weights, equal weights by name, and
\* leave out no provider that is heavier than one they reach: the order does not
\* depend on the random order of the map (CHANGELOG.md:34).
HeaviestFirst ==
    \A i \in 2 .. Len(attempts) :
        LET a == attempts[i].provider
        IN  \A name \in DOMAIN providers :
                \/ \E j \in 1 .. i - 1 : attempts[j].provider = name
                \/ name = a
                \/ Weight(name) < Weight(a)
                \/ Weight(name) = Weight(a) /\ Position(name) > Position(a)
                \/ ~HasCapability(name, Protocol(request.path))

\* The gateway's own token does not leave it (configs/example.toml: headers that match
\* it are stripped).  A provider with a key sees that key and never the client's; one
\* without sees the client's x-api-key as it came (transparent proxying), a custom
\* header excepted, which is sent exactly as configured.  On an Anthropic path there
\* is a version and no Authorization that was not configured.
CredentialsFit ==
    \A i \in 1 .. Len(attempts) :
        LET p == providers[attempts[i].provider]
            sent == attempts[i].headers
            custom == DOMAIN p.headers
            Values(h) == IF Present(sent, h) THEN sent[h] ELSE <<>>
            Came(h) == IF Present(request.headers, h) THEN request.headers[h] ELSE <<>>
        IN  /\ file.auth.enable =>
                 \A h \in DOMAIN sent :
                    ~AnyValue(sent[h], <<Token>>) /\ ~AnyValue(sent[h], <<"Bearer", Token>>)
            /\ \A h \in custom : sent[h] = <<<<p.headers[h]>>>>
            /\ p.apiKey # "" =>
                 /\ \A h \in Credentials \ custom :
                       Values(h) \in {<<>>, <<<<p.apiKey>>>>, <<<<"Bearer", p.apiKey>>>>}
                 /\ \E h \in Credentials : Present(sent, h)
            /\ p.apiKey = "" /\ "X-Api-Key" \notin custom =>
                 \/ Values("X-Api-Key") = Came("X-Api-Key")
                 \/ file.auth.enable /\ AnyValue(Came("X-Api-Key"), <<Token>>)
            /\ /\ p.apiKey = "" /\ "Authorization" \notin custom
               /\ ~file.auth.enable /\ Protocol(Remaining(request.path)) # Anthropic
               => Values("Authorization") = Came("Authorization")
            /\ Protocol(Remaining(request.path)) = Anthropic =>
                 /\ First(sent, "Anthropic-Version") # <<>>
                 /\ "Authorization" \in custom \/ Values("Authorization") = <<>>
=============================================================================
