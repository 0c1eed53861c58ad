---------------------------- MODULE MCDispatch ----------------------------
(* Instances of Dispatch for TLC: files with up to four providers, and    *)
(* requests for every kind of path with every kind of credentials.        *)
EXTENDS Dispatch, TLC

MCNames == <<"a", "b", "c", "d">>

NoAuth == [enable |-> FALSE, user |-> "", password |-> "", token |-> ""]
Auth == [enable |-> TRUE, user |-> "u", password |-> "p", token |-> "token"]

Provider(weight, capabilities) ==
    [url |-> "ok", path |-> <<>>, query |-> FALSE, proxy |-> "", apiKey |-> "",
     headers |-> <<>>, weight |-> weight, capabilities |-> capabilities]

Keyed(p) == [p EXCEPT !.apiKey = "key"]
At(p, path) == [p EXCEPT !.path = path]

V1 == <<"/", "v1">>

\* The providers of a well-formed file: equal weights, a pinned-only provider, one of
\* each protocol and one of both; keys, bases and custom headers.
Four == [a |-> At(Keyed(Provider(2, Protocols)), V1),
         b |-> Provider(2, {OpenAI}),
         c |-> At(Keyed(Provider(1, {Anthropic})), <<"/">>),
         d |-> Keyed(Provider(0, {}))]

Three == [b |-> Keyed(Provider(1, Protocols)),
          c |-> [At(Provider(3, {}), V1 \o <<"/">>) EXCEPT
                    !.headers = "X-Api-Key" :> "mine", !.query = TRUE],
          a |-> [Provider(1, Protocols) EXCEPT !.apiKey = "$UNSET",
                    !.headers = "Authorization" :> "mine"]]

File(table, auth) ==
    [complete |-> TRUE, auth |-> auth, timeout |-> 300, providers |-> table]

Good == {File(p, auth) : p \in {Four, Three}, auth \in {NoAuth, Auth}}

\* Weights whose sum does not fit in an int, below and above twice its range.
Heavy == {File([a |-> Provider(7, {}), b |-> Provider(5, {Anthropic})], NoAuth),
          File([a |-> Provider(7, {}), b |-> Provider(7, {}), c |-> Provider(4, {Anthropic})],
               NoAuth)}

Bad ==
    LET one == File("a" :> Provider(1, {}), NoAuth)
    IN  {one,
         [one EXCEPT !.complete = FALSE],
         [one EXCEPT !.timeout = -1],
         [one EXCEPT !.providers = <<>>],
         [one EXCEPT !.auth = [Auth EXCEPT !.token = "$UNSET"]],
         [one EXCEPT !.auth = [Auth EXCEPT !.password = "$UNSET"]],
         [one EXCEPT !.providers["a"].weight = 0],
         [one EXCEPT !.providers["a"].weight = -1],
         [one EXCEPT !.providers["a"].url = "invalid"],
         [one EXCEPT !.providers["a"].proxy = "invalid"],
         [one EXCEPT !.providers["a"].capabilities = {"other"}],
         File("bad name" :> Provider(1, {}), NoAuth)}

MCFiles == Good \cup Heavy \cup Bad

\* Endpoints of both protocols and passthroughs, alone and behind a pin.
Endpoints == {<<"/", "responses">>, <<"/", "v1", "/", "messages">>,
              <<"/", "models">>, <<"/", "v1", "/", "messages", "/", "batches">>}
Pins == {<<>>} \cup {<<"/", "provider", "/", name>> : name \in {"a", "b", "c", "d", "nobody"}}
Odd == {<<>>, <<"/">>, Root, Append(Root, "/"), Root \o <<"/", "/", "models">>,
        Root \o <<"/", "d">>, Root \o <<"/", "c", "/">>}

HeaderSets ==
    {auth @@ key @@ other :
        auth  \in {<<>>, "Authorization" :> <<<<"Bearer", "token">>>>,
                   "Authorization" :> <<<<"Bearer", "own">>>>},
        key   \in {<<>>, "X-Api-Key" :> <<<<"token">>>>, "X-Api-Key" :> <<<<"own">>, <<"token">>>>,
                   "X-Api-Key" :> <<<<"own">>>>},
        other \in {"Connection" :> <<<<"close">>>>,
                   "Anthropic-Version" :> <<<<"2024-01-01">>>>}}

MCRequests ==
    [path : {pin \o e : pin \in Pins, e \in Endpoints} \cup Odd, headers : HeaderSets]
===========================================================================
