---------------------------- MODULE MCCacheKey ----------------------------
(* Instances of CacheKey for TLC.  A significand of three bits stands for *)
(* the 53 of float64: 8 and 9 are the first integers that round alike.    *)
EXTENDS CacheKey

Str(s) == <<"string", s, "plain">>
Escaped(s) == <<"string", s, "escaped">>
Num(n) == <<"number", n, "plain">>
Exponent(n) == <<"number", n, "exponent">>
Bool(b) == <<"bool", b>>
Object(fields) == [form |-> "object", fields |-> fields]

MCKeyOrder == <<"content", "include_usage", "messages", "metadata", "model", "role",
                "seed", "stream", "stream_options", "user">>

\* messages: the same message in both orders, with another content, with a key
\* that is only excluded further up, and with a repeated key.
Message(fields) == <<"array", <<<<"object", fields>>>>>>
Role == <<"role", Str("r")>>
Content(v) == <<"content", v>>
Messages == {Message(<<Role, Content(Str("hi"))>>),
             Message(<<Content(Escaped("hi")), Role>>),
             Message(<<Content(Str("ho")), Role, Content(Str("hi"))>>),
             Message(<<Role, Content(Str("hi")), <<"user", Str("u")>>>>),
             Message(<<Role, Content(Num(9))>>)}

Models == {<<>>, <<<<"model", Str("m1")>>>>, <<<<"model", Str("m2")>>>>}

StreamFields == {<<>>, <<<<"stream", Bool(TRUE)>>>>, <<<<"stream", Bool(FALSE)>>>>,
                 <<<<"stream", Bool(TRUE)>>, <<"stream", Bool(FALSE)>>>>}

Settings == {<<>>, <<<<"seed", Num(8)>>>>, <<<<"seed", Exponent(8)>>>>, <<<<"seed", Num(9)>>>>,
             <<<<"user", Str("u")>>>>, <<<<"metadata", Str("u")>>>>,
             <<<<"stream", Str("yes")>>>>,
             <<<<"stream_options", <<"null">>>>, <<"stream", Bool(TRUE)>>>>}

Hello == <<<<"messages", Message(<<Role, Content(Str("hi"))>>)>>>>

\* Nested deeper than MaxDepth.
List(value) == <<"array", <<value>>>>
TooDeep == List(List(List(List(Num(1)))))

MCBodies ==
    {Object(m \o s) : m \in Models, s \in StreamFields \cup Settings}
    \cup {Object(<<<<"messages", x>>>>) : x \in Messages}
    \cup {Object(Hello \o <<<<"model", Str("m1")>>>>), Object(<<<<"model", Str("m1")>>>> \o Hello),
          Object(<<<<"model", Num(1)>>>>), Object(<<<<"seed", Num(40)>>>>),
          Object(<<<<"seed", TooDeep>>>>),
          [form |-> "trailing", fields |-> Hello],
          [form |-> "cut", fields |-> Hello]}

MCRequests ==
    [path : {"/responses", "/v1/messages"}, body : MCBodies,
     override : {"", "m1"}, cacheEnabled : {TRUE}]
    \cup [path : {"/responses"}, body : {Object(Hello)}, override : {"m1"},
          cacheEnabled : {FALSE}]
=============================================================================
