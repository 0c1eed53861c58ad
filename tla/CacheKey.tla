------------------------------ MODULE CacheKey ------------------------------
(***************************************************************************)
(* internal/normalize.go: what becomes of the body of a request.  It is    *)
(* decoded, the provider's model and the stream options are patched into   *)
(* it, the patched body is written anew from the raw text of its fields,   *)
(* and the cache key is the hash of a canonical text of the decoded ones.  *)
(*                                                                         *)
(* A JSON value is a tuple whose first member is its kind.  In a body it is *)
(* raw: a number or a string also has a spelling, an object is a sequence of*)
(* <<key, value>> in the client's order, where a key may come twice.       *)
(* Decoded, a number is a float64, an object a function on the keys that   *)
(* occur.  A text is a sequence of tokens.  SHA-256 is taken to be          *)
(* injective.                                                              *)
(***************************************************************************)
EXTENDS Integers, Sequences, Selection

CONSTANTS Requests,     \* [path, body, override, cacheEnabled]: what PrepareBody
                        \* is called with, override being ProviderConfig.Model
          AnthropicPaths, \* the paths AnalyzeAnthropicRequest is called for
          KeyOrder,     \* the keys that occur, in byte order
          Spellings,    \* the ways to write a number or a string
          Precision,    \* bits of a float64's significand, 53
          MaxNumber,    \* the largest number float64 can hold
          MaxDepth,     \* how deep encoding/json decodes, 10000
          MaxAnalyzed   \* bound: requests analysed

\* The keys that occur, and what a decoded object holds for one it does not have.
KeyNames == {KeyOrder[i] : i \in 1 .. Len(KeyOrder)}
Absent == <<"absent">>

\* ProviderConfig.Model when it is not set, and EffectiveModel of a body without one.
NoModel == ""

ASSUME CacheKeyAssumption ==
    /\ "plain" \in Spellings
    /\ Precision \in Nat \ {0}
    /\ MaxNumber \in Nat
    /\ MaxDepth \in Nat \ {0}
    /\ MaxAnalyzed \in Nat
    /\ KeyOrder \in Seq(STRING)
    /\ \A i, j \in 1 .. Len(KeyOrder) : KeyOrder[i] = KeyOrder[j] => i = j
    /\ {"model", "stream", "stream_options", "include_usage"} \subseteq KeyNames

ASSUME RequestsAssumption ==
    \A request \in Requests :
        /\ request = [path |-> request.path, body |-> request.body,
                      override |-> request.override, cacheEnabled |-> request.cacheEnabled]
        /\ request.path \in STRING /\ request.override \in STRING
        /\ request.cacheEnabled \in BOOLEAN
        /\ \A i \in 1 .. Len(request.body.fields) : request.body.fields[i][1] \in KeyNames

VARIABLE analyzed       \* the requests analysed so far, with what came out

vars == <<analyzed>>
-----------------------------------------------------------------------------
(* decodeJSONObject.                                                       *)

\* The float64 nearest to the integer n, ties to the even significand.
Rounded(n, ulp) ==
    LET low == n \div ulp
        odd == low % 2 = 1
    IN  ulp * IF 2 * (n % ulp) > ulp \/ (2 * (n % ulp) = ulp /\ odd)
              THEN low + 1 ELSE low

Float(n) ==
    LET ulp == CHOOSE u \in {2 ^ k : k \in 0 .. n} :
                   /\ n < u * 2 ^ Precision
                   /\ u = 1 \/ n >= (u \div 2) * 2 ^ Precision
    IN  Rounded(n, ulp)

Keys(fields) == {fields[i][1] : i \in 1 .. Len(fields)}

\* The raw value of a key: its last occurrence wins.
RawOf(fields, key) ==
    LET last == CHOOSE i \in 1 .. Len(fields) :
                    /\ fields[i][1] = key
                    /\ \A j \in i + 1 .. Len(fields) : fields[j][1] # key
    IN  fields[last][2]

\* The raw values the decoder takes, by how deep they nest: it refuses a number that
\* float64 cannot hold, however deep it is.
Scalars ==
    {<<"null">>} \cup ({"bool"} \X BOOLEAN)
    \cup ({"number"} \X (0 .. MaxNumber) \X Spellings) \cup ({"string"} \X STRING \X Spellings)

NestedUpto ==
    LET nested[n \in 0 .. MaxDepth] ==
            IF n = 0 THEN Scalars
            ELSE Scalars \cup ({"array"} \X Seq(nested[n - 1]))
                 \cup ({"object"} \X Seq(KeyNames \X nested[n - 1]))
    IN  nested

JSON == NestedUpto[MaxDepth]

\* The decoded form of a raw value, with exact numbers or with those of the code.
DecodedAs(exact) ==
    LET decoded[raw \in JSON] ==
            IF raw[1] = "number" THEN <<"number", IF exact THEN raw[2] ELSE Float(raw[2])>>
            ELSE IF raw[1] = "string" THEN <<"string", raw[2]>>
            ELSE IF raw[1] = "array"
                 THEN <<"array", [i \in 1 .. Len(raw[2]) |-> decoded[raw[2][i]]]>>
            ELSE IF raw[1] = "object"
                 THEN <<"object", [k \in KeyNames |-> IF k \in Keys(raw[2])
                                                      THEN decoded[RawOf(raw[2], k)]
                                                      ELSE Absent]>>
            ELSE raw
    IN  decoded

Decode == DecodedAs(FALSE)

\* Not decoded: an empty body, another value than an object, an object that is
\* cut off, or one with a value out of range.  What follows the object is not
\* looked at.
DecodesObject(body) ==
    /\ body.form \in {"object", "trailing"}
    /\ body.fields \in Seq(KeyNames \X JSON)

FieldsAs(exact, body) ==
    [k \in KeyNames |-> IF k \in Keys(body.fields)
                        THEN DecodedAs(exact)[RawOf(body.fields, k)] ELSE Absent]

Fields(body) == FieldsAs(FALSE, body)

Present(values) == {k \in KeyNames : values[k] # Absent}
-----------------------------------------------------------------------------
(* buildCacheKeyWithFilter.                                                *)

SortedKeys(keys) == Selected(KeyOrder, keys)

\* The decoded values, by how deep they nest.
PlainValues ==
    {<<"null">>} \cup ({"bool"} \X BOOLEAN)
    \cup ({"number"} \X {Float(n) : n \in 0 .. MaxNumber}) \cup ({"string"} \X STRING)

DecodedUpto ==
    LET upto[n \in 0 .. MaxDepth] ==
            IF n = 0 THEN PlainValues
            ELSE PlainValues \cup ({"array"} \X Seq(upto[n - 1]))
                 \cup ({"object"} \X [KeyNames -> upto[n - 1] \cup {Absent}])
    IN  upto

\* The loops that write a list: what is written from part i on.
WrittenFrom(kind, parts) ==
    LET written[i \in 1 .. Len(parts) + 1] ==
            IF i = Len(parts) + 1 THEN <<<<"end", kind>>>>
            ELSE (IF i > 1 THEN <<<<"comma">>>> ELSE <<>>) \o (parts[i] \o written[i + 1])
    IN  written

Text(kind, parts) == <<<<"begin", kind>>>> \o WrittenFrom(kind, parts)[1]

Member(key, text) == <<<<"string", key>>, <<"colon">>>> \o text

\* writeCanonicalJSON: nil, bool, string and float64 are a token each, a float64
\* in the shortest decimal that reads back as the same float64.
Canonical ==
    LET canonical[value \in DecodedUpto[MaxDepth]] ==
            IF value[1] = "array"
            THEN Text("array", [i \in 1 .. Len(value[2]) |-> canonical[value[2][i]]])
            ELSE IF value[1] = "object"
                 THEN LET keys == SortedKeys(Present(value[2]))
                      IN  Text("object", [i \in 1 .. Len(keys) |->
                                            Member(keys[i], canonical[value[2][keys[i]]])])
            ELSE <<value>>
    IN  canonical

StreamsNot(key, value) == key = "stream" /\ value = <<"bool", FALSE>>

\* Mutants: a stream is not told from a plain answer; stream = false is not told
\* to be the default.
ExcludeStream(path, key, value) ==
    key \in {"stream", "stream_options", "user"}

ExcludeNoStream(path, key, value) ==
    IF path \in AnthropicPaths THEN key = "metadata"
    ELSE key \in {"user", "stream_options"}

\* shouldExcludeAnthropicCacheField and shouldExcludeCacheField.
Excluded(path, key, value) ==
    \/ key \in IF path \in AnthropicPaths THEN {"metadata"}
               ELSE {"user", "stream_options"}
    \/ StreamsNot(key, value)

CacheKey(path, values) ==
    LET kept == SortedKeys({k \in Present(values) : ~Excluded(path, k, values[k])})
        fields == [i \in 1 .. Len(kept) |-> Member(kept[i], Canonical[values[kept[i]]])]
    IN  Text("object", <<Member("path", <<<<"string", path>>>>),
                         Member("request", Text("object", fields))>>)
-----------------------------------------------------------------------------
(* analyzeRequestCommon.                                                   *)

\* The raw text patched into the body for a key, if any.
ModelPatch(request, values) ==
    IF request.override = NoModel \/ values["model"] = <<"string", request.override>>
    THEN {} ELSE {<<"model", <<"string", request.override, "plain">>>>}

Streams(values) == values["stream"] = <<"bool", TRUE>>

StreamPatch(request, values) ==
    IF /\ Streams(values)
       /\ request.path \notin AnthropicPaths
       /\ values["stream_options"] = Absent
    THEN {<<"stream_options", <<"object", <<<<"include_usage", <<"bool", TRUE>>>>>>>>>>}
    ELSE {}

Patches(request, values) ==
    ModelPatch(request, values) \cup StreamPatch(request, values)

\* Mutant: the decoded values stay unpatched.
Unpatched(values, patches) == values

\* The decoded fields after the patches.
Patched(values, patches) ==
    [k \in KeyNames |->
        IF \E p \in patches : p[1] = k
        THEN Decode[(CHOOSE p \in patches : p[1] = k)[2]]
        ELSE values[k]]

\* Mutant: untouched fields are encoded from their decoded values.
EncodedField(body, patches, key) ==
    IF \E p \in patches : p[1] = key
    THEN CHOOSE p \in patches : p[1] = key
    ELSE LET raw == RawOf(body.fields, key)
         IN  <<key, IF raw[1] = "number" THEN <<"number", Float(raw[2]), "plain">>
                    ELSE raw>>

\* A field of the new body: the patch, or the raw text as it came.
EffectiveField(body, patches, key) ==
    IF \E p \in patches : p[1] = key
    THEN CHOOSE p \in patches : p[1] = key
    ELSE <<key, RawOf(body.fields, key)>>

\* Mutant: a patch is put behind the field it replaces.
AppendPatches(body, patches) ==
    IF patches = {} THEN body
    ELSE [form |-> "object", fields |-> body.fields \o <<CHOOSE p \in patches : TRUE>>]

\* buildEffectiveBody, when there is something to patch.
EffectiveBody(body, patches) ==
    IF patches = {} THEN body
    ELSE LET keys == SortedKeys(Keys(body.fields) \cup {p[1] : p \in patches})
         IN  [form |-> "object",
              fields |-> [i \in 1 .. Len(keys) |->
                            EffectiveField(body, patches, keys[i])]]

EffectiveModel(values) ==
    IF values["model"][1] = "string" THEN values["model"][2] ELSE NoModel

PrepareBody(request) ==
    IF ~DecodesObject(request.body)
    THEN [body |-> request.body, model |-> NoModel, stream |-> FALSE, key |-> <<>>]
    ELSE LET patches == Patches(request, Fields(request.body))
             values == Patched(Fields(request.body), patches)
         IN  [body   |-> EffectiveBody(request.body, patches),
              model  |-> EffectiveModel(values),
              stream |-> Streams(values),
              key    |-> IF request.cacheEnabled
                         THEN CacheKey(request.path, values) ELSE <<>>]
-----------------------------------------------------------------------------
Init == analyzed = <<>>

\* A handler, or a further attempt of a failover, prepares a body.
Analyze(request) ==
    /\ Len(analyzed) < MaxAnalyzed
    /\ analyzed' = Append(analyzed, [request |-> request, meta |-> PrepareBody(request)])

Next == \E request \in Requests : Analyze(request)

Spec == Init /\ [][Next]_vars
-----------------------------------------------------------------------------
(* What the rest of the gateway relies on.                                 *)

KeyedPairs ==
    {p \in {<<analyzed[i], analyzed[j]>> : i, j \in 1 .. Len(analyzed)} :
        p[1].meta.key # <<>> /\ p[2].meta.key # <<>>}

\* A body is forwarded as it came, or it is a whole object that has each of its
\* keys once, in byte order; only a decoded request has a model, a key or a stream.
TypeOK ==
    \A i \in 1 .. Len(analyzed) :
        LET request == analyzed[i].request
            meta == analyzed[i].meta
        IN  /\ request \in Requests
            /\ \/ meta.body = request.body
               \/ /\ meta.body.form = "object"
                  /\ [n \in 1 .. Len(meta.body.fields) |-> meta.body.fields[n][1]]
                        = SortedKeys(Keys(meta.body.fields))
            /\ meta.stream \in BOOLEAN
            /\ meta.key # <<>> <=> DecodesObject(request.body) /\ request.cacheEnabled

\* What a body asks of the model, as JSON means it, with exact numbers or with
\* float64 ones: spelling, order and repeated keys do not matter, nor do the fields
\* that docs/cache-design.md and the Anthropic filter leave out, and stream = false
\* is the default.  Written without the steps of buildCacheKeyWithFilter.
Question(exact, request, meta) ==
    LET fields == FieldsAs(exact, meta.body)
        silent == IF request.path \in AnthropicPaths THEN {"metadata"}
                  ELSE {"user", "stream_options"}
    IN  [path  |-> request.path,
         asked |-> {<<k, fields[k]>> : k \in Present(fields) \ silent}
                   \ {<<"stream", <<"bool", FALSE>>>>}]

\* Requests that ask the same have the same key, however they were written and
\* whatever was patched into them (buildCacheKeyWithFilter sorts at every depth and
\* formats what it decoded), so the second one can be answered from the cache.
KeyIgnoresLayout ==
    \A p \in KeyedPairs :
        Question(FALSE, p[1].request, p[1].meta) = Question(FALSE, p[2].request, p[2].meta)
            => p[1].meta.key = p[2].meta.key

\* Requests that share a key ask the same of the same model on the same path, up to
\* the precision of float64, and want the same kind of answer: a stored event
\* stream is never replayed to a client that did not ask for a stream, and a field
\* of the same name as an excluded one deeper in the body still counts.
SameKeySameAnswer ==
    \A p \in KeyedPairs : p[1].meta.key = p[2].meta.key =>
        /\ Question(FALSE, p[1].request, p[1].meta)
             = Question(FALSE, p[2].request, p[2].meta)
        /\ p[1].meta.stream = p[2].meta.stream
        /\ p[1].meta.model = p[2].meta.model

\* The body that is sent says what the client's body said, to the last digit of its
\* numbers, but for the model of the provider and the stream options
\* (buildEffectiveBody copies the raw text of every field it does not patch).
BodySurvives ==
    \A i \in 1 .. Len(analyzed) :
        LET request == analyzed[i].request
            meta == analyzed[i].meta
            sent == meta.body.fields
            came == request.body.fields
            patched == IF request.override = NoModel THEN {} ELSE {"model"}
            added == IF meta.stream /\ request.path \notin AnthropicPaths
                     THEN {"stream_options"} ELSE {}
        IN  IF ~DecodesObject(request.body) THEN meta.body = request.body
            ELSE /\ Keys(sent) = Keys(came) \cup patched \cup added
                 /\ \A k \in Keys(came) \ patched : RawOf(sent, k) = RawOf(came, k)
                 /\ \A k \in patched :
                        Decode[RawOf(sent, k)] = <<"string", request.override>>

\* The key, the model and the stream flag describe the body that is sent and not the
\* one that came: analysing the sent body for a provider without an override finds
\* the same and has nothing left to patch.  The log and the cache rest on it.
MetaDescribesSentBody ==
    \A i \in 1 .. Len(analyzed) :
        LET request == analyzed[i].request
            meta == analyzed[i].meta
        IN  PrepareBody([request EXCEPT !.body = meta.body, !.override = NoModel]) = meta

\* What docs/cache-design.md says of the key: collision-resistant, made from the
\* semantics of the request, so that only identical requests are replayed.  The
\* code formats decoded float64 numbers.
CollisionResistant ==
    \A p \in KeyedPairs : p[1].meta.key = p[2].meta.key =>
        Question(TRUE, p[1].request, p[1].meta) = Question(TRUE, p[2].request, p[2].meta)
=============================================================================
