------------------------------- MODULE Stream -------------------------------
(***************************************************************************)
(* proxyStream in internal/proxy.go with the SSE auditors of               *)
(* internal/protocol_openai.go and protocol_anthropic.go: one streamed     *)
(* response on its way to the client.  The upstream's bytes arrive in      *)
(* chunks cut anywhere; each is written to the client, fed to the auditor  *)
(* that looks for token counts and for the end marker, and captured up to  *)
(* a limit.  Upstream and client may fail between any two steps.  At the   *)
(* end one exchange is saved, and what was captured may become a cached    *)
(* response.                                                               *)
(*                                                                         *)
(* A body is a sequence of symbols: a line of an event is two symbols, its *)
(* halves, so that a chunk may end inside it, and Newline is a third.      *)
(***************************************************************************)
EXTENDS Integers, Sequences

CONSTANTS Bodies,       \* the bodies an upstream sends
          Limits        \* values of cache.max_body_bytes, in symbols: 0 is no limit, and
                        \* LoadConfig does not refuse a negative one

\* "usage" is a final chunk with token counts or a message_start, "delta" a
\* later one or a message_delta, "stop" is [DONE] or message_stop.
LineKinds == {"text", "usage", "delta", "stop"}
Line(kind) == <<<<kind, 1>>, <<kind, 2>>>>
Newline == <<"newline", 0>>
Symbols == {Line(k)[i] : k \in LineKinds, i \in {1, 2}} \cup {Newline}

ASSUME StreamAssumption ==
    /\ Bodies \subseteq Seq(Symbols)
    /\ Limits \subseteq Int

None == "none"

VARIABLES setting,      \* protocol and configuration, fixed for the request
          body,         \* all the upstream would send
          status,       \* status code of the upstream response
          chunk,        \* buffer[:n] of the last Read
          readErr,      \* its error
          delivered,    \* written to the client and to the auditor
          audit,        \* the auditor
          captured, truncated,
          failure,      \* readFailed, writeFailed or clientCanceled
          client,       \* "gone" once the request's context is canceled
          saved,        \* the exchanges saved
          pc            \* where the handler is

inputs == <<setting, body, status>>
copying == <<delivered, audit, captured, truncated>>
vars == <<inputs, chunk, readErr, copying, failure, client, saved, pc>>

Settings == [proto : {"openai", "anthropic"}, logBody : BOOLEAN, verbose : BOOLEAN,
             cacheable : BOOLEAN, maxBody : Limits]
Counts == {None, "usage", "delta"}
Auditors == [proto : {"openai", "anthropic"}, pending : Seq(Symbols), complete : BOOLEAN,
             prompt : Counts, completion : Counts]

\* Mutant: the limit of the cache holds for the log too.
LimitAlways == setting.maxBody

\* limit in proxyStream: logging and verbose output want everything.
CaptureLimit == IF setting.logBody \/ setting.verbose THEN 0 ELSE setting.maxBody

TypeOK ==
    /\ setting \in Settings
    /\ body \in Bodies
    /\ status \in {200, 400}
    /\ chunk \in Seq(Symbols)
    /\ readErr \in {None, "eof", "error"}
    /\ delivered \in Seq(Symbols)
    /\ audit \in Auditors
    /\ captured \in Seq(Symbols)
    /\ CaptureLimit # 0 /\ captured # <<>> => Len(captured) <= CaptureLimit
    /\ truncated \in BOOLEAN
    /\ failure \in {None, "read", "write", "canceled"}
    /\ client \in {"connected", "gone"}
    /\ saved \in Seq([status : {200, 400, 499, 502}, cached : BOOLEAN,
                      body : Seq(Symbols), prompt : Counts, completion : Counts])
    /\ pc \in {"reading", "writing", "finishing", "done"}
-----------------------------------------------------------------------------
(* The auditors.                                                           *)

NewAudit == [proto |-> setting.proto, pending |-> <<>>, complete |-> FALSE,
             prompt |-> None, completion |-> None]

\* The lines processLine takes the count of prompt tokens from, and that of
\* completion tokens.
PromptLines(proto) == IF proto = "openai" THEN {"usage", "delta"} ELSE {"usage"}
CompletionLines(proto) == IF proto = "openai" THEN {"usage", "delta"} ELSE {"delta"}

\* The count after a line: that of the line if it has one.
CountAfter(line, kinds, old) ==
    IF \E k \in kinds : line = Line(k) THEN CHOOSE k \in kinds : line = Line(k) ELSE old

\* processLine: half a line is neither a marker nor valid JSON.
ProcessLine(a, line) ==
    [a EXCEPT !.complete = IF line = Line("stop") THEN TRUE ELSE @,
              !.prompt = CountAfter(line, PromptLines(a.proto), @),
              !.completion = CountAfter(line, CompletionLines(a.proto), @)]

\* One round of the loop in Write: bytes.Cut at the first newline and processLine
\* on what is before it; nothing when there is no newline.
CutLine(a) ==
    LET newlines == {i \in 1 .. Len(a.pending) : a.pending[i] = Newline}
        first == CHOOSE i \in newlines : \A j \in newlines : i <= j
    IN  IF newlines = {} THEN a
        ELSE [ProcessLine(a, SubSeq(a.pending, 1, first - 1)) EXCEPT
                !.pending = SubSeq(@, first + 1, Len(@))]

\* The auditor after each round of the loop, which has fewer rounds with a newline
\* than there are symbols.
Rounds(a) ==
    LET after[n \in 0 .. Len(a.pending)] ==
            IF n = 0 THEN a ELSE CutLine(after[n - 1])
    IN  after

Unbuffered(a, piece) == piece       \* mutant: what is left of a chunk is dropped

\* What the next Write looks at: the rest of the last chunk and this one.
Buffered(a, piece) == a.pending \o piece

\* Write of both auditors.
AuditWrite(a, piece) ==
    LET start == [a EXCEPT !.pending = Buffered(a, piece)]
    IN  Rounds(start)[Len(start.pending)]

\* IsComplete and Usage look at a last line without newline as well.
AuditEnd(a) == ProcessLine(a, a.pending)
-----------------------------------------------------------------------------
Init ==
    /\ setting \in Settings
    /\ body \in Bodies
    /\ status \in {200, 400}
    /\ chunk = <<>> /\ readErr = None
    /\ delivered = <<>>
    /\ audit = NewAudit
    /\ captured = <<>> /\ truncated = FALSE
    /\ failure = None
    /\ client = "connected"
    /\ saved = <<>>
    /\ pc = "reading"

\* resp.Body.Read: some of what is left and perhaps the end.  Upstream may close
\* early or break off, the client's timer may fire, and a canceled context ends
\* the read with an error.
Read ==
    /\ pc = "reading"
    /\ \E n \in 0 .. Len(body) - Len(delivered), e \in {None, "eof", "error"} :
          /\ n > 0 \/ e # None
          /\ chunk' = SubSeq(body, Len(delivered) + 1, Len(delivered) + n)
          /\ readErr' = e
    /\ pc' = "writing"
    /\ UNCHANGED <<inputs, copying, failure, client, saved>>

\* Mutant: the length of the chunk is forgotten.
FitsBefore == Len(captured) <= CaptureLimit

\* captured.Len() + len(chunk) <= limit
Fits == Len(captured) + Len(chunk) <= CaptureLimit

\* captured != nil
Capturing == setting.logBody \/ setting.verbose \/ setting.cacheable

\* A chunk that does not fit is left out, those after it may fit again; none fits
\* a negative limit.
Capture ==
    IF ~Capturing \/ chunk = <<>> THEN UNCHANGED <<captured, truncated>>
    ELSE IF CaptureLimit = 0 \/ Fits
         THEN captured' = captured \o chunk /\ UNCHANGED truncated
         ELSE truncated' = TRUE /\ UNCHANGED captured

\* A failure is blamed on the client when the context is canceled by then.
Blame(side) == IF client = "gone" THEN "canceled" ELSE side

\* w.Write takes the chunk, and the auditor and the capture get it as well.
\* Then the error of the read is looked at.
Deliver ==
    /\ pc = "writing"
    /\ delivered' = delivered \o chunk
    /\ audit' = AuditWrite(audit, chunk)
    /\ Capture
    /\ failure' = IF readErr = "error" THEN Blame("read") ELSE None
    /\ pc' = IF readErr = None THEN "reading" ELSE "finishing"
    /\ UNCHANGED <<inputs, chunk, readErr, client, saved>>

\* w.Write fails: the loop ends before the auditor and the capture see the
\* chunk.
WriteFails ==
    /\ pc = "writing"
    /\ chunk # <<>>
    /\ failure' = Blame("write")
    /\ pc' = "finishing"
    /\ UNCHANGED <<inputs, chunk, readErr, copying, client, saved>>

\* Mutant: a failed write is not reported.
StatusOfRead ==
    CASE failure = "canceled" -> 499
      [] failure = "read"     -> 502
      [] OTHER                -> status

StatusCode ==
    CASE failure = "canceled"        -> 499
      [] failure \in {"read", "write"} -> 502
      [] OTHER                       -> status

CompleteAnyway == AuditEnd(audit).complete  \* mutant: a capture with holes

\* isStreamComplete
IsComplete == AuditEnd(audit).complete /\ ~truncated

\* canStoreCachedResponse
CanCache ==
    /\ setting.cacheable
    /\ StatusCode = 200
    /\ IsComplete
    /\ setting.maxBody > 0 => Len(captured) <= setting.maxBody

\* What is logged, with a cache key if the response can be cached.
Exchange ==
    [status |-> StatusCode,
     cached |-> CanCache,
     body |-> IF setting.logBody \/ CanCache THEN captured ELSE <<>>,
     prompt |-> AuditEnd(audit).prompt,
     completion |-> AuditEnd(audit).completion]

Finish ==
    /\ pc = "finishing"
    /\ saved' = Append(saved, Exchange)
    /\ pc' = "done"
    /\ UNCHANGED <<inputs, chunk, readErr, copying, failure, client>>

\* The client disconnects, which cancels the context.
Disconnect ==
    /\ client = "connected"
    /\ pc # "done"
    /\ client' = "gone"
    /\ UNCHANGED <<inputs, chunk, readErr, copying, failure, saved, pc>>

Done == pc = "done" /\ UNCHANGED vars

Next == Read \/ Deliver \/ WriteFails \/ Finish \/ Disconnect \/ Done

Spec == Init /\ [][Next]_vars
-----------------------------------------------------------------------------
(* What the client, the log and the cache can rely on.                     *)

\* The reference: the same auditor fed with one symbol at a time.
Feed(a, symbol) ==
    IF symbol = Newline
    THEN [ProcessLine(a, a.pending) EXCEPT !.pending = <<>>]
    ELSE [a EXCEPT !.pending = Append(@, symbol)]

\* The auditor after each symbol of s.
Fed(a, s) ==
    LET after[n \in 0 .. Len(s)] == IF n = 0 THEN a ELSE Feed(after[n - 1], s[n])
    IN  after

\* How the network cuts the stream into chunks makes no difference: the auditor
\* knows what a reader of the whole text knows, and the token counts that are
\* saved are those of the last line that carries them, terminated or not.
AuditIgnoresChunks ==
    LET whole == Fed(NewAudit, delivered)[Len(delivered)]
    IN  /\ audit = whole
        /\ \A i \in 1 .. Len(saved) :
              /\ saved[i].prompt = ProcessLine(whole, whole.pending).prompt
              /\ saved[i].completion = ProcessLine(whole, whole.pending).completion

\* What is replayed from the cache is what the first client got, to the last
\* symbol, from a stream that ended well with its end marker: never a stream
\* that broke off, that the client left, or that outgrew the capture.
OnlyWholeStreamsCached ==
    \A i \in 1 .. Len(saved) : saved[i].cached =>
        /\ saved[i].status = 200
        /\ saved[i].body = delivered
        /\ readErr = "eof"
        /\ \E j, k \in 0 .. Len(delivered) :
              j < k /\ SubSeq(delivered, j + 1, k) = Line("stop")
        /\ setting.maxBody > 0 => Len(saved[i].body) <= setting.maxBody

\* A body in the log has no holes: it is all that was sent to the client, or it
\* is absent.
StoredAsSent ==
    \A i \in 1 .. Len(saved) :
        saved[i].body \in {delivered, <<>>}

EndsWith(s, t) == \E k \in 0 .. Len(s) : t = SubSeq(s, k + 1, Len(s))

\* The logged status tells how the stream ended: the upstream's own only when
\* every byte that arrived was passed on and the upstream ended it, 499 only
\* when the client had left.
StatusTellsOutcome ==
    /\ Len(saved) = IF pc = "done" THEN 1 ELSE 0
    /\ \A i \in 1 .. Len(saved) :
          /\ saved[i].status = status => /\ readErr = "eof"
                                         /\ EndsWith(delivered, chunk)
                                         /\ failure = None
          /\ saved[i].status = 499 => client = "gone"
=============================================================================
