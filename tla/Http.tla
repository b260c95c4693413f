-------------------------------- MODULE Http --------------------------------
(***************************************************************************)
(* src/app/http/Http.cc on one direction of one connection: onTcpData      *)
(* passes the payload of every call to http_parser_execute, whose          *)
(* callbacks collect a message in the HttpRequest or HttpResponse of the   *)
(* connection and report it when its headers are complete.  onTcpData sets *)
(* the current message in every call, so that directions and connections   *)
(* share nothing.                                                          *)
(***************************************************************************)
EXTENDS HttpParser, SequencesExt

CONSTANT
    Inputs      \* the directions: a type and the messages sent

VARIABLES
    sent,       \* the messages sent in this direction
    data,       \* the HttpRequest or HttpResponse
    errno,      \* parser->http_errno
    reports     \* what the request or response callbacks were given

vars == <<parserVars, sent, data, errno, reports>>

\* A new HttpDetail: statusCode has no initial value.
NewData == [string |-> <<>>, code |-> None, field |-> <<>>, headers |-> <<>>, bytes |-> 0]

Init ==
    /\ \E i \in DOMAIN Inputs : type = Inputs[i].type /\ sent = Inputs[i].messages
    /\ input = FlattenSeq([i \in DOMAIN sent |-> sent[i].head \o sent[i].rest])
    /\ ParserInit
    /\ data = NewData
    /\ errno = "ok"
    /\ reports = <<>>

----------------------------------------------------------------------------
\* onHeaderFiled: the field is replaced by this part of it.
OnHeaderField(d, part) == [d EXCEPT !.field = part, !.bytes = @ + Len(part)]

\* onHeaderValue: so is the value.
OnHeaderValue(d, part) ==
    [d EXCEPT !.headers = (d.field :> part) @@ @, !.bytes = @ + Len(part)]

\* onUrl
OnUrl(d, part) == [d EXCEPT !.string = part, !.bytes = @ + Len(part)]

\* onStatus
OnStatus(d, part) == [OnUrl(d, part) EXCEPT !.code = start.code]

\* Defect: the headers stay for the next message.
KeepHeaders(d) == [d EXCEPT !.bytes = 0]

\* onHeadersComplete: what is emptied behind the report.
OnHeadersComplete(d) == [d EXCEPT !.headers = <<>>, !.bytes = 0]

\* What the callbacks of a request or a response can see.
Report(d) ==
    [what |-> IF type = "request" THEN start.method ELSE d.code,
     string |-> d.string, headers |-> d.headers, bytes |-> d.bytes]

Called(d, call) ==
    CASE call.on = "url" -> OnUrl(d, call.arg)
      [] call.on = "status" -> OnStatus(d, call.arg)
      [] call.on = "header_field" -> OnHeaderField(d, call.arg)
      [] call.on = "header_value" -> OnHeaderValue(d, call.arg)
      [] call.on = "headers_complete" -> OnHeadersComplete(d)
      [] OTHER -> d

\* onHeaderValue returns 1: "no field before".
Rejects(d, call) == call.on = "header_value" /\ d.field = <<>>

----------------------------------------------------------------------------
\* The parser reads on, or the call ends, and Http handles the callback.
Parse ==
    /\ errno = "ok"
    /\ Execute \/ EndOfCall
    /\ errno' = IF Rejects(data, callback') THEN "header_value" ELSE "ok"
    /\ data' = IF Rejects(data, callback') THEN data ELSE Called(data, callback')
    /\ reports' = IF callback'.on = "headers_complete" THEN Append(reports, Report(data))
                  ELSE reports
    /\ UNCHANGED sent

\* The parser has met something that is not HTTP.  It stays in its error:
\* every later call returns at once.
ParseError ==
    /\ errno = "ok"
    /\ Fails
    /\ errno' = IF state = "dead" THEN "closed" ELSE "malformed"
    /\ UNCHANGED <<parserVars, sent, data, reports>>

Finished ==
    /\ errno # "ok" \/ pos = Len(input)
    /\ UNCHANGED vars

Next == Parse \/ ParseError \/ Finished

Spec == Init /\ [][Next]_vars

----------------------------------------------------------------------------
\* Where the head of a message ends.
HeadEnd(k) ==
    LET before == [i \in 1 .. k - 1 |-> sent[i].head \o sent[i].rest]
    IN  Len(FlattenSeq(before)) + Len(sent[k].head)

\* Every head is reported, once, when its empty line is read, however the
\* payload is cut into calls, and nothing else is (HttpParser.cc:1775-1830): the
\* parser finds where each body ends, and it takes nothing for a head behind
\* the message that a list of Connection says is the last (1603-1680).
HeadsReported ==
    /\ Len(reports) <= Len(sent)
    /\ \A k \in 1 .. Len(sent) :
           /\ errno = "ok" /\ pos >= HeadEnd(k) => Len(reports) >= k
           /\ Len(reports) >= k => pos >= HeadEnd(k) - 1
           /\ Len(reports) > k => ~sent[k].last

\* The last message up to number k whose status line has a reason phrase
\* (or, for requests, an URL); 0 if there is none.
Latest(k) ==
    LET named == {j \in 1 .. k : sent[j].string # <<>>}
    IN  IF named = {} THEN 0 ELSE CHOOSE j \in named : \A i \in named : i <= j

\* The headers that can be in report k: its own, and the trailers of the
\* message before.
Known(k) == sent[k].headers \o (IF k = 1 THEN <<>> ELSE sent[k - 1].trailers)

\* A report holds the tail of each string of its message, its part in the
\* last call that had one, and every header once.  The status is that of the
\* last message with a reason phrase, and trailers go to the next message
\* (Http.cc:105, 133, 162, 180, 207).
ReportsAreTails ==
    \A k \in 1 .. Len(reports) :
        LET r == reports[k]
        IN  /\ IF Latest(k) = 0 THEN r.string = <<>> /\ r.what = None
               ELSE /\ IsSuffix(r.string, sent[Latest(k)].string)
                    /\ r.what = sent[IF type = "request" THEN k ELSE Latest(k)].what
            /\ Cardinality(DOMAIN r.headers) = Len(Known(k))
            /\ \A i \in DOMAIN Known(k) : \E f \in DOMAIN r.headers :
                   /\ IsSuffix(f, Known(k)[i].name)
                   /\ IsSuffix(r.headers[f], Known(k)[i].value)

\* The bytes of a report are those of all its strings, in however many calls
\* they came (Http.cc:109, 134, 163, 183, 209).
BytesReported ==
    \A k \in 1 .. Len(reports) :
        LET lengths == [i \in DOMAIN Known(k) |->
                           Len(Known(k)[i].name) + Len(Known(k)[i].value)]
        IN  reports[k].bytes = Len(sent[k].string) + FoldSeq(+, 0, lengths)

\* The parser finds fault with nothing but what is no HTTP, with a message
\* that is framed twice, with a length in two lines (1467) and with messages
\* behind a last one: it never loses its place, wherever calls end
\* (HttpParser.cc:651-700, 2077-2081).
OnlyJunkIsMalformed ==
    errno = "malformed" =>
        Is("junk") \/ FramedTwice \/ (Is("fold") /\ header_state = "content_length")

\* Each value has a field before it, so that onHeaderValue never has cause
\* to stop the parser (Http.cc:128).
FieldBeforeValue == errno # "header_value"
============================================================================
