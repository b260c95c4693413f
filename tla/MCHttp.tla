------------------------------- MODULE MCHttp -------------------------------
(***************************************************************************)
(* Directions of one to four messages, with every kind of body, strings of *)
(* one or two pieces, lists of Connection, folded lines, and calls that    *)
(* may end anywhere.                                                       *)
(***************************************************************************)
EXTENDS Http

S(kind, content) == [k |-> kind, v |-> content]

Crlf == S("crlf", "")

Symbols(kind, pieces) == [i \in DOMAIN pieces |-> S(kind, pieces[i])]

\* A header line, and one whose value goes on in a second line.
Header(class, value) ==
    LET name == <<<<class, 1>>, <<class, 2>>>>
    IN  [name |-> name, value |-> value,
         wire |-> [i \in 1 .. 2 |-> S("field", [name |-> class, piece |-> name[i]])]
                      \o <<S("colon", "")>> \o Symbols("value", value) \o <<Crlf>>]

Folded(class, value, more) ==
    LET h == Header(class, value)
    IN  [h EXCEPT !.value = IF @ = <<>> THEN more ELSE @ \o <<" ">> \o more,
                  !.wire = @ \o <<S("fold", " ")>> \o Symbols("value", more) \o <<Crlf>>]

\* A header with a list: of words that mean something to the parser, "te",
\* which does not, "beginning", which is "c" or "k", and commas.  And a message
\* that is the last one of its direction.
Connection(words) == Header("connection", words)
Closing(message) == [message EXCEPT !.last = TRUE]

Wire(headers) == FlattenSeq([i \in DOMAIN headers |-> headers[i].wire]) \o <<Crlf>>

Request(method, url, headers, rest, trailers) ==
    [what |-> method, string |-> url, headers |-> headers, trailers |-> trailers, last |-> FALSE,
     head |-> <<S("method", [method |-> method, code |-> None, keeps |-> FALSE])>> \o Symbols("url", url)
                  \o <<S("version", TRUE)>> \o Wire(headers),
     rest |-> rest]

Response(code, reason, headers, rest, trailers) ==
    [what |-> code, string |-> reason, headers |-> headers, trailers |-> trailers, last |-> FALSE,
     head |-> <<S("status", [method |-> "DELETE", code |-> code, keeps |-> TRUE])>> \o Symbols("reason", reason)
                  \o <<Crlf>> \o Wire(headers),
     rest |-> rest]

\* Bodies that look like the beginning of a message.
Bytes(n) == [i \in 1 .. n |-> S(IF i = 1 THEN "method" ELSE "byte", "b")]

Chunks(trailers) ==
    <<S("size", 2)>> \o Bytes(2) \o <<Crlf, S("size", 0)>> \o Wire(trailers)

Other(value) == Header("other", value)
Length(digits) == Header("content_length", digits)
Chunked == Header("transfer_encoding", <<"chunked">>)
Trailer == Header("trailer", <<"t1", "t2">>)

Get == Request("GET", <<"u1", "u2">>, <<Other(<<"v1", "v2">>)>>, <<>>, <<>>)
Junk == [Get EXCEPT !.head = <<S("junk", "")>>, !.rest = <<>>]

Websocket == Header("upgrade", <<"websocket">>)

Requests ==
    <<<<Get, Request("POST", <<"u3">>, <<Length(<<0, 2>>), Other(<<"v3">>)>>, Bytes(2), <<>>), Get>>,
     <<Request("PUT", <<"u4">>, <<Chunked>>, Chunks(<<Trailer>>), <<Trailer>>), Get, Junk>>,
     <<Request("PUT", <<"u4">>, <<Chunked>>, Chunks(<<Connection(<<"upgrade">>), Websocket>>),
               <<Connection(<<"upgrade">>), Websocket>>), Get>>,
     <<Request("CONNECT", <<"u5">>, <<>>, <<S("junk", ""), S("junk", "")>>, <<>>)>>,
     <<Request("GET", <<"u6">>, <<Connection(<<"keep_alive", ",", "upgrade">>), Websocket>>,
               <<S("junk", ""), S("junk", "")>>, <<>>)>>,
     <<Closing(Request("GET", <<"u7">>, <<Connection(<<"te", ",", "close", ",">>)>>, <<Crlf>>, <<>>)), Get>>,
     <<Closing(Request("GET", <<"u7">>, <<Folded("connection", <<"te", ",">>, <<"close">>)>>, <<>>, <<>>)), Get>>,
     <<Request("GET", <<"u7">>, <<Folded("connection", <<"close">>, <<"close">>)>>, <<>>, <<>>),
       Request("GET", <<"u7">>, <<Connection(<<"beginning", ",", "close">>)>>, <<>>, <<>>),
       Request("GET", <<"u7">>, <<Connection(<<"te", ",", ",", "close">>)>>, <<>>, <<>>), Get>>,
     <<Request("POST", <<"u8">>, <<Length(<<1>>), Chunked>>, <<>>, <<>>)>>,
     <<Request("GET", <<"u9">>, <<Folded("other", <<"v4">>, <<"v5">>), Header("empty", <<>>),
                                  Folded("late", <<>>, <<"v6">>)>>, <<Crlf>>, <<>>), Get>>,
     <<Request("GET", <<"u9">>, <<Folded("content_length", <<1>>, <<1>>)>>, <<>>, <<>>)>>>>

Ok(headers, rest, trailers) == Response(200, <<"r1", "r2">>, headers, rest, trailers)

Responses ==
    <<<<Ok(<<Length(<<2>>), Other(<<"v1", "v2">>)>>, Bytes(2), <<>>), Response(204, <<>>, <<>>, <<>>, <<>>),
       Response(404, <<"r3">>, <<>>, Bytes(2), <<>>)>>,
     <<Response(304, <<>>, <<>>, <<>>, <<>>), Ok(<<Length(<<0>>)>>, <<>>, <<>>),
       Ok(<<Other(<<"v3">>)>>, <<>>, <<>>)>>,
     <<Response(100, <<"r4">>, <<>>, <<>>, <<>>), Ok(<<Chunked>>, Chunks(<<Trailer>>), <<Trailer>>),
       Closing(Ok(<<Connection(<<"close">>), Length(<<1>>)>>, Bytes(1), <<>>)), Response(204, <<>>, <<>>, <<>>, <<>>)>>>>

MCInputs ==
    [i \in DOMAIN Requests |-> [type |-> "request", messages |-> Requests[i]]]
        \o [i \in DOMAIN Responses |-> [type |-> "response", messages |-> Responses[i]]]
============================================================================
