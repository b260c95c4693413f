----------------------------- MODULE HttpParser -----------------------------
(***************************************************************************)
(* src/app/http/HttpParser.cc: http_parser_execute, the state machine that *)
(* reads one direction of a connection, call by call, and makes a callback *)
(* for each string, or for the part of it that the call holds.             *)
(*                                                                         *)
(* The input is a sequence of symbols [k |-> kind, v |-> content].  Each   *)
(* is a run of bytes the parser treats alike: a piece of a string, the end *)
(* of a line, a byte of a body.  A call may end between any two symbols;   *)
(* inside a symbol its end changes nothing, because only strings have a    *)
(* mark.  The states keep the names of enum state without "s_".            *)
(***************************************************************************)
EXTENDS Integers, Sequences

CONSTANT
    None        \* no Content-Length: ULLONG_MAX

VARIABLES
    type,           \* "request" or "response"
    input,          \* the symbols of this direction
    pos,            \* how many of them have been read
    state,          \* parser->state
    header_state,   \* what the header being read means
    flags,          \* parser->flags
    upgrade,        \* parser->upgrade: what follows the message is another protocol
    content_length, \* parser->content_length
    start,          \* method and status_code, and whether HTTP/1.1
    mark,           \* what has been read of the marked string in this call
    callback        \* the callback of this step

parserVars == <<type, input, pos, state, header_state, flags, upgrade, content_length,
                start, mark, callback>>

Call(on, arg) == [on |-> on, arg |-> arg]

Silent == Call("none", <<>>)

\* http_parser_init
ParserInit ==
    /\ pos = 0
    /\ state = "start"
    /\ header_state = "general"
    /\ flags = {}
    /\ upgrade = FALSE
    /\ content_length = 0
    /\ start = [method |-> "DELETE", code |-> None, keeps |-> FALSE]
    /\ mark = <<>>
    /\ callback = Silent

----------------------------------------------------------------------------
\* Defect: no status is exempt.
NeedsEofAlways ==
    /\ type = "response"
    /\ "chunked" \notin flags
    /\ content_length = None

\* http_message_needs_eof: no request, no answer that never has a body, and
\* no header says how long the body is.
NeedsEof ==
    /\ type = "response"
    /\ start.code \notin {100, 204, 304}
    /\ "chunked" \notin flags
    /\ content_length = None

\* http_should_keep_alive: HTTP/1.1 keeps the connection unless told.
ShouldKeepAlive ==
    /\ IF start.keeps THEN "close" \notin flags ELSE "keep_alive" \in flags
    /\ ~NeedsEof

\* NEW_MESSAGE
NewMessage == IF ShouldKeepAlive THEN "start" ELSE "dead"

\* A message is framed twice, by its length and by chunks.
FramedTwice == {"chunked", "content_length"} \subseteq flags

Is(kind) == pos < Len(input) /\ input[pos + 1].k = kind

Content == input[pos + 1].v

Anything == {"method", "status", "url", "version", "reason", "crlf", "field", "colon",
             "value", "fold", "size", "byte", "junk"}

\* What can be read in each state.
Reads ==
    [start |-> {IF type = "request" THEN "method" ELSE "status", "crlf"},
     dead |-> {"crlf"},
     req_spaces_before_url |-> {"url"}, req_url |-> {"url", "version"},
     res_status_start |-> {"reason", "crlf"}, res_status |-> {"reason", "crlf"},
     header_field_start |-> {"field", "crlf"}, header_field |-> {"field", "colon"},
     header_value_start |-> {"value", "crlf"}, header_value |-> {"value", "crlf"},
     header_value_lws |-> Anything, header_value_discard_lws |-> Anything,
     headers_done |-> {"crlf"}, body_identity |-> Anything, body_identity_eof |-> Anything,
     chunk_size_start |-> {"size"}, chunk_data |-> Anything,
     chunk_data_almost_done |-> {"crlf"}]

\* The symbol makes the parser fail.
Fails ==
    /\ pos < Len(input)
    /\ \/ input[pos + 1].k \notin Reads[state]
       \/ /\ state = "header_value_start" /\ Is("value")
          /\ header_state = "content_length" /\ "content_length" \in flags
       \/ state = "header_value_lws" /\ Is("fold") /\ header_state = "content_length"
       \/ /\ state = "header_field_start" /\ Is("crlf")
          /\ FramedTwice /\ "trailing" \notin flags

\* The symbol is read in one state and leads to another.
Read(from, kind, to) ==
    /\ state = from
    /\ Is(kind)
    /\ pos' = pos + 1
    /\ state' = to
    /\ UNCHANGED <<type, input, upgrade>>

\* The symbol is the last one of a message; when another protocol follows,
\* the rest of the call is not looked at.
ReadLast(from, kind) ==
    /\ state = from
    /\ Is(kind)
    /\ pos' \in IF upgrade THEN pos + 1 .. Len(input) ELSE {pos + 1}
    /\ state' = NewMessage
    /\ UNCHANGED <<type, input, upgrade>>

\* The state is left without reading the symbol (REEXECUTE).
Reexecute(from, to) ==
    /\ state = from
    /\ pos < Len(input)
    /\ state' = to
    /\ UNCHANGED <<type, input, pos>>

Framing == <<flags, content_length, start>>

----------------------------------------------------------------------------
\* A request begins: its method, which the parser matches letter by letter.
StartRequest ==
    /\ Read("start", "method", "req_spaces_before_url")
    /\ start' = Content
    /\ flags' = {}
    /\ content_length' = None
    /\ callback' = Silent
    /\ UNCHANGED <<header_state, mark>>

\* A response begins: its version and its status code.
StartResponse ==
    /\ Read("start", "status", "res_status_start")
    /\ start' = Content
    /\ flags' = {}
    /\ content_length' = None
    /\ callback' = Silent
    /\ UNCHANGED <<header_state, mark>>

\* A line end between messages, or instead of a reason phrase.
EmptyLine ==
    /\ \/ \E s \in {"start", "dead"} : Read(s, "crlf", s)
       \/ Read("res_status_start", "crlf", "header_field_start")
    /\ callback' = Silent
    /\ UNCHANGED <<header_state, Framing, mark>>

\* A piece of a string that has no meaning for the parser; the first one
\* sets the mark.
Piece(from, kind, to) ==
    /\ Read(from, kind, to)
    /\ mark' = Append(mark, Content)
    /\ callback' = Silent
    /\ UNCHANGED <<header_state, Framing>>

UrlPiece == \E s \in {"req_spaces_before_url", "req_url"} : Piece(s, "url", "req_url")

StatusPiece == \E s \in {"res_status_start", "res_status"} : Piece(s, "reason", "res_status")

\* What follows a string ends it: the callback gets what this call holds.
EndString(from, kind, to, on) ==
    /\ Read(from, kind, to)
    /\ callback' = Call(on, mark)
    /\ mark' = <<>>
    /\ UNCHANGED <<header_state, flags, content_length>>

EndUrl ==
    /\ EndString("req_url", "version", "header_field_start", "url")
    /\ start' = [start EXCEPT !.keeps = Content]

EndStatus ==
    /\ EndString("res_status", "crlf", "header_field_start", "status")
    /\ UNCHANGED start

\* A piece of a header's name, matched with the names the parser knows.
FieldPiece ==
    /\ \E s \in {"header_field_start", "header_field"} : Read(s, "field", "header_field")
    /\ header_state' = Content.name
    /\ mark' = Append(mark, Content.piece)
    /\ callback' = Silent
    /\ UNCHANGED Framing

EndField ==
    /\ EndString("header_field", "colon", "header_value_start", "header_field")
    /\ UNCHANGED start

\* The value is empty so far.
EmptyValue ==
    /\ Read("header_value_start", "crlf", "header_value_discard_lws")
    /\ callback' = Silent
    /\ UNCHANGED <<header_state, Framing, mark>>

\* The words of Connection that have a meaning, once they are complete.
Options == {"close", "keep_alive", "connection_upgrade"}

\* What a word makes of its header: the first one of a value, or one behind a
\* comma in the list of Connection.  One that is only the beginning of a word
\* with a meaning is told from it by what comes next.
Meaning(name, word) ==
    LET list == name \in {"connection", "token_start"} IN
    CASE name = "content_length" -> name
      [] name = "transfer_encoding" /\ word = "chunked" -> "chunked"
      [] list /\ word \in {"close", "keep_alive", "beginning"} -> word
      [] list /\ word = "upgrade" -> "connection_upgrade"
      [] list -> "token"
      [] OTHER -> "general"

\* Defect: a comma is one more word.
MeaningOfOneWord(word) == IF header_state = "content_length" THEN header_state ELSE "general"

\* What the next word, or a comma, makes of it.
NextMeaning(word) ==
    CASE header_state = "content_length" -> header_state
      [] header_state \in Options \cup {"token"} /\ word = "," -> "token_start"
      [] header_state \in Options \cup {"token", "beginning"} -> "token"
      [] header_state = "token_start" /\ word # "," -> Meaning(header_state, word)
      [] OTHER -> "general"

\* The first piece of a value on this line.
ValueStart ==
    /\ ~Fails
    /\ Read("header_value_start", "value", "header_value")
    /\ header_state' = Meaning(header_state, Content)
    /\ flags' = flags \cup ({header_state} \cap {"content_length", "upgrade"})
    /\ content_length' = IF header_state = "content_length" THEN Content ELSE content_length
    /\ mark' = <<Content>>
    /\ callback' = Silent
    /\ UNCHANGED start

\* One more digit, word or comma; a comma makes a word of Connection count.
ValuePiece ==
    /\ Read("header_value", "value", "header_value")
    /\ header_state' = NextMeaning(Content)
    /\ flags' = flags \cup {option \in Options : option = header_state /\ Content = ","}
    /\ content_length' =
           IF header_state = "content_length" THEN 10 * content_length + Content
           ELSE content_length
    /\ mark' = Append(mark, Content)
    /\ callback' = Silent
    /\ UNCHANGED start

EndValue ==
    /\ EndString("header_value", "crlf", "header_value_lws", "header_value")
    /\ UNCHANGED start

\* The value goes on in the next line: the whitespace is a part of it, and only
\* a list that ended with a comma keeps its meaning.
FoldedLine ==
    /\ ~Fails
    /\ Read("header_value_lws", "fold", "header_value")
    /\ header_state' = IF header_state = "token_start" THEN header_state ELSE "general"
    /\ mark' = <<Content>>
    /\ callback' = Silent
    /\ UNCHANGED Framing

\* It begins in the next line, behind the whitespace.
FoldedEmptyValue ==
    /\ Read("header_value_discard_lws", "fold", "header_value_start")
    /\ callback' = Silent
    /\ UNCHANGED <<header_state, Framing, mark>>

\* The next line shows that a header is complete; an empty value is told now.
FinishHeader ==
    /\ ~Is("fold")
    /\ \/ Reexecute("header_value_lws", "header_field_start") /\ callback' = Silent
       \/ Reexecute("header_value_discard_lws", "header_field_start")
              /\ callback' = Call("header_value", <<>>)
    /\ flags' = flags \cup
           ({header_state} \cap (Options \cup {"chunked"}))
    /\ UNCHANGED <<header_state, upgrade, content_length, start, mark>>

----------------------------------------------------------------------------
\* Another protocol follows the message.
Upgrades == start.method = "CONNECT" \/ {"upgrade", "connection_upgrade"} \subseteq flags

\* The empty line behind the headers, before the trailers can set a flag.
HeadersComplete ==
    /\ ~Fails
    /\ Is("crlf")
    /\ "trailing" \notin flags
    /\ Reexecute("header_field_start", "headers_done")
    /\ upgrade' = Upgrades
    /\ callback' = Call("headers_complete", <<>>)
    /\ UNCHANGED <<header_state, Framing, mark>>

HasBody == "chunked" \in flags \/ content_length \notin {0, None}

BodyState ==
    CASE "chunked" \in flags -> "chunk_size_start"
      [] content_length # None -> "body_identity"
      [] OTHER -> "body_identity_eof"

\* The head is the whole message.
EndsWithHead == IF HasBody THEN start.method = "CONNECT" ELSE upgrade \/ ~NeedsEof

HeadersDone ==
    /\ \/ EndsWithHead /\ ReadLast("headers_done", "crlf")
       \/ ~EndsWithHead /\ Read("headers_done", "crlf", BodyState)
    /\ callback' = Silent
    /\ UNCHANGED <<header_state, Framing, mark>>

\* Defect: one byte more is taken for the body.
BodyByteTooMany ==
    /\ state \in {"body_identity", "chunk_data"}
    /\ \E kind \in Anything :
           \/ content_length > 0 /\ \E s \in {"body_identity", "chunk_data"} : Read(s, kind, s)
           \/ content_length = 0 /\ Read("chunk_data", kind, "chunk_data_almost_done")
           \/ content_length = 0 /\ ReadLast("body_identity", kind)
    /\ content_length' = content_length - 1
    /\ callback' = Silent
    /\ UNCHANGED <<header_state, flags, start, mark>>

\* A byte of a body whose length is known, or of a chunk.
BodyByte ==
    /\ state \in {"body_identity", "chunk_data"}
    /\ \E kind \in Anything :
           \/ content_length > 1 /\ \E s \in {"body_identity", "chunk_data"} : Read(s, kind, s)
           \/ content_length = 1 /\ Read("chunk_data", kind, "chunk_data_almost_done")
           \/ content_length = 1 /\ ReadLast("body_identity", kind)
    /\ content_length' = content_length - 1
    /\ callback' = Silent
    /\ UNCHANGED <<header_state, flags, start, mark>>

\* A byte of a body that lasts as long as the connection.
BodyUntilEof ==
    /\ \E kind \in Anything : Read("body_identity_eof", kind, "body_identity_eof")
    /\ callback' = Silent
    /\ UNCHANGED <<header_state, Framing, mark>>

\* The size of a chunk; behind the last one come the trailers.
ChunkSize ==
    /\ Read("chunk_size_start", "size",
            IF Content = 0 THEN "header_field_start" ELSE "chunk_data")
    /\ content_length' = Content
    /\ flags' = IF Content = 0 THEN flags \cup {"trailing"} ELSE flags
    /\ callback' = Silent
    /\ UNCHANGED <<header_state, start, mark>>

\* The line end behind a chunk, or the empty line behind the trailers.
ChunkEnd ==
    /\ \/ Read("chunk_data_almost_done", "crlf", "chunk_size_start")
       \/ ~Fails /\ "trailing" \in flags /\ ReadLast("header_field_start", "crlf")
    /\ callback' = Silent
    /\ UNCHANGED <<header_state, Framing, mark>>

----------------------------------------------------------------------------
\* The states with a mark, and the callbacks of their strings.
Marked == [req_url |-> "url", res_status |-> "status", header_field |-> "header_field",
           header_value |-> "header_value"]

\* Defect: the next call hands over once more what this one had.
EndOfCallKeepingMark ==
    /\ state \in DOMAIN Marked
    /\ mark # <<>>
    /\ callback.arg # mark
    /\ callback' = Call(Marked[state], mark)
    /\ UNCHANGED <<type, input, pos, state, header_state, upgrade, Framing, mark>>

\* The call ends inside a string: the callback gets what there is of it, and
\* the next call sets the mark to its own first byte.
EndOfCall ==
    /\ state \in DOMAIN Marked
    /\ mark # <<>>
    /\ callback' = Call(Marked[state], mark)
    /\ mark' = <<>>
    /\ UNCHANGED <<type, input, pos, state, header_state, upgrade, Framing>>

\* What http_parser_execute does with a symbol.
Execute ==
    \/ StartRequest \/ StartResponse \/ EmptyLine \/ UrlPiece \/ EndUrl
    \/ StatusPiece \/ EndStatus \/ FieldPiece \/ EndField
    \/ EmptyValue \/ ValueStart \/ ValuePiece \/ EndValue
    \/ FoldedLine \/ FoldedEmptyValue \/ FinishHeader
    \/ HeadersComplete \/ HeadersDone
    \/ BodyByte \/ BodyUntilEof \/ ChunkSize \/ ChunkEnd
============================================================================
