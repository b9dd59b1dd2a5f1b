----------------------------- MODULE WrkParser -----------------------------
(***************************************************************************)
(* http_parser_execute of tools/wrk/src/http_parser.c, in strict mode, as  *)
(* wrk uses it: the states of status line, headers, chunks and bodies, one *)
(* operator per state, one unit of input per step.  A state that           *)
(* re-executes the same byte is the operator of the next one applied to    *)
(* the same unit.                                                          *)
(*                                                                         *)
(* A unit is a byte, or a run of bytes that the parser matches against a   *)
(* name it knows, so that a read may end before and behind every run.      *)
(* Letters stand for both of their cases.  Sizes are counted in units.     *)
(***************************************************************************)
EXTENDS Integers, FiniteSets, Sequences

CONSTANTS
  MaxHeader, \* HTTP_MAX_HEADER_SIZE
  MaxLength  \* ULLONG_MAX: no Content-Length seen

(* A length that is one digit long is never mistaken for none.             *)
ParserConstants == MaxHeader \in Nat /\ MaxLength \in Nat /\ MaxLength > 15

CR == "\r"
LF == "\n"
SP == " "
HT == "\t"
Ctl == "ctl"            \* a byte that no header may hold
Eol == {CR, LF}
Blank == {SP, HT}

Digits == [d \in {"0", "1", "2", "3", "4", "9"} |->
             CASE d = "0" -> 0 [] d = "1" -> 1 [] d = "2" -> 2
               [] d = "3" -> 3 [] d = "4" -> 4 [] OTHER -> 9]
IsNum(u) == u \in DOMAIN Digits
IsHex(u) == IsNum(u) \/ u = "c"
Hex(u)   == IF u = "c" THEN 12 ELSE Digits[u]

Separators == {CR, LF, SP, HT, Ctl, ":", ",", ";", "/"}
IsToken(u) == u \notin Separators
IsHeaderChar(u) == u # Ctl

(* The names of headers and the tokens of values that are matched.         *)
NameRuns == {"on", "nection", "tent-length", "roxy-connection",
             "ransfer-encoding", "pgrade"}
TokenRuns == {"hunked", "lose", "eep-alive", "pgrade"}
-----------------------------------------------------------------------------
(* struct http_parser, and the locals of one call of http_parser_execute:  *)
(* the marks that are set, how far the inner loop of s_header_field or     *)
(* s_header_value has gone (Outside: not in it), whether that loop is      *)
(* skipping with memchr, the callbacks this unit has made, whether the     *)
(* call has returned before the end of its data, and whether an assert has *)
(* failed.                                                                 *)
Outside == -1

http_parser_init(type) ==
  [type |-> type, state |-> IF type = "request" THEN "s_start_req" ELSE "s_start_res",
   hstate |-> "h_general", flags |-> {}, nread |-> 0, length |-> 0,
   major |-> 0, minor |-> 0, status |-> 0, connect |-> FALSE, upgrade |-> FALSE,
   errno |-> "OK", marks |-> {}, run |-> Outside, skip |-> FALSE,
   calls |-> <<>>, returned |-> FALSE, aborted |-> FALSE]

Reinit(p) == [http_parser_init(p.type) EXCEPT
                !.marks = p.marks, !.run = p.run, !.skip = p.skip,
                !.calls = p.calls, !.returned = p.returned, !.aborted = p.aborted]

HeaderStates ==
  {"s_dead", "s_start_res", "s_res_H", "s_res_HT", "s_res_HTT", "s_res_HTTP",
   "s_res_http_major", "s_res_http_dot", "s_res_http_minor", "s_res_http_end",
   "s_res_first_status_code", "s_res_status_code", "s_res_status_start",
   "s_res_status", "s_res_line_almost_done", "s_start_req", "s_header_field_start",
   "s_header_field", "s_header_value_discard_ws",
   "s_header_value_discard_ws_almost_done", "s_header_value_discard_lws",
   "s_header_value", "s_header_value_lws", "s_header_almost_done",
   "s_chunk_size_start", "s_chunk_size", "s_chunk_parameters",
   "s_chunk_size_almost_done", "s_headers_almost_done"}
BodyStates ==
  {"s_chunk_data", "s_chunk_data_almost_done", "s_chunk_data_done",
   "s_body_identity", "s_body_identity_eof"}

Goto(p, s)    == [p EXCEPT !.state = s]
Fail(p, e)    == [p EXCEPT !.errno = e]
Failed(p)     == p.errno # "OK"
Mark(p, m)    == [p EXCEPT !.marks = @ \cup {m}]
Flag(p, f)    == [p EXCEPT !.flags = @ \cup {f}]
Assert(p, ok) == IF ok THEN p ELSE [p EXCEPT !.aborted = TRUE]

(* CALLBACK_DATA: the callback runs, and the mark goes, if it is set.      *)
DataCall(p, m) ==
  IF m \in p.marks
    THEN [p EXCEPT !.marks = @ \ {m}, !.calls = Append(@, m)]
    ELSE p

(* COUNT_HEADER_SIZE *)
CountLate(p, n) == \* mutant: the limit is looked at one unit late
  [p EXCEPT !.nread = @ + n,
            !.errno = IF p.nread > MaxHeader THEN "HEADER_OVERFLOW" ELSE @]
Count(p, n) ==
  [p EXCEPT !.nread = @ + n,
            !.errno = IF p.nread + n > MaxHeader THEN "HEADER_OVERFLOW" ELSE @]
-----------------------------------------------------------------------------
NeedsEofAnyStatus(p) == \* mutant: the status does not matter
  /\ p.type = "response" /\ "skipbody" \notin p.flags
  /\ "chunked" \notin p.flags /\ p.length = MaxLength
http_message_needs_eof(p) ==
  /\ p.type = "response"
  /\ p.status \div 100 # 1 /\ p.status \notin {204, 304}
  /\ "skipbody" \notin p.flags
  /\ "chunked" \notin p.flags /\ p.length = MaxLength

KeepAliveOrClose(p) == \* mutant: HTTP/1.0 is kept alive unless closed
  "close" \notin p.flags /\ ~http_message_needs_eof(p)
http_should_keep_alive(p) ==
  /\ IF p.major > 0 /\ p.minor > 0 THEN "close" \notin p.flags
                                   ELSE "keepalive" \in p.flags
  /\ ~http_message_needs_eof(p)

NewMessage(p) ==
  IF ~http_should_keep_alive(p) THEN "s_dead"
  ELSE IF p.type = "request" THEN "s_start_req" ELSE "s_start_res"

(* The callback of wrk makes the parser of a response new when the         *)
(* connection is kept, and leaves it when it is replaced; the one that     *)
(* counts requests leaves it always.                                       *)
on_message_complete(p) ==
  IF p.type = "response" /\ http_should_keep_alive(p) THEN Reinit(p) ELSE p

(* UPDATE_STATE(NEW_MESSAGE()); CALLBACK_NOTIFY(message_complete)          *)
Complete(p) ==
  on_message_complete([p EXCEPT !.state = NewMessage(p),
                              !.calls = Append(@, "message_complete")])
Return(p) == [p EXCEPT !.returned = TRUE]

Dead(p, u) == IF u \in Eol THEN p ELSE Fail(p, "CLOSED_CONNECTION")

(* s_start_res: what the message before left is forgotten.                 *)
StartRes(p, u) ==
  LET q == [p EXCEPT !.flags = {}, !.length = MaxLength]
  IN  CASE u = "H"   -> Goto(q, "s_res_H")
        [] u \in Eol -> q
        [] OTHER     -> Fail(q, "INVALID_CONSTANT")

(* The bytes that may only be one thing, and what comes after each.        *)
Literal ==
  [s_res_H |-> <<"T", "s_res_HT">>, s_res_HT |-> <<"T", "s_res_HTT">>,
   s_res_HTT |-> <<"P", "s_res_HTTP">>, s_res_HTTP |-> <<"/", "s_res_http_major">>,
   s_res_http_dot |-> <<".", "s_res_http_minor">>,
   s_res_http_end |-> <<SP, "s_res_first_status_code">>,
   s_res_line_almost_done |-> <<LF, "s_header_field_start">>,
   s_header_almost_done |-> <<LF, "s_header_value_lws">>,
   s_header_value_discard_ws_almost_done |-> <<LF, "s_header_value_discard_lws">>]
Expect(p, u) ==
  IF u = Literal[p.state][1] THEN Goto(p, Literal[p.state][2])
  ELSE Fail(p, CASE p.state \in {"s_res_http_dot", "s_res_http_end"} -> "INVALID_VERSION"
                 [] p.state = "s_header_almost_done" -> "LF_EXPECTED"
                 [] OTHER -> "STRICT")

HttpMajor(p, u) ==
  IF IsNum(u) THEN Goto([p EXCEPT !.major = Digits[u]], "s_res_http_dot")
              ELSE Fail(p, "INVALID_VERSION")
HttpMinor(p, u) ==
  IF IsNum(u) THEN Goto([p EXCEPT !.minor = Digits[u]], "s_res_http_end")
              ELSE Fail(p, "INVALID_VERSION")

FirstStatusCode(p, u) ==
  CASE IsNum(u) -> Goto([p EXCEPT !.status = Digits[u]], "s_res_status_code")
    [] u = SP   -> p
    [] OTHER    -> Fail(p, "INVALID_STATUS")

Status(p, u) ==
  CASE u = CR -> DataCall(Goto(p, "s_res_line_almost_done"), "status")
    [] u = LF -> DataCall(Goto(p, "s_header_field_start"), "status")
    [] OTHER  -> p

StatusStart(p, u) ==
  LET q == Goto(Mark(p, "status"), "s_res_status")
  IN  IF u \in Eol THEN Status(q, u) ELSE q

StatusCode(p, u) ==
  CASE IsNum(u) -> LET code == p.status * 10 + Digits[u]
                   IN  IF code > 999 THEN Fail(p, "INVALID_STATUS")
                                     ELSE [p EXCEPT !.status = code]
    [] u = SP     -> Goto(p, "s_res_status_start")
    [] u \in Eol  -> StatusStart(p, u)
    [] OTHER      -> Fail(p, "INVALID_STATUS")
-----------------------------------------------------------------------------
(* s_header_field: what header_state becomes with one more run of the name *)
(* (the character index of the code is the number of runs matched).        *)
FieldMatch(h, u) ==
  CASE h = "h_C"   /\ u = "on"               -> "h_CON"
    [] h = "h_CON" /\ u = "nection"          -> "h_connection"
    [] h = "h_CON" /\ u = "tent-length"      -> "h_content_length"
    [] h = "h_matching_proxy_connection" /\ u = "roxy-connection" -> "h_connection"
    [] h = "h_matching_transfer_encoding" /\ u = "ransfer-encoding"
                                             -> "h_transfer_encoding"
    [] h = "h_matching_upgrade" /\ u = "pgrade" -> "h_upgrade"
    [] OTHER                                 -> "h_general"

HeaderField(p, u) ==
  IF IsToken(u)
    THEN [p EXCEPT !.hstate = FieldMatch(@, u), !.run = @ + 1]
    ELSE LET q == Count([p EXCEPT !.run = Outside], p.run)
         IN  IF Failed(q) THEN q
             ELSE IF u = ":"
               THEN DataCall(Goto(q, "s_header_value_discard_ws"), "header_field")
             ELSE Fail(q, "INVALID_HEADER_TOKEN")

(* The end of a name in the value of Connection or Transfer-Encoding puts  *)
(* its flag up.                                                            *)
TokenFlag == [h_connection_keep_alive |-> "keepalive", h_connection_close |-> "close",
              h_connection_upgrade |-> "upgradetok", h_transfer_encoding_chunked |-> "chunked"]
Raise(p) == IF p.hstate \in DOMAIN TokenFlag THEN Flag(p, TokenFlag[p.hstate]) ELSE p

(* http_parser.c:1512 and 1916: the digits of a length in a base.          *)
GrowUnchecked(p, base, digit) == \* mutant: the overflow is not looked for
  [p EXCEPT !.length = (@ * base + digit) % (MaxLength + 1)]
Grow(p, base, digit) ==
  IF (MaxLength - base) \div base < p.length
    THEN Fail(p, "INVALID_CONTENT_LENGTH")
    ELSE [p EXCEPT !.length = (@ * base + digit) % (MaxLength + 1)]

(* s_header_value_start: the first character of the value, or of a line    *)
(* that continues it.                                                      *)
ConnectionToken(u) ==
  CASE u = "k" -> "h_matching_connection_keep_alive"
    [] u = "c" -> "h_matching_connection_close"
    [] u = "u" -> "h_matching_connection_upgrade"
    [] OTHER   -> "h_matching_connection_token"

HeaderValueStart(p, u) ==
  LET q == Goto(Mark(p, "header_value"), "s_header_value")
      In(h) == [q EXCEPT !.hstate = h]
  IN  CASE p.hstate = "h_upgrade" -> Flag(In("h_general"), "upgrade")
        [] p.hstate = "h_transfer_encoding" ->
             In(IF u = "c" THEN "h_matching_transfer_encoding_chunked" ELSE "h_general")
        [] p.hstate = "h_content_length" ->
             IF ~IsNum(u) THEN Fail(q, "INVALID_CONTENT_LENGTH")
             ELSE IF "contentlength" \in p.flags THEN Fail(q, "UNEXPECTED_CONTENT_LENGTH")
             ELSE [Flag(q, "contentlength") EXCEPT !.length = Digits[u]]
        [] p.hstate = "h_connection" -> In(ConnectionToken(u))
        [] p.hstate = "h_matching_connection_token_start" -> q
        [] OTHER -> In("h_general")

(* s_header_value: one more character, neither CR nor LF.                  *)
HeaderValueChar(p, u) ==
  LET In(h) == [p EXCEPT !.hstate = h]
      h == p.hstate
  IN  CASE h = "h_general" -> [p EXCEPT !.skip = TRUE]
        [] h \in {"h_connection", "h_transfer_encoding"} -> Assert(p, FALSE)
        [] h = "h_content_length" ->
             CASE u = SP -> p
               [] IsNum(u) -> Grow(p, 10, Digits[u])
               [] OTHER -> Fail(p, "INVALID_CONTENT_LENGTH")
        [] h = "h_matching_transfer_encoding_chunked" ->
             In(IF u = "hunked" THEN "h_transfer_encoding_chunked" ELSE "h_general")
        [] h = "h_matching_connection_token_start" ->
             CASE u \in Blank -> p
               [] IsToken(u)  -> In(ConnectionToken(u))
               [] OTHER       -> In("h_general")
        [] h = "h_matching_connection_keep_alive" ->
             In(IF u = "eep-alive" THEN "h_connection_keep_alive"
                                   ELSE "h_matching_connection_token")
        [] h = "h_matching_connection_close" ->
             In(IF u = "lose" THEN "h_connection_close"
                              ELSE "h_matching_connection_token")
        [] h = "h_matching_connection_upgrade" ->
             In(IF u = "pgrade" THEN "h_connection_upgrade"
                                ELSE "h_matching_connection_token")
        [] h = "h_matching_connection_token" ->
             IF u = "," THEN In("h_matching_connection_token_start") ELSE p
        [] h = "h_transfer_encoding_chunked" ->
             IF u = SP THEN p ELSE In("h_general")
        [] h \in DOMAIN TokenFlag \ {"h_transfer_encoding_chunked"} ->
             CASE u = "," -> [Raise(p) EXCEPT !.hstate = "h_matching_connection_token_start"]
               [] u = SP  -> p
               [] OTHER   -> In("h_matching_connection_token")
        [] OTHER -> In("h_general")

(* The end of a value at CR, which this unit is, or before LF, which is    *)
(* then the unit of s_header_almost_done.                                  *)
HeaderValueEnd(p, u) ==
  LET q == [Goto(p, "s_header_almost_done") EXCEPT !.run = Outside, !.skip = FALSE]
  IN  IF u = CR THEN Count(DataCall(q, "header_value"), p.run)
      ELSE LET r == Count(q, p.run)
           IN  IF Failed(r) THEN r ELSE Expect(DataCall(r, "header_value"), LF)

HeaderValue(p, u) ==
  IF u \in Eol THEN HeaderValueEnd(p, u)
  ELSE IF p.skip THEN [p EXCEPT !.run = @ + 1]
  ELSE IF IsHeaderChar(u) THEN [HeaderValueChar(p, u) EXCEPT !.run = @ + 1]
  ELSE Fail(p, "INVALID_HEADER_TOKEN")
-----------------------------------------------------------------------------
(* s_headers_done: is there a body, and how long?                          *)
HeadersDone(p) ==
  LET q == [p EXCEPT !.nread = 0]
      hasBody == "chunked" \in p.flags \/ p.length \notin {0, MaxLength}
  IN  IF p.upgrade /\ (p.connect \/ "skipbody" \in p.flags \/ ~hasBody)
        THEN Return(Complete(q))
      ELSE IF "skipbody" \in p.flags THEN Complete(q)
      ELSE IF "chunked" \in p.flags  THEN Goto(q, "s_chunk_size_start")
      ELSE IF hasBody                THEN Goto(q, "s_body_identity")
      ELSE IF p.length = 0 \/ ~http_message_needs_eof(p) THEN Complete(q)
      ELSE Goto(q, "s_body_identity_eof")

MessageDone(p) ==
  LET q == Complete(p) IN IF q.upgrade THEN Return(q) ELSE q

HeadersAlmostDone(p, u) ==
  IF u # LF THEN Fail(p, "STRICT")
  ELSE IF "trailing" \in p.flags THEN MessageDone(p)
  ELSE IF {"chunked", "contentlength"} \subseteq p.flags
    THEN Fail(p, "UNEXPECTED_CONTENT_LENGTH")
  ELSE HeadersDone(
         [p EXCEPT !.upgrade =
            IF {"upgrade", "upgradetok"} \subseteq p.flags
              THEN p.type = "request" \/ p.status = 101
              ELSE p.connect])

HeaderFieldStart(p, u) ==
  CASE u = CR -> Goto(p, "s_headers_almost_done")
    [] u = LF -> HeadersAlmostDone(p, LF)
    [] IsToken(u) -> [Goto(Mark(p, "header_field"), "s_header_field") EXCEPT
                   !.hstate = CASE u = "c" -> "h_C"
                                [] u \in {"p", "P"} -> "h_matching_proxy_connection"
                                [] u \in {"t", "T"} -> "h_matching_transfer_encoding"
                                [] u = "u" -> "h_matching_upgrade"
                                [] OTHER   -> "h_general"]
    [] OTHER -> Fail(p, "INVALID_HEADER_TOKEN")

(* A line that begins with a blank continues the value; any other ends it. *)
FoldedAsEnd(p, u) == \* mutant: the header ends at the end of its first line
  HeaderFieldStart(Raise(p), u)
HeaderValueLws(p, u) ==
  IF u \in Blank THEN HeaderValueStart(p, u) ELSE HeaderFieldStart(Raise(p), u)

HeaderValueDiscardWs(p, u) ==
  CASE u \in Blank -> p
    [] u = CR -> Goto(p, "s_header_value_discard_ws_almost_done")
    [] u = LF -> Goto(p, "s_header_value_discard_lws")
    [] OTHER  -> HeaderValueStart(p, u)

(* An empty value is given to the callback all the same.                   *)
EmptySilent(p, u) == \* mutant: no callback for an empty value
  IF u \in Blank THEN Goto(p, "s_header_value_discard_ws")
  ELSE HeaderFieldStart(Raise(p), u)
HeaderValueDiscardLws(p, u) ==
  IF u \in Blank THEN Goto(p, "s_header_value_discard_ws")
  ELSE HeaderFieldStart(DataCall(Mark(Raise(p), "header_value"), "header_value"), u)
-----------------------------------------------------------------------------
ChunkSizeStart(p, u) ==
  LET q == Assert(p, p.nread = 1 /\ "chunked" \in p.flags)
  IN  IF IsHex(u) THEN Goto([q EXCEPT !.length = Hex(u)], "s_chunk_size")
                  ELSE Fail(q, "INVALID_CHUNK_SIZE")

ChunkSize(p, u) ==
  LET q == Assert(p, "chunked" \in p.flags)
  IN  CASE u = CR -> Goto(q, "s_chunk_size_almost_done")
        [] IsHex(u) -> Grow(q, 16, Hex(u))
        [] u \in {";", SP} -> Goto(q, "s_chunk_parameters")
        [] OTHER -> Fail(q, "INVALID_CHUNK_SIZE")

ChunkParameters(p, u) ==
  LET q == Assert(p, "chunked" \in p.flags)
  IN  IF u = CR THEN Goto(q, "s_chunk_size_almost_done") ELSE q

LastChunkMissed(p, u) == \* mutant: a chunk of size zero is read like any other
  LET q == [p EXCEPT !.nread = 0]
  IN  IF u # LF THEN Fail(q, "STRICT") ELSE Goto(q, "s_chunk_data")
ChunkSizeAlmostDone(p, u) ==
  LET q == [Assert(p, "chunked" \in p.flags) EXCEPT !.nread = 0]
  IN  IF u # LF THEN Fail(q, "STRICT")
      ELSE IF p.length = 0 THEN Goto(Flag(q, "trailing"), "s_header_field_start")
      ELSE Goto(q, "s_chunk_data")

ChunkData(p) ==
  LET q == Mark(Assert(p, "chunked" \in p.flags /\ p.length \notin {0, MaxLength}), "body")
      r == [q EXCEPT !.length = @ - 1]
  IN  IF r.length = 0 THEN Goto(r, "s_chunk_data_almost_done") ELSE r

ChunkDataAlmostDone(p, u) ==
  LET q == Assert(p, "chunked" \in p.flags /\ p.length = 0)
  IN  IF u = CR THEN DataCall(Goto(q, "s_chunk_data_done"), "body")
                ELSE Fail(q, "STRICT")

ChunkDataDone(p, u) ==
  LET q == Assert(p, "chunked" \in p.flags)
  IN  IF u = LF THEN Goto([q EXCEPT !.nread = 0], "s_chunk_size_start")
                ELSE Fail(q, "STRICT")

(* s_body_identity: the byte that brings content_length to zero is seen    *)
(* again by s_message_done.                                                *)
BodyIdentity(p) ==
  LET q == Mark(Assert(p, p.length \notin {0, MaxLength}), "body")
      r == [q EXCEPT !.length = @ - 1]
  IN  IF r.length = 0 THEN MessageDone(DataCall(r, "body")) ELSE r
-----------------------------------------------------------------------------
(* The switch of the loop.                                                 *)
Switch(p, u) ==
  CASE p.state \in DOMAIN Literal -> Expect(p, u)
    [] p.state = "s_dead"                     -> Dead(p, u)
    [] p.state = "s_start_res"                -> StartRes(p, u)
    [] p.state = "s_res_http_major"           -> HttpMajor(p, u)
    [] p.state = "s_res_http_minor"           -> HttpMinor(p, u)
    [] p.state = "s_res_first_status_code"    -> FirstStatusCode(p, u)
    [] p.state = "s_res_status_code"          -> StatusCode(p, u)
    [] p.state = "s_res_status_start"         -> StatusStart(p, u)
    [] p.state = "s_res_status"               -> Status(p, u)
    [] p.state = "s_header_field_start"       -> HeaderFieldStart(p, u)
    [] p.state = "s_header_field"             -> HeaderField(p, u)
    [] p.state = "s_header_value_discard_ws"  -> HeaderValueDiscardWs(p, u)
    [] p.state = "s_header_value_discard_lws" -> HeaderValueDiscardLws(p, u)
    [] p.state = "s_header_value"             -> HeaderValue(p, u)
    [] p.state = "s_header_value_lws"         -> HeaderValueLws(p, u)
    [] p.state = "s_headers_almost_done"      -> HeadersAlmostDone(p, u)
    [] p.state = "s_chunk_size_start"         -> ChunkSizeStart(p, u)
    [] p.state = "s_chunk_size"               -> ChunkSize(p, u)
    [] p.state = "s_chunk_parameters"         -> ChunkParameters(p, u)
    [] p.state = "s_chunk_size_almost_done"   -> ChunkSizeAlmostDone(p, u)
    [] p.state = "s_chunk_data"               -> ChunkData(p)
    [] p.state = "s_chunk_data_almost_done"   -> ChunkDataAlmostDone(p, u)
    [] p.state = "s_chunk_data_done"          -> ChunkDataDone(p, u)
    [] p.state = "s_body_identity"            -> BodyIdentity(p)
    [] p.state = "s_body_identity_eof"        -> Mark(p, "body")

(* A unit that the inner loops take is not counted again; the first of     *)
(* each visit is.                                                          *)
Unit(p0, u) ==
  LET p == [p0 EXCEPT !.calls = <<>>]
      inside == p.run # Outside
      q == IF p.state \in HeaderStates /\ ~inside THEN Count(p, 1) ELSE p
      r == IF p.state \in {"s_header_field", "s_header_value"} /\ ~inside
             THEN [q EXCEPT !.run = 0] ELSE q
  IN  IF Failed(q) THEN q ELSE Switch(r, u)

(* The end of the data in hand: the inner loop counts what it took, and    *)
(* each mark left is given to its callback.                                *)
Marked == <<"header_field", "header_value", "body", "status">>
Flush(p, m) == IF m \in p.marks THEN <<m>> ELSE <<>>
EndOfData(p0) ==
  LET p == [p0 EXCEPT !.calls = <<>>, !.run = Outside, !.skip = FALSE]
      q == IF p0.run = Outside THEN p ELSE Count(p, p0.run)
      r == Assert(q, Cardinality(q.marks) <= 1)
  IN  IF Failed(q) THEN [q EXCEPT !.marks = {}]
      ELSE [r EXCEPT !.marks = {},
                     !.calls = Flush(r, Marked[1]) \o Flush(r, Marked[2])
                               \o Flush(r, Marked[3]) \o Flush(r, Marked[4])]

(* The entry of http_parser_execute with more data.                        *)
MarkOf == [s_header_field |-> "header_field", s_header_value |-> "header_value",
           s_res_status |-> "status"]
Enter(p) ==
  [p EXCEPT !.calls = <<>>, !.returned = FALSE, !.run = Outside, !.skip = FALSE,
            !.marks = IF p.state \in DOMAIN MarkOf THEN {MarkOf[p.state]} ELSE {}]

(* http_parser_execute with no data: the end of the stream.                *)
Eof(p0) ==
  LET p == [p0 EXCEPT !.calls = <<>>]
  IN  IF Failed(p) \/ p.state \in {"s_dead", "s_start_res", "s_start_req"} THEN p
      ELSE IF p.state = "s_body_identity_eof"
        THEN on_message_complete([p EXCEPT !.calls = Append(@, "message_complete")])
      ELSE Fail(p, "INVALID_EOF_STATE")
=============================================================================
