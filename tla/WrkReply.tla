------------------------------ MODULE WrkReply ------------------------------
(***************************************************************************)
(* Whole responses through the parser of wrk, cut into reads anywhere: the *)
(* server sends one well-formed response after another, and what the       *)
(* parser makes of the bytes is compared with what the server meant.       *)
(***************************************************************************)
EXTENDS WrkParser

CONSTANTS
  Codes,       \* status codes
  Minors,      \* minor versions of HTTP/1
  Framings,    \* how the end of the body is told
  Entity,      \* of those, what a response that has no body may say of one
  Connections, \* what is said of the connection
  Extras,      \* one more header line
  Endings      \* line ends

(* A response without a body says so by its status.                        *)
NoBody(m) == m.code \in {204, 304}

Reply ==
  {m \in [code : Codes, minor : Minors, framing : Framings,
          connection : Connections, extra : Extras, ending : Endings] :
     NoBody(m) => m.framing \in Entity}

(* What the server means: the connection stays open after this response.   *)
Kept(m) ==
  /\ IF m.minor = 1 THEN m.connection \in {"unsaid", "keep"}
                    ELSE m.connection = "keep" \/ m.extra = "proxy"
  /\ NoBody(m) \/ m.framing # "close"

Ending(m) == IF m.ending = "crlf" THEN <<CR, LF>> ELSE <<LF>>
StatusLine(m) ==
  <<"H", "T", "T", "P", "/", "1", ".", IF m.minor = 1 THEN "1" ELSE "0", SP>>
  \o (CASE m.code = 200 -> <<"2", "0", "0">> [] m.code = 204 -> <<"2", "0", "4">>
        [] OTHER -> <<"3", "0", "4">>)
ConnectionLine(m) ==
  CASE m.connection = "unsaid" -> <<>>
    [] m.connection = "close"  -> <<"c", "on", "nection", ":", SP, "c", "lose">>
    [] m.connection = "keep"   -> <<"c", "on", "nection", ":", "k", "eep-alive", SP>>
    [] m.connection = "list"   -> <<"c", "on", "nection", ":", SP, "x", ",", SP, "c", "lose",
                                    ",", "u", "pgrade">>
    [] OTHER -> <<"c", "on", "nection", ":", SP, "x", ",">> \o Ending(m)
                \o <<SP, "c", "lose">>
ExtraLine(m) ==
  CASE m.extra = "none"  -> <<>>
    [] m.extra = "other" -> <<"t", "x", ":", SP, "c", "x">>
    [] m.extra = "empty" -> <<"c", "on", "x", ":">>
    [] OTHER             -> <<"p", "roxy-connection", ":", "k", "eep-alive">>
FramingLine(m) ==
  CASE m.framing = "close"  -> <<>>
    [] m.framing = "length" -> <<"c", "on", "tent-length", ":", SP, "2">>
    [] m.framing = "zero"   -> <<"c", "on", "tent-length", ":", "0", SP>>
    [] OTHER -> <<"t", "ransfer-encoding", ":", SP, "c", "hunked">>
Line(m, l) == IF l = <<>> THEN <<>> ELSE l \o Ending(m)
Body(m) ==
  IF NoBody(m) \/ m.framing = "zero" THEN <<>>
  ELSE CASE m.framing = "chunked" ->
         <<"1", ";", "x", CR, LF, LF, CR, LF, "0", CR, LF>> \o Ending(m)
    [] m.framing = "trailer" ->
         <<"2", CR, LF, "x", CR, CR, LF, "0", CR, LF, "x", ":", "x">> \o Ending(m) \o Ending(m)
    [] OTHER -> <<"x", "x">>

Sent(m) ==
  StatusLine(m) \o Ending(m) \o Line(m, ExtraLine(m)) \o Line(m, ConnectionLine(m))
  \o Line(m, FramingLine(m)) \o Ending(m) \o Body(m)
-----------------------------------------------------------------------------
VARIABLES
  p,     \* the parser
  in,    \* a call of http_parser_execute is under way
  reply, \* the response that is being sent
  bytes, \* its units
  at,    \* how many of them the parser has taken
  ended, \* the server has closed the connection behind it
  done   \* how often message_complete has been called for it

vars == <<p, in, reply, bytes, at, ended, done>>

Start(m) == reply' = m /\ bytes' = Sent(m) /\ at' = 0 /\ ended' = FALSE /\ done' = 0

Init ==
  /\ p = http_parser_init("response") /\ in = FALSE
  /\ \E m \in Reply : reply = m /\ bytes = Sent(m)
  /\ at = 0 /\ ended = FALSE /\ done = 0

Completions(q) ==
  Cardinality({i \in DOMAIN q.calls : q.calls[i] = "message_complete"})

Begin ==
  /\ ~in /\ at < Len(bytes) /\ ~Failed(p)
  /\ p' = Enter(p) /\ in' = TRUE
  /\ UNCHANGED <<reply, bytes, at, ended, done>>

Byte ==
  /\ in /\ at < Len(bytes) /\ ~Failed(p)
  /\ p' = Unit(p, bytes[at + 1])
  /\ at' = at + 1
  /\ done' = done + Completions(p')
  /\ UNCHANGED <<in, reply, bytes, ended>>

End ==
  /\ in /\ ~Failed(p)
  /\ p' = EndOfData(p) /\ in' = FALSE
  /\ UNCHANGED <<reply, bytes, at, ended, done>>

(* The server closes where the end of the body is told by that.            *)
Close ==
  /\ ~in /\ at = Len(bytes) /\ ~Kept(reply) /\ ~ended /\ ~Failed(p)
  /\ p' = Eof(p) /\ ended' = TRUE
  /\ done' = done + Completions(p')
  /\ UNCHANGED <<in, reply, bytes, at>>

(* On a connection that is kept the next response may be in the same read. *)
NextReply ==
  /\ at = Len(bytes) /\ Kept(reply) /\ ~Failed(p)
  /\ \E m \in Reply : Start(m)
  /\ UNCHANGED <<p, in>>

(* socket_connected: the connection that replaces one that was not kept,   *)
(* or that brought an error.                                               *)
Connected ==
  /\ ended \/ Failed(p)
  /\ p' = http_parser_init("response") /\ in' = FALSE
  /\ \E m \in Reply : Start(m)

Next == Begin \/ Byte \/ End \/ Close \/ NextReply \/ Connected

Spec == Init /\ [][Next]_vars
-----------------------------------------------------------------------------
(* Every well-formed response is accepted, wherever the reads end.         *)
Accepted == ~Failed(p)

(* A response is reported once, with the last of its bytes, or with the    *)
(* end of the connection if that is what ends it: not a byte earlier,      *)
(* which would time it too short and read its rest as the next response,   *)
(* and not later, which would leave wrk waiting (http_parser.c:1774-1870). *)
DelimitedByEof == ~NoBody(reply) /\ reply.framing = "close"
Framed ==
  done = IF at = Len(bytes) /\ (ended \/ ~DelimitedByEof) THEN 1 ELSE 0

(* wrk goes on with a connection exactly when the server keeps it          *)
(* (http_parser.c:2057-2072), and then with a parser that waits for the    *)
(* next response and holds nothing of the one before (wrk.c:356).          *)
Fresh ==
  /\ p.state = "s_start_res" /\ p.hstate = "h_general"
  /\ p.flags = {} /\ p.length = 0 /\ p.nread = 0 /\ p.marks = {}
KeptAlike ==
  at = Len(bytes) /\ ~DelimitedByEof /\ ~Failed(p) =>
    IF Kept(reply) THEN Fresh ELSE p.state = "s_dead"
=============================================================================
