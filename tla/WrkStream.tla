----------------------------- MODULE WrkStream -----------------------------
(***************************************************************************)
(* The response parser of wrk under any bytes, cut into reads anywhere:    *)
(* socket_readable calls http_parser_execute once for each read.           *)
(***************************************************************************)
EXTENDS WrkParser

CONSTANTS
  Codes,  \* the status codes that are sent
  Minors, \* the minor versions that are sent
  MaxCuts, \* bound: reads that end inside a name or a value, per header section
  MaxRun   \* bound: units of a name or a value in one read

ASSUME ParserAssumption == ParserConstants

VARIABLES
  p,    \* the parser
  in,   \* a call of http_parser_execute is under way
  seen, \* units since the count was last reset
  cuts, \* reads that ended inside a name or value since then
  turn, \* the callback that came last: a name, a value, or neither yet
  num   \* the number that the digits of a length spell, whatever its size

vars == <<p, in, seen, cuts, turn, num>>

New == http_parser_init("response")

Init ==
  /\ p = New /\ in = FALSE
  /\ seen = 0 /\ cuts = 0 /\ turn = "none" /\ num = 0

(* A read begins: the connection is still there and no error has been met. *)
Begin ==
  /\ ~in /\ ~Failed(p) /\ p.state # "s_dead"
  /\ p' = Enter(p) /\ in' = TRUE
  /\ UNCHANGED <<seen, cuts, turn, num>>

(* The bytes offered to a state: all of them in headers, in the status     *)
(* line the right ones, a few in bodies.                                   *)
Prefixes == UNION {{c, c \div 10, c \div 100} : c \in Codes}
Offered ==
  CASE p.state = "s_dead" -> {CR, LF, "x"}
    [] p.state = "s_start_res" -> {"H", "x"} \cup IF seen = 0 THEN {LF} ELSE {}
    [] p.state \in DOMAIN Literal -> {Literal[p.state][1], "x"}
    [] p.state = "s_res_http_major" -> {"1"}
    [] p.state = "s_res_http_minor" -> Minors
    [] p.state = "s_res_first_status_code" ->
         {d \in DOMAIN Digits : Digits[d] \in Prefixes}
    [] p.state = "s_res_status_code" ->
         {d \in DOMAIN Digits : p.status * 10 + Digits[d] \in Prefixes}
         \cup IF p.status \in Codes THEN {SP, CR, LF} ELSE {}
    [] p.state = "s_res_status_start" -> {"x", CR, LF}
    [] p.state = "s_res_status" -> {CR, LF}
    [] p.state \in {"s_chunk_size_start", "s_chunk_size", "s_chunk_parameters"} ->
         {"0", "1", "c", ";", CR}
    [] p.state \in BodyStates -> {"x", CR, LF}
    [] p.state = "s_header_field_start" ->
         {"c", "t", "u", "p", "x", CR, LF, Ctl, SP}
    [] p.state = "s_header_field" -> NameRuns \cup {"x", ":", SP}
    [] OTHER -> TokenRuns \cup {"c", "k", "u", "x", "0", "1", ",", SP, CR, LF, Ctl}

Turn(calls) ==
  IF calls = <<>> THEN turn
  ELSE CASE calls[Len(calls)] = "header_field" -> "field"
         [] calls[Len(calls)] = "header_value" -> "value"
         [] calls[Len(calls)] = "message_complete" -> "none"
         [] OTHER -> turn

(* The digits of a length so far: in base 16 for a chunk, 10 otherwise.    *)
Num(q, u) ==
  CASE q.state = "s_chunk_size" /\ IsHex(u) ->
         IF p.state = "s_chunk_size_start" THEN Hex(u) ELSE num * 16 + Hex(u)
    [] q.state = "s_header_value" /\ q.hstate = "h_content_length" /\ IsNum(u) ->
         IF p.state = "s_header_value" THEN num * 10 + Digits[u] ELSE Digits[u]
    [] OTHER -> IF q.state = "s_chunk_size" \/ q.hstate = "h_content_length" THEN num ELSE 0

(* The header section ends with this unit: where a body, a chunk or a new   *)
(* message begins, and before the trailer.                                 *)
SectionEnds ==
  \/ p'.state \notin HeaderStates \/ p'.state = "s_chunk_size_start"
  \/ p.state = "s_chunk_size_almost_done"
  \/ "message_complete" \in {p'.calls[i] : i \in DOMAIN p'.calls}

Byte(u) ==
  /\ in /\ ~Failed(p) /\ ~p.returned
  /\ p.run < MaxRun \/ u \in Eol \cup {":"}
  /\ p' = Unit(p, u)
  /\ seen' = IF SectionEnds THEN 0 ELSE seen + 1
  /\ cuts' = IF SectionEnds THEN 0 ELSE cuts
  /\ turn' = Turn(p'.calls)
  /\ num' = Num(p', u)
  /\ UNCHANGED in

(* The read ends here, inside a name or a value at most MaxCuts times.     *)
End ==
  /\ in /\ ~Failed(p) /\ ~p.returned
  /\ p.run > 0 => cuts < MaxCuts
  /\ p' = EndOfData(p)
  /\ in' = FALSE
  /\ cuts' = IF p.run > 0 THEN cuts + 1 ELSE cuts
  /\ turn' = Turn(p'.calls)
  /\ UNCHANGED <<seen, num>>

(* The server closes: a read of no bytes.                                  *)
Close ==
  /\ ~in /\ ~Failed(p) /\ p.state # "s_dead"
  /\ p' = [Eof(p) EXCEPT !.state = "s_dead"]
  /\ turn' = Turn(p'.calls)
  /\ UNCHANGED <<in, seen, cuts, num>>

(* socket_connected on the connection that replaces one that failed, ended *)
(* or is not to be kept.                                                   *)
Connected ==
  /\ Failed(p) \/ p.returned \/ (~in /\ p.state = "s_dead")
  /\ p' = New /\ in' = FALSE
  /\ seen' = 0 /\ cuts' = 0 /\ turn' = "none" /\ num' = 0

Next == Begin \/ (\E u \in Offered : Byte(u)) \/ End \/ Close \/ Connected

Spec == Init /\ [][Next]_vars
-----------------------------------------------------------------------------
(* No byte stream, however it is cut into reads, makes an assert of the    *)
(* parser fail (http_parser.c:1492, 1825, 1874-1875, 1959, 1978, 2009):    *)
(* an assert would end the whole load test.                                *)
NoAbort == ~p.aborted

(* The count of header bytes never misses one, and is beyond the truth by  *)
(* one at most for each read that ended inside a name or a value; so a     *)
(* header section longer than the limit is refused, at the latest when the *)
(* read that holds its excess ends (http_parser.c:151, 702, 1340, 1620).   *)
HeaderCounted ==
  ~Failed(p) /\ p.state \in HeaderStates \ {"s_dead"} /\ p.run = Outside =>
    /\ p.nread >= seen
    /\ p.nread <= seen + cuts
    /\ ~in => seen <= MaxHeader

(* Every name is followed by a value before anything else is called, an    *)
(* empty one included (http_parser.c:1697): wrk appends what the two       *)
(* callbacks hand it to one buffer, and a name without a value would run   *)
(* into the next.                                                          *)
NameThenValue ==
  ~Failed(p) /\ p.state \in {"s_header_field_start", "s_headers_almost_done"}
    => turn # "field"

(* A length is what its digits spell, or refused: it never wraps           *)
(* (http_parser.c:1512, 1916).                                             *)
LengthExact ==
  ~Failed(p) /\ (\/ p.state = "s_chunk_size"
                 \/ p.state = "s_header_value" /\ p.hstate = "h_content_length")
    => p.length = num

=============================================================================
