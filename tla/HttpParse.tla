----------------------------- MODULE HttpParse ------------------------------
(***************************************************************************)
(* What http_try_parse_request (src/http/parser.c) makes of a buffer, and  *)
(* what http_send_static_file and its siblings (src/http/static.c) answer. *)
(*                                                                         *)
(* A request is a run of units <<kind, i>>: a unit stands for the bytes    *)
(* that can be told apart by where a read() splits them.  The last unit    *)
(* carries the blank line that ends the headers.                           *)
(***************************************************************************)
EXTENDS Integers, Sequences, FiniteSetsExt

CONSTANTS
  RecvBuf, \* RECV_BUF, in units
  FileLen  \* length of the served file, in units

ASSUME HttpAssumption ==
  /\ RecvBuf \in Nat /\ RecvBuf > 3
  /\ FileLen \in Nat \ {0}

(* GET of a file, keep-alive or with "Connection: close"; GET of no file;  *)
(* another method; headers that end without the three words of a request   *)
(* line; and a GET that only just fits the buffer.                         *)
AllKinds == {"get", "close", "missing", "post", "bad", "long"}

Units(k) == IF k = "long" THEN RecvBuf - 1 ELSE 2
Unit == {<<k, i>> : k \in AllKinds, i \in 1 .. RecvBuf}

First(u) == u[2] = 1
Last(u)  == u[2] = Units(u[1])

(* The end of the headers: the position of the first unit with the blank   *)
(* line, or 0.                                                             *)
HeaderEndEager(buf) == IF buf = <<>> THEN 0 ELSE 1 \* mutant: any line end
HeaderEndShort(buf) ==                             \* mutant: i < len - 1
  LET ends == {i \in 1 .. Len(buf) - 1 : Last(buf[i])}
  IN  IF ends = {} THEN 0 ELSE Min(ends)
HeaderEnd(buf) ==
  LET ends == {i \in DOMAIN buf : Last(buf[i])}
  IN  IF ends = {} THEN 0 ELSE Min(ends)

(* What the parse can yield: the kind of the request, or "more" for false. *)
(* sscanf reads words past the end of headers that have fewer than three   *)
(* of them, from whatever the buffer holds there; a buffer that begins in  *)
(* the middle of a request has words, but no GET in front.                 *)
Parsed(buf, stale) ==
  LET end  == HeaderEnd(buf)
      past == stale \/ Len(buf) > end
  IN  IF end = 0 THEN {"more"}
      ELSE IF ~First(buf[1]) THEN {"more", "post"}
      ELSE IF buf[1][1] = "bad"
           THEN {"more"} \cup IF past THEN AllKinds \ {"bad", "long"} ELSE {}
      ELSE {buf[1][1]}

(* The response begun by each answer: its status, whether it announces     *)
(* keep-alive, and the units that follow its first.                        *)
Start(status, ka, len) == [status |-> status, ka |-> ka, len |-> len]
More == [status |-> 0, ka |-> TRUE, len |-> 0]
IsStart(u) == u.status # 0

Ok(ka)      == <<Start(200, ka, 1 + FileLen), More>> \* the file follows
Missing(ka) == <<Start(404, ka, 1), More>>
Bad         == <<Start(400, FALSE, 1), More>>

(* The positions where a response starts in what a connection was sent,    *)
(* and the responses that are there in full.                               *)
Starts(s) == {i \in DOMAIN s : IsStart(s[i])}
Complete(s) == {i \in Starts(s) : i + s[i].len <= Len(s)}
=============================================================================
