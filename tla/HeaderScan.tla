----------------------------- MODULE HeaderScan -----------------------------
(***************************************************************************)
(* The header scan of http_try_parse_request (src/http/parser.c:17-31):    *)
(* which "Connection:" lines it sees.  It advances by two bytes at a time  *)
(* from the CRLF of the request line, never by lines, and compares the     *)
(* bytes at each place with "Connection:".                                 *)
(*                                                                         *)
(* A header line is its length with the CRLF and the place and value of    *)
(* the text "Connection:" in it.  Text that begins a line is the field of  *)
(* that name; further on it belongs to another name or to a value.         *)
(***************************************************************************)
EXTENDS Integers, Sequences

CONSTANTS
  MaxLines, \* bound: header lines of a request
  Lens,     \* lengths of header lines, with the CRLF
  Ats       \* places in a line, below each length, where "Connection:" may stand

HeaderConstants == MaxLines \in Nat /\ Lens \subseteq Nat \ {0} /\ Ats \subseteq Nat

Values == {"none", "close", "keep-alive", "other"}
Line == [len : Lens, at : Ats, val : Values]

VARIABLES
  lines, \* the header lines
  http11,\* the version is HTTP/1.1
  p,     \* the place looked at: bytes after the first CRLF begins
  ka     \* keep_alive as found so far

vars == <<lines, http11, p, ka>>

(* Where line i begins; the blank line is the one after the last.          *)
Begins(ls) ==
  LET at[i \in 1 .. Len(ls) + 1] == IF i = 1 THEN 2 ELSE at[i - 1] + ls[i - 1].len
  IN  at

(* end: the byte after the blank line. *)
End(ls) == Begins(ls)[Len(ls) + 1] + 2

Init ==
  /\ lines \in UNION {[1 .. n -> Line] : n \in 0 .. MaxLines}
  /\ http11 \in BOOLEAN
  /\ p = 0 /\ ka = http11

(* What the value v makes of keep_alive. *)
Apply(v, k) == CASE v = "close" -> FALSE [] v = "keep-alive" -> TRUE [] OTHER -> k

(* The value of the text "Connection:" at byte q, if it stands there.      *)
ValueAt(ls, q) ==
  LET here == {i \in DOMAIN ls : Begins(ls)[i] + ls[i].at = q}
  IN  IF here = {} THEN "none" ELSE ls[CHOOSE i \in here : TRUE].val

StrideLong == 4 \* mutant: skips every other place
Stride == 2

(* p += 2; compare; until end. *)
Scan ==
  /\ p + Stride < End(lines)
  /\ p' = p + Stride
  /\ ka' = Apply(ValueAt(lines, p'), ka)
  /\ UNCHANGED <<lines, http11>>

Next == Scan
Spec == Init /\ [][Next]_vars

Done == p + Stride >= End(lines)
-----------------------------------------------------------------------------
(* The fields named Connection, and what they say about keep-alive.        *)
Intended(ls, k) ==
  LET f[i \in 0 .. Len(ls)] ==
        IF i = 0 THEN k ELSE IF ls[i].at = 0 THEN Apply(ls[i].val, f[i - 1]) ELSE f[i - 1]
  IN  f[Len(ls)]

(* "scan headers" (parser.c:21): keep_alive is what the Connection fields  *)
(* say, for every request.                                                 *)
ConnectionHonoured == Done => ka = Intended(lines, http11)

(* It is where every line has an even length and the text "Connection:"    *)
(* stands only at the start of a line or at an odd place.                  *)
EvenLines ==
  \A i \in DOMAIN lines :
    lines[i].len % 2 = 0 /\ (lines[i].at = 0 \/ lines[i].at % 2 = 1)

EvenHonoured == Done /\ EvenLines => ka = Intended(lines, http11)
=============================================================================
