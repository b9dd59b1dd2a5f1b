------------------------------- MODULE WrkUrl -------------------------------
(***************************************************************************)
(* The URL of the command line: http_parser_parse_url and http_parse_host  *)
(* of tools/wrk/src/http_parser.c, and script_parse_url, which asks for a  *)
(* scheme and a host.  The URL is chosen character by character, so that   *)
(* every URL up to MaxLen is parsed.                                       *)
(***************************************************************************)
EXTENDS Integers, Sequences, FiniteSets

CONSTANTS
  Chars,   \* the characters of URLs
  MaxLen,  \* bound: length of a URL
  MaxPart, \* bound: length of a scheme, a path, a query and a fragment
  MaxPort  \* 0xffff

SP == " "

UrlConstants ==
  /\ Chars \subseteq {"a", "z", "1", "9", ":", "/", "?", "#", "@", "[", "]", ".",
                      "%", "*", "~", SP}
  /\ MaxLen \in Nat /\ MaxPart \in Nat /\ MaxPort \in Nat

Digit == [d \in {"1", "9"} |-> IF d = "1" THEN 1 ELSE 9]
IsNum(c)      == c \in DOMAIN Digit
IsAlpha(c)    == c \in {"a", "z"}
IsAlphaNum(c) == IsAlpha(c) \/ IsNum(c)
IsHex(c)      == IsNum(c) \/ c = "a"
IsUserinfoChar(c) == IsAlphaNum(c) \/ c \in {"~", ".", "*", "%", ":"}
IsUrlChar(c)  == c \notin {"?", "#", SP}
IsHostChar(c) == IsAlphaNum(c) \/ c = "."

VARIABLES
  pc,     \* "url", "host", then "ok" or "refused"
  url,    \* the characters given so far
  s,      \* enum state of parse_url_char
  at,     \* found_at
  uf,     \* old_uf, the field that goes on
  field,  \* field_data of the fields in field_set: offset and length
  hs, j,  \* enum http_host_state, and the next character of the host
  end,    \* where the host ends
  port

vars == <<pc, url, s, at, uf, field, hs, j, end, port>>

Fields == {"schema", "host", "port", "path", "query", "fragment", "userinfo"}

Init ==
  /\ pc = "url" /\ url = <<>> /\ s = "spaces_before_url" /\ at = FALSE /\ uf = "none"
  /\ field = <<>> /\ hs = "none" /\ j = 0 /\ end = 0 /\ port = 0
-----------------------------------------------------------------------------
Delimiters == {"schema_slash", "schema_slash_slash", "server_start",
               "query_string_start", "fragment_start"}
Server == {"server_start", "server", "server_with_at"}
Query  == {"query_string_start", "query_string"}

parse_url_char(st, c) ==
  IF c = SP THEN "dead"
  ELSE CASE st = "spaces_before_url" -> CASE c \in {"/", "*"} -> "path"
                                       [] IsAlpha(c) -> "schema"
                                       [] OTHER -> "dead"
      [] st = "schema" -> CASE IsAlpha(c) -> "schema" [] c = ":" -> "schema_slash"
                            [] OTHER -> "dead"
      [] st = "schema_slash" -> IF c = "/" THEN "schema_slash_slash" ELSE "dead"
      [] st = "schema_slash_slash" -> IF c = "/" THEN "server_start" ELSE "dead"
      [] st \in Server ->
           CASE c = "@" -> IF st = "server_with_at" THEN "dead" ELSE "server_with_at"
             [] c = "/" -> "path"
             [] c = "?" -> "query_string_start"
             [] IsUserinfoChar(c) \/ c \in {"[", "]"} -> "server"
             [] OTHER -> "dead"
      [] st = "path" -> CASE IsUrlChar(c) -> "path" [] c = "?" -> "query_string_start"
                          [] OTHER -> "fragment_start"
      [] st \in Query -> IF c = "#" THEN "fragment_start" ELSE "query_string"
      [] st = "fragment_start" -> IF c = "#" THEN st ELSE "fragment"
      [] st = "fragment" -> st

FieldOf(st) ==
  CASE st = "schema" -> "schema" [] st \in Server -> "host" [] st = "path" -> "path"
    [] st = "query_string" -> "query" [] OTHER -> "fragment"

Put(f, name, off, len) ==
  [n \in DOMAIN f \cup {name} |-> IF n = name THEN [off |-> off, len |-> len] ELSE f[n]]
Longer(f, name) == [f EXCEPT ![name].len = @ + 1]

(* One character of the loop of http_parser_parse_url.                     *)
Char(c) ==
  /\ pc = "url" /\ Len(url) < MaxLen
  /\ url' = Append(url, c)
  /\ s' = parse_url_char(s, c)
  /\ at' = (at \/ s' = "server_with_at")
  /\ pc' = IF s' = "dead" THEN "refused" ELSE "url"
  /\ IF s' \in Delimiters \cup {"dead"} THEN UNCHANGED <<uf, field>>
     ELSE /\ uf' = FieldOf(s')
          /\ uf' = uf /\ uf # "host" => field[uf].len < MaxPart
          /\ field' = IF uf' = uf THEN Longer(field, uf) ELSE Put(field, uf', Len(url), 1)
  /\ UNCHANGED <<hs, j, end, port>>

(* The end of the URL.  A scheme needs a host; a host is looked at more    *)
(* closely; without either script_parse_url refuses.                       *)
UrlEnd ==
  /\ pc = "url"
  /\ IF {"schema", "host"} \subseteq DOMAIN field
       THEN /\ pc' = "host"
            /\ j' = field["host"].off
            /\ end' = field["host"].off + field["host"].len
            /\ field' = [field EXCEPT !["host"].len = 0]
            /\ hs' = IF at THEN "userinfo_start" ELSE "host_start"
       ELSE pc' = "refused" /\ UNCHANGED <<j, end, field, hs>>
  /\ UNCHANGED <<url, s, at, uf, port>>
-----------------------------------------------------------------------------
http_parse_host_char(st, c) ==
  CASE st \in {"userinfo", "userinfo_start"} ->
         CASE c = "@" -> "host_start" [] IsUserinfoChar(c) -> "userinfo" [] OTHER -> "dead"
    [] st = "host_start" ->
         CASE c = "[" -> "v6_start" [] IsHostChar(c) -> "host" [] OTHER -> "dead"
    [] st \in {"host", "v6_end"} ->
         CASE st = "host" /\ IsHostChar(c) -> "host"
           [] c = ":" -> "port_start" [] OTHER -> "dead"
    [] st \in {"v6", "v6_start"} ->
         CASE st = "v6" /\ c = "]" -> "v6_end"
           [] IsHex(c) \/ c \in {":", "."} -> "v6"
           [] st = "v6" /\ c = "%" -> "v6_zone_start" [] OTHER -> "dead"
    [] st \in {"v6_zone", "v6_zone_start"} ->
         CASE st = "v6_zone" /\ c = "]" -> "v6_end"
           [] IsAlphaNum(c) \/ c \in {"%", ".", "~"} -> "v6_zone" [] OTHER -> "dead"
    [] st \in {"port", "port_start"} -> IF IsNum(c) THEN "port" ELSE "dead"

(* http_parse_host: what a character adds to the fields.                   *)
Begun(f, name, st, new) ==
  IF st = new THEN Longer(f, name) ELSE Put(f, name, j, 1)
ZoneLost(f, st, new) == \* mutant: the zone of an address is no part of the host
  CASE new \in {"host", "v6"} -> Begun(f, "host", st, new)
    [] new = "port" -> Begun(f, "port", st, new)
    [] new = "userinfo" -> Begun(f, "userinfo", st, new)
    [] OTHER -> f
HostField(f, st, new) ==
  CASE new \in {"host", "v6"} -> [Longer(f, "host") EXCEPT
                                    !["host"].off = IF st = new THEN @ ELSE j]
    [] new \in {"v6_zone_start", "v6_zone"} -> Longer(f, "host")
    [] new = "port" -> Begun(f, "port", st, new)
    [] new = "userinfo" -> Begun(f, "userinfo", st, new)
    [] OTHER -> f

HostChar ==
  /\ pc = "host" /\ j < end
  /\ hs' = http_parse_host_char(hs, url[j + 1])
  /\ j' = j + 1
  /\ IF hs' = "dead" THEN pc' = "refused" /\ UNCHANGED field
     ELSE field' = HostField(field, hs, hs') /\ UNCHANGED pc
  /\ UNCHANGED <<url, s, at, uf, end, port>>

(* The port is a number (strtoul).                                         *)
Value(f) == LET v[k \in 0 .. f.len] ==
                  IF k = 0 THEN 0 ELSE v[k - 1] * 10 + Digit[url[f.off + k]]
            IN  v[f.len]
(* Where a host may end, and what ports there are.                         *)
HostEnds == {"host", "v6_end", "port"}
PortUnchecked(v) == TRUE \* mutant: any number is cut to 16 bits
InRange(v) == v <= MaxPort

HostEnd ==
  /\ pc = "host" /\ j = end
  /\ LET v == IF "port" \in DOMAIN field THEN Value(field["port"]) ELSE 0
     IN  IF hs \in HostEnds /\ InRange(v)
           THEN pc' = "ok" /\ port' = v % (MaxPort + 1)
           ELSE pc' = "refused" /\ UNCHANGED port
  /\ UNCHANGED <<url, s, at, uf, field, hs, j, end>>

Next == (\E c \in Chars : Char(c)) \/ UrlEnd \/ HostChar \/ HostEnd

Spec == Init /\ [][Next]_vars
-----------------------------------------------------------------------------
Inside(n, i) == field[n].off < i /\ i <= field[n].off + field[n].len

(* Every character of an accepted URL belongs to one field, or to none and *)
(* separates two; the fields follow one another as in a URL: no offset or  *)
(* length strays (http_parser.c:2206-2255, 2293-2349).                     *)
Order == <<"schema", "userinfo", "host", "port", "path", "query", "fragment">>
Partition ==
  /\ \A i \in DOMAIN url :
       LET own == {n \in DOMAIN field : Inside(n, i)}
       IN  \/ Cardinality(own) = 1
           \/ own = {} /\ url[i] \in {":", "/", "@", "?", "#", "[", "]"}
  /\ \A a, b \in 1 .. Len(Order) :
       a < b /\ {Order[a], Order[b]} \subseteq DOMAIN field =>
         field[Order[a]].off + field[Order[a]].len <= field[Order[b]].off

(* What wrk looks up and sends as Host is a name or an address, never      *)
(* empty, without brackets, user or port (http_parser.c:2111-2191).        *)
Host == SubSeq(url, field["host"].off + 1, field["host"].off + field["host"].len)
HostClean ==
  /\ Host # <<>>
  /\ \A i \in DOMAIN Host :
       /\ Host[i] \notin {"@", "/", "[", "]", "?", "#", "*"}
       /\ Host[i] = ":" => field["host"].off > 0 /\ url[field["host"].off] = "["

(* An accepted URL is split into its fields exactly, the host is clean.    *)
FieldsExact == pc = "ok" => Partition /\ HostClean

(* The port is the number its digits spell (http_parser.c:2371-2378).      *)
PortExact ==
  pc = "ok" => port = IF "port" \in DOMAIN field THEN Value(field["port"]) ELSE 0
=============================================================================
