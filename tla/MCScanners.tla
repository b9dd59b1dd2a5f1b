----------------------------- MODULE MCScanners -----------------------------
(***************************************************************************)
(* Small instances of everything that reads text: the header scan of the   *)
(* server, and of the load generator the URL, the method of a request and  *)
(* the responses, once as arbitrary bytes (WrkStream) and once well-formed *)
(* (WrkReply).  They share no state: a behaviour is a behaviour of one of  *)
(* them, chosen at the start.  The variables of the others keep the value  *)
(* Off, those of WrkStream its initial state.                              *)
(***************************************************************************)
EXTENDS WrkStream

CONSTANTS
  MaxLines, Lens, Ats,               \* HeaderScan
  Chars, MaxLen, MaxPart, MaxPort,   \* WrkUrl
  Statuses, Framings, Entity, Connections, Extras \* WrkReply

VARIABLES
  scan,                                          \* the scanner that runs
  lines, http11, place, ka,                      \* HeaderScan
  url, s, at, uf, field, hs, j, end, pc, port,   \* WrkUrl
  method, index, state, word,                    \* WrkMethod
  parser, reading, reply, bytes, sent, ended, done \* WrkReply

Off == "off"

Header == INSTANCE HeaderScan WITH p <- place
Url    == INSTANCE WrkUrl
Method == INSTANCE WrkMethod
Replies == INSTANCE WrkReply
             WITH at <- sent, p <- parser, in <- reading, Codes <- Statuses,
                  MaxHeader <- 100, MaxLength <- 999, Minors <- {0, 1},
                  Endings <- {"crlf", "lf"}

ASSUME ScannerAssumption == Header!HeaderConstants /\ Url!UrlConstants

header == <<lines, http11, place, ka>>
address == <<url, s, at, uf, field, hs, j, end, pc, port>>
name == <<method, index, state, word>>
replies == <<parser, reading, reply, bytes, sent, ended, done>>

NoHeader  == lines = Off /\ http11 = Off /\ place = Off /\ ka = Off
NoUrl     == /\ url = Off /\ s = Off /\ at = Off /\ uf = Off /\ field = Off
             /\ hs = Off /\ j = Off /\ end = Off /\ pc = Off /\ port = Off
NoMethod  == method = Off /\ index = Off /\ state = Off /\ word = Off
NoReplies == /\ parser = Off /\ reading = Off /\ reply = Off /\ bytes = Off
             /\ sent = Off /\ ended = Off /\ done = Off

ScanInit ==
  /\ Init
  /\ \/ scan = "header" /\ Header!Init /\ NoUrl /\ NoMethod /\ NoReplies
     \/ scan = "url" /\ Url!Init /\ NoHeader /\ NoMethod /\ NoReplies
     \/ scan = "method" /\ Method!Init /\ NoHeader /\ NoUrl /\ NoReplies
     \/ scan = "stream" /\ NoHeader /\ NoUrl /\ NoMethod /\ NoReplies
     \/ scan = "replies" /\ Replies!Init /\ NoHeader /\ NoUrl /\ NoMethod

ScanNext ==
  \/ scan = "header" /\ Header!Next /\ UNCHANGED <<scan, address, name, vars, replies>>
  \/ scan = "url" /\ Url!Next /\ UNCHANGED <<scan, header, name, vars, replies>>
  \/ scan = "method" /\ Method!Next /\ UNCHANGED <<scan, header, address, vars, replies>>
  \/ scan = "stream" /\ Next /\ UNCHANGED <<scan, header, address, name, replies>>
  \/ scan = "replies" /\ Replies!Next /\ UNCHANGED <<scan, header, address, name, vars>>

scanVars == <<scan, header, address, name, vars, replies>>
ScanSpec == ScanInit /\ [][ScanNext]_scanVars
-----------------------------------------------------------------------------
(* The properties of the other modules, each where its scanner runs; those *)
(* of WrkStream are its own.                                               *)

(* Where all lines are even, the scan finds each Connection field          *)
(* (src/http/parser.c:21-32).                                              *)
EvenHonoured  == scan = "header" => Header!EvenHonoured

(* An accepted URL is split exactly (http_parser.c:2206-2349).             *)
FieldsExact   == scan = "url" => Url!FieldsExact

(* Its port is the number spelled (http_parser.c:2369-2378).               *)
PortExact     == scan = "url" => Url!PortExact

(* Methods are recognised by their own spelling (http_parser.c:931-1002).  *)
MethodExact   == scan = "method" => Method!MethodExact

(* Well-formed responses are accepted (http_parser.c:1638-1665).           *)
Accepted      == scan = "replies" => Replies!Accepted

(* A response ends where the server ends it (http_parser.c:1774-1870).     *)
Framed        == scan = "replies" => Replies!Framed

(* wrk keeps the connections the server keeps (http_parser.c:2056-2072).   *)
KeptAlike     == scan = "replies" => Replies!KeptAlike
=============================================================================
