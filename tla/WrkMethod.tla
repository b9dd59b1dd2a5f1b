----------------------------- MODULE WrkMethod ------------------------------
(***************************************************************************)
(* The method of a request, as s_start_req and s_req_method of             *)
(* tools/wrk/src/http_parser.c recognise it: the first letter chooses a    *)
(* method, every further one either matches it or switches to another      *)
(* method with the same beginning.                                         *)
(***************************************************************************)
EXTENDS Integers, Sequences

(* HTTP_METHOD_MAP *)
method_strings ==
  [DELETE |-> <<"D","E","L","E","T","E">>, GET |-> <<"G","E","T">>,
   HEAD |-> <<"H","E","A","D">>, POST |-> <<"P","O","S","T">>, PUT |-> <<"P","U","T">>,
   CONNECT |-> <<"C","O","N","N","E","C","T">>,
   OPTIONS |-> <<"O","P","T","I","O","N","S">>, TRACE |-> <<"T","R","A","C","E">>,
   COPY |-> <<"C","O","P","Y">>, LOCK |-> <<"L","O","C","K">>,
   MKCOL |-> <<"M","K","C","O","L">>, MOVE |-> <<"M","O","V","E">>,
   PROPFIND |-> <<"P","R","O","P","F","I","N","D">>,
   PROPPATCH |-> <<"P","R","O","P","P","A","T","C","H">>,
   SEARCH |-> <<"S","E","A","R","C","H">>, UNLOCK |-> <<"U","N","L","O","C","K">>,
   BIND |-> <<"B","I","N","D">>, REBIND |-> <<"R","E","B","I","N","D">>,
   UNBIND |-> <<"U","N","B","I","N","D">>, ACL |-> <<"A","C","L">>,
   REPORT |-> <<"R","E","P","O","R","T">>,
   MKACTIVITY |-> <<"M","K","A","C","T","I","V","I","T","Y">>,
   CHECKOUT |-> <<"C","H","E","C","K","O","U","T">>, MERGE |-> <<"M","E","R","G","E">>,
   MSEARCH |-> <<"M","-","S","E","A","R","C","H">>,
   NOTIFY |-> <<"N","O","T","I","F","Y">>,
   SUBSCRIBE |-> <<"S","U","B","S","C","R","I","B","E">>,
   UNSUBSCRIBE |-> <<"U","N","S","U","B","S","C","R","I","B","E">>,
   PATCH |-> <<"P","A","T","C","H">>, PURGE |-> <<"P","U","R","G","E">>,
   MKCALENDAR |-> <<"M","K","C","A","L","E","N","D","A","R">>,
   LINK |-> <<"L","I","N","K">>, UNLINK |-> <<"U","N","L","I","N","K">>]
Methods == DOMAIN method_strings

Letters == {"A","B","C","D","E","F","G","H","I","K","L","M","N","O","P","R","S",
            "T","U","V","Y","-"}
Offered == Letters \cup {" "}

(* s_start_req: the method a first letter chooses.                         *)
FirstLetter ==
  [A |-> "ACL", B |-> "BIND", C |-> "CONNECT", D |-> "DELETE", G |-> "GET",
   H |-> "HEAD", L |-> "LOCK", M |-> "MKCOL", N |-> "NOTIFY", O |-> "OPTIONS",
   P |-> "POST", R |-> "REPORT", S |-> "SUBSCRIBE", T |-> "TRACE", U |-> "UNLOCK"]

(* s_req_method: the letter at a position of a method that means another.  *)
Switches ==
  {<<"POST", 1, "U", "PUT">>, <<"POST", 1, "A", "PATCH">>, <<"POST", 1, "R", "PROPFIND">>,
   <<"PUT", 2, "R", "PURGE">>, <<"CONNECT", 1, "H", "CHECKOUT">>,
   <<"CONNECT", 2, "P", "COPY">>, <<"MKCOL", 1, "O", "MOVE">>,
   <<"MKCOL", 1, "E", "MERGE">>, <<"MKCOL", 1, "-", "MSEARCH">>,
   <<"MKCOL", 2, "A", "MKACTIVITY">>, <<"MKCOL", 3, "A", "MKCALENDAR">>,
   <<"SUBSCRIBE", 1, "E", "SEARCH">>, <<"REPORT", 2, "B", "REBIND">>,
   <<"PROPFIND", 4, "P", "PROPPATCH">>, <<"LOCK", 1, "I", "LINK">>,
   <<"UNLOCK", 2, "S", "UNSUBSCRIBE">>, <<"UNLOCK", 2, "B", "UNBIND">>,
   <<"UNLOCK", 3, "I", "UNLINK">>}

(* matcher[parser->index]: the letter at an index that counts from 0, or   *)
(* the end of the string.                                                  *)
Matcher(m, i) == IF i < Len(method_strings[m]) THEN method_strings[m][i + 1] ELSE "end"

VARIABLES
  method, \* parser->method
  index,  \* parser->index
  state,  \* s_start_req, s_req_method, then s_req_spaces_before_url or an error
  word    \* the letters taken so far

vars == <<method, index, state, word>>

Init == method = "DELETE" /\ index = 0 /\ state = "s_start_req" /\ word = <<>>

Start(c) ==
  /\ state = "s_start_req"
  /\ word' = <<c>>
  /\ IF c \in DOMAIN FirstLetter
       THEN method' = FirstLetter[c] /\ index' = 1 /\ state' = "s_req_method"
       ELSE state' = "INVALID_METHOD" /\ UNCHANGED <<method, index>>

SwitchedAnywhere(c) == \* mutant: the position does not matter
  {w[4] : w \in {w \in Switches : w[1] = method /\ w[3] = c}}
Switched(c) == {w[4] : w \in {w \in Switches : w[1] = method /\ w[2] = index /\ w[3] = c}}

(* A blank ends the method where its string ends.                          *)
Ends(c) == c = " " /\ Matcher(method, index) = "end"

Letter(c) ==
  /\ state = "s_req_method"
  /\ word' = Append(word, c)
  /\ CASE Ends(c) -> state' = "s_req_spaces_before_url" /\ UNCHANGED method
       [] c = Matcher(method, index) -> UNCHANGED <<method, state>>
       [] OTHER -> IF Switched(c) # {} THEN method' \in Switched(c) /\ UNCHANGED state
                   ELSE state' = "INVALID_METHOD" /\ UNCHANGED method
  /\ index' = IF state' = "INVALID_METHOD" THEN index ELSE index + 1

(* The next request.                                                       *)
Again ==
  /\ state \in {"s_req_spaces_before_url", "INVALID_METHOD"}
  /\ state' = "s_start_req" /\ word' = <<>>
  /\ UNCHANGED <<method, index>>

Next == (\E c \in Offered : Start(c) \/ Letter(c)) \/ Again

Spec == Init /\ [][Next]_vars
-----------------------------------------------------------------------------
Prefix(w, n) == SubSeq(w, 1, n)
Spelled == {method_strings[m] : m \in Methods}

(* What is recognised is what was spelled, and a word is refused only when *)
(* no method begins like that: each method of HTTP_METHOD_MAP is reached   *)
(* by its own spelling and by no other (http_parser.c:931-1002).           *)
MethodExact ==
  /\ state = "s_req_method" =>
       index <= Len(method_strings[method]) /\ word = Prefix(method_strings[method], index)
  /\ state = "s_req_spaces_before_url" => word = Append(method_strings[method], " ")
  /\ state = "INVALID_METHOD" =>
       ~ \E s \in Spelled : \/ Len(word) <= Len(s) /\ word = Prefix(s, Len(word))
                           \/ word = Append(s, " ")
=============================================================================
