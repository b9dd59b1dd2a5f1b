---------------------------- MODULE HttpDialogue ----------------------------
(***************************************************************************)
(* What a server owes the clients of one worker: it answers no more        *)
(* requests than it was asked, one at a time, and says nothing more on a   *)
(* connection that is over.                                                *)
(***************************************************************************)
EXTENDS Integers

CONSTANT Conns

VARIABLES
  asked,    \* requests sent on each connection
  answered, \* responses given in full on each connection
  over      \* connections that are closed

Init ==
  /\ asked = [c \in Conns |-> 0]
  /\ answered = [c \in Conns |-> 0]
  /\ over = {}

(* The client of c asks. *)
Ask(c) ==
  /\ c \notin over
  /\ asked' = [asked EXCEPT ![c] = @ + 1]
  /\ UNCHANGED <<answered, over>>

(* The server answers a request of c; it may close the connection as well. *)
Answer(c) ==
  /\ c \notin over /\ answered[c] < asked[c]
  /\ answered' = [answered EXCEPT ![c] = @ + 1]
  /\ over' \in {over, over \cup {c}}
  /\ UNCHANGED asked

(* The server closes the connection. *)
Close(c) ==
  /\ c \notin over
  /\ over' = over \cup {c}
  /\ UNCHANGED <<asked, answered>>

Next == \E c \in Conns : Ask(c) \/ Answer(c) \/ Close(c)

Spec == Init /\ [][Next]_<<asked, answered, over>>
=============================================================================
