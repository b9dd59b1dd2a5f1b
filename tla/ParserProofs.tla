---------------------------- MODULE ParserProofs ----------------------------
(***************************************************************************)
(* Proofs about the response parser of wrk under any bytes, cut into reads *)
(* anywhere, for any limits of headers and lengths.                        *)
(***************************************************************************)
EXTENDS WrkStream, FiniteSetTheorems, SequenceTheorems, TLAPS

(* The states a parser of responses is in.                                 *)
States == (HeaderStates \cup BodyStates) \ {"s_start_req"}

(* A parser is a record of these fields, of which some are numbers.        *)
Fields ==
  {"type", "state", "hstate", "flags", "nread", "length", "major", "minor", "status",
   "connect", "upgrade", "errno", "marks", "run", "skip", "calls", "returned", "aborted"}
IsRecord(r) == r = [f \in Fields |-> r[f]]
IsParser(r) ==
  /\ IsRecord(r) /\ r.type = "response" /\ r.nread \in Nat
  /\ r.length \in 0 .. MaxLength /\ r.run \in Nat \cup {Outside} /\ r.skip \in BOOLEAN
  /\ r.state \in States

(* q is r but for some fields.                                             *)
Changes(r, q, F) == IsRecord(q) /\ \A f \in Fields \ F : q[f] = r[f]

Loops  == {"s_header_field", "s_header_value"}
Line   == {"s_start_res", "s_res_H", "s_res_HT", "s_res_HTT", "s_res_HTTP",
           "s_res_http_major", "s_res_http_dot", "s_res_http_minor", "s_res_http_end",
           "s_res_first_status_code", "s_res_status_code", "s_res_status_start",
           "s_res_status", "s_res_line_almost_done"}
Sizes  == {"s_chunk_size", "s_chunk_parameters", "s_chunk_size_almost_done"}
Chunks == Sizes \cup {"s_chunk_size_start", "s_chunk_data", "s_chunk_data_almost_done",
                      "s_chunk_data_done"}
Bodies == {"s_chunk_data", "s_chunk_data_almost_done", "s_body_identity",
           "s_body_identity_eof"}

(* Behind the first byte of a name, up to the end of its value.            *)
Named == {"s_header_field", "s_header_value_discard_ws",
          "s_header_value_discard_ws_almost_done", "s_header_value_discard_lws",
          "s_header_value"}

(* What the asserts rely on.                                               *)
Sound(r) ==
  /\ r.state \in Chunks => "chunked" \in r.flags
  /\ r.state \in Sizes => r.length < MaxLength
  /\ r.state \in {"s_chunk_data", "s_body_identity"} => r.length \notin {0, MaxLength}
  /\ r.state = "s_chunk_data_almost_done" => r.length = 0
  /\ r.state = "s_header_value" => r.hstate \notin {"h_connection", "h_transfer_encoding"}

(* The marks during a read; where the inner loops may be under way.        *)
Held(st) ==
  CASE st = "s_header_field" -> {"header_field"}
    [] st = "s_header_value" -> {"header_value"}
    [] st = "s_res_status"   -> {"status"}
    [] st \in Bodies         -> {"body"}
    [] OTHER                 -> {}
Running(r) ==
  /\ r.marks \subseteq Held(r.state)
  /\ r.state \in Loops => r.marks = Held(r.state)
  /\ r.run # Outside => r.state \in Loops
  /\ r.skip => r.state = "s_header_value" /\ r.run # Outside /\ r.hstate = "h_general"

(* A parser in front of the switch.                                        *)
Ready(r) ==
  /\ IsParser(r) /\ r.aborted = FALSE /\ r.errno = "OK" /\ r.calls = <<>>
  /\ Sound(r) /\ Running(r)
  /\ r.state \in Loops => r.run # Outside
  /\ r.state = "s_chunk_size_start" => r.nread = 1

(* The header section ends with the step from r to q.                      *)
Completes(q) == "message_complete" \in {q.calls[i] : i \in DOMAIN q.calls}
Ends(r, q) ==
  \/ q.state \notin HeaderStates \/ q.state = "s_chunk_size_start"
  \/ r.state = "s_chunk_size_almost_done"
  \/ Completes(q)

(* The units counted, and those that the inner loop has still to count.    *)
Taken(r) == IF r.run = Outside THEN r.nread ELSE r.nread + r.run
Counted(r, q) ==
  /\ q.nread \in {0, r.nread} \/ q.nread <= MaxHeader
  /\ q.run # Outside => q.run > 0
  /\ q.state \in HeaderStates \ {"s_dead"} =>
       IF Ends(r, q) THEN q.nread = 0 /\ q.run = Outside
       ELSE /\ r.state \in HeaderStates \ {"s_dead"}
            /\ Taken(q) = IF q.run = Outside THEN Taken(r) ELSE Taken(r) + 1

(* The callbacks: where none of a value comes last, no name waits for it.  *)
Plain == {<<>>, <<"status">>, <<"body">>}
Final == {<<"message_complete">>, <<"header_value", "message_complete">>,
          <<"body", "message_complete">>}
Reported(r, q) ==
  \/ q.calls \in {<<>>, <<"header_field">>} /\ q.state \in Named
  \/ q.calls \in Plain /\ r.state \notin Named
  \/ q.calls \in {<<"header_value">>} \cup Final

(* The length while its digits are read.                                   *)
Spelled(r, u, q) ==
  /\ q.state = "s_chunk_size" =>
       /\ IsHex(u) /\ r.state \in {"s_chunk_size_start", "s_chunk_size"}
       /\ q.length = IF r.state = "s_chunk_size_start" THEN Hex(u)
                                                       ELSE r.length * 16 + Hex(u)
  /\ q.state = "s_header_value" /\ q.hstate = "h_content_length" =>
       IF r.state = "s_header_value"
         THEN /\ r.hstate = "h_content_length"
              /\ q.length = IF IsNum(u) THEN r.length * 10 + Digits[u] ELSE r.length
         ELSE IsNum(u) /\ q.length = Digits[u]

(* A parser behind the switch.                                             *)
After(r, u, q) ==
  /\ q.aborted = FALSE
  /\ ~Failed(q) =>
       /\ IsParser(q) /\ Sound(q) /\ Running(q)
       /\ Counted(r, q) /\ Reported(r, q) /\ Spelled(r, u, q)
Stopped(q) == IsRecord(q) /\ q.aborted = FALSE /\ Failed(q)
-----------------------------------------------------------------------------
(* Fewer definitions are left to open in what follows.                     *)
USE DEF LF, CR, SP, HT, Ctl, Eol, Blank, Outside

LEMMA DigitTypes ==
  /\ \A u : IsNum(u) => Digits[u] \in 0 .. 9
  /\ \A u : IsHex(u) => Hex(u) \in 0 .. 12
BY DEF Digits, IsNum, IsHex, Hex

(* A parser that the inner loops leave alone, with no mark set.            *)
Clear(r) ==
  /\ IsRecord(r) /\ r.type = "response" /\ r.nread \in Nat /\ r.length \in 0 .. MaxLength
  /\ r.run = Outside /\ r.skip = FALSE /\ r.marks = {}
  /\ r.aborted = FALSE /\ r.errno = "OK"

LEMMA ReadyClear ==
  ASSUME NEW r, Ready(r), r.state \notin Loops \cup Bodies \cup {"s_res_status"}
  PROVE  Clear(r) /\ r.calls = <<>>
<1>1. r.run = Outside /\ r.skip = FALSE
  BY DEF Ready, Running, Loops, IsParser
<1>2. r.marks = {}
  BY DEF Ready, Running, Held, Loops
<1> QED BY <1>1, <1>2 DEF Ready, Clear, IsParser

(* The callbacks of a unit, by what they are.                              *)
LEMMA CallsMade ==
  ASSUME NEW q
  PROVE  /\ q.calls \in Plain \cup {<<"header_field">>, <<"header_value">>} => ~Completes(q)
         /\ q.calls \in Final => Completes(q)
BY DEF Plain, Final, Completes

(* Each state has its operator.                                            *)
LEMMA Dispatch ==
  ASSUME NEW r, NEW u
  PROVE  /\ r.state = "s_dead" => Switch(r, u) = Dead(r, u)
         /\ r.state = "s_start_res" => Switch(r, u) = StartRes(r, u)
         /\ r.state = "s_res_http_major" => Switch(r, u) = HttpMajor(r, u)
         /\ r.state = "s_res_http_minor" => Switch(r, u) = HttpMinor(r, u)
         /\ r.state = "s_res_first_status_code" => Switch(r, u) = FirstStatusCode(r, u)
         /\ r.state = "s_res_status_code" => Switch(r, u) = StatusCode(r, u)
         /\ r.state = "s_res_status_start" => Switch(r, u) = StatusStart(r, u)
         /\ r.state = "s_res_status" => Switch(r, u) = Status(r, u)
         /\ r.state = "s_header_field_start" => Switch(r, u) = HeaderFieldStart(r, u)
         /\ r.state = "s_header_field" => Switch(r, u) = HeaderField(r, u)
         /\ r.state = "s_header_value_discard_ws" => Switch(r, u) = HeaderValueDiscardWs(r, u)
         /\ r.state = "s_header_value_discard_lws"
              => Switch(r, u) = HeaderValueDiscardLws(r, u)
         /\ r.state = "s_header_value" => Switch(r, u) = HeaderValue(r, u)
         /\ r.state = "s_header_value_lws" => Switch(r, u) = HeaderValueLws(r, u)
         /\ r.state = "s_headers_almost_done" => Switch(r, u) = HeadersAlmostDone(r, u)
         /\ r.state = "s_chunk_size_start" => Switch(r, u) = ChunkSizeStart(r, u)
         /\ r.state = "s_chunk_size" => Switch(r, u) = ChunkSize(r, u)
         /\ r.state = "s_chunk_parameters" => Switch(r, u) = ChunkParameters(r, u)
         /\ r.state = "s_chunk_size_almost_done" => Switch(r, u) = ChunkSizeAlmostDone(r, u)
         /\ r.state = "s_chunk_data" => Switch(r, u) = ChunkData(r)
         /\ r.state = "s_chunk_data_almost_done" => Switch(r, u) = ChunkDataAlmostDone(r, u)
         /\ r.state = "s_chunk_data_done" => Switch(r, u) = ChunkDataDone(r, u)
         /\ r.state = "s_body_identity" => Switch(r, u) = BodyIdentity(r)
         /\ r.state = "s_body_identity_eof" => Switch(r, u) = Mark(r, "body")
         /\ r.state \in DOMAIN Literal => Switch(r, u) = Expect(r, u)
BY DEF Switch, Literal

LEMMA One ==
  ASSUME NEW a
  PROVE  Append(<<>>, a) = <<a>>
OBVIOUS

LEMMA Two ==
  ASSUME NEW a, NEW b
  PROVE  Append(<<a>>, b) = <<a, b>>
<1>1. Append(<<a>>, b) \in Seq({a, b}) /\ <<a, b>> \in Seq({a, b})
  OBVIOUS
<1>2. Len(Append(<<a>>, b)) = 2 /\ Len(<<a, b>>) = 2
  OBVIOUS
<1>3. \A i \in 1 .. 2 : Append(<<a>>, b)[i] = <<a, b>>[i]
  OBVIOUS
<1> QED BY <1>1, <1>2, <1>3, SeqEqual

(* A callback takes its mark away.                                         *)
LEMMA DataCallIs ==
  ASSUME NEW r, NEW m, IsRecord(r), r.calls = <<>>
  PROVE  /\ Changes(r, DataCall(r, m), {"marks", "calls"})
         /\ \A k : k \in DataCall(r, m).marks <=> k \in r.marks /\ k # m
         /\ DataCall(r, m).calls = IF m \in r.marks THEN <<m>> ELSE <<>>
<1>1. CASE m \in r.marks
  <2>1. Append(r.calls, m) = <<m>>
    OBVIOUS
  <2>2. DataCall(r, m).calls = Append(r.calls, m)
    BY <1>1 DEF DataCall, IsRecord, Fields
  <2>3. Changes(r, DataCall(r, m), {"marks", "calls"})
    BY <1>1 DEF DataCall, Changes, IsRecord, Fields
  <2>4. \A k : k \in DataCall(r, m).marks <=> k \in r.marks /\ k # m
    BY <1>1 DEF DataCall, IsRecord, Fields
  <2> QED BY <1>1, <2>1, <2>2, <2>3, <2>4
<1>2. CASE m \notin r.marks
  BY <1>2 DEF DataCall, Changes, IsRecord, Fields
<1> QED BY <1>1, <1>2

(* The operators of the status line, case by case.                         *)
LEMMA StartResIs ==
  ASSUME NEW r, NEW u
  PROVE  LET q == [r EXCEPT !.flags = {}, !.length = MaxLength]
         IN  \/ StartRes(r, u) = Goto(q, "s_res_H")
             \/ StartRes(r, u) = q
             \/ StartRes(r, u) = Fail(q, "INVALID_CONSTANT")
BY DEF StartRes

LEMMA FirstStatusCodeIs ==
  ASSUME NEW r, NEW u
  PROVE  \/ FirstStatusCode(r, u) = Goto([r EXCEPT !.status = Digits[u]], "s_res_status_code")
         \/ FirstStatusCode(r, u) = r
         \/ FirstStatusCode(r, u) = Fail(r, "INVALID_STATUS")
BY DEF FirstStatusCode

LEMMA StatusIs ==
  ASSUME NEW r, NEW u, NEW q, IsRecord(r), r.calls = <<>>, q = Status(r, u)
  PROVE  /\ Changes(r, q, {"state", "marks", "calls"})
         /\ \/ q.state = r.state /\ q.marks = r.marks /\ q.calls = <<>>
            \/ /\ q.state \in {"s_res_line_almost_done", "s_header_field_start"}
               /\ \A m : m \in q.marks <=> m \in r.marks /\ m # "status"
               /\ q.calls \in {<<>>, <<"status">>}
<1> DEFINE s(st) == Goto(r, st)
<1>1. q = r \/ \E st \in {"s_res_line_almost_done", "s_header_field_start"} :
                  q = DataCall(s(st), "status")
  BY DEF Status
<1>2. CASE q = r
  BY <1>2 DEF Changes
<1>3. ASSUME NEW st \in {"s_res_line_almost_done", "s_header_field_start"},
             q = DataCall(s(st), "status")
      PROVE  /\ Changes(r, q, {"state", "marks", "calls"})
             /\ q.state = st /\ q.calls \in {<<>>, <<"status">>}
             /\ \A m : m \in q.marks <=> m \in r.marks /\ m # "status"
  <2>1. Changes(r, s(st), {"state"}) /\ s(st).state = st
    BY DEF Goto, Changes, IsRecord, Fields
  <2>2. IsRecord(s(st)) /\ s(st).calls = <<>> /\ s(st).marks = r.marks
    BY <2>1 DEF Changes, Fields
  <2> HIDE DEF s
  <2>3. LET d == DataCall(s(st), "status")
        IN  /\ Changes(s(st), d, {"marks", "calls"}) /\ d.calls \in {<<>>, <<"status">>}
            /\ \A m : m \in d.marks <=> m \in s(st).marks /\ m # "status"
    BY <2>2, DataCallIs
  <2> QED BY <1>3, <2>1, <2>2, <2>3 DEF Changes, Fields
<1> QED BY <1>1, <1>2, <1>3

LEMMA StatusCodeIs ==
  ASSUME NEW r, NEW u
  PROVE  \/ StatusCode(r, u) = Fail(r, "INVALID_STATUS")
         \/ StatusCode(r, u) = [r EXCEPT !.status = r.status * 10 + Digits[u]]
         \/ StatusCode(r, u) = Goto(r, "s_res_status_start")
         \/ StatusCode(r, u) = StatusStart(r, u)
BY DEF StatusCode

(* The marks of a state.                                                   *)
LEMMA HeldIs ==
  /\ Held("s_header_field") = {"header_field"}
  /\ Held("s_header_value") = {"header_value"}
  /\ Held("s_res_status") = {"status"}
  /\ \A st \in Bodies : Held(st) = {"body"}
  /\ \A st : st \notin Loops \cup Bodies \cup {"s_res_status"} => Held(st) = {}
BY DEF Held, Bodies, Loops

(* The bytes that may only be one thing.                                   *)
LEMMA LiteralIs ==
  /\ DOMAIN Literal =
       {"s_res_H", "s_res_HT", "s_res_HTT", "s_res_HTTP", "s_res_http_dot", "s_res_http_end",
        "s_res_line_almost_done", "s_header_almost_done",
        "s_header_value_discard_ws_almost_done"}
  /\ Literal["s_res_H"][2] = "s_res_HT"
  /\ Literal["s_res_HT"][2] = "s_res_HTT"
  /\ Literal["s_res_HTT"][2] = "s_res_HTTP"
  /\ Literal["s_res_HTTP"][2] = "s_res_http_major"
  /\ Literal["s_res_http_dot"][2] = "s_res_http_minor"
  /\ Literal["s_res_http_end"][2] = "s_res_first_status_code"
  /\ Literal["s_res_line_almost_done"][2] = "s_header_field_start"
  /\ Literal["s_header_almost_done"][2] = "s_header_value_lws"
  /\ Literal["s_header_value_discard_ws_almost_done"][2] = "s_header_value_discard_lws"
BY DEF Literal

LEMMA Expected ==
  ASSUME NEW r, NEW u, IsRecord(r), r.aborted = FALSE,
         r.state \in DOMAIN Literal
  PROVE  \/ Stopped(Expect(r, u))
         \/ Expect(r, u) = Goto(r, Literal[r.state][2]) /\ u = Literal[r.state][1]
BY DEF Expect, Stopped, Fail, Failed, IsRecord, Fields

(* A step within the status line, or out of it to the headers.             *)
LineStep(r, q) ==
  /\ Changes(r, q, {"state", "flags", "length", "major", "minor", "status", "marks", "calls"})
  /\ q.length \in 0 .. MaxLength
  /\ q.state \in Line \cup {"s_header_field_start"}
  /\ q.calls \in {<<>>, <<"status">>}
  /\ \A m \in q.marks : m = "status" /\ q.state = "s_res_status"

LEMMA LineSteps ==
  ASSUME ParserConstants, NEW r, NEW u, NEW q, r.state \in Line, q = Switch(r, u),
         IsRecord(r), r.length \in 0 .. MaxLength, r.aborted = FALSE, r.calls = <<>>,
         \A m \in r.marks : m = "status" /\ r.state = "s_res_status"
  PROVE  Stopped(q) \/ LineStep(r, q)
<1>0. MaxLength \in 0 .. MaxLength
  BY DEF ParserConstants
<1>1. CASE r.state \in DOMAIN Literal
  <2>0. q = Expect(r, u)
    BY <1>1, Dispatch
  <2>1. Stopped(q) \/ q = Goto(r, Literal[r.state][2])
    BY <1>1, <2>0, Expected
  <2>2. Literal[r.state][2] \in (Line \cup {"s_header_field_start"}) \ {"s_res_status"}
    BY <1>1, LiteralIs DEF Line
  <2>3. r.marks = {}
    BY <1>1, LiteralIs
  <2> QED BY <2>1, <2>2, <2>3 DEF LineStep, Goto, Changes, IsRecord, Fields
<1>2. CASE r.state = "s_start_res"
  <2> DEFINE s == [r EXCEPT !.flags = {}, !.length = MaxLength]
  <2>1. q = Goto(s, "s_res_H") \/ q = s \/ q = Fail(s, "INVALID_CONSTANT")
    BY <1>2, Dispatch, StartResIs
  <2>2. CASE q = Goto(s, "s_res_H")
    BY <1>0, <1>2, <2>2 DEF LineStep, Goto, Changes, IsRecord, Fields, Line
  <2>3. CASE q = s
    BY <1>0, <1>2, <2>3 DEF LineStep, Changes, IsRecord, Fields, Line
  <2>4. CASE q = Fail(s, "INVALID_CONSTANT")
    BY <2>4 DEF Stopped, Failed, Fail, IsRecord, Fields
  <2> QED BY <2>1, <2>2, <2>3, <2>4
<1>3. CASE r.state = "s_res_http_major"
  <2>1. q = HttpMajor(r, u)
    BY <1>3, Dispatch
  <2> QED BY <1>3, <2>1 DEF HttpMajor, LineStep, Goto, Fail, Stopped, Failed, Changes, IsRecord,
            Fields, Line
<1>4. CASE r.state = "s_res_http_minor"
  <2>1. q = HttpMinor(r, u)
    BY <1>4, Dispatch
  <2> QED BY <1>4, <2>1 DEF HttpMinor, LineStep, Goto, Fail, Stopped, Failed, Changes, IsRecord,
            Fields, Line
<1>5. CASE r.state = "s_res_first_status_code"
  <2>1. \/ q = Goto([r EXCEPT !.status = Digits[u]], "s_res_status_code") \/ q = r
        \/ q = Fail(r, "INVALID_STATUS")
    BY <1>5, Dispatch, FirstStatusCodeIs
  <2> QED BY <1>5, <2>1 DEF LineStep, Goto, Fail, Stopped, Failed, Changes, IsRecord, Fields, Line
<1>6. CASE r.state = "s_res_status"
  <2>1. q = Status(r, u)
    BY <1>6, Dispatch
  <2>2. /\ Changes(r, q, {"state", "marks", "calls"})
        /\ \/ q.state = r.state /\ q.marks = r.marks /\ q.calls = <<>>
           \/ /\ q.state \in {"s_res_line_almost_done", "s_header_field_start"}
              /\ \A m : m \in q.marks <=> m \in r.marks /\ m # "status"
              /\ q.calls \in {<<>>, <<"status">>}
    BY <2>1, StatusIs
  <2> QED BY <1>6, <2>2 DEF LineStep, Changes, Fields, Line
<1>7. CASE q = StatusStart(r, u)
  <2> DEFINE s == Goto(Mark(r, "status"), "s_res_status")
  <2>1. /\ Changes(r, s, {"state", "marks"}) /\ s.state = "s_res_status"
        /\ \A m \in s.marks : m = "status"
    BY <1>7 DEF Goto, Mark, Changes, IsRecord, Fields
  <2>2. q = s \/ q = Status(s, u)
    BY <1>7 DEF StatusStart
  <2>3. IsRecord(s) /\ s.calls = <<>> /\ s.length \in 0 .. MaxLength
    BY <2>1 DEF Changes, Fields
  <2> HIDE DEF s
  <2>4. CASE q = s
    BY <2>1, <2>3, <2>4 DEF LineStep, Changes, Fields, Line
  <2>5. CASE q = Status(s, u)
    <3>1. /\ Changes(s, q, {"state", "marks", "calls"})
          /\ \/ q.state = s.state /\ q.marks = s.marks /\ q.calls = <<>>
             \/ /\ q.state \in {"s_res_line_almost_done", "s_header_field_start"}
                /\ \A m : m \in q.marks <=> m \in s.marks /\ m # "status"
                /\ q.calls \in {<<>>, <<"status">>}
      BY <2>3, <2>5, StatusIs
    <3> QED BY <2>1, <2>3, <3>1 DEF LineStep, Changes, Fields, Line
  <2> QED BY <2>2, <2>4, <2>5
<1>8. CASE r.state = "s_res_status_code" /\ q # StatusStart(r, u)
  <2>1. \/ q = Fail(r, "INVALID_STATUS")
        \/ q = [r EXCEPT !.status = r.status * 10 + Digits[u]]
        \/ q = Goto(r, "s_res_status_start")
    BY <1>8, Dispatch, StatusCodeIs
  <2> QED BY <1>8, <2>1 DEF LineStep, Goto, Fail, Stopped, Failed, Changes, IsRecord, Fields, Line
<1> QED
  BY <1>1, <1>2, <1>3, <1>4, <1>5, <1>6, <1>7, <1>8, Dispatch DEF Line, Literal

LEMMA LineAfter ==
  ASSUME ParserConstants, NEW r, NEW u, Ready(r), r.state \in Line
  PROVE  After(r, u, Switch(r, u))
<1> DEFINE q == Switch(r, u)
<1>0. /\ IsRecord(r) /\ r.type = "response" /\ r.nread \in Nat
      /\ r.length \in 0 .. MaxLength /\ r.aborted = FALSE /\ r.errno = "OK" /\ r.calls = <<>>
      /\ r.run = Outside /\ r.skip = FALSE
      /\ \A m \in r.marks : m = "status" /\ r.state = "s_res_status"
  BY HeldIs DEF Ready, IsParser, Running, Loops, Line, Bodies
<1>1. Stopped(q) \/ LineStep(r, q)
  BY <1>0, LineSteps
<1> HIDE DEF q
<1>2. CASE Stopped(q)
  BY <1>2 DEF q, Stopped, After
<1>3. CASE LineStep(r, q)
  <2>0. IsParser(q) /\ q.aborted = FALSE
    BY <1>0, <1>3 DEF LineStep, Changes, IsParser, Fields, States, HeaderStates, Line
  <2>1. Sound(q) /\ Running(q)
    BY <1>0, <1>3, HeldIs DEF LineStep, Changes, Fields, Sound, Running, Line, Loops, Chunks, Sizes, Bodies
  <2>2. Reported(r, q) /\ Spelled(r, u, q)
    BY <1>0, <1>3 DEF LineStep, Changes, Fields, Reported, Plain, Named, Spelled, Line
  <2>3. Counted(r, q)
    BY <1>0, <1>3, CallsMade DEF LineStep, Changes, Fields, Counted, Ends, Plain, Taken, HeaderStates, Line
  <2> QED BY <2>0, <2>1, <2>2, <2>3 DEF After, q
<1> QED BY <1>1, <1>2, <1>3
-----------------------------------------------------------------------------
(* The end of a message: the parser starts again or waits for the close.   *)
Over(r, q) ==
  /\ IsRecord(q) /\ q.type = "response" /\ q.length \in 0 .. MaxLength
  /\ q.marks = r.marks /\ q.run = r.run /\ q.skip = r.skip
  /\ q.aborted = FALSE /\ q.errno = "OK"
  /\ q.calls = Append(r.calls, "message_complete")
  /\ \/ q.state = "s_dead" /\ q.nread \in {0, r.nread}
     \/ q.state = "s_start_res" /\ q.nread = 0

LEMMA ReinitIs ==
  ASSUME NEW r, r.type = "response"
  PROVE  LET q == Reinit(r)
         IN  /\ IsRecord(q) /\ q.type = "response" /\ q.length = 0 /\ q.nread = 0
             /\ q.state = "s_start_res" /\ q.errno = "OK" /\ q.marks = r.marks
             /\ q.run = r.run /\ q.skip = r.skip /\ q.calls = r.calls /\ q.aborted = r.aborted
<1> DEFINE n == http_parser_init(r.type)
<1>1. /\ IsRecord(n) /\ n.type = "response" /\ n.length = 0 /\ n.nread = 0
      /\ n.state = "s_start_res" /\ n.errno = "OK"
  BY DEF http_parser_init, IsRecord, Fields
<1>2. Reinit(r) = [n EXCEPT !.marks = r.marks, !.run = r.run, !.skip = r.skip,
                           !.calls = r.calls, !.returned = r.returned, !.aborted = r.aborted]
  BY DEF Reinit
<1> HIDE DEF n
<1> QED BY <1>1, <1>2 DEF IsRecord, Fields

LEMMA CompleteOver ==
  ASSUME ParserConstants, NEW r, IsRecord(r), r.type = "response", r.length \in 0 .. MaxLength,
         r.aborted = FALSE, r.errno = "OK"
  PROVE  Over(r, Complete(r))
<1> DEFINE c == [r EXCEPT !.state = NewMessage(r), !.calls = Append(r.calls, "message_complete")]
           q == Complete(r)
<1>1. /\ Changes(r, c, {"state", "calls"}) /\ c.state = NewMessage(r)
      /\ c.calls = Append(r.calls, "message_complete")
  BY DEF Changes, IsRecord, Fields
<1>2. q = on_message_complete(c)
  BY DEF Complete, IsRecord, Fields
<1> HIDE DEF c, q
<1>3. http_should_keep_alive(c) <=> http_should_keep_alive(r)
  BY <1>1 DEF http_should_keep_alive, http_message_needs_eof, Changes, Fields
<1>4. CASE http_should_keep_alive(r)
  <2>1. q = Reinit(c)
    BY <1>1, <1>2, <1>3, <1>4 DEF on_message_complete, Changes, Fields
  <2>2. /\ IsRecord(q) /\ q.type = "response" /\ q.length = 0 /\ q.nread = 0
        /\ q.state = "s_start_res" /\ q.errno = "OK" /\ q.marks = c.marks /\ q.run = c.run
        /\ q.skip = c.skip /\ q.calls = c.calls /\ q.aborted = c.aborted
    BY <1>1, <2>1, ReinitIs DEF Changes, Fields
  <2>3. q.length \in 0 .. MaxLength
    BY <2>2 DEF ParserConstants
  <2> QED BY <1>1, <2>2, <2>3 DEF Over, Changes, Fields, q
<1>5. CASE ~http_should_keep_alive(r)
  <2>1. q = c /\ c.state = "s_dead"
    BY <1>1, <1>2, <1>3, <1>5 DEF on_message_complete, NewMessage
  <2> QED BY <1>1, <2>1 DEF Over, Changes, Fields, q
<1> QED BY <1>4, <1>5

LEMMA MessageDoneOver ==
  ASSUME ParserConstants, NEW r, IsRecord(r), r.type = "response", r.length \in 0 .. MaxLength,
         r.aborted = FALSE, r.errno = "OK"
  PROVE  Over(r, MessageDone(r))
<1> DEFINE q == Complete(r)
<1>1. Over(r, q)
  BY CompleteOver
<1>2. MessageDone(r) \in {q, Return(q)}
  BY DEF MessageDone
<1> HIDE DEF q
<1> QED BY <1>1, <1>2 DEF Over, Return, IsRecord, Fields

(* The end of the headers: no body, or a body of one of three kinds.       *)
Begun(r, q) ==
  /\ Changes(r, q, {"state", "nread", "upgrade"}) /\ q.nread = 0
  /\ \/ q.state = "s_chunk_size_start" /\ "chunked" \in r.flags
     \/ q.state = "s_body_identity" /\ r.length \notin {0, MaxLength}
     \/ q.state = "s_body_identity_eof"

LEMMA HeadersDoneIs ==
  ASSUME ParserConstants, NEW r, IsRecord(r), r.type = "response", r.length \in 0 .. MaxLength,
         r.aborted = FALSE, r.errno = "OK"
  PROVE  Over(r, HeadersDone(r)) \/ Begun(r, HeadersDone(r))
<1> DEFINE z == [r EXCEPT !.nread = 0]
           q == HeadersDone(r)
<1>1. Changes(r, z, {"nread"}) /\ z.nread = 0
  BY DEF Changes, IsRecord, Fields
<1>2. \/ q \in {Complete(z), Return(Complete(z))}
      \/ q = Goto(z, "s_chunk_size_start") /\ "chunked" \in r.flags
      \/ q = Goto(z, "s_body_identity") /\ r.length \notin {0, MaxLength}
      \/ q = Goto(z, "s_body_identity_eof")
  BY DEF HeadersDone
<1> HIDE DEF z, q
<1>3. Over(z, Complete(z))
  BY <1>1, CompleteOver DEF Changes, Fields
<1>4. CASE q \in {Complete(z), Return(Complete(z))}
  <2>1. Over(z, q)
    BY <1>3, <1>4 DEF Over, Return, IsRecord, Fields
  <2> QED BY <1>1, <2>1 DEF Over, Changes, Fields, q
<1>5. CASE \/ q = Goto(z, "s_chunk_size_start") /\ "chunked" \in r.flags
           \/ q = Goto(z, "s_body_identity") /\ r.length \notin {0, MaxLength}
           \/ q = Goto(z, "s_body_identity_eof")
  <2>1. Begun(r, q)
    BY <1>1, <1>5 DEF Begun, Goto, Changes, IsRecord, Fields
  <2> QED BY <2>1 DEF q
<1> QED BY <1>2, <1>4, <1>5

LEMMA HeadersAlmostDoneIs ==
  ASSUME ParserConstants, NEW r, NEW u, IsRecord(r), r.type = "response", r.length \in 0 .. MaxLength,
         r.aborted = FALSE, r.errno = "OK"
  PROVE  LET q == HeadersAlmostDone(r, u) IN Stopped(q) \/ Over(r, q) \/ Begun(r, q)
<1> DEFINE up == IF {"upgrade", "upgradetok"} \subseteq r.flags
                   THEN r.type = "request" \/ r.status = 101 ELSE r.connect
           s == [r EXCEPT !.upgrade = up]
           q == HeadersAlmostDone(r, u)
<1>1. Changes(r, s, {"upgrade"})
  BY DEF Changes, IsRecord, Fields
<1>2. \/ q \in {Fail(r, "STRICT"), Fail(r, "UNEXPECTED_CONTENT_LENGTH")}
      \/ q = MessageDone(r) \/ q = HeadersDone(s)
  BY DEF HeadersAlmostDone
<1> HIDE DEF s, q
<1>3. CASE q \in {Fail(r, "STRICT"), Fail(r, "UNEXPECTED_CONTENT_LENGTH")}
  <2>1. Stopped(q)
    BY <1>3 DEF Fail, Stopped, Failed, IsRecord, Fields
  <2> QED BY <2>1 DEF q
<1>4. CASE q = MessageDone(r)
  BY <1>4, MessageDoneOver DEF q
<1>5. CASE q = HeadersDone(s)
  <2>1. Over(s, q) \/ Begun(s, q)
    BY <1>1, <1>5, HeadersDoneIs DEF Changes, Fields
  <2>2. Over(r, q) \/ Begun(r, q)
    BY <1>1, <2>1 DEF Over, Begun, Changes, Fields
  <2> QED BY <2>2 DEF q
<1> QED BY <1>2, <1>3, <1>4, <1>5
-----------------------------------------------------------------------------
(* The first byte of a line of the headers.                                *)
Started(r, q) ==
  \/ Stopped(q) \/ Over(r, q) \/ Begun(r, q)
  \/ Changes(r, q, {"state"}) /\ q.state = "s_headers_almost_done"
  \/ /\ Changes(r, q, {"state", "marks", "hstate"})
     /\ q.state = "s_header_field" /\ q.marks = {"header_field"}

LEMMA HeaderFieldStartIs ==
  ASSUME ParserConstants, NEW r, NEW u, Clear(r)
  PROVE  Started(r, HeaderFieldStart(r, u))
<1> DEFINE m == Goto(Mark(r, "header_field"), "s_header_field")
           q == HeaderFieldStart(r, u)
<1>1. \/ q = Goto(r, "s_headers_almost_done") \/ q = HeadersAlmostDone(r, LF)
      \/ \E h : q = [m EXCEPT !.hstate = h]
      \/ q = Fail(r, "INVALID_HEADER_TOKEN")
  <2> DEFINE h == CASE u = "c" -> "h_C"
                    [] u \in {"p", "P"} -> "h_matching_proxy_connection"
                    [] u \in {"t", "T"} -> "h_matching_transfer_encoding"
                    [] u = "u" -> "h_matching_upgrade"
                    [] OTHER   -> "h_general"
  <2>1. \/ q = Goto(r, "s_headers_almost_done") \/ q = HeadersAlmostDone(r, LF)
        \/ q = [m EXCEPT !.hstate = h]
        \/ q = Fail(r, "INVALID_HEADER_TOKEN")
    BY DEF HeaderFieldStart
  <2> HIDE DEF h, m, q
  <2> QED BY <2>1
<1>2. CASE q = Goto(r, "s_headers_almost_done")
  <2>1. Changes(r, q, {"state"}) /\ q.state = "s_headers_almost_done"
    BY <1>2 DEF Clear, Goto, Changes, IsRecord, Fields
  <2> QED BY <2>1 DEF Started
<1>3. CASE q = HeadersAlmostDone(r, LF)
  BY <1>3, HeadersAlmostDoneIs DEF Clear, Started
<1>4. CASE \E h : q = [m EXCEPT !.hstate = h]
  <2>1. PICK h : q = [m EXCEPT !.hstate = h]
    BY <1>4
  <2>2. Changes(r, q, {"state", "marks", "hstate"}) /\ q.state = "s_header_field"
    BY <2>1 DEF Clear, Goto, Mark, Changes, IsRecord, Fields
  <2>3. q.marks = {"header_field"}
    BY <2>1 DEF Clear, Goto, Mark, IsRecord, Fields
  <2> QED BY <2>2, <2>3 DEF Started
<1>5. CASE q = Fail(r, "INVALID_HEADER_TOKEN")
  <2>1. Stopped(q)
    BY <1>5 DEF Clear, Fail, Stopped, Failed, IsRecord, Fields
  <2> QED BY <2>1 DEF Started
<1> QED BY <1>1, <1>2, <1>3, <1>4, <1>5

(* The first character of a value.                                         *)
Valued(r, u, q) ==
  /\ Changes(r, q, {"state", "marks", "hstate", "flags", "length"})
  /\ q.state = "s_header_value" /\ q.marks = {"header_value"}
  /\ q.hstate \notin {"h_connection", "h_transfer_encoding"}
  /\ q.length \in 0 .. MaxLength
  /\ q.hstate = "h_content_length" => IsNum(u) /\ q.length = Digits[u]

LEMMA HeaderValueStartIs ==
  ASSUME ParserConstants, NEW r, NEW u, Clear(r)
  PROVE  LET q == HeaderValueStart(r, u) IN Stopped(q) \/ Valued(r, u, q)
<1> DEFINE m == Goto(Mark(r, "header_value"), "s_header_value")
           In(h) == [m EXCEPT !.hstate = h]
           q == HeaderValueStart(r, u)
<1>1. /\ Changes(r, m, {"state", "marks"}) /\ m.state = "s_header_value"
      /\ m.marks = {"header_value"}
  BY DEF Clear, Goto, Mark, Changes, IsRecord, Fields
<1>2. \/ q = Flag(In("h_general"), "upgrade")
      \/ \E h \in {"h_general", "h_matching_transfer_encoding_chunked"} : q = In(h)
      \/ \E e \in {"INVALID_CONTENT_LENGTH", "UNEXPECTED_CONTENT_LENGTH"} : q = Fail(m, e)
      \/ /\ q = [Flag(m, "contentlength") EXCEPT !.length = Digits[u]]
         /\ IsNum(u) /\ r.hstate = "h_content_length"
      \/ q = In(ConnectionToken(u))
      \/ q = m /\ r.hstate = "h_matching_connection_token_start"
  <2>1. CASE r.hstate = "h_content_length"
    BY <2>1 DEF HeaderValueStart
  <2>2. CASE r.hstate # "h_content_length"
    BY <2>2 DEF HeaderValueStart
  <2> QED BY <2>1, <2>2
<1>3. ConnectionToken(u) \in {"h_matching_connection_keep_alive", "h_matching_connection_close",
                              "h_matching_connection_upgrade", "h_matching_connection_token"}
  BY DEF ConnectionToken
<1>4. m.length \in 0 .. MaxLength /\ m.hstate = r.hstate /\ m.aborted = FALSE
  BY <1>1 DEF Clear, Changes, Fields
<1>5. IsNum(u) => Digits[u] \in 0 .. MaxLength
  BY DigitTypes DEF ParserConstants
<1> HIDE DEF m, q
<1>6. CASE q = Flag(In("h_general"), "upgrade")
  <2>1. Valued(r, u, q)
    BY <1>1, <1>4, <1>6 DEF Valued, Flag, Changes, IsRecord, Fields
  <2> QED BY <2>1 DEF q
<1>7. CASE \E h \in {"h_general", "h_matching_transfer_encoding_chunked"} : q = In(h)
  <2>1. Valued(r, u, q)
    BY <1>1, <1>4, <1>7 DEF Valued, Changes, IsRecord, Fields
  <2> QED BY <2>1 DEF q
<1>8. CASE \E e \in {"INVALID_CONTENT_LENGTH", "UNEXPECTED_CONTENT_LENGTH"} : q = Fail(m, e)
  <2>1. Stopped(q)
    BY <1>1, <1>4, <1>8 DEF Stopped, Failed, Fail, Changes, IsRecord, Fields
  <2> QED BY <2>1 DEF q
<1>9. CASE /\ q = [Flag(m, "contentlength") EXCEPT !.length = Digits[u]]
           /\ IsNum(u) /\ r.hstate = "h_content_length"
  <2>1. Valued(r, u, q)
    BY <1>1, <1>4, <1>5, <1>9 DEF Valued, Flag, Changes, IsRecord, Fields
  <2> QED BY <2>1 DEF q
<1>10. CASE q = In(ConnectionToken(u))
  <2>1. Valued(r, u, q)
    BY <1>1, <1>3, <1>4, <1>10 DEF Valued, Changes, IsRecord, Fields
  <2> QED BY <2>1 DEF q
<1>11. CASE q = m /\ r.hstate = "h_matching_connection_token_start"
  <2>1. Valued(r, u, q)
    BY <1>1, <1>4, <1>11 DEF Valued, Changes, IsRecord, Fields
  <2> QED BY <2>1 DEF q
<1> QED BY <1>2, <1>6, <1>7, <1>8, <1>9, <1>10, <1>11
-----------------------------------------------------------------------------
(* What those outcomes leave behind the switch.                            *)
Between == {"s_header_field_start", "s_headers_almost_done", "s_header_value_lws",
            "s_header_value_discard_ws", "s_header_value_discard_ws_almost_done",
            "s_header_value_discard_lws", "s_header_almost_done"}

LEMMA OverAfter ==
  ASSUME ParserConstants, NEW r, NEW u, NEW q, Clear(r), Over(r, q),
         NEW r0, r.nread = r0.nread,
         r.calls \in {<<>>, <<"header_value">>, <<"body">>}
  PROVE  After(r0, u, q)
<1>1. IsParser(q) /\ Sound(q) /\ Running(q) /\ q.aborted = FALSE
  <2>1. IsParser(q) /\ q.aborted = FALSE
    <3>1. q.state \in States
      BY DEF Over, States, HeaderStates
    <3>2. q.nread \in Nat
      BY DEF Over, Clear
    <3>3. q.skip \in BOOLEAN
      BY DEF Over, Clear
    <3> QED BY <3>1, <3>2, <3>3 DEF Over, Clear, IsParser
  <2>2. Sound(q)
    BY DEF Over, Sound, Chunks, Sizes
  <2>3. Running(q)
    BY DEF Over, Clear, Running, Loops
  <2> QED BY <2>1, <2>2, <2>3
<1>2. q.calls \in Final
  <2>1. /\ Append(<<>>, "message_complete") = <<"message_complete">>
        /\ \A m : Append(<<m>>, "message_complete") = <<m, "message_complete">>
    BY One, Two
  <2>2. q.calls = Append(r.calls, "message_complete")
    BY DEF Over
  <2> QED BY <2>1, <2>2, Zenon DEF Final
<1>3. Completes(q)
  BY <1>2, CallsMade
<1>4. Reported(r0, q)
  BY <1>2 DEF Reported
<1>5. Spelled(r0, u, q)
  BY DEF Over, Spelled
<1>6. Counted(r0, q)
  BY <1>3 DEF Over, Clear, Counted, Ends
<1> QED BY <1>1, <1>4, <1>5, <1>6 DEF After

LEMMA StartedAfter ==
  ASSUME ParserConstants, NEW r, NEW u, NEW q, NEW c, Clear(r), r.state \in Between,
         Changes(r, c, {"flags", "calls"}), Started(c, q),
         (c.calls = <<>> /\ r.state \notin Named) \/ c.calls = <<"header_value">>
  PROVE  After(r, u, q)
<1>0. Clear(c) /\ c.state = r.state /\ c.nread = r.nread
  BY DEF Clear, Changes, Fields
<1>1. CASE Stopped(q)
  BY <1>1 DEF Stopped, After
<1>2. CASE Over(c, q)
  BY <1>0, <1>2, OverAfter
<1>3. CASE Begun(c, q)
  <2>0. IsParser(q) /\ q.aborted = FALSE
    <3>1. q.state \in States
      BY <1>3 DEF Begun, States, HeaderStates, BodyStates
    <3>2. q.nread \in Nat
      BY <1>3 DEF Begun
    <3>3. q.skip \in BOOLEAN
      BY <1>0, <1>3 DEF Begun, Clear, Changes, Fields
    <3> QED BY <1>0, <1>3, <3>1, <3>2, <3>3 DEF Begun, Clear, IsParser, Changes, Fields
  <2>1. Sound(q) /\ Running(q)
    BY <1>0, <1>3 DEF Begun, Clear, Sound, Running, Changes, Fields, Loops, Chunks, Sizes
  <2>2. Reported(r, q) /\ Spelled(r, u, q)
    BY <1>0, <1>3 DEF Begun, Clear, Changes, Fields, Reported, Plain, Spelled
  <2>3. Counted(r, q)
    BY <1>0, <1>3 DEF Begun, Clear, Changes, Fields, Counted, Ends, HeaderStates
  <2> QED BY <2>0, <2>1, <2>2, <2>3 DEF After
<1>4. CASE \/ Changes(c, q, {"state"}) /\ q.state = "s_headers_almost_done"
           \/ /\ Changes(c, q, {"state", "marks", "hstate"})
              /\ q.state = "s_header_field" /\ q.marks = {"header_field"}
  <2>1. IsParser(q) /\ Sound(q) /\ Running(q) /\ q.aborted = FALSE
    BY <1>0, <1>4, HeldIs DEF Clear, IsParser, Sound, Running, Changes, Fields, States, HeaderStates,
         Loops, Chunks, Sizes, Bodies
  <2>2. Reported(r, q) /\ Spelled(r, u, q)
    BY <1>0, <1>4 DEF Clear, Changes, Fields, Reported, Plain, Spelled
  <2>3. ~Completes(q)
    BY <1>4, CallsMade DEF Changes, Fields, Plain
  <2>4. Counted(r, q)
    BY <1>0, <1>4, <2>3 DEF Clear, Changes, Fields, Counted, Ends, Taken, HeaderStates, Between
  <2> QED BY <2>1, <2>2, <2>4 DEF After
<1> QED BY <1>1, <1>2, <1>3, <1>4 DEF Started

LEMMA ValuedAfter ==
  ASSUME ParserConstants, NEW r, NEW u, NEW q, Clear(r), r.calls = <<>>, r.state \in Between,
         r.state \in {"s_header_value_discard_ws", "s_header_value_lws"}, Valued(r, u, q)
  PROVE  After(r, u, q)
<1>1. IsParser(q) /\ Sound(q) /\ Running(q) /\ q.aborted = FALSE
  BY HeldIs DEF Valued, Clear, IsParser, Sound, Running, Changes, Fields, States, HeaderStates,
       Loops, Chunks, Sizes, Bodies
<1>2. Reported(r, q) /\ Spelled(r, u, q)
  BY DEF Valued, Clear, Changes, Fields, Reported, Plain, Named, Spelled
<1>3. ~Completes(q)
  BY CallsMade DEF Valued, Changes, Fields, Plain
<1>4. Counted(r, q)
  BY <1>3 DEF Valued, Clear, Changes, Fields, Counted, Ends, Taken, HeaderStates, Between
<1> QED BY <1>1, <1>2, <1>4 DEF After

LEMMA MovedAfter ==
  ASSUME ParserConstants, NEW r, NEW u, NEW q, Clear(r), r.calls = <<>>, r.state \in Between,
         Changes(r, q, {"state"}), q.state \in Between,
         r.state \in Named => q.state \in Named
  PROVE  After(r, u, q)
<1>1. IsParser(q) /\ Sound(q) /\ Running(q) /\ q.aborted = FALSE
  BY HeldIs DEF Clear, IsParser, Sound, Running, Changes, Fields, States, HeaderStates, Between,
       Loops, Chunks, Sizes, Bodies
<1>2. Reported(r, q) /\ Spelled(r, u, q)
  BY DEF Clear, Changes, Fields, Reported, Plain, Spelled, Between
<1>3. ~Completes(q)
  BY CallsMade DEF Changes, Fields, Plain
<1>4. Counted(r, q)
  BY <1>3 DEF Clear, Changes, Fields, Counted, Ends, Taken, HeaderStates, Between
<1> QED BY <1>1, <1>2, <1>4 DEF After

(* The end of a value that has no callback of its own.                     *)
LEMMA RaiseIs ==
  ASSUME NEW r, Clear(r)
  PROVE  Clear(Raise(r)) /\ Changes(r, Raise(r), {"flags"})
<1>1. Raise(r) = r \/ Raise(r) = Flag(r, TokenFlag[r.hstate])
  BY DEF Raise
<1> QED BY <1>1 DEF Flag, Clear, Changes, IsRecord, Fields

LEMMA EmptyIs ==
  ASSUME NEW r, Clear(r), r.calls = <<>>
  PROVE  LET c == DataCall(Mark(r, "header_value"), "header_value")
         IN  Changes(r, c, {"calls"}) /\ c.calls = <<"header_value">>
<1> DEFINE m == Mark(r, "header_value")
           c == DataCall(m, "header_value")
<1>1. /\ Changes(r, m, {"marks"}) /\ "header_value" \in m.marks
      /\ \A k \in m.marks : k = "header_value"
  BY DEF Clear, Mark, Changes, IsRecord, Fields
<1>2. IsRecord(m) /\ m.calls = <<>>
  BY <1>1 DEF Changes, Fields
<1> HIDE DEF m
<1>3. /\ Changes(m, c, {"marks", "calls"}) /\ c.calls = <<"header_value">>
      /\ \A k : k \in c.marks <=> k \in m.marks /\ k # "header_value"
  BY <1>1, <1>2, DataCallIs
<1> HIDE DEF c
<1>4. c.marks = {}
  BY <1>1, <1>3
<1>5. Changes(r, c, {"calls"}) /\ c.calls = <<"header_value">>
  BY <1>1, <1>3, <1>4 DEF Changes, Fields, Clear
<1> QED BY <1>5 DEF c, m

LEMMA BetweenAfter ==
  ASSUME ParserConstants, NEW r, NEW u, Ready(r), r.state \in Between
  PROVE  After(r, u, Switch(r, u))
<1> DEFINE q == Switch(r, u)
<1>0. Clear(r) /\ r.calls = <<>> /\ Changes(r, r, {"flags", "calls"})
  <2>1. r.state \notin Loops \cup Bodies \cup {"s_res_status"}
    BY DEF Between, Loops, Bodies
  <2> QED BY <2>1, ReadyClear DEF Clear, Changes
<1>1. CASE r.state = "s_header_field_start"
  <2>1. Started(r, q)
    BY <1>0, <1>1, Dispatch, HeaderFieldStartIs
  <2> QED BY <1>0, <1>1, <2>1, StartedAfter DEF Named
<1>2. CASE r.state = "s_headers_almost_done"
  <2>1. Started(r, q)
    <3>1. q = HeadersAlmostDone(r, u)
      BY <1>2, Dispatch
    <3> QED BY <1>0, <3>1, HeadersAlmostDoneIs DEF Clear, Started
  <2> QED BY <1>0, <1>2, <2>1, StartedAfter DEF Named
<1>3. CASE r.state = "s_header_value_lws"
  <2>1. q = HeaderValueLws(r, u)
    BY <1>3, Dispatch
  <2>2. CASE q = HeaderValueStart(r, u)
    <3>1. Stopped(q) \/ Valued(r, u, q)
      BY <1>0, <2>2, HeaderValueStartIs
    <3> QED BY <1>0, <1>3, <3>1, ValuedAfter DEF Stopped, After
  <2>3. CASE q = HeaderFieldStart(Raise(r), u)
    <3>1. Clear(Raise(r)) /\ Changes(r, Raise(r), {"flags"})
      BY <1>0, RaiseIs
    <3>2. Started(Raise(r), q)
      BY <2>3, <3>1, HeaderFieldStartIs
    <3>3. Changes(r, Raise(r), {"flags", "calls"}) /\ Raise(r).calls = <<>>
      BY <1>0, <3>1 DEF Changes, Fields
    <3> QED BY <1>0, <1>3, <3>2, <3>3, StartedAfter DEF Named
  <2> QED BY <2>1, <2>2, <2>3 DEF HeaderValueLws
<1>4. CASE r.state = "s_header_value_discard_lws"
  <2> DEFINE s == Raise(r)
             c == DataCall(Mark(s, "header_value"), "header_value")
  <2>1. q = Goto(r, "s_header_value_discard_ws") \/ q = HeaderFieldStart(c, u)
    BY <1>4, Dispatch DEF HeaderValueDiscardLws
  <2>2. Clear(s) /\ Changes(r, s, {"flags"}) /\ s.calls = <<>>
    BY <1>0, RaiseIs DEF Changes, Fields
  <2> HIDE DEF s
  <2>3. Changes(s, c, {"calls"}) /\ c.calls = <<"header_value">>
    BY <2>2, EmptyIs
  <2> HIDE DEF c
  <2>4. CASE q = Goto(r, "s_header_value_discard_ws")
    <3>1. Changes(r, q, {"state"}) /\ q.state = "s_header_value_discard_ws"
      BY <1>0, <2>4 DEF Goto, Clear, Changes, IsRecord, Fields
    <3> QED BY <1>0, <3>1, MovedAfter DEF Between, Named
  <2>5. CASE q = HeaderFieldStart(c, u)
    <3>1. Clear(c) /\ Changes(r, c, {"flags", "calls"})
      BY <2>2, <2>3 DEF Clear, Changes, Fields
    <3>2. Started(c, q)
      BY <2>5, <3>1, HeaderFieldStartIs
    <3> QED BY <1>0, <2>3, <3>1, <3>2, StartedAfter
  <2> QED BY <2>1, <2>4, <2>5
<1>5. CASE r.state = "s_header_value_discard_ws"
  <2>1. \/ q = r
        \/ q = Goto(r, "s_header_value_discard_ws_almost_done")
        \/ q = Goto(r, "s_header_value_discard_lws")
        \/ q = HeaderValueStart(r, u)
    BY <1>5, Dispatch DEF HeaderValueDiscardWs
  <2>2. CASE q = HeaderValueStart(r, u)
    <3>1. Stopped(q) \/ Valued(r, u, q)
      BY <1>0, <2>2, HeaderValueStartIs
    <3> QED BY <1>0, <1>5, <3>1, ValuedAfter DEF Stopped, After
  <2>3. CASE \/ q = r
             \/ q = Goto(r, "s_header_value_discard_ws_almost_done")
             \/ q = Goto(r, "s_header_value_discard_lws")
    <3>1. Changes(r, q, {"state"}) /\ q.state \in Between \cap Named
      BY <1>0, <1>5, <2>3 DEF Goto, Clear, Changes, IsRecord, Fields, Between, Named
    <3> QED BY <1>0, <3>1, MovedAfter
  <2> QED BY <2>1, <2>2, <2>3
<1>6. CASE r.state \in {"s_header_value_discard_ws_almost_done", "s_header_almost_done"}
  <2>1. Stopped(q) \/ q = Goto(r, Literal[r.state][2])
    <3>1. r.state \in DOMAIN Literal
      BY <1>6, LiteralIs
    <3>2. q = Expect(r, u)
      BY <3>1, Dispatch
    <3> QED BY <1>0, <3>1, <3>2, Expected DEF Clear
  <2>2. CASE q = Goto(r, Literal[r.state][2])
    <3>1. Literal[r.state][2] \in Between /\ (r.state \in Named => Literal[r.state][2] \in Named)
      BY <1>6, LiteralIs DEF Between, Named
    <3>2. Changes(r, q, {"state"}) /\ q.state = Literal[r.state][2]
      BY <1>0, <2>2 DEF Goto, Clear, Changes, IsRecord, Fields
    <3> QED BY <1>0, <3>1, <3>2, MovedAfter
  <2> QED BY <2>1, <2>2 DEF Stopped, After
<1> QED BY <1>1, <1>2, <1>3, <1>4, <1>5, <1>6 DEF Between
-----------------------------------------------------------------------------
(* The inner loops.                                                        *)
LEMMA CountIs ==
  ASSUME NEW r, IsRecord(r), NEW n
  PROVE  LET q == Count(r, n)
         IN  /\ Changes(r, q, {"nread", "errno"}) /\ q.nread = r.nread + n
             /\ q.errno = IF r.nread + n > MaxHeader THEN "HEADER_OVERFLOW" ELSE r.errno
BY DEF Count, Changes, IsRecord, Fields

(* A parser in one of the loops.                                           *)
Looping(r) ==
  /\ IsRecord(r) /\ r.type = "response" /\ r.nread \in Nat /\ r.length \in 0 .. MaxLength
  /\ r.run \in Nat /\ r.state \in Loops /\ r.aborted = FALSE /\ r.errno = "OK" /\ r.calls = <<>>

LEMMA HeaderFieldAfter ==
  ASSUME ParserConstants, NEW r, NEW u, Ready(r), r.state = "s_header_field"
  PROVE  After(r, u, Switch(r, u))
<1> DEFINE q == Switch(r, u)
<1>0. /\ Looping(r) /\ r.marks = {"header_field"} /\ r.skip = FALSE
  BY HeldIs DEF Ready, IsParser, Running, Loops, Looping
<1>1. q = HeaderField(r, u)
  BY Dispatch
<1> HIDE DEF q
<1>2. CASE IsToken(u)
  <2>1. /\ Changes(r, q, {"hstate", "run"}) /\ q.run = r.run + 1
    BY <1>0, <1>1, <1>2 DEF HeaderField, Looping, Changes, IsRecord, Fields
  <2>2. IsParser(q) /\ q.aborted = FALSE
    BY <1>0, <2>1 DEF Ready, Looping, IsParser, Changes, Fields
  <2>3. Sound(q) /\ Running(q)
    BY <1>0, <2>1, HeldIs DEF Looping, Sound, Running, Changes, Fields, Loops, Chunks, Sizes
  <2>4. Reported(r, q) /\ Spelled(r, u, q)
    BY <1>0, <2>1 DEF Looping, Changes, Fields, Reported, Spelled, Named
  <2>5. ~Completes(q)
    BY <1>0, <2>1, CallsMade DEF Looping, Changes, Fields, Plain
  <2>6. Counted(r, q)
    <3>1. r.state = "s_header_field" /\ q.state = "s_header_field"
      BY <2>1 DEF Changes, Fields
    <3>2. ~Ends(r, q) /\ r.state \in HeaderStates \ {"s_dead"}
      BY <3>1, <2>5 DEF Ends, HeaderStates
    <3>3. /\ r.run \in Nat /\ r.nread \in Nat
          /\ q.nread = r.nread /\ q.run = r.run + 1
      BY <1>0, <2>1 DEF Looping, Changes, Fields
    <3> QED BY <3>2, <3>3 DEF Counted, Taken
  <2> QED BY <2>2, <2>3, <2>4, <2>6 DEF After, q
<1>3. CASE ~IsToken(u)
  <2> DEFINE o == [r EXCEPT !.run = Outside]
             c == Count(o, r.run)
             g == Goto(c, "s_header_value_discard_ws")
  <2>1. Changes(r, o, {"run"}) /\ o.run = Outside
    BY <1>0 DEF Looping, Changes, IsRecord, Fields
  <2>2. \/ q = c /\ Failed(c)
        \/ q = DataCall(g, "header_field") /\ ~Failed(c)
        \/ q = Fail(c, "INVALID_HEADER_TOKEN") /\ ~Failed(c)
    BY <1>1, <1>3 DEF HeaderField
  <2> HIDE DEF o
  <2>3. /\ Changes(o, c, {"nread", "errno"}) /\ c.nread = o.nread + r.run
        /\ c.errno = IF o.nread + r.run > MaxHeader THEN "HEADER_OVERFLOW" ELSE o.errno
    BY <2>1, CountIs DEF Changes
  <2> HIDE DEF c
  <2>4. CASE (q = c /\ Failed(c)) \/ q = Fail(c, "INVALID_HEADER_TOKEN")
    <3>1. q.aborted = FALSE /\ Failed(q)
      BY <1>0, <2>1, <2>3, <2>4 DEF Looping, Failed, Fail, Changes, IsRecord, Fields
    <3> QED BY <3>1 DEF After, q
  <2>5. CASE q = DataCall(g, "header_field") /\ ~Failed(c)
    <3>1. Changes(c, g, {"state"}) /\ g.state = "s_header_value_discard_ws"
      BY <2>3 DEF Goto, Changes, IsRecord, Fields
    <3>2. IsRecord(g) /\ g.calls = <<>> /\ g.marks = {"header_field"}
      BY <1>0, <2>1, <2>3, <3>1 DEF Looping, Changes, Fields
    <3> HIDE DEF g
    <3>3. /\ Changes(g, q, {"marks", "calls"}) /\ q.calls = <<"header_field">>
          /\ \A k : k \in q.marks <=> k \in g.marks /\ k # "header_field"
      BY <2>5, <3>2, DataCallIs
    <3>4. q.marks = {}
      BY <3>2, <3>3
    <3>5. /\ Changes(r, q, {"run", "nread", "state", "marks", "calls"})
          /\ q.run = Outside /\ q.nread = r.nread + r.run /\ q.nread <= MaxHeader
          /\ q.state = "s_header_value_discard_ws"
      BY <1>0, <2>1, <2>3, <2>5, <3>1, <3>3 DEF Looping, ParserConstants, Failed, Changes, Fields
    <3>6. IsParser(q) /\ q.aborted = FALSE
      <4>1. q.state \in States
        BY <3>5 DEF States, HeaderStates
      <4>2. q.nread \in Nat
        BY <1>0, <3>5 DEF Looping
      <4> QED BY <1>0, <3>5, <4>1, <4>2 DEF Looping, IsParser, Changes, Fields
    <3>7. Sound(q) /\ Running(q)
      BY <1>0, <3>4, <3>5 DEF Sound, Running, Changes, Fields, Loops, Chunks, Sizes
    <3>8. Reported(r, q) /\ Spelled(r, u, q)
      BY <3>3, <3>5 DEF Reported, Spelled, Named
    <3>9. ~Completes(q)
      BY <3>3, CallsMade
    <3>10. Counted(r, q)
      BY <1>0, <3>5, <3>9 DEF Looping, Counted, Ends, Taken, HeaderStates
    <3> QED BY <3>6, <3>7, <3>8, <3>10 DEF After, q
  <2> QED BY <2>2, <2>4, <2>5
<1> QED BY <1>2, <1>3

(* The digits of a length: grown without wrapping around, or refused.      *)
LEMMA GrowIs ==
  ASSUME ParserConstants, NEW r, NEW base \in {10, 16}, NEW digit \in 0 .. base - 1,
         IsRecord(r), r.length \in 0 .. MaxLength, r.aborted = FALSE
  PROVE  LET q == Grow(r, base, digit)
         IN  \/ Stopped(q)
             \/ /\ Changes(r, q, {"length"}) /\ q.length = r.length * base + digit
                /\ q.length \in 0 .. MaxLength - 1
<1> DEFINE q == Grow(r, base, digit)
<1>1. CASE (MaxLength - base) \div base < r.length
  BY <1>1 DEF Grow, Fail, Stopped, Failed, IsRecord, Fields
<1>2. CASE ~((MaxLength - base) \div base < r.length)
  <2>1. r.length * base + digit \in 0 .. MaxLength - 1
    <3>1. CASE base = 10
      BY <1>2, <3>1 DEF ParserConstants
    <3>2. CASE base = 16
      BY <1>2, <3>2 DEF ParserConstants
    <3> QED BY <3>1, <3>2
  <2>2. (r.length * base + digit) % (MaxLength + 1) = r.length * base + digit
    <3> DEFINE n == r.length * base + digit
    <3>1. n \in 0 .. MaxLength - 1
      BY <2>1
    <3> HIDE DEF n
    <3>2. n % (MaxLength + 1) = n
      BY <3>1 DEF ParserConstants
    <3> QED BY <3>2 DEF n
  <2>3. q = [r EXCEPT !.length = (r.length * base + digit) % (MaxLength + 1)]
    BY <1>2 DEF Grow
  <2>4. Changes(r, q, {"length"}) /\ q.length = (r.length * base + digit) % (MaxLength + 1)
    BY <2>3 DEF Changes, IsRecord, Fields
  <2> QED BY <2>1, <2>2, <2>4
<1> QED BY <1>1, <1>2

(* What header_state may become inside a value.                            *)
Matching ==
  {"h_general", "h_matching_transfer_encoding_chunked", "h_transfer_encoding_chunked",
   "h_matching_connection_token_start", "h_matching_connection_token",
   "h_matching_connection_keep_alive", "h_matching_connection_close",
   "h_matching_connection_upgrade", "h_connection_keep_alive", "h_connection_close",
   "h_connection_upgrade"}

Character(r, u, q) ==
  \/ q = [r EXCEPT !.skip = TRUE] /\ r.hstate = "h_general"
  \/ q = r /\ (r.hstate = "h_content_length" => u = SP)
  \/ q = Grow(r, 10, Digits[u]) /\ IsNum(u) /\ r.hstate = "h_content_length"
  \/ q = Fail(r, "INVALID_CONTENT_LENGTH")
  \/ \E h \in Matching : q = [r EXCEPT !.hstate = h] \/ q = [Raise(r) EXCEPT !.hstate = h]

LEMMA HeaderValueCharIs ==
  ASSUME NEW r, NEW u, r.hstate \notin {"h_connection", "h_transfer_encoding"},
         NEW q, q = HeaderValueChar(r, u)
  PROVE  Character(r, u, q)
<1> DEFINE In(h) == [r EXCEPT !.hstate = h]
<1>0. DOMAIN TokenFlag = {"h_connection_keep_alive", "h_connection_close",
                          "h_connection_upgrade", "h_transfer_encoding_chunked"}
  BY DEF TokenFlag
<1>1. CASE r.hstate = "h_general"
  BY <1>0, <1>1 DEF HeaderValueChar, Character
<1>2. CASE r.hstate = "h_content_length"
  <2>1. \/ q = r /\ u = SP
        \/ q = Grow(r, 10, Digits[u]) /\ IsNum(u)
        \/ q = Fail(r, "INVALID_CONTENT_LENGTH")
    <3>1. q = CASE u = SP -> r
                [] IsNum(u) -> Grow(r, 10, Digits[u])
                [] OTHER -> Fail(r, "INVALID_CONTENT_LENGTH")
      BY <1>0, <1>2 DEF HeaderValueChar
    <3>2. IsNum(u) => u # SP
      BY DEF IsNum, Digits
    <3>3. CASE u = SP
      BY <3>1, <3>2, <3>3
    <3>4. CASE IsNum(u)
      BY <3>1, <3>2, <3>4
    <3>5. CASE u # SP /\ ~IsNum(u)
      BY <3>1, <3>5
    <3> QED BY <3>3, <3>4, <3>5
  <2> QED BY <1>2, <2>1 DEF Character
<1>3. CASE r.hstate \in DOMAIN TokenFlag \ {"h_transfer_encoding_chunked"}
  <2>1. \/ q = [Raise(r) EXCEPT !.hstate = "h_matching_connection_token_start"] \/ q = r
        \/ q = In("h_matching_connection_token")
    BY <1>0, <1>3 DEF HeaderValueChar
  <2> QED BY <1>0, <1>3, <2>1 DEF Matching, Character
<1>4. CASE r.hstate \in {"h_transfer_encoding_chunked", "h_matching_connection_token",
                         "h_matching_connection_keep_alive", "h_matching_connection_close",
                         "h_matching_connection_upgrade", "h_matching_transfer_encoding_chunked"}
  <2>1. q = r \/ \E h \in Matching : q = In(h)
    BY <1>0, <1>4 DEF HeaderValueChar, Matching
  <2> QED BY <1>4, <2>1 DEF Character
<1>5. CASE r.hstate = "h_matching_connection_token_start"
  <2>1. q = r \/ q = In(ConnectionToken(u)) \/ q = In("h_general")
    <3>1. q = CASE u \in Blank -> r
                [] IsToken(u)  -> In(ConnectionToken(u))
                [] OTHER       -> In("h_general")
      BY <1>0, <1>5 DEF HeaderValueChar
    <3>2. IsToken(u) => u \notin Blank
      BY DEF IsToken, Separators
    <3>3. CASE u \in Blank
      BY <3>1, <3>2, <3>3
    <3>4. CASE IsToken(u)
      BY <3>1, <3>2, <3>4
    <3>5. CASE u \notin Blank /\ ~IsToken(u)
      BY <3>1, <3>5
    <3> QED BY <3>3, <3>4, <3>5
  <2>2. ConnectionToken(u) \in Matching
    BY DEF ConnectionToken, Matching
  <2> QED BY <1>5, <2>1, <2>2 DEF Matching, Character
<1>6. CASE r.hstate \notin Matching \cup {"h_content_length"}
  <2>1. q = In("h_general")
    BY <1>0, <1>6 DEF HeaderValueChar, Matching
  <2> QED BY <2>1 DEF Matching, Character
<1> QED BY <1>0, <1>1, <1>2, <1>3, <1>4, <1>5, <1>6 DEF Matching

(* One more character of a value, and the end of a value.                  *)
Within(r, u, q) ==
  /\ Changes(r, q, {"hstate", "flags", "length", "skip", "run"})
  /\ q.run = r.run + 1 /\ q.length \in 0 .. MaxLength /\ q.skip \in BOOLEAN
  /\ q.hstate \notin {"h_connection", "h_transfer_encoding"}
  /\ q.skip => q.hstate = "h_general"
  /\ q.hstate = "h_content_length" =>
       /\ r.hstate = "h_content_length"
       /\ q.length = IF IsNum(u) THEN r.length * 10 + Digits[u] ELSE r.length
Ended(r, q) ==
  /\ Changes(r, q, {"state", "run", "skip", "nread", "marks", "calls"})
  /\ q.state \in {"s_header_almost_done", "s_header_value_lws"}
  /\ q.run = Outside /\ q.skip = FALSE /\ q.marks = {} /\ q.calls = <<"header_value">>
  /\ q.nread = r.nread + r.run /\ q.nread <= MaxHeader

LEMMA WithinStep ==
  ASSUME ParserConstants, NEW r, NEW u, Looping(r), r.skip = FALSE,
         r.hstate \notin {"h_connection", "h_transfer_encoding"},
         NEW c, c = HeaderValueChar(r, u), NEW q, q = [c EXCEPT !.run = @ + 1]
  PROVE  Stopped(q) \/ Within(r, u, q)
<1>1. \/ c = [r EXCEPT !.skip = TRUE] /\ r.hstate = "h_general"
      \/ c = r /\ (r.hstate = "h_content_length" => u = SP)
      \/ c = Grow(r, 10, Digits[u]) /\ IsNum(u) /\ r.hstate = "h_content_length"
      \/ c = Fail(r, "INVALID_CONTENT_LENGTH")
      \/ \E h \in Matching : c = [r EXCEPT !.hstate = h] \/ c = [Raise(r) EXCEPT !.hstate = h]
  <2>1. Character(r, u, c)
    BY HeaderValueCharIs
  <2> QED BY <2>1, Zenon DEF Character
<1>2. CASE c = [r EXCEPT !.skip = TRUE] /\ r.hstate = "h_general"
  BY <1>2 DEF Looping, Within, Changes, IsRecord, Fields
<1>3. CASE c = r /\ (r.hstate = "h_content_length" => u = SP)
  <2>1. u = SP => ~IsNum(u)
    BY DEF IsNum, Digits
  <2> QED BY <1>3, <2>1 DEF Looping, Within, Changes, IsRecord, Fields
<1>4. CASE c = Grow(r, 10, Digits[u]) /\ IsNum(u) /\ r.hstate = "h_content_length"
  <2>1. Digits[u] \in 0 .. 10 - 1
    BY <1>4, DigitTypes
  <2>2. \/ Stopped(c)
        \/ /\ Changes(r, c, {"length"}) /\ c.length = r.length * 10 + Digits[u]
           /\ c.length \in 0 .. MaxLength - 1
    BY <1>4, <2>1, GrowIs DEF Looping
  <2>3. CASE Stopped(c)
    BY <2>3 DEF Stopped, Failed, IsRecord, Fields
  <2>4. CASE ~Stopped(c)
    <3>1. c.length \in 0 .. MaxLength
      BY <2>2, <2>4 DEF ParserConstants
    <3>2. Changes(r, q, {"length", "run"}) /\ q.length = c.length /\ q.run = r.run + 1
      BY <2>2, <2>4 DEF Changes, IsRecord, Fields
    <3>3. q.skip = FALSE /\ q.hstate = r.hstate
      BY <3>2 DEF Changes, Fields
    <3>4. Changes(r, q, {"hstate", "flags", "length", "skip", "run"})
      BY <3>2 DEF Changes, Fields
    <3> QED BY <1>4, <2>2, <2>4, <3>1, <3>2, <3>3, <3>4 DEF Within
  <2> QED BY <2>3, <2>4
<1>5. CASE c = Fail(r, "INVALID_CONTENT_LENGTH")
  BY <1>5 DEF Looping, Fail, Stopped, Failed, IsRecord, Fields
<1>6. ASSUME NEW h \in Matching,
             c = [r EXCEPT !.hstate = h] \/ c = [Raise(r) EXCEPT !.hstate = h]
      PROVE  Within(r, u, q)
  <2>1. Raise(r) = r \/ Raise(r) = Flag(r, TokenFlag[r.hstate])
    BY DEF Raise
  <2>2. Changes(r, Raise(r), {"flags"})
    BY <2>1 DEF Looping, Flag, Changes, IsRecord, Fields
  <2>3. Changes(r, q, {"hstate", "flags", "run"}) /\ q.hstate = h /\ q.run = r.run + 1
    BY <1>6, <2>2 DEF Looping, Changes, IsRecord, Fields
  <2>4. h \notin {"h_connection", "h_transfer_encoding", "h_content_length"}
    BY DEF Matching
  <2> QED BY <2>3, <2>4 DEF Within, Looping, Changes, Fields
<1> QED BY <1>1, <1>2, <1>3, <1>4, <1>5, <1>6

LEMMA EndedStep ==
  ASSUME ParserConstants, NEW r, NEW u, Looping(r), r.state = "s_header_value",
         r.marks = {"header_value"}, NEW q, q = HeaderValueEnd(r, u)
  PROVE  (q.aborted = FALSE /\ Failed(q)) \/ Ended(r, q)
<1> DEFINE o == [Goto(r, "s_header_almost_done") EXCEPT !.run = Outside, !.skip = FALSE]
           d == DataCall(o, "header_value")
           c == Count(o, r.run)
           e == DataCall(c, "header_value")
<1>1. /\ Changes(r, o, {"state", "run", "skip"}) /\ o.state = "s_header_almost_done"
      /\ o.run = Outside /\ o.skip = FALSE
  BY DEF Looping, Goto, Changes, IsRecord, Fields
<1>2. /\ IsRecord(o) /\ o.calls = <<>> /\ o.marks = {"header_value"} /\ o.nread = r.nread
      /\ o.aborted = FALSE /\ o.errno = "OK"
  BY <1>1 DEF Looping, Changes, Fields
<1>3. \/ q = Count(d, r.run)
      \/ q = c /\ Failed(c)
      \/ q = Expect(e, LF) /\ ~Failed(c)
  BY DEF HeaderValueEnd
<1> HIDE DEF o
<1>4. CASE q = Count(d, r.run)
  <2>1. /\ Changes(o, d, {"marks", "calls"}) /\ d.calls = <<"header_value">>
        /\ \A k : k \in d.marks <=> k \in o.marks /\ k # "header_value"
    BY <1>2, DataCallIs
  <2> HIDE DEF d
  <2>2. d.marks = {}
    BY <1>2, <2>1
  <2>3. /\ Changes(d, q, {"nread", "errno"}) /\ q.nread = d.nread + r.run
        /\ q.errno = IF d.nread + r.run > MaxHeader THEN "HEADER_OVERFLOW" ELSE d.errno
    BY <1>4, <2>1, CountIs DEF Changes
  <2>4. CASE q.errno = "OK"
    <3>1. d.nread = r.nread /\ d.errno = "OK"
      BY <1>2, <2>1 DEF Changes, Fields
    <3>2. q.nread = r.nread + r.run /\ q.nread <= MaxHeader
      BY <2>3, <2>4, <3>1 DEF Looping, ParserConstants
    <3> QED BY <1>1, <2>1, <2>2, <2>3, <2>4, <3>2 DEF Looping, Ended, Changes, Fields
  <2>5. CASE q.errno # "OK"
    BY <1>2, <2>1, <2>3, <2>5 DEF Failed, Changes, Fields
  <2> QED BY <2>4, <2>5
<1>5. /\ Changes(o, c, {"nread", "errno"}) /\ c.nread = o.nread + r.run
      /\ c.errno = IF o.nread + r.run > MaxHeader THEN "HEADER_OVERFLOW" ELSE o.errno
  BY <1>2, CountIs
<1> HIDE DEF c
<1>6. CASE q = c /\ Failed(c)
  BY <1>2, <1>5, <1>6 DEF Changes, Fields
<1>7. CASE q = Expect(e, LF) /\ ~Failed(c)
  <2>1. IsRecord(c) /\ c.calls = <<>> /\ c.marks = {"header_value"}
    BY <1>2, <1>5 DEF Changes, Fields
  <2>2. /\ Changes(c, e, {"marks", "calls"}) /\ e.calls = <<"header_value">>
        /\ \A k : k \in e.marks <=> k \in c.marks /\ k # "header_value"
    BY <2>1, DataCallIs
  <2> HIDE DEF e
  <2>3. e.marks = {}
    BY <2>1, <2>2
  <2>4. IsRecord(e) /\ e.aborted = FALSE /\ e.state = "s_header_almost_done"
    BY <1>1, <1>2, <1>5, <2>2 DEF Changes, Fields
  <2>5. Stopped(q) \/ q = Goto(e, "s_header_value_lws")
    <3>1. e.state \in DOMAIN Literal /\ Literal[e.state][2] = "s_header_value_lws"
      BY <2>4, LiteralIs
    <3> QED BY <1>7, <2>4, <3>1, Expected
  <2>6. CASE q = Goto(e, "s_header_value_lws")
    <3>1. Changes(e, q, {"state"}) /\ q.state = "s_header_value_lws"
      BY <2>4, <2>6 DEF Goto, Changes, IsRecord, Fields
    <3>2. c.nread = r.nread + r.run /\ c.nread <= MaxHeader /\ c.errno = "OK"
      BY <1>2, <1>5, <1>7 DEF Looping, ParserConstants, Failed
    <3>3. q.nread = r.nread + r.run /\ q.nread <= MaxHeader
      BY <2>2, <3>1, <3>2 DEF Changes, Fields
    <3>4. q.run = Outside /\ q.skip = FALSE /\ q.marks = {} /\ q.calls = <<"header_value">>
      BY <1>1, <1>5, <2>2, <2>3, <3>1 DEF Changes, Fields
    <3>5. Changes(r, q, {"state", "run", "skip", "nread", "marks", "calls"})
      <4>1. q.errno = r.errno
        BY <2>2, <3>1, <3>2 DEF Changes, Fields, Looping
      <4>2. Changes(o, q, {"state", "nread", "errno", "marks", "calls"})
        BY <1>5, <2>2, <3>1 DEF Changes, Fields
      <4> QED BY <1>1, <4>1, <4>2 DEF Changes, Fields
    <3> QED BY <3>1, <3>3, <3>4, <3>5 DEF Ended
  <2> QED BY <2>5, <2>6 DEF Stopped
<1> QED BY <1>3, <1>4, <1>6, <1>7

LEMMA HeaderValueAfter ==
  ASSUME ParserConstants, NEW r, NEW u, Ready(r), r.state = "s_header_value"
  PROVE  After(r, u, Switch(r, u))
<1> DEFINE q == Switch(r, u)
<1>0. /\ Looping(r) /\ r.marks = {"header_value"} /\ r.skip \in BOOLEAN
      /\ r.skip => r.hstate = "h_general"
      /\ r.hstate \notin {"h_connection", "h_transfer_encoding"}
  BY HeldIs DEF Ready, IsParser, Sound, Running, Loops, Looping
<1>1. q = HeaderValue(r, u)
  BY Dispatch
<1> HIDE DEF q
<1>2. (q.aborted = FALSE /\ Failed(q)) \/ Ended(r, q) \/ Within(r, u, q)
  <2>1. CASE u \in Eol
    BY <1>0, <1>1, <2>1, EndedStep DEF HeaderValue
  <2>2. CASE u \notin Eol /\ r.skip
    <3>1. q = [r EXCEPT !.run = r.run + 1] /\ r.hstate = "h_general"
      BY <1>0, <1>1, <2>2 DEF HeaderValue
    <3> QED BY <1>0, <3>1 DEF Looping, Within, Changes, IsRecord, Fields
  <2>3. CASE u \notin Eol /\ ~r.skip /\ IsHeaderChar(u)
    <3> DEFINE c == HeaderValueChar(r, u)
    <3>1. q = [c EXCEPT !.run = @ + 1]
      BY <1>1, <2>3 DEF HeaderValue
    <3>2. r.skip = FALSE
      BY <1>0, <2>3
    <3> HIDE DEF c
    <3>3. Stopped(q) \/ Within(r, u, q)
      BY <1>0, <3>1, <3>2, WithinStep DEF c
    <3> QED BY <3>3 DEF Stopped
  <2>4. CASE u \notin Eol /\ ~r.skip /\ ~IsHeaderChar(u)
    <3>1. q = Fail(r, "INVALID_HEADER_TOKEN")
      BY <1>1, <2>4 DEF HeaderValue
    <3> QED BY <1>0, <3>1 DEF Looping, Fail, Failed, IsRecord, Fields
  <2> QED BY <2>1, <2>2, <2>3, <2>4
<1>3. CASE q.aborted = FALSE /\ Failed(q)
  BY <1>3 DEF After, q
<1>4. CASE Ended(r, q)
  <2>1. IsParser(q) /\ q.aborted = FALSE
    <3>1. q.state \in States
      BY <1>4 DEF Ended, States, HeaderStates
    <3>2. q.nread \in Nat
      BY <1>0, <1>4 DEF Looping, Ended
    <3>3. q.skip \in BOOLEAN
      BY <1>4 DEF Ended
    <3> QED BY <1>0, <1>4, <3>1, <3>2, <3>3 DEF Looping, IsParser, Ended, Changes, Fields
  <2>2. Sound(q) /\ Running(q)
    BY <1>4 DEF Ended, Sound, Running, Loops, Chunks, Sizes
  <2>3. Reported(r, q) /\ Spelled(r, u, q)
    BY <1>4 DEF Ended, Reported, Spelled
  <2>4. ~Completes(q)
    BY <1>4, CallsMade DEF Ended
  <2>5. Counted(r, q)
    BY <1>0, <1>4, <2>4 DEF Looping, Ended, Counted, Ends, Taken, HeaderStates
  <2> QED BY <2>1, <2>2, <2>3, <2>5 DEF After, q
<1>5. CASE Within(r, u, q)
  <2>1. /\ q.state = "s_header_value" /\ q.marks = {"header_value"} /\ q.calls = <<>>
        /\ q.run \in Nat /\ q.run # 0 /\ q.nread = r.nread /\ q.nread \in Nat
    BY <1>0, <1>5 DEF Looping, Within, Changes, Fields
  <2>2. IsParser(q) /\ q.aborted = FALSE
    <3>1. q.state \in States
      BY <2>1 DEF States, HeaderStates
    <3> QED BY <1>0, <1>5, <2>1, <3>1 DEF Looping, IsParser, Within, Changes, Fields
  <2>3. Sound(q) /\ Running(q)
    BY <1>5, <2>1, HeldIs DEF Within, Sound, Running, Loops, Chunks, Sizes
  <2>4. Reported(r, q) /\ Spelled(r, u, q)
    BY <1>5, <2>1 DEF Within, Reported, Spelled, Named
  <2>5. ~Completes(q)
    BY <2>1, CallsMade DEF Plain
  <2>6. Counted(r, q)
    <3>1. ~Ends(r, q) /\ r.state \in HeaderStates \ {"s_dead"}
      BY <2>1, <2>5 DEF Ends, HeaderStates
    <3>2. q.run = r.run + 1 /\ r.run \in Nat /\ r.nread \in Nat
      BY <1>0, <1>5 DEF Looping, Within
    <3> QED BY <2>1, <3>1, <3>2 DEF Counted, Taken
  <2> QED BY <2>2, <2>3, <2>4, <2>6 DEF After, q
<1> QED BY <1>2, <1>3, <1>4, <1>5
-----------------------------------------------------------------------------
(* Chunks, bodies, and a connection that is not to be kept.                *)
LEMMA DeadAfter ==
  ASSUME ParserConstants, NEW r, NEW u, Ready(r), r.state = "s_dead"
  PROVE  After(r, u, Switch(r, u))
<1> DEFINE q == Switch(r, u)
<1>0. r.aborted = FALSE /\ r.errno = "OK" /\ r.run = Outside /\ r.calls = <<>> /\ IsRecord(r)
  BY DEF Ready, IsParser, Running, Loops
<1>1. q = r \/ q = Fail(r, "CLOSED_CONNECTION")
  BY Dispatch DEF Dead
<1>2. CASE q = Fail(r, "CLOSED_CONNECTION")
  BY <1>0, <1>2 DEF Fail, After, Failed, IsRecord, Fields
<1>3. CASE q = r
  <2>1. Reported(r, r) /\ Spelled(r, u, r) /\ Counted(r, r)
    BY <1>0 DEF Reported, Plain, Named, Spelled, Counted
  <2> QED BY <1>0, <1>3, <2>1 DEF After, Ready
<1> QED BY <1>1, <1>2, <1>3

(* A unit of the line that holds the size of a chunk.                      *)
Sized(r, u, q) ==
  /\ Changes(r, q, {"state", "length"})
  /\ q.state \in Sizes /\ q.length \in 0 .. MaxLength - 1
  /\ q.state = "s_chunk_size" =>
       /\ IsHex(u) /\ r.state \in {"s_chunk_size_start", "s_chunk_size"}
       /\ q.length = IF r.state = "s_chunk_size_start" THEN Hex(u)
                                                       ELSE r.length * 16 + Hex(u)

LEMMA SizedStep ==
  ASSUME ParserConstants, NEW r, NEW u, NEW q, Clear(r), "chunked" \in r.flags,
         r.state \in {"s_chunk_size_start", "s_chunk_size", "s_chunk_parameters"},
         r.state = "s_chunk_size_start" => r.nread = 1,
         r.state \in Sizes => r.length < MaxLength, q = Switch(r, u)
  PROVE  Stopped(q) \/ Sized(r, u, q)
<1>0. Assert(r, "chunked" \in r.flags) = r
  BY DEF Assert
<1>1. CASE r.state = "s_chunk_size_start"
  <2>1. Assert(r, r.nread = 1 /\ "chunked" \in r.flags) = r
    BY <1>1 DEF Assert
  <2>2. \/ q = Goto([r EXCEPT !.length = Hex(u)], "s_chunk_size") /\ IsHex(u)
        \/ q = Fail(r, "INVALID_CHUNK_SIZE")
    BY <1>1, <2>1, Dispatch DEF ChunkSizeStart
  <2>3. CASE q = Fail(r, "INVALID_CHUNK_SIZE")
    BY <2>3 DEF Clear, Stopped, Failed, Fail, IsRecord, Fields
  <2>4. CASE q = Goto([r EXCEPT !.length = Hex(u)], "s_chunk_size") /\ IsHex(u)
    <3>1. Hex(u) \in 0 .. MaxLength - 1
      BY <2>4, DigitTypes DEF ParserConstants
    <3>2. Changes(r, q, {"state", "length"}) /\ q.state = "s_chunk_size" /\ q.length = Hex(u)
      BY <2>4 DEF Clear, Goto, Changes, IsRecord, Fields
    <3> QED BY <1>1, <2>4, <3>1, <3>2 DEF Sized, Sizes
  <2> QED BY <2>2, <2>3, <2>4
<1>2. CASE r.state = "s_chunk_size"
  <2>1. \/ q = Goto(r, "s_chunk_size_almost_done") \/ q = Goto(r, "s_chunk_parameters")
        \/ q = Grow(r, 16, Hex(u)) /\ IsHex(u)
        \/ q = Fail(r, "INVALID_CHUNK_SIZE")
    <3> DEFINE a == Assert(r, "chunked" \in r.flags)
    <3>0. q = ChunkSize(r, u)
      BY <1>2, Dispatch
    <3>1. q = CASE u = CR -> Goto(a, "s_chunk_size_almost_done")
                [] IsHex(u) -> Grow(a, 16, Hex(u))
                [] u \in {";", SP} -> Goto(a, "s_chunk_parameters")
                [] OTHER -> Fail(a, "INVALID_CHUNK_SIZE")
      BY <3>0 DEF ChunkSize
    <3> HIDE DEF a
    <3>2. IsHex(u) => u \notin {CR, ";", SP}
      BY DEF IsHex, IsNum, Digits
    <3>3. CASE u = CR
      BY <1>0, <3>1, <3>2, <3>3 DEF a
    <3>4. CASE IsHex(u)
      BY <1>0, <3>1, <3>2, <3>4 DEF a
    <3>5. CASE u # CR /\ ~IsHex(u)
      BY <1>0, <3>1, <3>5 DEF a
    <3> QED BY <3>3, <3>4, <3>5
  <2>2. CASE q = Goto(r, "s_chunk_size_almost_done") \/ q = Goto(r, "s_chunk_parameters")
    <3>1. /\ Changes(r, q, {"state"})
          /\ q.state \in {"s_chunk_size_almost_done", "s_chunk_parameters"}
      BY <2>2 DEF Clear, Goto, Changes, IsRecord, Fields
    <3>2. q.length \in 0 .. MaxLength - 1
      BY <1>2, <3>1 DEF Clear, Changes, Fields, Sizes, ParserConstants
    <3> QED BY <3>1, <3>2 DEF Sized, Sizes, Changes, Fields
  <2>3. CASE q = Grow(r, 16, Hex(u)) /\ IsHex(u)
    <3>1. Hex(u) \in 0 .. 16 - 1
      BY <2>3, DigitTypes
    <3>2. \/ Stopped(q)
          \/ /\ Changes(r, q, {"length"}) /\ q.length = r.length * 16 + Hex(u)
             /\ q.length \in 0 .. MaxLength - 1
      <4>1. /\ IsRecord(r) /\ r.length \in 0 .. MaxLength /\ r.aborted = FALSE
            /\ r.errno = "OK"
        BY DEF Clear
      <4>2. 16 \in {10, 16} /\ 16 - 1 \in Int
        OBVIOUS
      <4> QED BY <2>3, <3>1, <4>1, <4>2, GrowIs
    <3>3. ASSUME Changes(r, q, {"length"})
          PROVE  Changes(r, q, {"state", "length"}) /\ q.state = "s_chunk_size"
      BY <1>2, <3>3 DEF Changes, Fields
    <3> QED BY <1>2, <2>3, <3>2, <3>3 DEF Sized, Sizes
  <2>4. CASE q = Fail(r, "INVALID_CHUNK_SIZE")
    BY <2>4 DEF Clear, Stopped, Failed, Fail, IsRecord, Fields
  <2> QED BY <2>1, <2>2, <2>3, <2>4
<1>3. CASE r.state = "s_chunk_parameters"
  <2>1. q = Goto(r, "s_chunk_size_almost_done") \/ q = r
    BY <1>0, <1>3, Dispatch DEF ChunkParameters
  <2>2. Changes(r, q, {"state"}) /\ q.state \in {"s_chunk_size_almost_done", "s_chunk_parameters"}
    BY <1>3, <2>1 DEF Clear, Goto, Changes, IsRecord, Fields
  <2>3. q.length \in 0 .. MaxLength - 1
    BY <1>3, <2>2 DEF Clear, Changes, Fields, Sizes, ParserConstants
  <2> QED BY <2>2, <2>3 DEF Sized, Sizes, Changes, Fields
<1> QED BY <1>1, <1>2, <1>3

LEMMA SizedAfter ==
  ASSUME ParserConstants, NEW r, NEW u, Ready(r),
         r.state \in {"s_chunk_size_start", "s_chunk_size", "s_chunk_parameters"}
  PROVE  After(r, u, Switch(r, u))
<1> DEFINE q == Switch(r, u)
<1>0. Clear(r) /\ r.calls = <<>> /\ "chunked" \in r.flags
  BY ReadyClear DEF Ready, Sound, Loops, Bodies, Chunks, Sizes
<1>1. Stopped(q) \/ Sized(r, u, q)
  BY <1>0, SizedStep DEF Ready, Sound
<1> HIDE DEF q
<1>2. CASE Stopped(q)
  BY <1>2 DEF Stopped, After, q
<1>3. CASE Sized(r, u, q)
  <2>1. q.length \in 0 .. MaxLength /\ q.length < MaxLength
    BY <1>3 DEF Sized, ParserConstants
  <2>2. q.state \in States /\ q.state \in HeaderStates \ {"s_dead", "s_chunk_size_start"}
    BY <1>3 DEF Sized, Sizes, States, HeaderStates
  <2>3. IsParser(q) /\ q.aborted = FALSE
    BY <1>0, <1>3, <2>1, <2>2 DEF Clear, IsParser, Sized, Changes, Fields
  <2>4. Sound(q) /\ Running(q)
    BY <1>0, <1>3, <2>1 DEF Clear, Sized, Sound, Running, Changes, Fields, Loops, Chunks, Sizes
  <2>5. Reported(r, q) /\ Spelled(r, u, q)
    BY <1>0, <1>3 DEF Sized, Changes, Fields, Reported, Plain, Named, Spelled, Sizes
  <2>6. ~Completes(q)
    BY <1>0, <1>3, CallsMade DEF Sized, Changes, Fields, Plain
  <2>7. Counted(r, q)
    BY <1>0, <1>3, <2>2, <2>6 DEF Clear, Sized, Changes, Fields, Counted, Ends, Taken, HeaderStates
  <2> QED BY <2>3, <2>4, <2>5, <2>7 DEF After, q
<1> QED BY <1>1, <1>2, <1>3

LEMMA ChunkSizeAlmostDoneAfter ==
  ASSUME ParserConstants, NEW r, NEW u, Ready(r), r.state = "s_chunk_size_almost_done"
  PROVE  After(r, u, Switch(r, u))
<1> DEFINE q == Switch(r, u)
<1>0. Clear(r) /\ r.calls = <<>> /\ "chunked" \in r.flags /\ r.length < MaxLength
  BY ReadyClear DEF Ready, Sound, Loops, Bodies, Chunks, Sizes
<1>1. q = ChunkSizeAlmostDone(r, u)
  BY Dispatch
<1> HIDE DEF q
<1>2. \/ Stopped(q)
      \/ /\ Changes(r, q, {"state", "nread"})
         /\ q.state = "s_chunk_data" /\ q.nread = 0 /\ r.length # 0
      \/ /\ Changes(r, q, {"state", "nread", "flags"})
         /\ q.state = "s_header_field_start" /\ q.nread = 0
  BY <1>0, <1>1
     DEF Clear, ChunkSizeAlmostDone, Assert, Flag, Fail, Goto, Stopped, Failed, Changes, IsRecord, Fields
<1>3. CASE Stopped(q)
  BY <1>3 DEF Stopped, After, q
<1>4. CASE ~Stopped(q)
  <2>1. q.state \in States
    BY <1>2, <1>4 DEF States, HeaderStates, BodyStates
  <2>2. q.nread \in Nat
    BY <1>2, <1>4
  <2>3. IsParser(q) /\ q.aborted = FALSE
    BY <1>0, <1>2, <1>4, <2>1, <2>2 DEF Clear, IsParser, Changes, Fields
  <2>4. Sound(q)
    BY <1>0, <1>2, <1>4 DEF Clear, Sound, Changes, Fields, Chunks, Sizes
  <2>5. Running(q)
    BY <1>0, <1>2, <1>4 DEF Clear, Running, Changes, Fields, Loops
  <2>6. Reported(r, q) /\ Spelled(r, u, q)
    BY <1>0, <1>2, <1>4 DEF Changes, Fields, Reported, Plain, Named, Spelled
  <2>7. Counted(r, q)
    BY <1>0, <1>2, <1>4 DEF Clear, Changes, Fields, Counted, Ends, HeaderStates
  <2> QED BY <2>3, <2>4, <2>5, <2>6, <2>7 DEF After, q
<1> QED BY <1>3, <1>4

(* A unit of a body, or of the end of a chunk.                             *)
Filled(r, q) ==
  /\ Changes(r, q, {"state", "length", "marks", "calls", "nread"})
  /\ q.length \in 0 .. MaxLength
  /\ \A m \in q.marks : m = "body" /\ q.state \in Bodies
  /\ q.calls \in {<<>>, <<"body">>}
  /\ \/ q.state \in {"s_chunk_data", "s_body_identity"} /\ q.length \notin {0, MaxLength}
     \/ q.state = "s_chunk_data_almost_done" /\ q.length = 0
     \/ q.state = "s_chunk_data_done"
     \/ q.state = "s_chunk_size_start" /\ q.nread = 0
     \/ q.state = "s_body_identity_eof"
  /\ q.nread \in {0, r.nread}
  /\ q.state \in Chunks => "chunked" \in r.flags

LEMMA FilledAfter ==
  ASSUME ParserConstants, NEW r, NEW u, NEW q, Ready(r),
         r.state \in Bodies \cup {"s_chunk_data_done"}, Filled(r, q)
  PROVE  After(r, u, q)
<1>0. /\ r.run = Outside /\ r.skip = FALSE /\ r.aborted = FALSE /\ r.errno = "OK"
      /\ r.type = "response" /\ r.nread \in Nat
  BY DEF Ready, IsParser, Running, Loops, Bodies
<1>1. /\ q.run = Outside /\ q.skip = FALSE /\ q.aborted = FALSE /\ q.errno = "OK"
      /\ q.type = "response" /\ IsRecord(q) /\ q.flags = r.flags
  BY <1>0 DEF Filled, Changes, Fields
<1>2. q.state \in States
  BY DEF Filled, States, HeaderStates, BodyStates
<1>3. IsParser(q)
  <2>1. q.nread \in Nat
    BY <1>0 DEF Filled
  <2>2. q.skip \in BOOLEAN
    BY <1>1
  <2> QED BY <1>1, <1>2, <2>1, <2>2 DEF Filled, IsParser
<1>4. Sound(q)
  BY <1>1 DEF Filled, Sound, Chunks, Sizes
<1>5. Running(q)
  BY <1>1, HeldIs DEF Filled, Running, Loops, Bodies
<1>6. Reported(r, q) /\ Spelled(r, u, q)
  BY DEF Filled, Reported, Plain, Named, Bodies, Spelled
<1>7. Counted(r, q)
  BY <1>1 DEF Filled, Counted, Ends, HeaderStates
<1> QED BY <1>1, <1>3, <1>4, <1>5, <1>6, <1>7 DEF After

LEMMA BodyAfter ==
  ASSUME ParserConstants, NEW r, NEW u, Ready(r), r.state \in Bodies \cup {"s_chunk_data_done"}
  PROVE  After(r, u, Switch(r, u))
<1> DEFINE q == Switch(r, u)
           m == Mark(r, "body")
           l == [m EXCEPT !.length = @ - 1]
<1>0. /\ IsRecord(r) /\ r.type = "response" /\ r.nread \in Nat /\ r.length \in 0 .. MaxLength
      /\ r.run = Outside /\ r.skip = FALSE /\ r.aborted = FALSE /\ r.errno = "OK" /\ r.calls = <<>>
      /\ \A k \in r.marks : k = "body" /\ r.state \in Bodies
      /\ r.state \in Chunks => "chunked" \in r.flags
      /\ r.state \in {"s_chunk_data", "s_body_identity"} => r.length \notin {0, MaxLength}
      /\ r.state = "s_chunk_data_almost_done" => r.length = 0
  BY HeldIs DEF Ready, IsParser, Sound, Running, Loops, Bodies
<1>1. /\ Changes(r, m, {"marks"}) /\ "body" \in m.marks /\ \A k \in m.marks : k = "body"
      /\ Changes(r, l, {"marks", "length"}) /\ l.marks = m.marks /\ l.length = r.length - 1
  BY <1>0 DEF Mark, Changes, IsRecord, Fields
<1>2. CASE r.state = "s_chunk_data"
  <2>1. Assert(r, "chunked" \in r.flags /\ r.length \notin {0, MaxLength}) = r
    BY <1>0, <1>2 DEF Assert, Chunks
  <2>2. q = IF l.length = 0 THEN Goto(l, "s_chunk_data_almost_done") ELSE l
    BY <1>2, <2>1, Dispatch DEF ChunkData
  <2> HIDE DEF q, l, m
  <2>3. /\ Changes(r, q, {"state", "length", "marks"}) /\ q.length = r.length - 1
        /\ q.state = IF q.length = 0 THEN "s_chunk_data_almost_done" ELSE "s_chunk_data"
        /\ \A k \in q.marks : k = "body"
    BY <1>1, <1>2, <2>2 DEF Goto, Changes, IsRecord, Fields
  <2>4. q.length \in 0 .. MaxLength /\ q.length # MaxLength
    BY <1>0, <1>2, <2>3 DEF ParserConstants
  <2>5. Filled(r, q)
    BY <1>0, <1>2, <2>3, <2>4 DEF Filled, Changes, Fields, Bodies, Chunks
  <2> QED BY <2>5, FilledAfter DEF q
<1>3. CASE r.state = "s_chunk_data_almost_done"
  <2> DEFINE g == Goto(r, "s_chunk_data_done")
  <2>1. Assert(r, "chunked" \in r.flags /\ r.length = 0) = r
    BY <1>0, <1>3 DEF Assert, Chunks
  <2>2. q = DataCall(g, "body") \/ q = Fail(r, "STRICT")
    BY <1>3, <2>1, Dispatch DEF ChunkDataAlmostDone
  <2>3. CASE q = DataCall(g, "body")
    <3>1. Changes(r, g, {"state"}) /\ g.state = "s_chunk_data_done"
      BY <1>0 DEF Goto, Changes, IsRecord, Fields
    <3>2. IsRecord(g) /\ g.calls = <<>> /\ g.marks = r.marks
      BY <1>0, <3>1 DEF Changes, Fields
    <3> HIDE DEF g, q
    <3>3. /\ Changes(g, q, {"marks", "calls"}) /\ q.calls \in {<<>>, <<"body">>}
          /\ \A k : k \in q.marks <=> k \in g.marks /\ k # "body"
      BY <2>3, <3>2, DataCallIs
    <3>4. q.length = r.length /\ q.nread = r.nread /\ q.state = "s_chunk_data_done"
      BY <3>1, <3>3 DEF Changes, Fields
    <3>5. Changes(r, q, {"state", "length", "marks", "calls", "nread"})
      BY <3>1, <3>3 DEF Changes, Fields
    <3>6. Filled(r, q)
      BY <1>0, <1>3, <3>2, <3>3, <3>4, <3>5 DEF Filled, Chunks
    <3> QED BY <3>6, FilledAfter DEF q
  <2>4. CASE q = Fail(r, "STRICT")
    BY <1>0, <2>4 DEF Fail, After, Failed, IsRecord, Fields
  <2> QED BY <2>2, <2>3, <2>4
<1>4. CASE r.state = "s_chunk_data_done"
  <2>1. Assert(r, "chunked" \in r.flags) = r
    BY <1>0, <1>4 DEF Assert, Chunks
  <2>2. q = Goto([r EXCEPT !.nread = 0], "s_chunk_size_start") \/ q = Fail(r, "STRICT")
    BY <1>4, <2>1, Dispatch DEF ChunkDataDone
  <2> HIDE DEF q
  <2>3. CASE q = Goto([r EXCEPT !.nread = 0], "s_chunk_size_start")
    <3>1. Changes(r, q, {"state", "nread"}) /\ q.state = "s_chunk_size_start" /\ q.nread = 0
      BY <1>0, <2>3 DEF Goto, Changes, IsRecord, Fields
    <3>2. Filled(r, q)
      BY <1>0, <1>4, <3>1 DEF Filled, Changes, Fields, Bodies, Chunks
    <3> QED BY <3>2, FilledAfter DEF q
  <2>4. CASE q = Fail(r, "STRICT")
    <3>1. q.aborted = FALSE /\ Failed(q)
      BY <1>0, <2>4 DEF Fail, Failed, IsRecord, Fields
    <3> QED BY <3>1 DEF After, q
  <2> QED BY <2>2, <2>3, <2>4
<1>5. CASE r.state = "s_body_identity"
  <2> DEFINE d == DataCall(l, "body")
  <2>1. Assert(r, r.length \notin {0, MaxLength}) = r
    BY <1>0, <1>5 DEF Assert
  <2>2. q = IF l.length = 0 THEN MessageDone(d) ELSE l
    BY <1>5, <2>1, Dispatch DEF BodyIdentity
  <2>3. r.length - 1 \in 0 .. MaxLength /\ r.length - 1 # MaxLength
    BY <1>0, <1>5 DEF ParserConstants
  <2>4. IsRecord(l) /\ l.calls = <<>>
    BY <1>0, <1>1 DEF Changes, Fields
  <2> HIDE DEF q, l, m
  <2>5. CASE q = l /\ l.length # 0
    <3>1. Filled(r, q)
      BY <1>0, <1>1, <1>5, <2>3, <2>5 DEF Filled, Changes, Fields, Bodies, Chunks
    <3> QED BY <3>1, FilledAfter DEF q
  <2>6. CASE q = MessageDone(d) /\ l.length = 0
    <3>1. /\ Changes(l, d, {"marks", "calls"}) /\ d.calls = <<"body">>
          /\ \A k : k \in d.marks <=> k \in l.marks /\ k # "body"
      BY <1>1, <2>4, DataCallIs
    <3> HIDE DEF d
    <3>2. d.marks = {}
      BY <1>1, <3>1
    <3>3. d.length = r.length - 1 /\ d.nread = r.nread
      BY <1>1, <3>1 DEF Changes, Fields
    <3>4. Clear(d)
      BY <1>0, <1>1, <2>3, <3>1, <3>2, <3>3 DEF Clear, Changes, Fields
    <3>5. Over(d, q)
      BY <2>6, <3>4, MessageDoneOver DEF Clear
    <3> QED BY <3>1, <3>3, <3>4, <3>5, OverAfter DEF q
  <2> QED BY <2>2, <2>5, <2>6
<1>6. CASE r.state = "s_body_identity_eof"
  <2>1. q = m
    BY <1>6, Dispatch
  <2> HIDE DEF q, m
  <2>2. Filled(r, q)
    BY <1>0, <1>1, <1>6, <2>1 DEF Filled, Changes, Fields, Bodies, Chunks, Sizes
  <2> QED BY <2>2, FilledAfter DEF q
<1> QED BY <1>2, <1>3, <1>4, <1>5, <1>6 DEF Bodies

(* Every state.                                                            *)
LEMMA SwitchAfter ==
  ASSUME ParserConstants, NEW r, NEW u, Ready(r)
  PROVE  After(r, u, Switch(r, u))
<1>1. r.state \in States
  BY DEF Ready, IsParser
<1>2. r.state \in Line \cup Between \cup Loops \cup Bodies \cup Sizes
                    \cup {"s_dead", "s_chunk_size_start", "s_chunk_data_done"}
  BY <1>1 DEF States, HeaderStates, BodyStates, Line, Between, Loops, Bodies, Sizes
<1> QED BY <1>2, LineAfter, BetweenAfter, HeaderFieldAfter, HeaderValueAfter, DeadAfter,
           SizedAfter, ChunkSizeAlmostDoneAfter, BodyAfter DEF Loops, Sizes
-----------------------------------------------------------------------------
(* The inductive invariant, for a parser that has not failed.              *)
Kept ==
  /\ IsParser(p) /\ Sound(p)
  /\ IF in THEN Running(p) ELSE p.marks = {} /\ p.run = Outside /\ p.skip = FALSE
  /\ p.run # Outside => p.run > 0
  /\ p.nread <= MaxHeader
  /\ p.state = "s_chunk_size_start" => p.nread = 0

(* Beyond the units seen there are counted: the first unit of the loop     *)
(* under way, which the loop counts again, and one for each cut.           *)
Tallied ==
  p.state \in HeaderStates \ {"s_dead"} =>
    LET over == Taken(p) - seen - (IF p.run = Outside THEN 0 ELSE 1)
    IN  over \in 0 .. cuts

Paired == turn = "field" => p.state \in Named

Exact ==
  (\/ p.state = "s_chunk_size"
   \/ p.state = "s_header_value" /\ p.hstate = "h_content_length")
  => p.length = num

ParserInv ==
  /\ p.aborted = FALSE /\ in \in BOOLEAN /\ seen \in Nat /\ cuts \in Nat
  /\ ~Failed(p) => Kept /\ Tallied /\ Paired /\ Exact
-----------------------------------------------------------------------------
(* One unit: what is counted before the switch.                            *)
Counting(r) ==
  /\ r.state = p.state /\ r.hstate = p.hstate /\ r.length = p.length
  /\ r.nread \in Nat /\ r.nread <= MaxHeader
  /\ r.run \in Nat \cup {Outside}
  /\ Taken(r) = Taken(p) + IF p.run = Outside /\ p.state \in HeaderStates THEN 1 ELSE 0

LEMMA UnitStep ==
  ASSUME ParserConstants, NEW u, p.aborted = FALSE, ~Failed(p), Kept, in
  PROVE  LET q == Unit(p, u)
         IN  \/ q.aborted = FALSE /\ Failed(q)
             \/ \E r : Counting(r) /\ After(r, u, q)
<1> DEFINE s == [p EXCEPT !.calls = <<>>]
           inside == s.run # Outside
           q == IF s.state \in HeaderStates /\ ~inside THEN Count(s, 1) ELSE s
           r == IF s.state \in Loops /\ ~inside THEN [q EXCEPT !.run = 0] ELSE q
           z == Unit(p, u)
<1>0. z = IF Failed(q) THEN q ELSE Switch(r, u)
  BY DEF Unit, Loops
<1>1. Changes(p, s, {"calls"}) /\ s.calls = <<>>
  BY DEF Kept, IsParser, Changes, IsRecord, Fields
<1>2. /\ IsRecord(s) /\ p.errno = "OK" /\ p.nread \in Nat /\ p.nread <= MaxHeader
      /\ p.run \in Nat \cup {Outside} /\ p.skip \in BOOLEAN /\ p.length \in 0 .. MaxLength
      /\ p.type = "response" /\ p.state \in States /\ Sound(p) /\ Running(p)
      /\ p.state = "s_chunk_size_start" => p.nread = 0
  BY <1>1 DEF Kept, IsParser, Failed, Changes
<1> HIDE DEF s, z
<1>3. /\ Changes(s, q, {"nread", "errno"})
      /\ q.nread = s.nread + (IF s.state \in HeaderStates /\ ~inside THEN 1 ELSE 0)
      /\ q.errno = "OK" => q.nread <= MaxHeader
  <2>1. CASE s.state \in HeaderStates /\ ~inside
    BY <1>1, <1>2, <2>1, CountIs DEF Changes, Fields, ParserConstants
  <2>2. CASE ~(s.state \in HeaderStates /\ ~inside)
    BY <1>1, <1>2, <2>2 DEF Changes, Fields
  <2> QED BY <2>1, <2>2
<1>4. CASE Failed(q)
  <2>1. z = q
    BY <1>0, <1>4
  <2>2. q.aborted = FALSE
    BY <1>1, <1>3 DEF Changes, Fields
  <2> QED BY <1>4, <2>1, <2>2 DEF z
<1>5. CASE ~Failed(q)
  <2> HIDE DEF q
  <2>1. /\ Changes(q, r, {"run"})
        /\ r.run = IF s.state \in Loops /\ ~inside THEN 0 ELSE q.run
    BY <1>3 DEF Changes, IsRecord, Fields
  <2> HIDE DEF r
  <2>2. /\ IsRecord(r) /\ r.type = "response" /\ r.state = p.state /\ r.hstate = p.hstate
        /\ r.flags = p.flags /\ r.length = p.length /\ r.marks = p.marks /\ r.skip = p.skip
        /\ r.calls = <<>> /\ r.aborted = FALSE /\ r.errno = "OK"
        /\ r.nread = p.nread + (IF p.state \in HeaderStates /\ p.run = Outside THEN 1 ELSE 0)
        /\ r.nread <= MaxHeader
        /\ r.run = IF p.state \in Loops /\ p.run = Outside THEN 0 ELSE p.run
    BY <1>1, <1>2, <1>3, <1>5, <2>1 DEF Changes, Fields, Failed
  <2>3. r.nread \in Nat /\ r.run \in Nat \cup {Outside}
    BY <1>2, <2>2
  <2>4. Ready(r)
    <3>1. IsParser(r)
      BY <1>2, <2>2, <2>3 DEF IsParser
    <3>2. Sound(r)
      BY <1>2, <2>2 DEF Sound
    <3>3. Running(r)
      BY <1>2, <2>2 DEF Running
    <3>4. r.state \in Loops => r.run # Outside
      BY <1>2, <2>2
    <3>5. r.state = "s_chunk_size_start" => r.nread = 1
      <4>1. ASSUME p.state = "s_chunk_size_start"
            PROVE  p.nread = 0 /\ p.run = Outside /\ p.state \in HeaderStates
        BY <1>2, <4>1 DEF HeaderStates, Running, Loops
      <4> QED BY <2>2, <4>1
    <3> QED BY <2>2, <3>1, <3>2, <3>3, <3>4, <3>5 DEF Ready
  <2>5. Taken(r) = Taken(p) + IF p.run = Outside /\ p.state \in HeaderStates THEN 1 ELSE 0
    BY <1>2, <2>2, <2>3 DEF Taken
  <2>6. Counting(r)
    BY <2>2, <2>3, <2>5 DEF Counting
  <2>7. After(r, u, z)
    BY <1>0, <1>5, <2>4, SwitchAfter
  <2> QED BY <2>6, <2>7 DEF z
<1> QED BY <1>4, <1>5

(* The callbacks of a step and the turn.                                   *)
LEMMA TurnIs ==
  ASSUME NEW calls
  PROVE  /\ calls \in Plain => Turn(calls) = turn
         /\ calls = <<"header_field">> => Turn(calls) = "field"
         /\ calls = <<"header_value">> => Turn(calls) = "value"
         /\ calls \in Final => Turn(calls) = "none"
BY DEF Plain, Final, Turn

LEMMA NumIs ==
  ASSUME NEW q, NEW u
  PROVE  /\ q.state = "s_chunk_size" /\ IsHex(u) =>
              Num(q, u) = IF p.state = "s_chunk_size_start" THEN Hex(u) ELSE num * 16 + Hex(u)
         /\ q.state = "s_header_value" /\ q.hstate = "h_content_length" =>
              Num(q, u) = IF ~IsNum(u) THEN num
                          ELSE IF p.state = "s_header_value" THEN num * 10 + Digits[u]
                          ELSE Digits[u]
BY DEF Num

LEMMA ByteStep ==
  ASSUME ParserConstants, ParserInv, NEW u, Byte(u)
  PROVE  ParserInv'
<1> DEFINE q == Unit(p, u)
<1>0. /\ in /\ ~Failed(p) /\ p' = q /\ in' = in
      /\ seen' = IF SectionEnds THEN 0 ELSE seen + 1
      /\ cuts' = IF SectionEnds THEN 0 ELSE cuts
      /\ turn' = Turn(p'.calls) /\ num' = Num(p', u)
  BY DEF Byte
<1>1. /\ p.aborted = FALSE /\ seen \in Nat /\ cuts \in Nat /\ in \in BOOLEAN
      /\ Kept /\ Tallied /\ Paired /\ Exact
  BY <1>0 DEF ParserInv
<1>2. seen' \in Nat /\ cuts' \in Nat /\ in' \in BOOLEAN
  BY <1>0, <1>1
<1>3. \/ q.aborted = FALSE /\ Failed(q)
      \/ \E r : Counting(r) /\ After(r, u, q)
  BY <1>0, <1>1, UnitStep
<1> HIDE DEF q
<1>4. CASE q.aborted = FALSE /\ Failed(q)
  BY <1>0, <1>2, <1>4 DEF ParserInv, Failed
<1>5. CASE \E r : Counting(r) /\ After(r, u, q) /\ ~Failed(q)
  <2>1. PICK r : Counting(r) /\ After(r, u, q) /\ ~Failed(q)
    BY <1>5
  <2>2. /\ IsParser(q) /\ Sound(q) /\ Running(q) /\ q.aborted = FALSE
        /\ Counted(r, q) /\ Reported(r, q) /\ Spelled(r, u, q)
    BY <2>1 DEF After
  <2>3. r.state = p.state /\ r.hstate = p.hstate /\ r.length = p.length
    BY <2>1 DEF Counting
  <2>4. Ends(r, q) <=> SectionEnds
    BY <1>0, <2>3 DEF Ends, Completes, SectionEnds
  <2>5. Kept'
    <3>1. q.nread <= MaxHeader
      BY <2>1, <2>2 DEF Counting, Counted, ParserConstants
    <3>2. q.state = "s_chunk_size_start" => q.nread = 0
      BY <2>2 DEF Counted, Ends, HeaderStates
    <3>3. q.run # Outside => q.run > 0
      BY <2>2 DEF Counted
    <3> QED BY <1>0, <2>2, <3>1, <3>2, <3>3 DEF Kept, IsParser, IsRecord, Sound, Running
  <2>6. Tallied'
    <3> SUFFICES ASSUME q.state \in HeaderStates \ {"s_dead"}
                 PROVE  Taken(q) - seen' - (IF q.run = Outside THEN 0 ELSE 1) \in 0 .. cuts'
      BY <1>0 DEF Tallied, Taken
    <3>1. CASE SectionEnds
      BY <1>0, <2>2, <2>4, <3>1 DEF Counted, Taken
    <3>2. CASE ~SectionEnds
      <4>1. /\ p.state \in HeaderStates \ {"s_dead"}
            /\ Taken(q) = IF q.run = Outside THEN Taken(r) ELSE Taken(r) + 1
        BY <2>2, <2>3, <2>4, <3>2 DEF Counted
      <4>2. Taken(p) - seen - (IF p.run = Outside THEN 0 ELSE 1) \in 0 .. cuts
        BY <1>1, <4>1 DEF Tallied
      <4>3. Taken(r) = Taken(p) + IF p.run = Outside THEN 1 ELSE 0
        BY <2>1, <4>1 DEF Counting
      <4>4. Taken(p) \in Int
        BY <1>1 DEF Kept, IsParser, Taken
      <4>5. seen' = seen + 1 /\ cuts' = cuts
        BY <1>0, <3>2
      <4> HIDE DEF Taken
      <4> QED BY <1>1, <4>1, <4>2, <4>3, <4>4, <4>5
    <3> QED BY <3>1, <3>2
  <2>7. Paired'
    <3>1. CASE q.state \in Named
      BY <1>0, <3>1 DEF Paired
    <3>2. CASE q.calls \in Plain /\ p.state \notin Named
      BY <1>0, <1>1, <3>2, TurnIs DEF Paired
    <3>3. CASE q.calls \in {<<"header_value">>} \cup Final
      BY <1>0, <3>3, TurnIs DEF Paired
    <3> QED BY <2>2, <2>3, <3>1, <3>2, <3>3 DEF Reported
  <2>8. Exact'
    <3>1. CASE q.state = "s_chunk_size"
      BY <1>0, <1>1, <2>2, <2>3, <3>1, NumIs DEF Spelled, Exact
    <3>2. CASE q.state = "s_header_value" /\ q.hstate = "h_content_length"
      BY <1>0, <1>1, <2>2, <2>3, <3>2, NumIs DEF Spelled, Exact
    <3> QED BY <1>0, <3>1, <3>2 DEF Exact
  <2> QED BY <1>0, <1>2, <2>2, <2>5, <2>6, <2>7, <2>8 DEF ParserInv
<1> QED BY <1>3, <1>4, <1>5 DEF After
-----------------------------------------------------------------------------
(* A read begins: the marks that the states in hand expect are set again.  *)
LEMMA BeginStep ==
  ASSUME ParserInv, Begin
  PROVE  ParserInv'
<1>0. /\ ~in /\ ~Failed(p) /\ p' = Enter(p) /\ in' = TRUE
      /\ seen' = seen /\ cuts' = cuts /\ turn' = turn /\ num' = num
  BY DEF Begin
<1>1. /\ p.aborted = FALSE /\ seen \in Nat /\ cuts \in Nat
      /\ Kept /\ Tallied /\ Paired /\ Exact
  BY <1>0 DEF ParserInv
<1>2. IsParser(p) /\ Sound(p) /\ p.run = Outside
  BY <1>0, <1>1 DEF Kept
<1>3. /\ Changes(p, p', {"calls", "returned", "run", "skip", "marks"})
      /\ p'.run = Outside /\ p'.skip = FALSE
      /\ p'.marks = IF p.state \in DOMAIN MarkOf THEN {MarkOf[p.state]} ELSE {}
  BY <1>0, <1>2 DEF Enter, IsParser, Changes, IsRecord, Fields
<1>4. p'.marks = IF p.state \in Loops \cup {"s_res_status"} THEN Held(p.state) ELSE {}
  BY <1>3, HeldIs DEF MarkOf, Loops
<1>5. /\ p'.type = p.type /\ p'.state = p.state /\ p'.hstate = p.hstate /\ p'.flags = p.flags
      /\ p'.nread = p.nread /\ p'.length = p.length /\ p'.errno = p.errno
      /\ p'.aborted = p.aborted /\ IsRecord(p')
  BY <1>3 DEF Changes, Fields
<1>6. IsParser(p') /\ Sound(p')
  BY <1>2, <1>3, <1>5 DEF IsParser, Sound
<1>7. Running(p')
  BY <1>3, <1>4, <1>5 DEF Running
<1>8. Kept'
  BY <1>0, <1>1, <1>3, <1>5, <1>6, <1>7 DEF Kept, IsParser, IsRecord, Sound, Running
<1>9. Tallied' /\ Paired' /\ Exact'
  BY <1>0, <1>1, <1>2, <1>3, <1>5 DEF Tallied, Taken, Paired, Exact
<1> QED BY <1>0, <1>1, <1>5, <1>8, <1>9 DEF ParserInv

(* A read ends: the loop under way is counted, and at most one mark is     *)
(* handed to its callback.                                                 *)
LEMMA FlushIs ==
  ASSUME NEW r, \A m, k \in r.marks : m = k,
         r.marks \subseteq {"header_field", "header_value", "body", "status"}
  PROVE  /\ Cardinality(r.marks) <= 1
         /\ LET calls == Flush(r, Marked[1]) \o Flush(r, Marked[2])
                           \o Flush(r, Marked[3]) \o Flush(r, Marked[4])
            IN  calls = IF r.marks = {} THEN <<>> ELSE <<CHOOSE m \in r.marks : TRUE>>
<1>1. CASE r.marks = {}
  <2>1. Cardinality(r.marks) = 0
    BY <1>1, FS_EmptySet
  <2>2. \A m : Flush(r, m) = <<>>
    BY <1>1 DEF Flush
  <2> QED BY <1>1, <2>1, <2>2
<1>2. ASSUME NEW m \in r.marks
      PROVE  /\ Cardinality(r.marks) = 1 /\ r.marks = {m} /\ (CHOOSE k \in r.marks : TRUE) = m
             /\ Flush(r, m) = <<m>> /\ \A k : k # m => Flush(r, k) = <<>>
  <2>1. r.marks = {m}
    OBVIOUS
  <2> QED BY <2>1, FS_Singleton DEF Flush
<1>3. ASSUME NEW m \in r.marks
      PROVE  Flush(r, Marked[1]) \o Flush(r, Marked[2])
               \o Flush(r, Marked[3]) \o Flush(r, Marked[4]) = <<m>>
  <2>1. Marked[1] = "header_field" /\ Marked[2] = "header_value" /\ Marked[3] = "body"
        /\ Marked[4] = "status"
    BY DEF Marked
  <2>2. /\ <<>> \o <<>> = <<>> /\ <<m>> \o <<>> = <<m>> /\ <<>> \o <<m>> = <<m>>
    OBVIOUS
  <2>3. CASE m = "header_field"
    BY <1>2, <2>1, <2>2, <2>3
  <2>4. CASE m = "header_value"
    BY <1>2, <2>1, <2>2, <2>4
  <2>5. CASE m = "body"
    BY <1>2, <2>1, <2>2, <2>5
  <2>6. CASE m = "status"
    BY <1>2, <2>1, <2>2, <2>6
  <2> QED BY <2>3, <2>4, <2>5, <2>6
<1> QED BY <1>1, <1>2, <1>3

LEMMA EndOfDataIs ==
  ASSUME ParserConstants, NEW r, IsParser(r), Running(r), ~Failed(r), r.nread <= MaxHeader
  PROVE  LET q == EndOfData(r)
         IN  /\ Changes(r, q, {"calls", "run", "skip", "nread", "errno", "marks", "aborted"})
             /\ q.aborted = r.aborted /\ q.run = Outside /\ q.skip = FALSE /\ q.marks = {}
             /\ q.nread = Taken(r)
             /\ ~Failed(q) => /\ q.nread <= MaxHeader
                              /\ r.state \notin Named => q.calls \in Plain
<1> DEFINE e == [r EXCEPT !.calls = <<>>, !.run = Outside, !.skip = FALSE]
           q == IF r.run = Outside THEN e ELSE Count(e, r.run)
           a == Assert(q, Cardinality(q.marks) <= 1)
           calls == Flush(a, Marked[1]) \o Flush(a, Marked[2])
                      \o Flush(a, Marked[3]) \o Flush(a, Marked[4])
           z == EndOfData(r)
<1>0. z = IF Failed(q) THEN [q EXCEPT !.marks = {}] ELSE [a EXCEPT !.marks = {}, !.calls = calls]
  BY DEF EndOfData
<1>1. /\ Changes(r, e, {"calls", "run", "skip"}) /\ e.run = Outside /\ e.skip = FALSE
      /\ e.nread = r.nread /\ e.errno = "OK"
  BY DEF IsParser, Changes, IsRecord, Fields, Failed
<1> HIDE DEF e, z
<1>2. /\ Changes(e, q, {"nread", "errno"}) /\ q.nread = Taken(r)
      /\ q.errno = "OK" => q.nread <= MaxHeader
  <2>1. CASE r.run = Outside
    BY <1>1, <2>1 DEF Changes, Taken
  <2>2. CASE r.run # Outside
    <3>1. r.run \in Nat /\ r.nread \in Nat /\ IsRecord(e)
      BY <1>1, <2>2 DEF IsParser, Changes
    <3> QED BY <1>1, <2>2, <3>1, CountIs DEF Changes, Fields, ParserConstants, Taken
  <2> QED BY <2>1, <2>2
<1> HIDE DEF q
<1>3. /\ q.marks = r.marks /\ q.run = Outside /\ q.skip = FALSE /\ q.aborted = r.aborted
      /\ IsRecord(q)
  BY <1>1, <1>2 DEF Changes, Fields
<1>4. r.marks \subseteq Held(r.state)
  BY DEF Running
<1>5. /\ \A m, k \in q.marks : m = k
      /\ q.marks \subseteq {"header_field", "header_value", "body", "status"}
      /\ r.state \notin Named => q.marks \subseteq {"body", "status"}
  <2>1. CASE r.state = "s_header_field"
    BY <1>3, <1>4, <2>1, HeldIs DEF Named
  <2>2. CASE r.state = "s_header_value"
    BY <1>3, <1>4, <2>2, HeldIs DEF Named
  <2>3. CASE r.state = "s_res_status"
    BY <1>3, <1>4, <2>3, HeldIs
  <2>4. CASE r.state \in Bodies
    BY <1>3, <1>4, <2>4, HeldIs
  <2>5. CASE r.state \notin Loops \cup Bodies \cup {"s_res_status"}
    BY <1>3, <1>4, <2>5, HeldIs
  <2> QED BY <2>1, <2>2, <2>3, <2>4, <2>5 DEF Loops
<1>6. a = q
  BY <1>5, FlushIs DEF Assert
<1> HIDE DEF a
<1>7. calls = IF q.marks = {} THEN <<>> ELSE <<CHOOSE m \in q.marks : TRUE>>
  BY <1>5, <1>6, FlushIs
<1>8. q.marks \subseteq {"body", "status"} => calls \in Plain
  BY <1>7 DEF Plain
<1> HIDE DEF calls
<1>9. CASE Failed(q)
  <2>1. Changes(q, z, {"marks"}) /\ z.marks = {}
    BY <1>0, <1>3, <1>9 DEF Changes, IsRecord, Fields
  <2>2. Changes(r, z, {"calls", "run", "skip", "nread", "errno", "marks", "aborted"})
    BY <1>1, <1>2, <2>1 DEF Changes, Fields
  <2> QED BY <1>2, <1>3, <1>9, <2>1, <2>2 DEF Changes, Fields, Failed, z
<1>10. CASE ~Failed(q)
  <2>1. Changes(q, z, {"marks", "calls"}) /\ z.marks = {} /\ z.calls = calls
    BY <1>0, <1>3, <1>6, <1>10 DEF Changes, IsRecord, Fields
  <2>2. Changes(r, z, {"calls", "run", "skip", "nread", "errno", "marks", "aborted"})
    BY <1>1, <1>2, <2>1 DEF Changes, Fields
  <2> QED BY <1>2, <1>3, <1>5, <1>8, <1>10, <2>1, <2>2 DEF Changes, Fields, Failed, z
<1> QED BY <1>9, <1>10

LEMMA EndStep ==
  ASSUME ParserConstants, ParserInv, End
  PROVE  ParserInv'
<1>0. /\ in /\ ~Failed(p) /\ p' = EndOfData(p) /\ in' = FALSE
      /\ cuts' = IF p.run > 0 THEN cuts + 1 ELSE cuts
      /\ turn' = Turn(p'.calls) /\ seen' = seen /\ num' = num
  BY DEF End
<1>1. /\ p.aborted = FALSE /\ seen \in Nat /\ cuts \in Nat
      /\ Kept /\ Tallied /\ Paired /\ Exact
  BY <1>0 DEF ParserInv
<1>2. /\ IsParser(p) /\ Sound(p) /\ Running(p) /\ p.nread <= MaxHeader
      /\ p.nread \in Nat /\ p.run \in Nat \cup {Outside} /\ (p.run # Outside => p.run > 0)
  BY <1>0, <1>1 DEF Kept, IsParser
<1>3. /\ Changes(p, p', {"calls", "run", "skip", "nread", "errno", "marks", "aborted"})
      /\ p'.aborted = p.aborted /\ p'.run = Outside /\ p'.skip = FALSE /\ p'.marks = {}
      /\ p'.nread = Taken(p)
      /\ ~Failed(p') => /\ p'.nread <= MaxHeader
                        /\ p.state \notin Named => p'.calls \in Plain
  BY <1>0, <1>2, EndOfDataIs
<1>4. cuts' \in Nat /\ Taken(p) \in Nat
  BY <1>0, <1>1, <1>2 DEF Taken
<1>5. CASE Failed(p')
  BY <1>0, <1>1, <1>3, <1>4, <1>5 DEF ParserInv, Failed
<1>6. CASE ~Failed(p')
  <2>1. /\ p'.type = p.type /\ p'.state = p.state /\ p'.hstate = p.hstate
        /\ p'.flags = p.flags /\ p'.length = p.length /\ IsRecord(p')
    BY <1>3 DEF Changes, Fields
  <2>2. IsParser(p')
    <3>1. p'.nread \in Nat /\ p'.skip \in BOOLEAN
      BY <1>3, <1>4
    <3> QED BY <1>2, <1>3, <2>1, <3>1 DEF IsParser
  <2>3. p'.state = "s_chunk_size_start" => p'.nread = 0
    BY <1>1, <1>2, <1>3, <2>1 DEF Kept, Running, Loops, Taken
  <2>4. Kept'
    BY <1>0, <1>2, <1>3, <1>6, <2>1, <2>2, <2>3 DEF Kept, IsParser, IsRecord, Sound
  <2>5. Tallied'
    <3> SUFFICES ASSUME p.state \in HeaderStates \ {"s_dead"}
                 PROVE  p'.nread - seen' - 0 \in 0 .. cuts'
      BY <1>3, <2>1 DEF Tallied, Taken
    <3>1. Taken(p) - seen - (IF p.run = Outside THEN 0 ELSE 1) \in 0 .. cuts
      BY <1>1 DEF Tallied
    <3> QED BY <1>0, <1>1, <1>2, <1>3, <1>4, <3>1
  <2>6. Paired'
    BY <1>0, <1>1, <1>3, <1>6, <2>1, TurnIs DEF Paired
  <2>7. Exact'
    BY <1>0, <1>1, <2>1 DEF Exact
  <2> QED BY <1>0, <1>1, <1>3, <1>4, <2>4, <2>5, <2>6, <2>7 DEF ParserInv
<1> QED BY <1>5, <1>6

(* The server closes: behind a body that ends with the stream, the message *)
(* is complete; between two messages nothing is; elsewhere it is an error. *)
LEMMA EofIs ==
  ASSUME ParserConstants, NEW r, IsParser(r), ~Failed(r), NEW q, q = Eof(r), ~Failed(q)
  PROVE  /\ IsRecord(q) /\ q.type = "response" /\ q.length \in 0 .. MaxLength
         /\ q.marks = r.marks /\ q.run = r.run /\ q.skip = r.skip /\ q.aborted = r.aborted
         /\ q.errno = "OK" /\ q.nread \in {0, r.nread}
         /\ \/ q.calls = <<>> /\ r.state \notin Named
            \/ q.calls = <<"message_complete">>
<1> DEFINE e == [r EXCEPT !.calls = <<>>]
           c == [e EXCEPT !.calls = Append(@, "message_complete")]
<1>1. Changes(r, e, {"calls"}) /\ e.calls = <<>> /\ e.state = r.state
  BY DEF IsParser, Changes, IsRecord, Fields
<1>2. Changes(e, c, {"calls"}) /\ c.calls = <<"message_complete">>
  BY <1>1, One DEF Changes, IsRecord, Fields
<1>3. CASE r.state \in {"s_dead", "s_start_res"}
  <2>1. q = e
    BY <1>1, <1>3 DEF Eof
  <2> HIDE DEF e
  <2> QED BY <1>1, <1>3, <2>1 DEF IsParser, Changes, Fields, Failed, Named
<1>4. CASE r.state = "s_body_identity_eof"
  <2>1. q = on_message_complete(c)
    BY <1>1, <1>4 DEF Eof, Failed, Changes, Fields
  <2> HIDE DEF e, c
  <2>2. c.type = "response" /\ c.length \in 0 .. MaxLength /\ c.marks = r.marks
        /\ c.run = r.run /\ c.skip = r.skip /\ c.aborted = r.aborted /\ c.errno = "OK"
        /\ c.nread = r.nread
    BY <1>1, <1>2 DEF IsParser, Changes, Fields, Failed
  <2>3. q \in {c, Reinit(c)}
    BY <2>1 DEF on_message_complete
  <2>4. CASE q = c
    BY <1>2, <2>2, <2>4 DEF Changes
  <2>5. CASE q = Reinit(c)
    <3>1. q.length \in 0 .. MaxLength
      BY <2>2, <2>5, ReinitIs DEF ParserConstants
    <3> QED BY <1>2, <2>2, <2>5, <3>1, ReinitIs
  <2> QED BY <2>3, <2>4, <2>5
<1>5. CASE r.state \notin {"s_dead", "s_start_res", "s_body_identity_eof"}
  <2>1. r.state # "s_start_req" /\ ~Failed(e)
    BY <1>1 DEF IsParser, States, Failed, Changes, Fields
  <2>2. q = Fail(e, "INVALID_EOF_STATE")
    BY <1>1, <1>5, <2>1 DEF Eof
  <2> HIDE DEF e
  <2> QED BY <1>1, <2>2 DEF Fail, Failed, Changes, IsRecord, Fields
<1> QED BY <1>3, <1>4, <1>5

LEMMA EofFails ==
  ASSUME NEW r, IsParser(r), ~Failed(r), Failed(Eof(r))
  PROVE  Eof(r) = Fail([r EXCEPT !.calls = <<>>], "INVALID_EOF_STATE")
<1> DEFINE e == [r EXCEPT !.calls = <<>>]
           c == [e EXCEPT !.calls = Append(@, "message_complete")]
<1>1. e.errno = "OK" /\ IsRecord(e) /\ e.type = "response"
  BY DEF IsParser, IsRecord, Fields, Failed
<1>2. c.errno = "OK" /\ c.type = "response"
  BY <1>1 DEF IsRecord, Fields
<1>3. Eof(r) \in {e, c, Reinit(c), Fail(e, "INVALID_EOF_STATE")}
  BY DEF Eof, on_message_complete
<1>4. Reinit(c).errno = "OK"
  BY <1>2, ReinitIs
<1> HIDE DEF e, c
<1> QED BY <1>1, <1>2, <1>3, <1>4 DEF Failed, e

LEMMA CloseStep ==
  ASSUME ParserConstants, ParserInv, Close
  PROVE  ParserInv'
<1> DEFINE e == Eof(p)
<1>0. /\ ~in /\ ~Failed(p) /\ p' = [e EXCEPT !.state = "s_dead"]
      /\ turn' = Turn(p'.calls)
      /\ in' = in /\ seen' = seen /\ cuts' = cuts /\ num' = num
  BY DEF Close
<1>1. /\ p.aborted = FALSE /\ seen \in Nat /\ cuts \in Nat /\ in \in BOOLEAN
      /\ Kept /\ Paired
  BY <1>0 DEF ParserInv
<1>2. IsParser(p) /\ p.marks = {} /\ p.run = Outside /\ p.skip = FALSE /\ p.nread <= MaxHeader
  BY <1>0, <1>1 DEF Kept
<1>3. CASE Failed(e)
  <2>1. e = Fail([p EXCEPT !.calls = <<>>], "INVALID_EOF_STATE")
    BY <1>0, <1>2, <1>3, EofFails
  <2>2. p'.errno # "OK" /\ p'.aborted = FALSE
    BY <1>0, <1>1, <1>2, <2>1 DEF Fail, IsParser, IsRecord, Fields
  <2> QED BY <1>0, <1>1, <2>2 DEF ParserInv, Failed
<1>4. CASE ~Failed(e)
  <2>1. /\ IsRecord(e) /\ e.type = "response" /\ e.length \in 0 .. MaxLength
        /\ e.marks = {} /\ e.run = Outside /\ e.skip = FALSE /\ e.aborted = FALSE
        /\ e.errno = "OK" /\ e.nread \in {0, p.nread}
        /\ \/ e.calls = <<>> /\ p.state \notin Named
           \/ e.calls = <<"message_complete">>
    BY <1>0, <1>1, <1>2, <1>4, EofIs
  <2> HIDE DEF e
  <2>2. Changes(e, p', {"state"}) /\ p'.state = "s_dead"
    BY <1>0, <2>1 DEF Changes, IsRecord, Fields
  <2>3. /\ IsRecord(p') /\ p'.type = "response" /\ p'.length \in 0 .. MaxLength
        /\ p'.marks = {} /\ p'.run = Outside /\ p'.skip = FALSE /\ p'.aborted = FALSE
        /\ p'.errno = "OK" /\ p'.nread \in {0, p.nread} /\ p'.calls = e.calls
    BY <2>1, <2>2 DEF Changes, Fields
  <2>4. p'.nread \in Nat /\ p'.nread <= MaxHeader /\ p'.state \in States
    BY <1>2, <2>2, <2>3 DEF IsParser, ParserConstants, States, HeaderStates
  <2>5. Kept'
    BY <1>0, <2>2, <2>3, <2>4 DEF Kept, IsParser, IsRecord, Sound, Chunks, Sizes
  <2>6. Tallied' /\ Exact'
    BY <2>2 DEF Tallied, Exact
  <2>7. Paired'
    BY <1>0, <1>1, <2>1, <2>3, TurnIs DEF Paired, Plain, Final
  <2> QED BY <1>0, <1>1, <2>3, <2>5, <2>6, <2>7 DEF ParserInv
<1> QED BY <1>3, <1>4

(* A new parser, for the first connection and for one that replaces it.    *)
LEMMA NewIs ==
  ASSUME ParserConstants
  PROVE  /\ IsParser(New) /\ New.state = "s_start_res" /\ New.errno = "OK"
         /\ New.aborted = FALSE /\ New.nread = 0 /\ New.marks = {}
         /\ New.run = Outside /\ New.skip = FALSE
<1>1. /\ IsRecord(New) /\ New.type = "response" /\ New.state = "s_start_res"
      /\ New.errno = "OK" /\ New.aborted = FALSE /\ New.nread = 0 /\ New.marks = {}
      /\ New.run = Outside /\ New.skip = FALSE /\ New.length = 0
  BY DEF New, http_parser_init, IsRecord, Fields
<1>2. New.length \in 0 .. MaxLength /\ New.state \in States
  BY <1>1 DEF ParserConstants, States, HeaderStates
<1>3. New.skip \in BOOLEAN
  BY <1>1
<1>4. New.nread \in Nat /\ New.run \in Nat \cup {Outside}
  BY <1>1
<1>5. IsParser(New)
  BY <1>1, <1>2, <1>3, <1>4 DEF IsParser
<1> QED BY <1>1, <1>5

LEMMA NewStep ==
  ASSUME ParserConstants, p' = New, in' = FALSE,
         seen' = 0, cuts' = 0, turn' = "none", num' = 0
  PROVE  ParserInv'
<1>1. /\ IsParser(p') /\ p'.state = "s_start_res" /\ p'.errno = "OK" /\ p'.aborted = FALSE
      /\ p'.nread = 0 /\ p'.marks = {} /\ p'.run = Outside /\ p'.skip = FALSE
  BY NewIs
<1>2. Kept'
  BY <1>1 DEF Kept, IsParser, IsRecord, Sound, Chunks, Sizes, ParserConstants
<1>3. Tallied' /\ Paired' /\ Exact'
  BY <1>1 DEF Tallied, Taken, Paired, Exact
<1> QED BY <1>1, <1>2, <1>3 DEF ParserInv

LEMMA NewFirst ==
  ASSUME ParserConstants, Init
  PROVE  ParserInv
<1>1. /\ IsParser(p) /\ p.state = "s_start_res" /\ p.errno = "OK" /\ p.aborted = FALSE
      /\ p.nread = 0 /\ p.marks = {} /\ p.run = Outside /\ p.skip = FALSE
      /\ in = FALSE /\ seen = 0 /\ cuts = 0 /\ turn = "none" /\ num = 0
  BY NewIs DEF Init
<1>2. Kept
  BY <1>1 DEF Kept, Sound, Chunks, Sizes, ParserConstants
<1>3. Tallied /\ Paired /\ Exact
  BY <1>1 DEF Tallied, Taken, Paired, Exact
<1> QED BY <1>1, <1>2, <1>3 DEF ParserInv

LEMMA SameStep ==
  ASSUME ParserInv, UNCHANGED vars
  PROVE  ParserInv'
<1>1. p' = p /\ in' = in /\ seen' = seen /\ cuts' = cuts /\ turn' = turn /\ num' = num
  BY DEF vars
<1>2. Kept = Kept' /\ Tallied = Tallied' /\ Paired = Paired' /\ Exact = Exact'
  BY <1>1 DEF Kept, IsParser, IsRecord, Sound, Running, Tallied, Taken, Paired, Exact
<1> QED BY <1>1, <1>2 DEF ParserInv

(* Whatever bytes arrive and wherever the reads are cut, the parser stays  *)
(* in a state that its asserts, its count of header bytes, its callbacks   *)
(* and its lengths agree with.                                             *)
THEOREM ParserInvariant == Spec => []ParserInv
<1>1. Init => ParserInv
  BY NewFirst, ParserAssumption
<1>2. ParserInv /\ [Next]_vars => ParserInv'
  <2> SUFFICES ASSUME ParserInv, [Next]_vars
               PROVE  ParserInv'
    OBVIOUS
  <2>1. CASE Begin
    BY <2>1, BeginStep
  <2>2. ASSUME NEW u \in Offered, Byte(u)
        PROVE  ParserInv'
    BY <2>2, ByteStep, ParserAssumption
  <2>3. CASE End
    BY <2>3, EndStep, ParserAssumption
  <2>4. CASE Close
    BY <2>4, CloseStep, ParserAssumption
  <2>5. CASE Connected
    BY <2>5, NewStep, ParserAssumption DEF Connected
  <2>6. CASE UNCHANGED vars
    BY <2>6, SameStep
  <2> QED BY <2>1, <2>2, <2>3, <2>4, <2>5, <2>6 DEF Next
<1> QED BY <1>1, <1>2, PTL DEF Spec

(* No assert of http_parser_execute fails (http_parser.c:1492, 1825,       *)
(* 1874-1875, 1959, 1978, 2009), so no response ends the load test.        *)
THEOREM NoAbortSafe == Spec => []NoAbort
<1>1. ParserInv => NoAbort
  BY DEF ParserInv, NoAbort
<1> QED BY <1>1, ParserInvariant, PTL

(* COUNT_HEADER_SIZE misses no byte of a header section, and counts one    *)
(* too many at most for each read that ends inside a name or a value, for  *)
(* any HTTP_MAX_HEADER_SIZE (http_parser.c:151).                           *)
THEOREM HeaderCountedSafe == Spec => []HeaderCounted
<1>1. ParserInv => HeaderCounted
  <2> SUFFICES ASSUME ParserInv, ~Failed(p), p.state \in HeaderStates \ {"s_dead"},
                      p.run = Outside
               PROVE  /\ p.nread >= seen /\ p.nread <= seen + cuts
                      /\ ~in => seen <= MaxHeader
    BY DEF HeaderCounted
  <2>1. seen \in Nat /\ cuts \in Nat /\ p.nread \in Nat /\ p.nread <= MaxHeader
    BY DEF ParserInv, Kept, IsParser
  <2>2. p.nread - seen \in 0 .. cuts
    BY <2>1 DEF ParserInv, Tallied, Taken
  <2> QED BY <2>1, <2>2, ParserAssumption DEF ParserConstants
<1> QED BY <1>1, ParserInvariant, PTL

(* on_header_value follows every on_header_field, an empty value included  *)
(* (http_parser.c:1697), before the next name or the end of the headers.   *)
THEOREM NameThenValueSafe == Spec => []NameThenValue
<1>1. ParserInv => NameThenValue
  BY DEF ParserInv, Paired, Named, NameThenValue
<1> QED BY <1>1, ParserInvariant, PTL

(* content_length is the number that the digits of a Content-Length or of  *)
(* a chunk size spell, or the response is refused: for any width of the    *)
(* counter no digits wrap it (http_parser.c:1512, 1916).                   *)
THEOREM LengthExactSafe == Spec => []LengthExact
<1>1. ParserInv => LengthExact
  BY DEF ParserInv, Exact, LengthExact
<1> QED BY <1>1, ParserInvariant, PTL
=============================================================================
