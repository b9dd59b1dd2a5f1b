----------------------------- MODULE WrkThreads -----------------------------
(***************************************************************************)
(* The threads of the load generator (tools/wrk/src/wrk.c): main creates   *)
(* them one by one, sleeps, sets the flag stop, joins them one by one and  *)
(* reports their sums and the histogram they share.  A thread handles      *)
(* responses and, from time to time, its timer record_rate, which is where *)
(* it finds the flag.                                                      *)
(***************************************************************************)
EXTENDS Stats, FiniteSets

ASSUME ThreadsAssumption == IsFiniteSet(Threads) /\ Threads = 1 .. Cardinality(Threads)

VARIABLES
  mpc,      \* main: "create", "sleep", "join", "report", or "exit" after a failure
  next,     \* main: the thread to create or to join next
  stop,     \* the global flag
  lpc,      \* per thread: "none", "loop", with eventLoop->stop set "rest" (of the
            \* events of this round) or "stopped" (behind them), or "ended"
  complete, \* per thread: responses
  timeout,  \* per thread: errors.timeout
  total,    \* main: the sums over the threads joined
  report    \* main: the minimum and maximum it reads for the report

main == <<mpc, next, total, report>>
threads == <<lpc, complete, timeout>>
wvars == <<vars, main, stop, threads>>

WInit ==
  /\ Init
  /\ mpc = "create" /\ next = 1 /\ stop = FALSE
  /\ lpc = [t \in Threads |-> "none"]
  /\ complete = [t \in Threads |-> 0] /\ timeout = [t \in Threads |-> 0]
  /\ total = [complete |-> 0, timeout |-> 0]
  /\ report = [min |-> Unset, max |-> 0]
-----------------------------------------------------------------------------
(* main                                                                    *)

(* Loop, Lua state and thread, for one thread after the other: the first   *)
(* ones run while the others are prepared.  A failure ends the process.    *)
CreateThread ==
  /\ mpc = "create" /\ next \in Threads
  /\ \/ /\ lpc' = [lpc EXCEPT ![next] = "loop"]
        /\ next' = next + 1 /\ UNCHANGED mpc
     \/ mpc' = "exit" /\ UNCHANGED <<lpc, next>>
  /\ UNCHANGED <<vars, stop, complete, timeout, total, report>>

(* From here on SIGINT is not ignored.                                     *)
Sleep ==
  /\ mpc = "create" /\ next \notin Threads
  /\ mpc' = "sleep"
  /\ UNCHANGED <<vars, next, stop, threads, total, report>>

(* sleep(duration) returns: stop = 1.                                      *)
Wake ==
  /\ mpc = "sleep"
  /\ mpc' = "join" /\ next' = 1 /\ stop' = TRUE
  /\ UNCHANGED <<vars, threads, total, report>>

(* SIGINT during the sleep: handler sets the flag in whatever thread takes *)
(* the signal; it ends the sleep if that is main, and later if not.        *)
Handler ==
  /\ mpc = "sleep" /\ ~stop
  /\ stop' = TRUE
  /\ UNCHANGED <<vars, main, threads>>

(* pthread_join, then the thread's counters are added.                     *)
JoinUnwaited == \* mutant: main does not wait for the thread
  /\ mpc = "join" /\ next \in Threads
  /\ total' = [complete |-> total.complete + complete[next],
               timeout |-> total.timeout + timeout[next]]
  /\ next' = next + 1
  /\ UNCHANGED <<vars, mpc, stop, threads, report>>
Join ==
  /\ mpc = "join" /\ next \in Threads
  /\ lpc[next] = "ended"
  /\ total' = [complete |-> total.complete + complete[next],
               timeout |-> total.timeout + timeout[next]]
  /\ next' = next + 1
  /\ UNCHANGED <<vars, mpc, stop, threads, report>>

Report ==
  /\ mpc = "join" /\ next \notin Threads
  /\ mpc' = "report"
  /\ report' = [min |-> min, max |-> max]
  /\ UNCHANGED <<vars, next, stop, threads, total>>
-----------------------------------------------------------------------------
(* A thread.  Its event loop does one thing at a time: it is in the middle *)
(* of a response while it is inside stats_record.                          *)
Idle(t) == lpc[t] \in {"loop", "rest"} /\ pc[t] = "idle" /\ mpc # "exit"

(* response_complete: counted, and recorded or counted as a timeout.       *)
Response(t) ==
  /\ Idle(t)
  /\ complete' = [complete EXCEPT ![t] = @ + 1]
  /\ \/ Refuse(t) /\ timeout' = [timeout EXCEPT ![t] = @ + 1]
     \/ AddData(t) /\ UNCHANGED timeout
  /\ UNCHANGED <<main, stop, lpc>>

Recording(t) ==
  /\ mpc # "exit" /\ Record(t)
  /\ UNCHANGED <<main, stop, threads>>

(* thread:stop() in a callback of the script: the loop ends with the round *)
(* of aeProcessEvents, the other responses of which are still handled.     *)
ThreadStop(t) ==
  /\ Idle(t)
  /\ lpc' = [lpc EXCEPT ![t] = "rest"]
  /\ UNCHANGED <<vars, main, stop, complete, timeout>>

(* record_rate: what it records goes to the other histogram.               *)
RecordRateBusy(t) == \* mutant: a thread without responses does not look at the flag
  /\ Idle(t) /\ stop /\ complete[t] > 0
  /\ lpc' = [lpc EXCEPT ![t] = "stopped"]
  /\ UNCHANGED <<vars, main, stop, complete, timeout>>
RecordRate(t) ==
  /\ Idle(t) /\ stop
  /\ lpc' = [lpc EXCEPT ![t] = "stopped"]
  /\ UNCHANGED <<vars, main, stop, complete, timeout>>

(* aeMain returns, and with it thread_main.                                *)
EndLoop(t) ==
  /\ lpc[t] \in {"rest", "stopped"} /\ pc[t] = "idle" /\ mpc # "exit"
  /\ lpc' = [lpc EXCEPT ![t] = "ended"]
  /\ UNCHANGED <<vars, main, stop, complete, timeout>>

Main == CreateThread \/ Sleep \/ Wake \/ Join \/ Report
Thread(t) == Response(t) \/ Recording(t) \/ ThreadStop(t) \/ RecordRate(t) \/ EndLoop(t)
WNext == Main \/ Handler \/ \E t \in Threads : Thread(t)

(* main goes on, its sleep ends; a thread goes on once it is inside        *)
(* stats_record or on its way out, and its timer fires again and again.    *)
(* Nothing makes responses arrive.                                         *)
Fairness ==
  /\ WF_wvars(Main)
  /\ \A t \in Threads :
       WF_wvars(Recording(t)) /\ WF_wvars(RecordRate(t)) /\ WF_wvars(EndLoop(t))

WSpec == WInit /\ [][WNext]_wvars
FairSpec == WSpec /\ Fairness
-----------------------------------------------------------------------------
(* What main reports is about everything that happened: no thread is still *)
(* at work, every response joined is in the histogram or among the         *)
(* timeouts, and the extremes are those of the values recorded, although   *)
(* the flag was found at any point of the threads' work (wrk.c:150-163).   *)
AllEnded == \A t \in Threads : lpc[t] = "ended"
Extremes(r) ==
  IF Recorded = {} THEN r.min = Unset /\ r.max = 0
  ELSE /\ r.min \in Recorded /\ r.max \in Recorded
       /\ \A v \in Recorded : r.min <= v /\ v <= r.max
ReportedExtremes == mpc = "report" => AllEnded /\ Extremes(report)
ReportExact ==
  ReportedExtremes /\ (mpc = "report" => total.complete = count + total.timeout)

(* The run ends: once every thread has been created, main reports, whether *)
(* responses come or not, and whatever the races inside stats_record       *)
(* (wrk.c:147-152, 286; stats.c:28-29).                                    *)
RunEnds == mpc = "sleep" ~> mpc = "report"
=============================================================================
