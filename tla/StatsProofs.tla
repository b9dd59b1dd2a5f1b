---------------------------- MODULE StatsProofs ----------------------------
(***************************************************************************)
(* Proofs about the histogram that the threads of the load generator       *)
(* share, for any number of threads and values, and about what main        *)
(* reports of it.                                                          *)
(***************************************************************************)
EXTENDS WrkThreads, FiniteSetTheorems, TLAPS

USE StatsAssumption DEF Value, Unset, vars, shared, local, Goto

(* What a thread inside stats_record knows: its value has been counted;    *)
(* what it read of min and max is out of date in one direction only; and   *)
(* behind the first swap the minimum is at most its value.                 *)
Knows(t) ==
  /\ pc[t] # "idle" => data[n[t]] > 0
  /\ pc[t] \in {"max", "casmin"} => min <= lmin[t]
  /\ pc[t] = "casmax" => min <= n[t]
  /\ pc[t] \in {"casmin", "casmax"} => lmax[t] <= max

(* Nothing but recorded values is ever put into min and max.               *)
Found ==
  /\ min # Unset => data[min] > 0
  /\ max # 0 => data[max] > 0

IInv ==
  /\ TypeOK
  /\ \A t \in Threads : Knows(t)
  /\ Found
  /\ BoundsCover

LEMMA SwapCases ==
  ASSUME NEW found, NEW expected, NEW new
  PROVE  \/ Swap(found, expected, new) = found
         \/ found = expected /\ Swap(found, expected, new) = new
BY DEF Swap
-----------------------------------------------------------------------------
LEMMA TypeStep == TypeOK /\ [Next]_vars => TypeOK'
<1> SUFFICES ASSUME TypeOK, [Next]_vars PROVE TypeOK'
  OBVIOUS
<1> USE DEF TypeOK, Places
<1>1. CASE UNCHANGED vars
  BY <1>1
<1>2. ASSUME NEW t \in Threads, Refuse(t) PROVE TypeOK'
  <2>1. pc' \in [Threads -> Places] /\ calls' \in [Threads -> 0 .. MaxRecords]
    BY <1>2 DEF Refuse
  <2>2. UNCHANGED <<shared, n, lmin, lmax>>
    BY <1>2 DEF Refuse
  <2> QED BY <2>1, <2>2
<1>3. ASSUME NEW t \in Threads, AddData(t) PROVE TypeOK'
  <2>1. PICK v \in Value \cup {Limit} :
          ~Refused(v) /\ n' = [n EXCEPT ![t] = v] /\ data' = [data EXCEPT ![v] = @ + 1]
    BY <1>3 DEF AddData
  <2>2. v \in Value
    BY <2>1 DEF Refused
  <2>3. n' \in [Threads -> Value]
    BY <2>1, <2>2
  <2>4. data' \in [Value -> Nat]
    BY <2>1, <2>2
  <2>5. pc' \in [Threads -> Places] /\ calls' \in [Threads -> 0 .. MaxRecords]
    BY <1>3 DEF AddData
  <2> QED BY <1>3, <2>3, <2>4, <2>5 DEF AddData
<1>4. ASSUME NEW t \in Threads, Record(t) PROVE TypeOK'
  <2>1. CASE AddCount(t)
    BY <2>1 DEF AddCount
  <2>2. CASE CasMinDone(t) \/ CasMaxDone(t)
    <3>1. UNCHANGED <<shared, local>> /\ pc' \in [Threads -> Places]
      BY <2>2 DEF CasMinDone, CasMaxDone
    <3> QED BY <3>1
  <2>3. CASE LoadMin(t)
    BY <2>3 DEF LoadMin
  <2>4. CASE LoadMax(t)
    BY <2>4 DEF LoadMax
  <2>5. CASE CasMin(t)
    <3>1. min' = min \/ min' = n[t]
      BY <2>5, SwapCases DEF CasMin
    <3>2. pc' \in [Threads -> Places] /\ lmin' \in [Threads -> Value \cup {Unset}]
      BY <2>5 DEF CasMin
    <3>3. UNCHANGED <<data, count, max, n, lmax, calls>>
      BY <2>5 DEF CasMin
    <3>4. min' \in Value \cup {Unset}
      BY <3>1
    <3> QED BY <3>2, <3>3, <3>4
  <2>6. CASE CasMax(t)
    <3>1. max' = max \/ max' = n[t]
      BY <2>6, SwapCases DEF CasMax
    <3>2. pc' \in [Threads -> Places] /\ lmax' \in [Threads -> Value]
      BY <2>6 DEF CasMax
    <3>3. UNCHANGED <<data, count, min, n, lmin, calls>>
      BY <2>6 DEF CasMax
    <3>4. max' \in Value
      BY <3>1
    <3> QED BY <3>2, <3>3, <3>4
  <2> QED BY <1>4, <2>1, <2>2, <2>3, <2>4, <2>5, <2>6 DEF Record
<1> QED BY <1>1, <1>2, <1>3, <1>4 DEF Next
-----------------------------------------------------------------------------
(* The minimum only goes down, the maximum only up, and no value becomes   *)
(* unrecorded: the rest follows from this.                                 *)
Onwards ==
  /\ min' <= min /\ max' >= max
  /\ \A v \in Value : data[v] > 0 => data'[v] > 0

LEMMA OnwardsStep == TypeOK /\ [Next]_vars => Onwards
<1> SUFFICES ASSUME TypeOK, [Next]_vars PROVE Onwards
  OBVIOUS
<1> USE DEF TypeOK, Onwards
<1>1. CASE UNCHANGED vars
  BY <1>1
<1>2. ASSUME NEW t \in Threads, Refuse(t) PROVE Onwards
  BY <1>2 DEF Refuse
<1>3. ASSUME NEW t \in Threads, AddData(t) PROVE Onwards
  BY <1>3 DEF AddData
<1>4. ASSUME NEW t \in Threads, Record(t) PROVE Onwards
  <2>1. CASE AddCount(t) \/ LoadMin(t) \/ LoadMax(t) \/ CasMinDone(t) \/ CasMaxDone(t)
    <3>1. UNCHANGED <<data, min, max>>
      BY <2>1 DEF AddCount, LoadMin, LoadMax, CasMinDone, CasMaxDone
    <3> QED BY <3>1
  <2>2. CASE CasMin(t)
    BY <2>2, SwapCases DEF CasMin
  <2>3. CASE CasMax(t)
    BY <2>3, SwapCases DEF CasMax
  <2> QED BY <1>4, <2>1, <2>2, <2>3 DEF Record
<1> QED BY <1>1, <1>2, <1>3, <1>4 DEF Next
-----------------------------------------------------------------------------
(* What a thread knows is not undone by the steps of another.              *)
LEMMA KnowsKept ==
  ASSUME TypeOK, Onwards, NEW t \in Threads, Knows(t),
         pc'[t] = pc[t], n'[t] = n[t], lmin'[t] = lmin[t], lmax'[t] = lmax[t],
         TypeOK'
  PROVE  Knows(t)'
<1>1. n[t] \in Value /\ lmin[t] \in Int /\ lmax[t] \in Int /\ n[t] \in Int
  BY DEF TypeOK
<1>2. min \in Int /\ min' \in Int /\ max \in Int /\ max' \in Int
  BY DEF TypeOK
<1> QED BY <1>1, <1>2 DEF Knows, Onwards

LEMMA KnowsStep ==
  TypeOK /\ (\A t \in Threads : Knows(t)) /\ [Next]_vars => \A t \in Threads : Knows(t)'
<1> SUFFICES ASSUME TypeOK, \A t \in Threads : Knows(t), [Next]_vars, NEW t \in Threads
             PROVE  Knows(t)'
  OBVIOUS
<1>0. TypeOK' /\ Onwards
  BY TypeStep, OnwardsStep
<1>1. CASE UNCHANGED vars
  BY <1>0, <1>1, KnowsKept
<1>2. ASSUME NEW u \in Threads, Refuse(u) PROVE Knows(t)'
  BY <1>0, <1>2, KnowsKept DEF Refuse, TypeOK
<1>3. ASSUME NEW u \in Threads, AddData(u) PROVE Knows(t)'
  <2>1. CASE u # t
    BY <1>0, <1>3, <2>1, KnowsKept DEF AddData, TypeOK
  <2>2. CASE u = t
    <3>1. PICK v \in Value \cup {Limit} :
            ~Refused(v) /\ n' = [n EXCEPT ![t] = v] /\ data' = [data EXCEPT ![v] = @ + 1]
      BY <1>3, <2>2 DEF AddData
    <3>2. v \in Value /\ n'[t] = v /\ data'[v] = data[v] + 1 /\ data[v] \in Nat
      BY <3>1 DEF Refused, TypeOK
    <3>3. pc'[t] = "count"
      BY <1>3, <2>2 DEF AddData, TypeOK
    <3> QED BY <3>2, <3>3 DEF Knows
  <2> QED BY <2>1, <2>2
<1>4. ASSUME NEW u \in Threads, Record(u) PROVE Knows(t)'
  <2>1. CASE u # t
    BY <1>0, <1>4, <2>1, KnowsKept
       DEF Record, AddCount, LoadMin, LoadMax, CasMin, CasMinDone, CasMax, CasMaxDone, TypeOK
  <2>2. CASE u = t
    <3>1. CASE AddCount(t)
      BY <3>1 DEF AddCount, Knows, TypeOK
    <3>2. CASE LoadMin(t)
      BY <3>2 DEF LoadMin, Knows, TypeOK
    <3>3. CASE LoadMax(t)
      BY <3>3 DEF LoadMax, Knows, TypeOK
    <3>4. CASE CasMin(t)
      BY <3>4, <1>0 DEF CasMin, Knows, TypeOK, Onwards
    <3>5. CASE CasMinDone(t)
      <4>1. min \in Int /\ n[t] \in Int /\ lmin[t] \in Int
        BY DEF TypeOK
      <4>2. pc[t] = "casmin" /\ pc'[t] = "casmax" /\ lmin[t] <= n[t]
        BY <3>5, <4>1 DEF CasMinDone, TypeOK
      <4>3. UNCHANGED <<data, min, max, n, lmin, lmax>>
        BY <3>5 DEF CasMinDone
      <4> QED BY <4>1, <4>2, <4>3 DEF Knows
    <3>6. CASE CasMax(t)
      BY <3>6, <1>0 DEF CasMax, Knows, TypeOK, Onwards
    <3>7. CASE CasMaxDone(t)
      BY <3>7 DEF CasMaxDone, Knows, TypeOK
    <3> QED BY <1>4, <2>2, <3>1, <3>2, <3>3, <3>4, <3>5, <3>6, <3>7 DEF Record
  <2> QED BY <2>1, <2>2
<1> QED BY <1>1, <1>2, <1>3, <1>4 DEF Next

LEMMA FoundStep ==
  TypeOK /\ (\A t \in Threads : Knows(t)) /\ Found /\ [Next]_vars => Found'
<1> SUFFICES ASSUME TypeOK, \A t \in Threads : Knows(t), Found, [Next]_vars PROVE Found'
  OBVIOUS
<1>1. TypeOK' /\ \A v \in Value : data[v] > 0 => data'[v] > 0
  BY TypeStep, OnwardsStep DEF Onwards
<1>2. CASE UNCHANGED <<min, max>>
  BY <1>1, <1>2 DEF Found, TypeOK
<1>3. ASSUME NEW t \in Threads, CasMin(t) PROVE Found'
  <2>1. data[n[t]] > 0 /\ n[t] \in Value
    BY <1>3 DEF Knows, CasMin, TypeOK
  <2>2. (min' = min \/ min' = n[t]) /\ UNCHANGED max
    BY <1>3, SwapCases DEF CasMin
  <2> QED BY <1>1, <2>1, <2>2 DEF Found, TypeOK
<1>4. ASSUME NEW t \in Threads, CasMax(t) PROVE Found'
  <2>1. data[n[t]] > 0 /\ n[t] \in Value
    BY <1>4 DEF Knows, CasMax, TypeOK
  <2>2. (max' = max \/ max' = n[t]) /\ UNCHANGED min
    BY <1>4, SwapCases DEF CasMax
  <2> QED BY <1>1, <2>1, <2>2 DEF Found, TypeOK
<1> QED
  BY <1>2, <1>3, <1>4
     DEF Next, Refuse, AddData, Record, AddCount, LoadMin, LoadMax, CasMinDone, CasMaxDone
-----------------------------------------------------------------------------
(* A value is recorded first by a thread that goes on to the bounds; and   *)
(* such a thread stays on its way until the bound is where it belongs.     *)
LEMMA NewlyRecorded ==
  ASSUME TypeOK, [Next]_vars, NEW v \in Value, data'[v] > 0, ~(data[v] > 0)
  PROVE  \E t \in Threads : pc'[t] = "count" /\ n'[t] = v
<1>1. PICK t \in Threads : AddData(t)
  BY DEF Next, Refuse, Record, AddCount, LoadMin, LoadMax, CasMin, CasMinDone, CasMax,
         CasMaxDone
<1>2. PICK w \in Value \cup {Limit} :
        ~Refused(w) /\ n' = [n EXCEPT ![t] = w] /\ data' = [data EXCEPT ![w] = @ + 1]
  BY <1>1 DEF AddData
<1>3. w = v /\ n'[t] = w
  BY <1>2 DEF TypeOK
<1>4. pc'[t] = "count"
  BY <1>1 DEF AddData, TypeOK
<1> QED BY <1>3, <1>4

LEMMA LowersOn ==
  ASSUME TypeOK, [Next]_vars, NEW t \in Threads, Lowers(t)
  PROVE  n'[t] = n[t] /\ (Lowers(t)' \/ pc'[t] = "casmax")
<1> USE DEF Lowers, TypeOK
<1>1. CASE UNCHANGED vars
  BY <1>1
<1>2. ASSUME NEW u \in Threads, Refuse(u) \/ AddData(u)
      PROVE  n'[t] = n[t] /\ (Lowers(t)' \/ pc'[t] = "casmax")
  BY <1>2 DEF Refuse, AddData
<1>3. ASSUME NEW u \in Threads, Record(u)
      PROVE  n'[t] = n[t] /\ (Lowers(t)' \/ pc'[t] = "casmax")
  BY <1>3 DEF Record, AddCount, LoadMin, LoadMax, CasMin, CasMinDone, CasMax, CasMaxDone
<1> QED BY <1>1, <1>2, <1>3 DEF Next

LEMMA RaisesOn ==
  ASSUME TypeOK, [Next]_vars, NEW t \in Threads, Raises(t), Knows(t)
  PROVE  n'[t] = n[t] /\ (Raises(t)' \/ max' >= n[t])
<1> USE DEF Raises
<1>1. CASE UNCHANGED vars
  BY <1>1
<1>2. ASSUME NEW u \in Threads, Refuse(u) \/ AddData(u)
      PROVE  n'[t] = n[t] /\ (Raises(t)' \/ max' >= n[t])
  BY <1>2 DEF Refuse, AddData, TypeOK
<1>3. ASSUME NEW u \in Threads, CasMaxDone(u)
      PROVE  n'[t] = n[t] /\ (Raises(t)' \/ max' >= n[t])
  <2>1. CASE u = t
    <3>1. n[t] <= lmax[t] /\ lmax[t] <= max /\ max' = max /\ n' = n
      BY <1>3, <2>1 DEF CasMaxDone, Knows
    <3>2. n[t] \in Int /\ lmax[t] \in Int /\ max \in Int
      BY DEF TypeOK
    <3> QED BY <3>1, <3>2
  <2>2. CASE u # t
    BY <1>3, <2>2 DEF CasMaxDone, TypeOK
  <2> QED BY <2>1, <2>2
<1>4. ASSUME NEW u \in Threads, Record(u), ~CasMaxDone(u)
      PROVE  n'[t] = n[t] /\ (Raises(t)' \/ max' >= n[t])
  BY <1>4 DEF Record, AddCount, LoadMin, LoadMax, CasMin, CasMinDone, CasMax, TypeOK
<1> QED BY <1>1, <1>2, <1>3, <1>4 DEF Next

LEMMA CoverStep == IInv /\ [Next]_vars => BoundsCover'
<1> SUFFICES ASSUME IInv, [Next]_vars PROVE BoundsCover'
  OBVIOUS
<1>1. TypeOK /\ TypeOK' /\ Onwards
  BY TypeStep, OnwardsStep DEF IInv
<1>2. \A t \in Threads : Knows(t) /\ Knows(t)'
  BY KnowsStep DEF IInv
<1>3. min \in Int /\ min' \in Int /\ max \in Int /\ max' \in Int
  BY <1>1 DEF TypeOK
<1>4. MinCovers'
  <2> SUFFICES ASSUME NEW v \in Value, data'[v] > 0, ~(min' <= v)
               PROVE  \E t \in Threads : Lowers(t)' /\ n'[t] = v
    BY DEF MinCovers, Recorded
  <2>1. CASE ~(data[v] > 0)
    BY <1>1, <2>1, NewlyRecorded DEF Lowers
  <2>2. CASE data[v] > 0
    <3>1. PICK t \in Threads : Lowers(t) /\ n[t] = v
      BY <1>1, <1>3, <2>2 DEF IInv, BoundsCover, MinCovers, Recorded, Onwards
    <3>2. n'[t] = v /\ (Lowers(t)' \/ pc'[t] = "casmax")
      BY <1>1, <3>1, LowersOn
    <3> QED BY <1>2, <3>2 DEF Knows
  <2> QED BY <2>1, <2>2
<1>5. MaxCovers'
  <2> SUFFICES ASSUME NEW v \in Value, data'[v] > 0, ~(max' >= v)
               PROVE  \E t \in Threads : Raises(t)' /\ n'[t] = v
    BY DEF MaxCovers, Recorded
  <2>1. CASE ~(data[v] > 0)
    BY <1>1, <2>1, NewlyRecorded DEF Raises
  <2>2. CASE data[v] > 0
    <3>1. PICK t \in Threads : Raises(t) /\ n[t] = v
      BY <1>1, <1>3, <2>2 DEF IInv, BoundsCover, MaxCovers, Recorded, Onwards
    <3> QED BY <1>1, <1>2, <3>1, RaisesOn
  <2> QED BY <2>1, <2>2
<1> QED BY <1>4, <1>5 DEF BoundsCover
-----------------------------------------------------------------------------
LEMMA InitIInv == Init => IInv
<1> SUFFICES ASSUME Init PROVE IInv
  OBVIOUS
<1>1. TypeOK
  BY DEF Init, TypeOK, Places
<1>2. \A t \in Threads : Knows(t)
  BY DEF Init, Knows
<1>3. Recorded = {}
  BY DEF Init, Recorded
<1> QED BY <1>1, <1>2, <1>3 DEF Init, IInv, Found, BoundsCover, MinCovers, MaxCovers

LEMMA StepIInv == IInv /\ [Next]_vars => IInv'
BY TypeStep, KnowsStep, FoundStep, CoverStep DEF IInv

(* The threads, whatever main does with them, change the histogram by the  *)
(* steps of stats_record only (wrk.c:324-360).                             *)
LEMMA Implements == [WNext]_wvars => [Next]_vars
<1> SUFFICES ASSUME WNext PROVE [Next]_vars
  BY DEF wvars
<1>1. CASE Main \/ Handler
  BY <1>1 DEF Main, CreateThread, Sleep, Wake, Join, Report, Handler
<1>2. ASSUME NEW t \in Threads, Thread(t) PROVE [Next]_vars
  BY <1>2 DEF Thread, Response, Recording, ThreadStop, RecordRate, EndLoop, Next
<1> QED BY <1>1, <1>2 DEF WNext

(* The invariant of the histogram holds while the threads run.             *)
THEOREM StatsInvariance == WSpec => []IInv
<1>1. WInit => IInv
  BY InitIInv DEF WInit
<1>2. IInv /\ [WNext]_wvars => IInv'
  BY StepIInv, Implements
<1> QED BY <1>1, <1>2, PTL DEF WSpec

(* No value that has been recorded is outside of the bounds, but for those *)
(* whose thread is still on its way to the swap (stats.c:28-29).           *)
THEOREM BoundsCoverSafe == WSpec => []BoundsCover
<1>1. IInv => BoundsCover
  BY DEF IInv
<1> QED BY <1>1, StatsInvariance, PTL

(* The minimum never goes up, the maximum never down (stats.c:28-29).      *)
THEOREM BoundsMonotoneSafe == WSpec => BoundsMonotone
<1>1. IInv /\ [WNext]_wvars => [min' <= min /\ max' >= max]_vars
  BY OnwardsStep, Implements DEF IInv, Onwards
<1> QED BY <1>1, StatsInvariance, PTL DEF WSpec, BoundsMonotone
-----------------------------------------------------------------------------
(* main and the threads: a thread that has left its loop is not inside     *)
(* stats_record, and main goes past none that has not ended.               *)
RunInv ==
  /\ lpc \in [Threads -> {"none", "loop", "rest", "stopped", "ended"}]
  /\ next \in Nat \ {0}
  /\ \A t \in Threads : lpc[t] \notin {"loop", "rest"} => pc[t] = "idle"
  /\ mpc = "join" => \A t \in Threads : t < next => lpc[t] = "ended"
  /\ ReportedExtremes

(* With no thread at work the bounds are the extremes of what is recorded. *)
LEMMA BoundsAreExtremes ==
  ASSUME IInv, \A t \in Threads : pc[t] = "idle"
  PROVE  Extremes([min |-> min, max |-> max])
<1>1. \A v \in Recorded : min <= v /\ v <= max
  BY DEF IInv, BoundsCover, MinCovers, MaxCovers, Lowers, Raises, Recorded, TypeOK
<1>2. Recorded \subseteq Value /\ min \in Value \cup {Unset} /\ max \in Value
  BY DEF Recorded, IInv, TypeOK
<1>3. CASE Recorded = {}
  BY <1>2, <1>3 DEF Extremes, IInv, Found, Recorded, TypeOK
<1>4. CASE Recorded # {}
  <2>1. PICK v \in Recorded : TRUE
    BY <1>4
  <2>2. min \in Recorded
    BY <1>1, <1>2, <2>1 DEF IInv, Found, Recorded
  <2>3. max \in Recorded
    <3>1. CASE max # 0
      BY <1>2, <3>1 DEF IInv, Found, Recorded
    <3>2. CASE max = 0
      BY <1>1, <1>2, <2>1, <3>2
    <3> QED BY <3>1, <3>2
  <2> QED BY <1>1, <1>4, <2>2, <2>3 DEF Extremes
<1> QED BY <1>3, <1>4

LEMMA ThreadsNumbered == Threads \subseteq Nat \ {0}
<1>1. Cardinality(Threads) \in Nat
  BY ThreadsAssumption, FS_CardinalityType
<1>2. 1 .. Cardinality(Threads) \subseteq Nat \ {0}
  BY <1>1
<1> QED BY <1>2, ThreadsAssumption

LEMMA RunStep == IInv /\ RunInv /\ [WNext]_wvars => RunInv'
<1> SUFFICES ASSUME IInv, RunInv, [WNext]_wvars PROVE RunInv'
  OBVIOUS
<1>0. TypeOK
  BY DEF IInv
<1>1. CASE UNCHANGED wvars
  BY <1>1 DEF wvars, main, threads, RunInv, ReportedExtremes, AllEnded, Extremes, Recorded
<1>2. CASE CreateThread
  BY <1>2 DEF CreateThread, RunInv, ReportedExtremes
<1>3. CASE Sleep \/ Wake \/ Handler
  BY <1>3, ThreadsNumbered DEF Sleep, Wake, Handler, RunInv, ReportedExtremes, main, threads
<1>4. CASE Join
  <2>1. /\ mpc = "join" /\ mpc' = "join" /\ next' = next + 1 /\ lpc[next] = "ended"
        /\ lpc' = lpc /\ pc' = pc
    BY <1>4 DEF Join, threads, vars
  <2>2. \A t \in Threads : t < next' => t < next \/ t = next
    BY <2>1, ThreadsNumbered DEF RunInv
  <2> QED BY <2>1, <2>2 DEF RunInv, ReportedExtremes
<1>5. CASE Report
  <2>1. \A t \in Threads : t < next
    BY <1>5, ThreadsAssumption, FS_CardinalityType DEF Report, RunInv
  <2>2. AllEnded /\ \A t \in Threads : pc[t] = "idle"
    BY <1>5, <2>1 DEF Report, RunInv, AllEnded
  <2>3. Extremes(report')
    BY <1>5, <2>2, BoundsAreExtremes DEF Report
  <2> QED
    BY <1>5, <2>2, <2>3 DEF Report, RunInv, ReportedExtremes, AllEnded, Extremes, Recorded, threads
<1>6. ASSUME NEW t \in Threads, Thread(t) PROVE RunInv'
  <2>1. mpc' = mpc /\ next' = next /\ mpc # "report"
    BY <1>6 DEF Thread, Response, Recording, ThreadStop, RecordRate, EndLoop, Idle, main,
                RunInv, ReportedExtremes, AllEnded, Record, AddCount, LoadMin, LoadMax,
                CasMin, CasMinDone, CasMax, CasMaxDone
  <2>2. CASE Response(t) \/ Recording(t)
    <3>1. lpc' = lpc /\ lpc[t] \in {"loop", "rest"} /\ \A u \in Threads \ {t} : pc'[u] = pc[u]
      BY <1>0, <2>2 DEF Response, Recording, Idle, RunInv, threads, Refuse, AddData, Record,
           AddCount, LoadMin, LoadMax, CasMin, CasMinDone, CasMax, CasMaxDone, TypeOK
    <3> QED BY <2>1, <3>1 DEF RunInv, ReportedExtremes
  <2>3. CASE ThreadStop(t) \/ RecordRate(t) \/ EndLoop(t)
    <3>1. /\ lpc' = [lpc EXCEPT ![t] = lpc'[t]] /\ lpc'[t] \in {"rest", "stopped", "ended"}
          /\ pc' = pc /\ pc[t] = "idle" /\ lpc[t] # "ended"
      BY <2>3 DEF ThreadStop, RecordRate, EndLoop, Idle, RunInv
    <3> QED BY <2>1, <3>1 DEF RunInv, ReportedExtremes
  <2> QED BY <1>6, <2>2, <2>3 DEF Thread
<1> QED BY <1>1, <1>2, <1>3, <1>4, <1>5, <1>6 DEF WNext, Main

(* What main reports as the minimum and the maximum are those of all the   *)
(* values recorded, and no thread is at work any more (wrk.c:150-186).     *)
THEOREM ReportSafe == WSpec => []ReportedExtremes
<1>1. WInit => RunInv
  BY DEF WInit, Init, RunInv, ReportedExtremes
<1>2. RunInv => ReportedExtremes
  BY DEF RunInv
<1> QED BY <1>1, <1>2, RunStep, StatsInvariance, PTL DEF WSpec
-----------------------------------------------------------------------------
(* The sums.  What a thread has added to count is its responses but for    *)
(* those refused and the one it is about to count; s adds that up over the *)
(* threads, as main's loop does.                                           *)
Last == Cardinality(Threads)
Joining == mpc \in {"join", "report"}

Share(t) == complete[t] - timeout[t] - (IF pc[t] = "count" THEN 1 ELSE 0)

IsSum(s) ==
  /\ s \in [0 .. Last -> Int]
  /\ s[0] = 0
  /\ \A t \in Threads : s[t] = s[t - 1] + Share(t)

(* All threads together have added count; those that main has joined, what *)
(* main has summed up.                                                     *)
Adds(s) ==
  /\ IsSum(s)
  /\ s[Last] = count
  /\ Joining => total.complete - total.timeout = s[next - 1]

SumInv ==
  /\ complete \in [Threads -> Int] /\ timeout \in [Threads -> Int]
  /\ total \in [complete : Int, timeout : Int]
  /\ next \in 1 .. Last + 1
  /\ ~Joining => total.complete - total.timeout = 0
  /\ mpc = "report" => next \notin Threads
  /\ \E s : Adds(s)

LEMMA LastType == Last \in Nat /\ Threads = 1 .. Last
BY ThreadsAssumption, FS_CardinalityType DEF Last

LEMMA ShareType == SumInv => \A t \in Threads : Share(t) \in Int
<1> SUFFICES ASSUME SumInv, NEW t \in Threads PROVE Share(t) \in Int
  OBVIOUS
<1>1. complete[t] \in Int /\ timeout[t] \in Int
  BY DEF SumInv
<1>2. CASE pc[t] = "count"
  BY <1>1, <1>2 DEF Share
<1>3. CASE pc[t] # "count"
  BY <1>1, <1>3 DEF Share
<1> QED BY <1>2, <1>3

LEMMA SumInit == WInit => SumInv
<1> SUFFICES ASSUME WInit PROVE SumInv
  OBVIOUS
<1>1. /\ complete \in [Threads -> Int] /\ timeout \in [Threads -> Int]
      /\ total \in [complete : Int, timeout : Int]
      /\ total.complete - total.timeout = 0 /\ next = 1 /\ ~Joining /\ mpc # "report"
  BY DEF WInit, Joining
<1>2. ASSUME NEW t \in Threads PROVE Share(t) = 0
  <2>1. complete[t] = 0 /\ timeout[t] = 0 /\ pc[t] # "count"
    BY DEF WInit, Init
  <2>2. Share(t) = complete[t] - timeout[t] - 0
    BY <2>1, Zenon DEF Share
  <2> QED BY <2>1, <2>2
<1> DEFINE s == [i \in 0 .. Last |-> 0]
<1>3. IsSum(s)
  BY <1>2, LastType DEF IsSum
<1>4. s[Last] = count
  BY LastType DEF WInit, Init
<1>5. Adds(s)
  BY <1>1, <1>3, <1>4 DEF Adds
<1>6. next \in 1 .. Last + 1
  BY <1>1, LastType
<1> QED BY <1>1, <1>5, <1>6 DEF SumInv

(* Steps that leave the threads' shares and main's sums alone.             *)
LEMMA SumKept ==
  ASSUME IInv, SumInv, complete' \in [Threads -> Int], timeout' \in [Threads -> Int],
         UNCHANGED <<count, mpc, next, total>>,
         \A t \in Threads : Share(t)' = Share(t)
  PROVE  SumInv'
<1>1. PICK s : Adds(s)
  BY DEF SumInv
<1>2. Adds(s)'
  BY <1>1 DEF Adds, IsSum, Joining
<1> QED BY <1>2 DEF SumInv, Joining

(* A thread counts its value: the sums from it on grow.                    *)
LEMMA SumCounted ==
  ASSUME IInv, RunInv, SumInv, NEW t \in Threads, AddCount(t),
         UNCHANGED <<main, threads>>
  PROVE  SumInv'
<1>1. PICK s : Adds(s)
  BY DEF SumInv
<1>2. /\ pc \in [Threads -> Places] /\ pc[t] = "count" /\ pc' = [pc EXCEPT ![t] = "min"]
      /\ count' = count + 1 /\ count \in Int
      /\ UNCHANGED <<complete, timeout, total, next, mpc>>
  BY DEF AddCount, main, threads, IInv, TypeOK
<1>3. /\ \A u \in Threads : Share(u) \in Int
      /\ Share(t)' = Share(t) + 1
      /\ \A u \in Threads \ {t} : Share(u)' = Share(u)
  <2>1. \A u \in Threads : Share(u) \in Int
    BY ShareType
  <2>2. \A u \in Threads \ {t} : Share(u)' = Share(u)
    BY <1>2 DEF Share
  <2>3. Share(t) = complete[t] - timeout[t] - 1 /\ Share(t)' = complete[t] - timeout[t] - 0
    BY <1>2 DEF Share
  <2>4. complete[t] \in Int /\ timeout[t] \in Int
    BY DEF SumInv
  <2> QED BY <2>1, <2>2, <2>3, <2>4
<1>4. t \in 1 .. Last /\ Last \in Nat
  BY LastType
<1> DEFINE r == [i \in 0 .. Last |-> IF i < t THEN s[i] ELSE s[i] + 1]
<1>5. s \in [0 .. Last -> Int] /\ s[0] = 0
  BY <1>1 DEF Adds, IsSum
<1>6. r \in [0 .. Last -> Int] /\ r[0] = 0
  BY <1>4, <1>5
<1>7. ASSUME NEW u \in Threads PROVE r[u] = r[u - 1] + Share(u)'
  <2>1. u \in 1 .. Last /\ u \in 0 .. Last /\ u - 1 \in 0 .. Last
    BY LastType
  <2>2. s[u] = s[u - 1] + Share(u) /\ s[u] \in Int /\ s[u - 1] \in Int /\ Share(u) \in Int
    BY <1>1, <1>3, <1>5, <2>1 DEF Adds, IsSum
  <2>3. CASE u = t
    BY <1>3, <1>4, <2>1, <2>2, <2>3
  <2>4. CASE u # t
    BY <1>3, <1>4, <2>1, <2>2, <2>4
  <2> QED BY <2>3, <2>4
<1>8. r[Last] = count'
  BY <1>1, <1>2, <1>4 DEF Adds
<1>9. ASSUME Joining PROVE total.complete - total.timeout = r[next - 1]
  <2>1. next <= t
    <3>1. lpc[t] # "ended"
      BY <1>2 DEF RunInv
    <3>2. mpc = "join" /\ t >= next
      BY <1>4, <1>9, <3>1 DEF RunInv, ReportedExtremes, AllEnded, Joining, SumInv
    <3> QED BY <1>4, <3>2 DEF SumInv
  <2>2. next - 1 \in 0 .. Last /\ next - 1 < t
    BY <1>4, <2>1 DEF SumInv
  <2> QED BY <1>1, <1>9, <2>2 DEF Adds
<1>10. Adds(r)'
  <2> HIDE DEF r
  <2> QED BY <1>2, <1>6, <1>7, <1>8, <1>9 DEF Adds, IsSum, Joining
<1> QED BY <1>2, <1>10 DEF SumInv, Joining

(* main adds a thread that has ended.                                      *)
LEMMA SumJoined ==
  ASSUME IInv, RunInv, SumInv, Join
  PROVE  SumInv'
<1>1. PICK s : Adds(s)
  BY DEF SumInv
<1>2. /\ mpc = "join" /\ next \in Threads /\ lpc[next] = "ended"
      /\ total' = [complete |-> total.complete + complete[next],
                   timeout |-> total.timeout + timeout[next]]
      /\ next' = next + 1 /\ UNCHANGED <<pc, count, mpc, complete, timeout>>
  BY DEF Join, vars, threads
<1>3. pc[next] = "idle"
  BY <1>2 DEF RunInv
<1>4. /\ complete[next] \in Int /\ timeout[next] \in Int
      /\ total.complete \in Int /\ total.timeout \in Int
  BY <1>2 DEF SumInv
<1>5. next \in 1 .. Last /\ Last \in Nat
  BY <1>2, LastType
<1>6. s[next] = s[next - 1] + (complete[next] - timeout[next])
  BY <1>1, <1>2, <1>3, <1>4 DEF Adds, IsSum, Share
<1>7. total.complete - total.timeout = s[next - 1]
  BY <1>1, <1>2 DEF Adds, Joining
<1>8. total'.complete - total'.timeout = s[next' - 1]
  BY <1>2, <1>4, <1>5, <1>6, <1>7
<1>9. total' \in [complete : Int, timeout : Int] /\ next' \in 1 .. Last + 1
  BY <1>2, <1>4, <1>5
<1>10. Adds(s)'
  BY <1>1, <1>2, <1>8 DEF Adds, IsSum, Share, Joining
<1>11. mpc' = "join" /\ Joining'
  BY <1>2 DEF Joining
<1> QED BY <1>2, <1>9, <1>10, <1>11 DEF SumInv

LEMMA SumStep == IInv /\ RunInv /\ SumInv /\ [WNext]_wvars => SumInv'
<1> SUFFICES ASSUME IInv, RunInv, SumInv, [WNext]_wvars PROVE SumInv'
  OBVIOUS
<1>0. pc \in [Threads -> Places] /\ complete \in [Threads -> Int] /\ timeout \in [Threads -> Int]
  BY DEF IInv, TypeOK, SumInv
<1>1. CASE UNCHANGED wvars
  <2>1. UNCHANGED <<pc, count, mpc, next, total, complete, timeout>>
    BY <1>1 DEF wvars, main, threads
  <2> QED BY <1>0, <2>1, SumKept DEF Share
<1>2. CASE CreateThread \/ Sleep
  <2>1. /\ UNCHANGED <<pc, count, total, complete, timeout>>
        /\ ~Joining /\ ~Joining' /\ mpc' # "report" /\ next' \in 1 .. Last + 1
    BY <1>2, LastType DEF CreateThread, Sleep, threads, Joining, SumInv
  <2>2. PICK s : Adds(s)
    BY DEF SumInv
  <2>3. Adds(s)'
    BY <2>1, <2>2 DEF Adds, IsSum, Share
  <2> QED BY <2>1, <2>3 DEF SumInv
<1>3. CASE Wake
  <2>1. /\ UNCHANGED <<pc, count, total, complete, timeout>>
        /\ ~Joining /\ mpc' = "join" /\ next' = 1
    BY <1>3 DEF Wake, threads, Joining
  <2>2. PICK s : Adds(s)
    BY DEF SumInv
  <2>3. total.complete - total.timeout = s[next' - 1]
    BY <2>1, <2>2 DEF SumInv, Adds, IsSum
  <2>4. Adds(s)'
    BY <2>1, <2>2, <2>3 DEF Adds, IsSum, Share
  <2>5. Joining' /\ next' \in 1 .. Last + 1
    BY <2>1, LastType DEF Joining
  <2> QED BY <2>1, <2>4, <2>5 DEF SumInv
<1>4. CASE Join
  BY <1>4, SumJoined
<1>5. CASE Report
  <2>1. /\ UNCHANGED <<pc, count, total, complete, timeout, next>>
        /\ Joining /\ Joining' /\ next \notin Threads
    BY <1>5 DEF Report, threads, Joining
  <2>2. PICK s : Adds(s)
    BY DEF SumInv
  <2>3. Adds(s)'
    BY <2>1, <2>2 DEF Adds, IsSum, Share
  <2> QED BY <2>1, <2>3 DEF SumInv
<1>6. CASE Handler
  <2>1. UNCHANGED <<pc, count, mpc, next, total, complete, timeout>>
    BY <1>6 DEF Handler, main, threads
  <2> QED BY <1>0, <2>1, SumKept DEF Share
<1>7. ASSUME NEW t \in Threads, Response(t) PROVE SumInv'
  <2>1. UNCHANGED <<count, mpc, next, total>> /\ pc[t] = "idle"
    BY <1>7 DEF Response, Idle, Refuse, AddData, main
  <2>2. complete' = [complete EXCEPT ![t] = @ + 1]
    BY <1>7 DEF Response
  <2>3. CASE Refuse(t) /\ timeout' = [timeout EXCEPT ![t] = @ + 1]
    <3>1. pc' = pc
      BY <1>0, <2>1, <2>3 DEF Refuse
    <3> QED BY <1>0, <2>1, <2>2, <2>3, <3>1, SumKept DEF Share
  <2>4. CASE AddData(t) /\ UNCHANGED timeout
    <3>1. pc' = [pc EXCEPT ![t] = "count"]
      BY <2>4 DEF AddData
    <3> QED BY <1>0, <2>1, <2>2, <2>4, <3>1, SumKept DEF Share
  <2> QED BY <1>7, <2>3, <2>4 DEF Response
<1>8. ASSUME NEW t \in Threads, Recording(t) PROVE SumInv'
  <2>1. UNCHANGED <<mpc, next, total, complete, timeout>>
    BY <1>8 DEF Recording, main, threads
  <2>2. CASE AddCount(t)
    BY <1>8, <2>2, SumCounted DEF Recording
  <2>3. CASE ~AddCount(t)
    <3>1. \E to \in Places \ {"count"} : pc' = [pc EXCEPT ![t] = to]
      BY <1>8, <2>3 DEF Recording, Record, LoadMin, LoadMax, CasMin, CasMinDone, CasMax,
                        CasMaxDone, Places
    <3>2. UNCHANGED count /\ pc[t] # "count"
      BY <1>8, <2>3 DEF Recording, Record, LoadMin, LoadMax, CasMin, CasMinDone, CasMax,
                        CasMaxDone
    <3>3. \A u \in Threads : Share(u)' = Share(u)
      BY <1>0, <2>1, <3>1, <3>2 DEF Share
    <3> QED BY <1>0, <2>1, <3>2, <3>3, SumKept
  <2> QED BY <2>2, <2>3
<1>9. ASSUME NEW t \in Threads, ThreadStop(t) \/ RecordRate(t) \/ EndLoop(t) PROVE SumInv'
  <2>1. UNCHANGED <<pc, count, mpc, next, total, complete, timeout>>
    BY <1>9 DEF ThreadStop, RecordRate, EndLoop, main
  <2> QED BY <1>0, <2>1, SumKept DEF Share
<1> QED
  BY <1>1, <1>2, <1>3, <1>4, <1>5, <1>6, <1>7, <1>8, <1>9 DEF WNext, Main, Thread

LEMMA SumReported == RunInv /\ SumInv => ReportExact
<1> SUFFICES ASSUME RunInv, SumInv, mpc = "report" PROVE total.complete = count + total.timeout
  BY DEF RunInv, ReportExact
<1>1. PICK s : Adds(s)
  BY DEF SumInv
<1>2. next = Last + 1 /\ Last \in Nat
  BY LastType DEF SumInv
<1>3. total.complete - total.timeout = count
  BY <1>1, <1>2 DEF Adds, Joining
<1>4. total.complete \in Int /\ total.timeout \in Int
  BY DEF SumInv
<1> QED BY <1>3, <1>4

(* Every response of every thread is in the report, once: as a value of    *)
(* the histogram or as a timeout, between the extremes of all values, and  *)
(* with no thread at work any more (wrk.c:150-186, 345-360).               *)
THEOREM ReportExactSafe == WSpec => []ReportExact
<1>1. WInit => RunInv /\ SumInv
  BY SumInit DEF WInit, Init, RunInv, ReportedExtremes
<1> QED BY <1>1, RunStep, SumStep, SumReported, StatsInvariance, PTL DEF WSpec
=============================================================================
