------------------------------- MODULE Stats -------------------------------
(***************************************************************************)
(* The histogram that the threads of the load generator share:             *)
(* stats_record of tools/wrk/src/stats.c.  No lock protects it; data and   *)
(* count are incremented atomically, min and max are raised and lowered by *)
(* compare-and-swap in a loop.  Each atomic instruction is one step.       *)
(***************************************************************************)
EXTENDS Integers

CONSTANTS
  Threads,     \* the threads that record
  Limit,       \* stats->limit: values from Limit on are refused
  MaxRecords   \* bound: calls of stats_record per thread

ASSUME StatsAssumption == Limit \in Nat \ {0} /\ MaxRecords \in Nat

Value == 0 .. Limit - 1
Unset == Limit  \* UINT64_MAX, the minimum of no values: above every value

VARIABLES
  data, count, min, max,  \* the shared stats
  pc, n, lmin, lmax,      \* per thread: next instruction, argument, locals
  calls                   \* per thread: calls made

shared == <<data, count, min, max>>
local  == <<n, lmin, lmax, calls>>
vars   == <<shared, pc, local>>

Places == {"idle", "count", "min", "max", "casmin", "casmax"}

TypeOK ==
  /\ data \in [Value -> Nat] /\ count \in Nat
  /\ min \in Value \cup {Unset} /\ max \in Value
  /\ pc \in [Threads -> Places]
  /\ n \in [Threads -> Value]
  /\ lmin \in [Threads -> Value \cup {Unset}] /\ lmax \in [Threads -> Value]
  /\ calls \in [Threads -> 0 .. MaxRecords]

(* stats_alloc: zeroed but for the minimum. *)
Init ==
  /\ data = [v \in Value |-> 0] /\ count = 0
  /\ min = Unset /\ max = 0
  /\ pc = [t \in Threads |-> "idle"]
  /\ n = [t \in Threads |-> 0]
  /\ lmin = [t \in Threads |-> 0] /\ lmax = [t \in Threads |-> 0]
  /\ calls = [t \in Threads |-> 0]
-----------------------------------------------------------------------------
Goto(t, from, to) == pc[t] = from /\ pc' = [pc EXCEPT ![t] = to]

Refused(v) == v >= Limit

(* if (n >= stats->limit) return 0: the caller counts a timeout. *)
Refuse(t) ==
  /\ calls[t] < MaxRecords
  /\ \E v \in Value \cup {Limit} : Refused(v)
  /\ Goto(t, "idle", "idle")
  /\ calls' = [calls EXCEPT ![t] = @ + 1]
  /\ UNCHANGED <<shared, n, lmin, lmax>>

(* __sync_fetch_and_add(&stats->data[n], 1) *)
AddData(t) ==
  /\ calls[t] < MaxRecords
  /\ Goto(t, "idle", "count")
  /\ calls' = [calls EXCEPT ![t] = @ + 1]
  /\ \E v \in Value \cup {Limit} :
       /\ ~Refused(v)
       /\ n' = [n EXCEPT ![t] = v]
       /\ data' = [data EXCEPT ![v] = @ + 1]
  /\ UNCHANGED <<count, min, max, lmin, lmax>>

(* __sync_fetch_and_add(&stats->count, 1) *)
AddCount(t) ==
  /\ Goto(t, "count", "min")
  /\ count' = count + 1
  /\ UNCHANGED <<data, min, max, local>>

(* uint64_t min = stats->min; uint64_t max = stats->max: two loads. *)
LoadMin(t) ==
  /\ Goto(t, "min", "max")
  /\ lmin' = [lmin EXCEPT ![t] = min]
  /\ UNCHANGED <<shared, n, lmax, calls>>

LoadMax(t) ==
  /\ Goto(t, "max", "casmin")
  /\ lmax' = [lmax EXCEPT ![t] = max]
  /\ UNCHANGED <<shared, n, lmin, calls>>

(* What a compare-and-swap of the shared value leaves there; it returns    *)
(* the value it found, so that a successful one goes round once more.      *)
Swap(found, expected, new) == IF found = expected THEN new ELSE found

CasMinStores(t) == \* mutant: a store without comparison
  /\ n[t] < lmin[t]
  /\ Goto(t, "casmin", "casmin")
  /\ min' = n[t]
  /\ lmin' = [lmin EXCEPT ![t] = n[t]]
  /\ UNCHANGED <<data, count, max, n, lmax, calls>>
CasMin(t) ==
  /\ n[t] < lmin[t]
  /\ Goto(t, "casmin", "casmin")
  /\ min' = Swap(min, lmin[t], n[t])
  /\ lmin' = [lmin EXCEPT ![t] = min]
  /\ UNCHANGED <<data, count, max, n, lmax, calls>>

CasMinDone(t) ==
  /\ n[t] >= lmin[t]
  /\ Goto(t, "casmin", "casmax")
  /\ UNCHANGED <<shared, local>>

CasMax(t) ==
  /\ n[t] > lmax[t]
  /\ Goto(t, "casmax", "casmax")
  /\ max' = Swap(max, lmax[t], n[t])
  /\ lmax' = [lmax EXCEPT ![t] = max]
  /\ UNCHANGED <<data, count, min, n, lmin, calls>>

(* return 1 *)
CasMaxDoneEarly(t) == \* mutant: returns although the swap has failed
  /\ Goto(t, "casmax", "idle")
  /\ UNCHANGED <<shared, local>>
CasMaxDone(t) ==
  /\ n[t] <= lmax[t]
  /\ Goto(t, "casmax", "idle")
  /\ UNCHANGED <<shared, local>>

Record(t) ==
  \/ AddCount(t) \/ LoadMin(t) \/ LoadMax(t)
  \/ CasMin(t) \/ CasMinDone(t) \/ CasMax(t) \/ CasMaxDone(t)

Next == \E t \in Threads : Refuse(t) \/ AddData(t) \/ Record(t)

Spec == Init /\ [][Next]_vars
-----------------------------------------------------------------------------
Recorded == {v \in Value : data[v] > 0}

(* A thread that still has to bring the minimum (the maximum) down (up) to *)
(* its value.                                                              *)
Lowers(t) == pc[t] \in {"count", "min", "max", "casmin"}
Raises(t) == pc[t] \in {"count", "min", "max", "casmin", "casmax"}

(* The minimum is no more, and the maximum no less, than any value         *)
(* recorded, but for those whose thread is still on its way to the swap    *)
(* (stats.c:28-29): a race that is lost is run again.                      *)
MinCovers ==
  \A v \in Recorded : min <= v \/ \E t \in Threads : Lowers(t) /\ n[t] = v
MaxCovers ==
  \A v \in Recorded : max >= v \/ \E t \in Threads : Raises(t) /\ n[t] = v
BoundsCover == MinCovers /\ MaxCovers

(* Whatever the other threads do, the minimum never goes up and the        *)
(* maximum never goes down (stats.c:28-29): a stale comparison cannot undo *)
(* another thread's swap.                                                  *)
BoundsMonotone == [][min' <= min /\ max' >= max]_vars
=============================================================================
