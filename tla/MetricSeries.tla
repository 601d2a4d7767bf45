---------------------------- MODULE MetricSeries ----------------------------
(***************************************************************************)
(* The two counter series of one traffic pair in                           *)
(* MockGenerator.generate_metric_values (001.mock_bkop_business_traffic.py):*)
(*                                                                          *)
(*   flow_total: cumulative_total += randint(FLOW_TOTAL_RANGE) per point;   *)
(*   flow_error: int(total_at_point * uniform(FLOW_ERROR_RATE_RANGE)) per   *)
(*               point, zipped with the flow_total samples.                 *)
(*                                                                          *)
(* The loops run one after the other; every random draw is a choice of the *)
(* step.  An error rate is a fraction RateNum / RateDen of the configured   *)
(* float range.  The flow_seconds gauge is drawn independently per point    *)
(* and is left out.                                                         *)
(***************************************************************************)
EXTENDS Integers, Sequences

CONSTANTS NumPoints,  \* MockConfig.METRIC_TIME_POINTS
          Increments, \* values randint(FLOW_TOTAL_MIN, FLOW_TOTAL_MAX) draws
          RateNums,   \* error rates, as numerators over RateDen
          RateDen

ASSUME /\ NumPoints \in Nat
       /\ Increments \subseteq Int /\ Increments # {}
       /\ RateNums \subseteq Nat /\ RateNums # {}
       /\ RateDen \in Nat \ {0}

VARIABLES phase,       \* "total", "error" or "done": the loop running
          k,           \* index of the time point
          cumulative,  \* cumulative_total
          totals,      \* the values of flow_total_values
          errors       \* the values of flow_error_values

vars == <<phase, k, cumulative, totals, errors>>

(* Python's int() on a float: truncation towards zero.                     *)
Trunc(num, den) == IF num >= 0 THEN num \div den ELSE -((-num) \div den)

(* int(total * rate) in floating point: the product of a total and a rate  *)
(* whose exact value is a whole number may come out just below it          *)
(* (100 * 0.29 = 28.999999999999996), and int() then drops one.            *)
ErrorsOf(total, num) ==
    LET exact == Trunc(total * num, RateDen)
    IN  IF (total * num) % RateDen = 0 /\ total * num > 0
          THEN {exact, exact - 1}
          ELSE {exact}

Init ==
    /\ phase = "total"
    /\ k = 1
    /\ cumulative = 0
    /\ totals = <<>>
    /\ errors = <<>>

(* cumulative_total += increment; append the new total.                    *)
TotalPoint(inc) ==
    /\ cumulative' = cumulative + inc
    /\ totals' = Append(totals, cumulative + inc)

(* Mutant: range(METRIC_TIME_POINTS + 1), one point too many.              *)
MorePointsOffByOne(n) == n <= NumPoints + 1

(* for ts in time_points: one point per entry of range(METRIC_TIME_POINTS) *)
MorePoints(n) == n <= NumPoints

FlowTotalStep ==
    /\ phase = "total"
    /\ MorePoints(k)
    /\ \E inc \in Increments : TotalPoint(inc)
    /\ k' = k + 1
    /\ UNCHANGED <<phase, errors>>

FlowTotalDone ==
    /\ phase = "total"
    /\ ~MorePoints(k)
    /\ phase' = "error"
    /\ k' = 1
    /\ UNCHANGED <<cumulative, totals, errors>>

(* errors = int(total_sample["value"] * error_rate);                       *)
(* cumulative_errors = errors; append it.                                   *)
FlowErrorStep ==
    /\ phase = "error"
    /\ k <= Len(totals)
    /\ \E num \in RateNums :
          \E e \in ErrorsOf(totals[k], num) : errors' = Append(errors, e)
    /\ k' = k + 1
    /\ UNCHANGED <<phase, cumulative, totals>>

FlowErrorDone ==
    /\ phase = "error"
    /\ k > Len(totals)
    /\ phase' = "done"
    /\ UNCHANGED <<k, cumulative, totals, errors>>

Next == FlowTotalStep \/ FlowTotalDone \/ FlowErrorStep \/ FlowErrorDone

Spec == Init /\ [][Next]_vars

-----------------------------------------------------------------------------
TypeOK ==
    /\ phase \in {"total", "error", "done"}
    /\ k \in 1..NumPoints + 1
    /\ totals \in Seq(Int) /\ errors \in Seq(Int)
    /\ Len(totals) <= NumPoints /\ Len(errors) <= Len(totals)

=============================================================================
