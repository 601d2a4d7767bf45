\* Four time points; increments at both ends of FLOW_TOTAL_RANGE (10, 1000);
\* error rates 0, 0.01, 0.05 and 0.1 from FLOW_ERROR_RATE_RANGE (0.0, 0.1).
CONSTANTS
    NumPoints = 4
    Increments = {10, 1000}
    RateNums = {0, 1, 5, 10}
    RateDen = 100
SPECIFICATION Spec
\* generate_metric_values returns after the last point.
CHECK_DEADLOCK FALSE
INVARIANTS
    TypeOK
