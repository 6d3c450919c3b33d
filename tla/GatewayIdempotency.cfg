SPECIFICATION Spec
CONSTANTS
  Attempts = {a1, a2, a3}
  Nothing = nothing
  Faults = {"net", "redis", "crash", "expiry"}
INVARIANTS TypeOK OverlapsNeedExpiry LateAttemptsAreNotExecuted RepliesAreTrue RepeatsHaveAReason
CHECK_DEADLOCK FALSE
