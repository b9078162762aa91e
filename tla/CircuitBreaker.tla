--------------------------- MODULE CircuitBreaker ---------------------------
(***************************************************************************)
(* CircuitBreaker (backend/platform/hardening/circuit_breaker.py).  A call *)
(* takes the lock to begin and again to record how it went; in between it  *)
(* runs without it, so its outcome may meet any state of the circuit.      *)
(* The breaker never reads failure_count beyond the threshold, and enters  *)
(* CLOSED with 0 only: the model counts up to FailureThreshold and no further.    *)
(***************************************************************************)
EXTENDS Integers

CONSTANTS Callers,          \* threads that call execute()
          FailureThreshold  \* failure_threshold

ASSUME BreakerAssumption == FailureThreshold \in Nat \ {0}

VARIABLES circuit,      \* state
          failureCount, \* failure_count
          waited,       \* recovery_timeout has passed since last_state_change
          call,         \* each caller's call, and how it will end
          healthy,      \* whether the protected service works now
          streak        \* history: failures recorded since the last success

breakerVars == <<circuit, failureCount, waited, call, healthy, streak>>

BreakerTypeOK ==
    /\ circuit \in {"CLOSED", "OPEN", "HALF-OPEN"}
    /\ failureCount \in 0..FailureThreshold
    /\ waited \in BOOLEAN
    /\ call \in [Callers -> {"none", "succeeding", "failing"}]
    /\ healthy \in BOOLEAN
    /\ streak \in 0..FailureThreshold

BreakerInit ==
    /\ circuit = "CLOSED"
    /\ failureCount = 0
    /\ waited = FALSE
    /\ call = [c \in Callers |-> "none"]
    /\ healthy = TRUE
    /\ streak = 0

OneMore(n) == IF n < FailureThreshold THEN n + 1 ELSE n
Evaluated == IF circuit = "OPEN" /\ waited THEN "HALF-OPEN" ELSE circuit

\* Faulty variant: an open circuit stays open.
BeginCallClosedOnly(c) ==
    /\ call[c] = "none"
    /\ circuit # "OPEN"
    /\ call' = [call EXCEPT ![c] = IF healthy THEN "succeeding" ELSE "failing"]
    /\ UNCHANGED <<circuit, waited, failureCount, healthy, streak>>

\* execute() up to func(): _evaluate_state, and an exception (no step here)
\* if the circuit is OPEN.
BeginCall(c) ==
    /\ call[c] = "none"
    /\ Evaluated # "OPEN"
    /\ circuit' = Evaluated
    /\ waited' = (waited /\ circuit' = circuit)
    /\ call' = [call EXCEPT ![c] = IF healthy THEN "succeeding" ELSE "failing"]
    /\ UNCHANGED <<failureCount, healthy, streak>>

\* func() returned: _reset in HALF-OPEN, else the failures are forgotten.
CallSucceeds(c) ==
    /\ call[c] = "succeeding"
    /\ call' = [call EXCEPT ![c] = "none"]
    /\ circuit' = IF circuit = "HALF-OPEN" THEN "CLOSED" ELSE circuit
    /\ waited' = (waited /\ circuit' = circuit)
    /\ failureCount' = 0
    /\ streak' = 0
    /\ UNCHANGED healthy

\* func() raised: _record_failure
CallFails(c) ==
    /\ call[c] = "failing"
    /\ call' = [call EXCEPT ![c] = "none"]
    /\ failureCount' = OneMore(failureCount)
    /\ circuit' = IF \/ circuit = "CLOSED" /\ failureCount' >= FailureThreshold
                     \/ circuit = "HALF-OPEN"
                  THEN "OPEN" ELSE circuit
    /\ waited' = (waited /\ circuit' = circuit)
    /\ streak' = OneMore(streak)
    /\ UNCHANGED healthy

\* recovery_timeout passes; only an OPEN circuit looks at it.
TimeoutPasses ==
    /\ circuit = "OPEN" /\ ~waited
    /\ waited' = TRUE
    /\ UNCHANGED <<circuit, failureCount, call, healthy, streak>>

ServiceChanges ==
    /\ healthy' = ~healthy
    /\ UNCHANGED <<circuit, failureCount, waited, call, streak>>

CallStep(c) == BeginCall(c) \/ CallSucceeds(c) \/ CallFails(c)

BreakerNext == (\E c \in Callers : CallStep(c)) \/ TimeoutPasses \/ ServiceChanges

BreakerSpec == BreakerInit /\ [][BreakerNext]_breakerVars

\* Calls return, time passes, and some caller keeps calling.
BreakerFairness ==
    /\ \A c \in Callers : WF_breakerVars(CallStep(c))
    /\ WF_breakerVars(TimeoutPasses)

---------------------------------------------------------------------------
\* A closed circuit opens at the FailureThreshold-th failure without a success in
\* between, at once and never before, in whatever order concurrent calls
\* come back and whatever calls of an earlier life of the circuit return late.
TripsAtThreshold ==
    [][circuit = "CLOSED" => (circuit' # "CLOSED" <=> streak' = FailureThreshold)]_breakerVars

\* If the service works for good from some time on, the circuit is closed for
\* good from some time on: neither a late failure nor a probe that came back
\* in the wrong state shuts the service out for ever.
BreakerRecovers == <>[]healthy => <>[](circuit = "CLOSED")
=============================================================================
