------------------------------ MODULE Circuit ------------------------------
(***************************************************************************)
(* DependencyCircuitBreaker for one dependency, and the two kinds of calls *)
(* that go through it: BoundedReadRetry.run and the streams of             *)
(* CircuitBoundedModel.  The breaker's methods are atomic under its lock;  *)
(* the clock is read before the lock is taken, so its value can be stale.  *)
(***************************************************************************)
EXTENDS Naturals, FiniteSets

CONSTANTS Threads,     \* callers sharing the breaker
          Streams,     \* the callers that are model streams (one attempt)
          Cut,         \* callers that can be cut off (cancellation, failing clock)
          Nobody,
          Threshold,   \* failure_threshold
          Cooldown,    \* cooldown_seconds
          MaxAttempts, \* read retry max_attempts
          MaxCalls,    \* bound: calls per caller
          MaxTime      \* bound: clock

ASSUME SettingsAssumption ==
    /\ Streams \subseteq Threads /\ Cut \subseteq Threads /\ Nobody \notin Threads
    /\ Threshold \in 1..10 /\ Cooldown \in Nat \ {0} /\ MaxAttempts \in 1..3
    /\ MaxCalls \in Nat /\ MaxTime \in Nat

VARIABLES breaker,  \* _DependencyState
          clock,    \* the monotonic clock
          tpc,      \* control point of each caller
          permit,   \* CircuitPermit of the caller's latest admitted call
          seen,     \* the clock value the caller read
          attempt,  \* attempts of the operation so far
          result,   \* how the operation ended
          calls,    \* calls made so far
          failedAt  \* history: when the operation that opened the breaker ended

vars == <<breaker, clock, tpc, permit, seen, attempt, result, calls, failedAt>>

CircuitState == {"CLOSED", "OPEN", "HALF_OPEN"}
NoTime == MaxTime + Cooldown + 1      \* retry_at is None
Outcome == {"none", "ok", "transient", "permanent", "cancelled"}

TypeOK ==
    /\ breaker \in [state : CircuitState, failures : 0..Threshold,
                    retry_at : 0..NoTime, generation : Nat, probe : BOOLEAN]
    /\ clock \in 0..MaxTime
    /\ tpc \in [Threads -> {"idle", "acquire", "operation", "record", "record_failure",
                            "unavailable"}]
    /\ permit \in [Threads -> [generation : Nat, half_open : BOOLEAN]]
    /\ seen \in [Threads -> 0..MaxTime]
    /\ attempt \in [Threads -> 0..3]
    /\ result \in [Threads -> Outcome]
    /\ calls \in [Threads -> 0..MaxCalls]
    /\ failedAt \in 0..MaxTime

Init ==
    /\ breaker = [state |-> "CLOSED", failures |-> 0, retry_at |-> NoTime,
                  generation |-> 0, probe |-> FALSE]
    /\ clock = 0
    /\ tpc = [t \in Threads |-> "idle"]
    /\ permit = [t \in Threads |-> [generation |-> 0, half_open |-> FALSE]]
    /\ seen = [t \in Threads |-> 0]
    /\ attempt = [t \in Threads |-> 0]
    /\ result = [t \in Threads |-> "none"]
    /\ calls = [t \in Threads |-> 0]
    /\ failedAt = 0

Goto(t, next) == tpc' = [tpc EXCEPT ![t] = next]

\* The consistency every method checks before it trusts the stored state.
Valid(b) ==
    CASE b.state = "CLOSED"    -> b.retry_at = NoTime /\ ~b.probe
      [] b.state = "OPEN"      -> b.retry_at # NoTime /\ ~b.probe
      [] b.state = "HALF_OPEN" -> b.retry_at # NoTime /\ b.probe

\* Mutant: the cooldown is not restarted by a failed probe.
open_keeping_retry(b, now) ==
    [b EXCEPT !.state = "OPEN", !.probe = FALSE, !.generation = @ + 1,
              !.retry_at = IF @ = NoTime THEN now + Cooldown ELSE @]

\* _open
open(b, now) ==
    [b EXCEPT !.state = "OPEN", !.retry_at = now + Cooldown, !.probe = FALSE,
              !.generation = @ + 1]

-----------------------------------------------------------------------------

\* Start a call: acquire() reads the clock before it takes the lock.
Call(t) ==
    /\ tpc[t] = "idle"
    /\ calls[t] < MaxCalls
    /\ calls' = [calls EXCEPT ![t] = @ + 1]
    /\ seen' = [seen EXCEPT ![t] = clock]
    /\ Goto(t, "acquire")
    /\ UNCHANGED <<breaker, clock, permit, attempt, result, failedAt>>

Admit(t, b, half) ==
    /\ breaker' = b
    /\ permit' = [permit EXCEPT ![t] = [generation |-> b.generation, half_open |-> half]]
    /\ attempt' = [attempt EXCEPT ![t] = 1]
    /\ Goto(t, "operation")

\* Mutant: a competing caller is admitted while a probe is running.
AcquireCompeting(t) ==
    /\ tpc[t] = "acquire"
    /\ \/ breaker.state = "CLOSED" /\ Admit(t, breaker, FALSE)
       \/ /\ breaker.state \in {"OPEN", "HALF_OPEN"} /\ seen[t] >= breaker.retry_at
          /\ Admit(t, [breaker EXCEPT !.state = "HALF_OPEN", !.probe = TRUE,
                                      !.generation = @ + 1], TRUE)
       \/ /\ breaker.state # "CLOSED" /\ seen[t] < breaker.retry_at
          /\ Goto(t, "idle")
          /\ UNCHANGED <<breaker, permit, attempt>>
    /\ UNCHANGED <<clock, seen, result, calls, failedAt>>

\* acquire: a permit, the one half-open permit, or CircuitOpenError.
Acquire(t) ==
    /\ tpc[t] = "acquire"
    /\ \/ breaker.state = "CLOSED" /\ Admit(t, breaker, FALSE)
       \/ /\ breaker.state = "OPEN" /\ seen[t] >= breaker.retry_at
          /\ Admit(t, [breaker EXCEPT !.state = "HALF_OPEN", !.probe = TRUE,
                                      !.generation = @ + 1], TRUE)
       \/ /\ breaker.state = "HALF_OPEN" \/ (breaker.state = "OPEN" /\ seen[t] < breaker.retry_at)
          /\ Goto(t, "idle")
          /\ UNCHANGED <<breaker, permit, attempt>>
    /\ UNCHANGED <<clock, seen, result, calls, failedAt>>

attempt_cap(t) == IF permit[t].half_open \/ t \in Streams THEN 1 ELSE MaxAttempts

\* An attempt that failed with a known transient error is repeated up to the
\* cap; every other outcome, and a failing sleeper, ends the operation.
Retry(t) ==
    /\ tpc[t] = "operation"
    /\ attempt[t] < attempt_cap(t)
    /\ attempt' = [attempt EXCEPT ![t] = @ + 1]
    /\ UNCHANGED <<breaker, clock, tpc, permit, seen, result, calls, failedAt>>

Responds(t) ==
    /\ tpc[t] = "operation"
    /\ \E out \in {"ok", "permanent"} : result' = [result EXCEPT ![t] = out]
    /\ Goto(t, "record")
    /\ UNCHANGED <<breaker, clock, permit, seen, attempt, calls, failedAt>>

\* record_transient_failure reads the clock before it takes the lock.
FailsTransiently(t) ==
    /\ tpc[t] = "operation"
    /\ result' = [result EXCEPT ![t] = "transient"]
    /\ seen' = [seen EXCEPT ![t] = clock]
    /\ Goto(t, "record_failure")
    /\ UNCHANGED <<breaker, clock, permit, attempt, calls, failedAt>>

\* A cancelled stream still runs its finally clause, which records a success; a
\* read that is cut off (or whose clock fails) records nothing.
Cancelled(t) ==
    /\ t \in Cut
    /\ tpc[t] = "operation"
    /\ result' = [result EXCEPT ![t] = "cancelled"]
    /\ Goto(t, IF t \in Streams THEN "record" ELSE "idle")
    /\ UNCHANGED <<breaker, clock, permit, seen, attempt, calls, failedAt>>

Current(t) == permit[t].generation = breaker.generation

\* Mutant: the cooldown deadline outlives the close.
RecordNonTransientKeepingRetry(t) ==
    LET b == breaker IN
    /\ tpc[t] = "record"
    /\ IF ~Current(t) \/ (~permit[t].half_open /\ b.state # "CLOSED")
       THEN Goto(t, "idle") /\ UNCHANGED breaker
       ELSE IF permit[t].half_open /\ (b.state # "HALF_OPEN" \/ ~b.probe)
       THEN Goto(t, "unavailable") /\ UNCHANGED breaker
       ELSE /\ breaker' = [b EXCEPT !.state = "CLOSED", !.failures = 0, !.probe = FALSE,
                                    !.generation = IF permit[t].half_open THEN @ + 1 ELSE @]
            /\ Goto(t, "idle")
    /\ UNCHANGED <<clock, permit, seen, attempt, result, calls, failedAt>>

\* _record_non_transient: results of an earlier generation are ignored.
RecordNonTransient(t) ==
    LET b == breaker IN
    /\ tpc[t] = "record"
    /\ IF ~Current(t) \/ (~permit[t].half_open /\ b.state # "CLOSED")
       THEN Goto(t, "idle") /\ UNCHANGED breaker
       ELSE IF permit[t].half_open /\ (b.state # "HALF_OPEN" \/ ~b.probe)
       THEN Goto(t, "unavailable") /\ UNCHANGED breaker
       ELSE /\ breaker' = [b EXCEPT !.state = "CLOSED", !.failures = 0,
                                    !.retry_at = NoTime, !.probe = FALSE,
                                    !.generation = IF permit[t].half_open THEN @ + 1 ELSE @]
            /\ Goto(t, "idle")
    /\ UNCHANGED <<clock, permit, seen, attempt, result, calls, failedAt>>

\* Mutant: only failures of a closed breaker are recorded.
RecordTransientFailureClosedOnly(t) ==
    LET counted == [breaker EXCEPT !.failures = @ + 1] IN
    /\ tpc[t] = "record_failure"
    /\ Goto(t, "idle")
    /\ breaker' = CASE ~Current(t) \/ breaker.state # "CLOSED" -> breaker
                    [] counted.failures >= Threshold -> open(counted, seen[t])
                    [] OTHER -> counted
    /\ UNCHANGED <<clock, permit, seen, attempt, result, calls, failedAt>>

\* record_transient_failure: a failed probe reopens, an ordinary failure counts.
RecordTransientFailure(t) ==
    LET b == breaker
        counted == [b EXCEPT !.failures = @ + 1]
    IN
    /\ tpc[t] = "record_failure"
    /\ CASE ~Current(t) -> Goto(t, "idle") /\ UNCHANGED breaker
         [] Current(t) /\ permit[t].half_open ->
              IF b.state # "HALF_OPEN" \/ ~b.probe
              THEN Goto(t, "unavailable") /\ UNCHANGED breaker
              ELSE Goto(t, "idle") /\ breaker' = open(b, seen[t])
         [] OTHER ->
              /\ Goto(t, "idle")
              /\ breaker' = IF b.state # "CLOSED" THEN b
                            ELSE IF counted.failures >= Threshold THEN open(counted, seen[t])
                            ELSE counted
    /\ failedAt' = IF breaker'.state = "OPEN" /\ breaker # breaker' THEN seen[t] ELSE failedAt
    /\ UNCHANGED <<clock, permit, seen, attempt, result, calls>>

Tick == clock < MaxTime /\ clock' = clock + 1
        /\ UNCHANGED <<breaker, tpc, permit, seen, attempt, result, calls, failedAt>>

Step(t) ==
    \/ Call(t) \/ Acquire(t) \/ Retry(t) \/ Responds(t) \/ FailsTransiently(t)
    \/ Cancelled(t) \/ RecordNonTransient(t) \/ RecordTransientFailure(t)

Next == Tick \/ \E t \in Threads : Step(t)

Spec == Init /\ [][Next]_vars

\* A caller that was admitted comes back from the dependency and records.
FairSpec ==
    /\ Spec
    /\ \A t \in Threads :
         /\ WF_vars(Acquire(t))
         /\ WF_vars(Responds(t) \/ FailsTransiently(t))
         /\ WF_vars(RecordNonTransient(t))
         /\ WF_vars(RecordTransientFailure(t))

-----------------------------------------------------------------------------

\* The stored state always passes the consistency check its methods make, so no
\* interleaving turns the breaker into "state unavailable" for good.
StateStaysValid == TypeOK /\ Valid(breaker) /\ \A t \in Threads : tpc[t] # "unavailable"

\* A probe starts only after the full cooldown, counted from the end of the
\* operation that opened the circuit, stale clock readings included.
CooldownHonoured ==
    [][breaker.state = "OPEN" /\ breaker'.state = "HALF_OPEN"
         => clock >= failedAt + Cooldown]_vars

\* The caller holding the half-open permit of the current generation.
Prober ==
    IF breaker.state = "HALF_OPEN"
    THEN CHOOSE t \in Threads : permit[t].half_open /\ Current(t)
    ELSE Nobody

Gate == INSTANCE ProbeGate WITH gate <- breaker.state, prober <- Prober

\* The breaker implements the probe gate: it opens from closed or on a failed
\* probe, lets in one prober and is closed by that prober's outcome alone.
ImplementsProbeGate == Gate!GateSpec

\* A half-open circuit is always decided, a cancelled model stream's too,
\* unless its one prober is a reader that can be cut off.
ProbeIsDecided ==
    (breaker.state = "HALF_OPEN")
        ~> (breaker.state # "HALF_OPEN" \/ Prober \in Cut \ Streams)
=============================================================================
