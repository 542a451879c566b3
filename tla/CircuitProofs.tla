--------------------------- MODULE CircuitProofs ---------------------------
(***************************************************************************)
(* The circuit breaker for any callers, settings and clock: its stored     *)
(* state stays valid, cooldowns are served in full, and it implements the  *)
(* probe gate.                                                             *)
(***************************************************************************)
EXTENDS Circuit, TLAPS

\* What a permit of the current generation says about the breaker: none is left
\* while it is open, exactly one, the prober's, while it is half open.
PermitsMatch ==
    /\ \A t \in Threads : permit[t].generation <= breaker.generation
    /\ breaker.state = "CLOSED" => \A t \in Threads : Current(t) => ~permit[t].half_open
    /\ breaker.state = "OPEN" => \A t \in Threads : ~Current(t)
    /\ breaker.state = "HALF_OPEN" =>
          \E t \in Threads : /\ Current(t) /\ permit[t].half_open
                             /\ \A u \in Threads : Current(u) => u = t

\* The deadline of an open breaker counts from the failure that opened it, and no
\* caller holds a clock value from the future.
ClockMatches ==
    /\ \A t \in Threads : seen[t] <= clock
    /\ breaker.state = "OPEN" => breaker.retry_at = failedAt + Cooldown

\* A closed breaker has failures left.
CountMatches == breaker.state = "CLOSED" => breaker.failures < Threshold

IInv == StateStaysValid /\ PermitsMatch /\ ClockMatches /\ CountMatches

-----------------------------------------------------------------------------
\* A new breaker is closed and nobody holds a permit.
LEMMA InitHolds == Init => IInv
  BY SettingsAssumption, Z3
  DEF Init, IInv, StateStaysValid, TypeOK, Valid, PermitsMatch, ClockMatches, CountMatches,
      Current, NoTime, CircuitState, Outcome


BreakerType == [state : CircuitState, failures : 0..Threshold, retry_at : 0..NoTime,
                generation : Nat, probe : BOOLEAN]

\* Granting the probe leaves a well-typed breaker.
LEMMA ProbeBreaker ==
  ASSUME NEW b \in BreakerType
  PROVE  [b EXCEPT !.state = "HALF_OPEN", !.probe = TRUE, !.generation = @ + 1] \in BreakerType
  <1>1. b.generation + 1 \in Nat
    BY DEF BreakerType
  <1> QED
    BY <1>1, Zenon DEF BreakerType, CircuitState

\* Opening it, too.
LEMMA OpenBreaker ==
  ASSUME NEW b \in BreakerType, NEW now \in 0..MaxTime
  PROVE  open(b, now) \in BreakerType
  <1>1. now + Cooldown \in 0..NoTime
    BY SettingsAssumption DEF NoTime
  <1>2. b.generation + 1 \in Nat
    BY DEF BreakerType
  <1> QED
    BY <1>1, <1>2, Zenon DEF BreakerType, CircuitState, open

\* Counting one failure below the threshold, too.
LEMMA CountedBreaker ==
  ASSUME NEW b \in BreakerType, b.failures < Threshold
  PROVE  [b EXCEPT !.failures = @ + 1] \in BreakerType
  BY SettingsAssumption DEF BreakerType

\* Closing it, too.
LEMMA ClosedBreaker ==
  ASSUME NEW b \in BreakerType, NEW g \in Nat
  PROVE  [b EXCEPT !.state = "CLOSED", !.failures = 0, !.retry_at = NoTime, !.probe = FALSE,
                   !.generation = g] \in BreakerType
  <1>1. 0 \in 0..Threshold /\ NoTime \in 0..NoTime
    BY SettingsAssumption DEF NoTime
  <1> QED
    BY <1>1, Zenon DEF BreakerType, CircuitState

\* Every step keeps the types, the failure count and the control points included.
LEMMA TypeHolds == IInv /\ [Next]_vars => TypeOK'
  <1> SUFFICES ASSUME IInv, [Next]_vars PROVE TypeOK'
    OBVIOUS
  <1> USE SettingsAssumption
  <1>0. TypeOK /\ CountMatches
    BY DEF IInv, StateStaysValid
  <1> USE <1>0 DEF TypeOK, CircuitState, Outcome, Goto
  <1>1. CASE UNCHANGED vars
    BY <1>1 DEF vars
  <1>2. CASE Tick
    BY <1>2 DEF Tick
  <1>3. ASSUME NEW t \in Threads, Call(t) PROVE TypeOK'
    BY <1>3 DEF Call
  <1>4. ASSUME NEW t \in Threads, Acquire(t) PROVE TypeOK'
    <2>1. breaker \in BreakerType
      BY DEF BreakerType
    <2>2. breaker' \in BreakerType
      <3>1. \/ breaker' = breaker
            \/ breaker' = [breaker EXCEPT !.state = "HALF_OPEN", !.probe = TRUE,
                                          !.generation = @ + 1]
        BY <1>4 DEF Acquire, Admit
      <3> QED
        BY <2>1, <3>1, ProbeBreaker
    <2>3. permit' \in [Threads -> [generation : Nat, half_open : BOOLEAN]]
      <3>1. CASE UNCHANGED permit
        BY <3>1
      <3>2. ASSUME NEW b \in BreakerType, NEW half \in BOOLEAN, Admit(t, b, half)
            PROVE  permit' \in [Threads -> [generation : Nat, half_open : BOOLEAN]]
        BY <3>2 DEF Admit, BreakerType
      <3> QED
        BY <1>4, <2>1, ProbeBreaker, <3>1, <3>2 DEF Acquire
    <2>4. /\ tpc' \in [Threads -> {"idle", "acquire", "operation", "record",
                                   "record_failure", "unavailable"}]
          /\ attempt' \in [Threads -> 0..3]
      BY <1>4 DEF Acquire, Admit
    <2> QED
      BY <1>4, <2>2, <2>3, <2>4 DEF Acquire, BreakerType
  <1>5. ASSUME NEW t \in Threads, Retry(t) PROVE TypeOK'
    BY <1>5 DEF Retry, attempt_cap
  <1>6. ASSUME NEW t \in Threads, Responds(t) PROVE TypeOK'
    BY <1>6 DEF Responds
  <1>7. ASSUME NEW t \in Threads, FailsTransiently(t) PROVE TypeOK'
    BY <1>7 DEF FailsTransiently
  <1>8. ASSUME NEW t \in Threads, Cancelled(t) PROVE TypeOK'
    BY <1>8 DEF Cancelled
  <1>9. ASSUME NEW t \in Threads, RecordNonTransient(t) PROVE TypeOK'
    <2>1. breaker \in BreakerType
      BY DEF BreakerType
    <2>2. permit[t].generation \in Nat /\ permit[t].half_open \in BOOLEAN
      OBVIOUS
    <2>3. breaker.generation \in Nat /\ breaker.generation + 1 \in Nat
      OBVIOUS
    <2>4. breaker' \in BreakerType
      <3> DEFINE g == IF permit[t].half_open THEN breaker.generation + 1
                      ELSE breaker.generation
      <3>1. \/ breaker' = breaker
            \/ breaker' = [breaker EXCEPT !.state = "CLOSED", !.failures = 0,
                                 !.retry_at = NoTime, !.probe = FALSE, !.generation = g]
        <4>1. CASE permit[t].half_open
          BY <1>9, <4>1, Zenon DEF RecordNonTransient
        <4>2. CASE ~permit[t].half_open
          BY <1>9, <4>2, Zenon DEF RecordNonTransient
        <4> QED
          BY <4>1, <4>2
      <3>2. g \in Nat
        BY <2>3
      <3> HIDE DEF g
      <3> QED
        <4>1. [breaker EXCEPT !.state = "CLOSED", !.failures = 0, !.retry_at = NoTime,
                              !.probe = FALSE, !.generation = g] \in BreakerType
          BY ONLY <2>1, <3>2, ClosedBreaker
        <4> QED
          BY ONLY <2>1, <3>1, <4>1
    <2>5. tpc' \in [Threads -> {"idle", "acquire", "operation", "record",
                               "record_failure", "unavailable"}]
      BY <1>9 DEF RecordNonTransient
    <2> QED
      BY <1>9, <2>4, <2>5 DEF RecordNonTransient, BreakerType
  <1>10. ASSUME NEW t \in Threads, RecordTransientFailure(t) PROVE TypeOK'
    <2>1. breaker \in BreakerType /\ seen[t] \in 0..MaxTime
      BY DEF BreakerType
    <2>2. breaker' \in BreakerType
      <3> DEFINE counted == [breaker EXCEPT !.failures = @ + 1]
      <3>1. \/ breaker' = breaker
            \/ breaker' = open(breaker, seen[t])
            \/ /\ breaker.state = "CLOSED"
               /\ breaker' \in {counted, open(counted, seen[t])}
        <4>1. CASE ~Current(t)
          BY <1>10, <4>1, Zenon DEF RecordTransientFailure
        <4>2. CASE Current(t) /\ permit[t].half_open
          BY <1>10, <4>2, Zenon DEF RecordTransientFailure
        <4>3. CASE Current(t) /\ ~permit[t].half_open
          <5>1. breaker' = IF breaker.state # "CLOSED" THEN breaker
                           ELSE IF counted.failures >= Threshold
                           THEN open(counted, seen[t]) ELSE counted
            BY <1>10, <4>3, Zenon DEF RecordTransientFailure
          <5> QED
            BY <5>1, Zenon
        <4> QED
          BY <4>1, <4>2, <4>3
      <3>2. breaker.state = "CLOSED" => counted \in BreakerType
        BY <2>1, CountedBreaker DEF CountMatches
      <3> HIDE DEF counted
      <3> QED
        BY <2>1, <3>1, <3>2, OpenBreaker
    <2>3. tpc' \in [Threads -> {"idle", "acquire", "operation", "record",
                               "record_failure", "unavailable"}]
      BY <1>10 DEF RecordTransientFailure
    <2>4. failedAt' \in 0..MaxTime
      BY <1>10, <2>1 DEF RecordTransientFailure
    <2> QED
      BY <1>10, <2>2, <2>3, <2>4 DEF RecordTransientFailure, BreakerType
  <1> QED
    BY <1>1, <1>2, <1>3, <1>4, <1>5, <1>6, <1>7, <1>8, <1>9, <1>10 DEF Next, Step

\* Steps that leave breaker and permits alone keep what relates them.
LEMMA BreakerUntouched ==
  ASSUME IInv, UNCHANGED <<breaker, permit>>
  PROVE  Valid(breaker)' /\ PermitsMatch' /\ CountMatches'
  <1>1. Valid(breaker)'
    BY Zenon DEF IInv, StateStaysValid, Valid
  <1>2. PermitsMatch'
    BY Zenon DEF IInv, PermitsMatch, Current
  <1>3. CountMatches'
    BY Zenon DEF IInv, CountMatches
  <1> QED
    BY <1>1, <1>2, <1>3

\* acquire: the breaker and the permits as they are, or a permit of a closed
\* breaker, or the one probe permit of a fresh generation.
LEMMA AcquireHolds ==
  ASSUME IInv, TypeOK', NEW t \in Threads, Acquire(t)
  PROVE  Valid(breaker)' /\ PermitsMatch' /\ CountMatches' /\ ClockMatches'
  <1> USE SettingsAssumption
  <1>0. TypeOK /\ Valid(breaker) /\ PermitsMatch /\ CountMatches /\ ClockMatches
    BY DEF IInv, StateStaysValid
  <1>1. UNCHANGED <<clock, seen, failedAt>>
    BY DEF Acquire
  <1>2. CASE UNCHANGED <<breaker, permit>>
    BY <1>1, <1>2, <1>0, BreakerUntouched DEF ClockMatches
  <1>3. CASE breaker.state = "CLOSED" /\ Admit(t, breaker, FALSE)
    <2>1. breaker' = breaker /\ permit' = [permit EXCEPT ![t] =
              [generation |-> breaker.generation, half_open |-> FALSE]]
      BY <1>3 DEF Admit
    <2>2. PermitsMatch'
      BY <1>0, <1>3, <2>1 DEF PermitsMatch, Current, TypeOK
    <2> QED
      BY <1>0, <1>1, <1>3, <2>1, <2>2 DEF Valid, CountMatches, ClockMatches
  <1>4. CASE /\ breaker.state = "OPEN"
             /\ Admit(t, [breaker EXCEPT !.state = "HALF_OPEN", !.probe = TRUE,
                                         !.generation = @ + 1], TRUE)
    <2>1. /\ breaker'.state = "HALF_OPEN" /\ breaker'.probe = TRUE
          /\ breaker'.generation = breaker.generation + 1
          /\ breaker'.retry_at = breaker.retry_at
          /\ permit' = [permit EXCEPT ![t] =
              [generation |-> breaker.generation + 1, half_open |-> TRUE]]
      BY <1>0, <1>4 DEF Admit, TypeOK
    <2>2. PermitsMatch'
      <3>1. \A u \in Threads : permit'[u].generation <= breaker'.generation
        BY <1>0, <2>1 DEF PermitsMatch, TypeOK
      <3>2. permit'[t].half_open /\ permit'[t].generation = breaker'.generation
        BY <1>0, <2>1 DEF TypeOK
      <3>3. \A u \in Threads : permit'[u].generation = breaker'.generation => u = t
        BY <1>0, <2>1 DEF PermitsMatch, TypeOK
      <3> QED
        BY <2>1, <3>1, <3>2, <3>3 DEF PermitsMatch, Current
    <2>3. Valid(breaker)'
      BY <1>0, <1>4, <2>1 DEF Valid
    <2> QED
      BY <1>0, <1>1, <2>1, <2>2, <2>3 DEF CountMatches, ClockMatches
  <1> QED
    BY <1>2, <1>3, <1>4 DEF Acquire

\* A result recorded by a caller that is not on the current generation, or on a
\* closed breaker's, or by the prober: there is no fourth kind.
LEMMA Recorder ==
  ASSUME IInv, NEW t \in Threads, Current(t)
  PROVE  /\ breaker.state # "OPEN"
         /\ breaker.state = "CLOSED" => ~permit[t].half_open
         /\ breaker.state = "HALF_OPEN" =>
               /\ permit[t].half_open /\ breaker.probe
               /\ \A u \in Threads : Current(u) => u = t
  <1>1. Valid(breaker) /\ PermitsMatch
    BY DEF IInv, StateStaysValid
  <1> QED
    BY <1>1 DEF PermitsMatch, Valid

\* Leaving a generation behind leaves nobody on the new one.
LEMMA FreshGeneration ==
  ASSUME IInv, breaker'.generation = breaker.generation + 1, UNCHANGED permit
  PROVE  \A u \in Threads : /\ permit'[u].generation <= breaker'.generation
                            /\ ~Current(u)'
  BY DEF IInv, StateStaysValid, TypeOK, PermitsMatch, Current

\* record_non_transient closes the breaker, or comes from a caller it no longer knows.
LEMMA NonTransientHolds ==
  ASSUME IInv, NEW t \in Threads, RecordNonTransient(t)
  PROVE  /\ Valid(breaker)' /\ PermitsMatch' /\ CountMatches' /\ ClockMatches'
         /\ tpc' = [tpc EXCEPT ![t] = "idle"]
  <1> USE SettingsAssumption
  <1>0. TypeOK /\ Valid(breaker) /\ PermitsMatch /\ CountMatches /\ ClockMatches
    BY DEF IInv, StateStaysValid
  <1>1. UNCHANGED <<clock, seen, failedAt, permit>>
    BY DEF RecordNonTransient
  <1>2. CASE ~Current(t) \/ (~permit[t].half_open /\ breaker.state # "CLOSED")
    <2>1. breaker' = breaker /\ tpc' = [tpc EXCEPT ![t] = "idle"]
      BY <1>2 DEF RecordNonTransient, Goto
    <2> QED
      BY <1>1, <2>1, <1>0, BreakerUntouched DEF ClockMatches
  <1>3. CASE Current(t) /\ (permit[t].half_open \/ breaker.state = "CLOSED")
    <2>1. ~(permit[t].half_open /\ (breaker.state # "HALF_OPEN" \/ ~breaker.probe))
      BY <1>0, <1>3, Recorder DEF TypeOK, CircuitState
    <2>2. /\ breaker' = [breaker EXCEPT !.state = "CLOSED", !.failures = 0,
                  !.retry_at = NoTime, !.probe = FALSE,
                  !.generation = IF permit[t].half_open THEN @ + 1 ELSE @]
          /\ tpc' = [tpc EXCEPT ![t] = "idle"]
      BY <1>3, <2>1 DEF RecordNonTransient, Goto
    <2>3. /\ breaker'.state = "CLOSED" /\ breaker'.failures = 0
          /\ breaker'.retry_at = NoTime /\ breaker'.probe = FALSE
          /\ breaker'.generation = IF permit[t].half_open THEN breaker.generation + 1
                                   ELSE breaker.generation
      BY <1>0, <2>2 DEF TypeOK
    <2>4. PermitsMatch'
      <3>1. CASE permit[t].half_open
        BY <1>1, <2>3, <3>1, FreshGeneration DEF PermitsMatch
      <3>2. CASE ~permit[t].half_open
        BY <1>0, <1>1, <1>3, <2>3, <3>2 DEF PermitsMatch, Current
      <3> QED
        BY <3>1, <3>2
    <2> QED
      BY <1>0, <1>1, <2>2, <2>3, <2>4 DEF Valid, CountMatches, ClockMatches
  <1> QED
    BY <1>2, <1>3

\* Opening starts a generation, and its deadline counts from now.
LEMMA OpenFields ==
  ASSUME NEW b \in BreakerType, NEW now
  PROVE  /\ open(b, now).state = "OPEN" /\ open(b, now).probe = FALSE
         /\ open(b, now).retry_at = now + Cooldown
         /\ open(b, now).generation = b.generation + 1
  BY DEF open, BreakerType

\* record_transient_failure counts, opens the breaker, or comes too late to matter.
LEMMA TransientHolds ==
  ASSUME IInv, NEW t \in Threads, RecordTransientFailure(t)
  PROVE  /\ Valid(breaker)' /\ PermitsMatch' /\ CountMatches' /\ ClockMatches'
         /\ tpc' = [tpc EXCEPT ![t] = "idle"]
  <1> USE SettingsAssumption
  <1> DEFINE counted == [breaker EXCEPT !.failures = @ + 1]
  <1>0. TypeOK /\ Valid(breaker) /\ PermitsMatch /\ CountMatches /\ ClockMatches
    BY DEF IInv, StateStaysValid
  <1>1. UNCHANGED <<clock, seen, permit>>
    BY DEF RecordTransientFailure
  <1>2. breaker \in BreakerType /\ seen[t] \in 0..MaxTime /\ breaker.generation \in Nat
    BY <1>0 DEF TypeOK, BreakerType
  <1>3. failedAt' = IF breaker'.state = "OPEN" /\ breaker # breaker' THEN seen[t] ELSE failedAt
    BY DEF RecordTransientFailure
  <1>4. ASSUME NEW b \in BreakerType, b.generation = breaker.generation,
               breaker' = open(b, seen[t])
        PROVE  Valid(breaker)' /\ PermitsMatch' /\ CountMatches' /\ ClockMatches'
    <2>1. /\ breaker'.state = "OPEN" /\ breaker'.probe = FALSE
          /\ breaker'.retry_at = seen[t] + Cooldown
          /\ breaker'.generation = breaker.generation + 1
      BY <1>4, OpenFields
    <2>2. PermitsMatch'
      BY <1>1, <2>1, FreshGeneration DEF PermitsMatch
    <2>3. seen[t] + Cooldown # NoTime
      BY <1>2 DEF NoTime
    <2>4. breaker # breaker'
      BY <1>2, <2>1
    <2>5. Valid(breaker)' /\ CountMatches'
      BY <2>1, <2>3 DEF Valid, CountMatches
    <2>6. ClockMatches'
      BY <1>0, <1>1, <1>3, <2>1, <2>4 DEF ClockMatches
    <2> QED
      BY <2>2, <2>5, <2>6
  <1>5. ASSUME breaker' = breaker
        PROVE  Valid(breaker)' /\ PermitsMatch' /\ CountMatches' /\ ClockMatches'
    BY <1>0, <1>1, <1>3, <1>5, BreakerUntouched DEF ClockMatches
  <1>6. CASE ~Current(t)
    <2>1. breaker' = breaker /\ tpc' = [tpc EXCEPT ![t] = "idle"]
      BY <1>6, Zenon DEF RecordTransientFailure, Goto
    <2> QED
      BY <1>5, <2>1
  <1>7. CASE Current(t) /\ permit[t].half_open
    <2>1. breaker.state = "HALF_OPEN" /\ breaker.probe
      BY <1>0, <1>7, Recorder DEF TypeOK, CircuitState
    <2>2. breaker' = open(breaker, seen[t]) /\ tpc' = [tpc EXCEPT ![t] = "idle"]
      BY <1>7, <2>1, Zenon DEF RecordTransientFailure, Goto
    <2> QED
      BY <1>2, <1>4, <2>2
  <1>8. CASE Current(t) /\ ~permit[t].half_open
    <2>1. breaker.state = "CLOSED"
      BY <1>0, <1>8, Recorder DEF TypeOK, CircuitState
    <2>2. /\ breaker' = IF counted.failures >= Threshold THEN open(counted, seen[t])
                        ELSE counted
          /\ tpc' = [tpc EXCEPT ![t] = "idle"]
      BY <1>8, <2>1, Zenon DEF RecordTransientFailure, Goto
    <2>3. counted \in BreakerType
      BY <1>0, <1>2, <2>1, CountedBreaker DEF CountMatches
    <2>4. /\ counted.generation = breaker.generation /\ counted.state = breaker.state
          /\ counted.retry_at = breaker.retry_at /\ counted.probe = breaker.probe
      BY <1>2 DEF BreakerType
    <2>5. CASE breaker' = open(counted, seen[t])
      BY <1>4, <2>2, <2>3, <2>4, <2>5
    <2>6. CASE breaker' = counted /\ ~(counted.failures >= Threshold)
      <3>1. PermitsMatch'
        BY <1>0, <1>1, <2>1, <2>4, <2>6, Zenon DEF PermitsMatch, Current
      <3>2. Valid(breaker)' /\ ClockMatches'
        BY <1>0, <1>1, <2>1, <2>4, <2>6 DEF Valid, ClockMatches
      <3>3. CountMatches'
        BY <2>3, <2>6 DEF CountMatches, BreakerType
      <3> QED
        BY <2>2, <3>1, <3>2, <3>3
    <2> QED
      BY <2>2, <2>5, <2>6
  <1> QED
    BY <1>6, <1>7, <1>8

\* Every step keeps the inductive invariant.
LEMMA NextHolds == IInv /\ [Next]_vars => IInv'
  <1> SUFFICES ASSUME IInv, [Next]_vars PROVE IInv'
    OBVIOUS
  <1> DEFINE Kept == Valid(breaker)' /\ PermitsMatch' /\ CountMatches' /\ ClockMatches'
             Answering == \A t \in Threads : tpc'[t] # "unavailable"
  <1>a. /\ TypeOK /\ ClockMatches /\ \A t \in Threads : tpc[t] # "unavailable"
        /\ TypeOK'
    BY TypeHolds DEF IInv, StateStaysValid
  <1>b. ASSUME UNCHANGED <<breaker, permit, seen, failedAt>>, clock' \in {clock, clock + 1}
        PROVE  Kept
    BY <1>a, <1>b, BreakerUntouched DEF ClockMatches, TypeOK
  <1>c. ASSUME NEW t \in Threads, UNCHANGED <<breaker, permit, failedAt, clock>>,
               seen' = [seen EXCEPT ![t] = clock]
        PROVE  Kept
    BY <1>a, <1>c, BreakerUntouched DEF ClockMatches, TypeOK
  <1>1. ASSUME UNCHANGED vars PROVE Kept /\ Answering
    BY <1>a, <1>b, <1>1 DEF vars
  <1>2. ASSUME Tick PROVE Kept /\ Answering
    BY <1>a, <1>b, <1>2 DEF Tick
  <1>3. ASSUME NEW t \in Threads, Call(t) PROVE Kept /\ Answering
    BY <1>a, <1>c, <1>3 DEF Call, Goto, TypeOK
  <1>4. ASSUME NEW t \in Threads, Acquire(t) PROVE Kept /\ Answering
    <2>1. Answering
      BY <1>a, <1>4 DEF Acquire, Admit, Goto, TypeOK
    <2> QED
      BY <1>a, <1>4, <2>1, AcquireHolds
  <1>5. ASSUME NEW t \in Threads, Retry(t) PROVE Kept /\ Answering
    BY <1>a, <1>b, <1>5 DEF Retry
  <1>6. ASSUME NEW t \in Threads, Responds(t) PROVE Kept /\ Answering
    BY <1>a, <1>b, <1>6 DEF Responds, Goto, TypeOK
  <1>7. ASSUME NEW t \in Threads, FailsTransiently(t) PROVE Kept /\ Answering
    BY <1>a, <1>c, <1>7 DEF FailsTransiently, Goto, TypeOK
  <1>8. ASSUME NEW t \in Threads, Cancelled(t) PROVE Kept /\ Answering
    BY <1>a, <1>b, <1>8 DEF Cancelled, Goto, TypeOK
  <1>9. ASSUME NEW t \in Threads, RecordNonTransient(t) PROVE Kept /\ Answering
    BY <1>a, <1>9, NonTransientHolds DEF TypeOK
  <1>10. ASSUME NEW t \in Threads, RecordTransientFailure(t) PROVE Kept /\ Answering
    BY <1>a, <1>10, TransientHolds DEF TypeOK
  <1>11. Kept /\ Answering
    BY <1>a, <1>1, <1>2, <1>3, <1>4, <1>5, <1>6, <1>7, <1>8, <1>9, <1>10
       DEF Next, Step
  <1> QED
    BY <1>a, <1>11 DEF IInv, StateStaysValid

\* The inductive invariant holds of every reachable state.
LEMMA Invariance == Spec => []IInv
  BY InitHolds, NextHolds, PTL DEF Spec

\* safety/circuit.py: no interleaving of any number of callers leads the breaker
\* into a state its own consistency check refuses.
THEOREM BreakerStaysValid == Spec => []StateStaysValid
  <1>1. IInv => StateStaysValid
    BY DEF IInv
  <1> QED
    BY <1>1, Invariance, PTL

-----------------------------------------------------------------------------
\* The breaker leaves OPEN for HALF_OPEN in acquire only.
LEMMA ProbeStart ==
  ASSUME IInv, [Next]_vars, breaker.state # breaker'.state \/ permit # permit'
  PROVE  \E t \in Threads :
           \/ Acquire(t) \/ RecordNonTransient(t) \/ RecordTransientFailure(t)
  BY DEF Next, Step, Tick, Call, Retry, Responds, FailsTransiently, Cancelled, vars

\* safety/circuit.py: a probe starts no earlier than one full cooldown after the
\* failure that opened the circuit, with any stale clock readings.
THEOREM CooldownServed == Spec => CooldownHonoured
  <1>1. ASSUME IInv, [Next]_vars, breaker.state = "OPEN", breaker'.state = "HALF_OPEN"
        PROVE  clock >= failedAt + Cooldown
    <2>1. PICK t \in Threads :
            Acquire(t) \/ RecordNonTransient(t) \/ RecordTransientFailure(t)
      BY <1>1, ProbeStart
    <2>2. TypeOK /\ ClockMatches /\ PermitsMatch
      BY <1>1 DEF IInv, StateStaysValid
    <2>3. ~Current(t)
      BY <1>1, <2>2 DEF PermitsMatch
    <2>4. Acquire(t)
      BY <1>1, <2>1, <2>3, Zenon DEF RecordNonTransient, RecordTransientFailure
    <2>5. seen[t] >= breaker.retry_at
      BY <1>1, <2>4 DEF Acquire, Admit
    <2> QED
      BY <1>1, <2>2, <2>5, SettingsAssumption DEF ClockMatches, TypeOK
  <1>2. IInv /\ [Next]_vars =>
          [breaker.state = "OPEN" /\ breaker'.state = "HALF_OPEN"
             => clock >= failedAt + Cooldown]_vars
    BY <1>1
  <1> QED
    BY <1>2, Invariance, PTL DEF Spec, CooldownHonoured

-----------------------------------------------------------------------------
(***************************************************************************)
(* The refinement.  The prober is the one caller on a half-open breaker's  *)
(* generation.                                                             *)
(***************************************************************************)

\* The one caller on the current half-open generation is the prober.
LEMMA ProberIs ==
  ASSUME NEW t \in Threads, breaker.state = "HALF_OPEN", Current(t), permit[t].half_open,
         \A u \in Threads : Current(u) => u = t
  PROVE  Prober = t
  BY Zenon DEF Prober

\* A breaker that is not half open has no prober.
LEMMA NoProber ==
  ASSUME breaker.state # "HALF_OPEN"
  PROVE  Prober = Nobody
  BY DEF Prober

\* The same, after a step.
LEMMA ProberIsNext ==
  ASSUME NEW t \in Threads, breaker'.state = "HALF_OPEN", Current(t)', permit'[t].half_open,
         \A u \in Threads : Current(u)' => u = t
  PROVE  Prober' = t
  BY Zenon DEF Prober

\* The same, after a step.
LEMMA NoProberNext ==
  ASSUME breaker'.state # "HALF_OPEN"
  PROVE  Prober' = Nobody
  BY DEF Prober

\* Every step of the breaker is a step of the gate, or none.
LEMMA GateStep ==
  ASSUME IInv, IInv', [Next]_vars
  PROVE  [Gate!GateNext]_<<breaker.state, Prober>>
  <1> DEFINE Same == breaker'.state = breaker.state /\ Prober' = Prober
  <1>0. /\ TypeOK /\ PermitsMatch /\ PermitsMatch'
        /\ breaker.state \in CircuitState
    BY DEF IInv, StateStaysValid, TypeOK
  <1>1. ASSUME breaker' = breaker, permit' = permit PROVE Same
    BY <1>1 DEF Prober, Current
  <1>2. ASSUME breaker'.state = breaker.state, breaker.state # "HALF_OPEN" PROVE Same
    BY <1>2, NoProber, NoProberNext
  <1>3. ASSUME NEW t \in Threads, Acquire(t), ~Same
        PROVE  Gate!Probe(t)
    <2>1. /\ breaker.state = "OPEN"
          /\ breaker' = [breaker EXCEPT !.state = "HALF_OPEN", !.probe = TRUE,
                                        !.generation = @ + 1]
          /\ permit' = [permit EXCEPT ![t] =
                [generation |-> breaker'.generation, half_open |-> TRUE]]
      BY <1>1, <1>2, <1>3 DEF Acquire, Admit
    <2>2. /\ breaker'.state = "HALF_OPEN"
          /\ permit'[t].half_open /\ Current(t)'
      BY <1>0, <2>1 DEF TypeOK, Current
    <2>3. Prober' = t
      BY <1>0, <2>2, ProberIsNext DEF PermitsMatch
    <2>4. Prober = Nobody
      BY <2>1, NoProber
    <2> QED
      BY <2>1, <2>2, <2>3, <2>4 DEF Gate!Probe
  <1>4. ASSUME NEW t \in Threads, Current(t), breaker.state = "HALF_OPEN",
               breaker'.state \in {"CLOSED", "OPEN"}
        PROVE  Gate!Answer(t) \/ Gate!NoAnswer(t)
    <2>1. Prober = t
      BY <1>4, Recorder, ProberIs
    <2>2. Prober' = Nobody
      BY <1>4, NoProberNext
    <2> QED
      BY <1>4, <2>1, <2>2 DEF Gate!Answer, Gate!NoAnswer
  <1>5. ASSUME NEW t \in Threads, RecordNonTransient(t), ~Same
        PROVE  Gate!Answer(t) \/ Gate!NoAnswer(t)
    <2>1. permit' = permit
      BY <1>5 DEF RecordNonTransient
    <2>2. Current(t) /\ breaker' # breaker
      BY <1>1, <1>5, <2>1, Zenon DEF RecordNonTransient
    <2>3. breaker'.state = "CLOSED"
      BY <1>0, <1>5, <2>2 DEF RecordNonTransient, TypeOK
    <2>4. breaker.state = "HALF_OPEN"
      BY <1>0, <1>2, <1>5, <2>2, <2>3, Recorder DEF CircuitState
    <2> QED
      BY <1>4, <2>2, <2>3, <2>4
  <1>6. ASSUME NEW t \in Threads, RecordTransientFailure(t), ~Same
        PROVE  Gate!Trip \/ Gate!Answer(t) \/ Gate!NoAnswer(t)
    <2>1. permit' = permit
      BY <1>6 DEF RecordTransientFailure
    <2>2. Current(t) /\ breaker' # breaker
      BY <1>1, <1>6, <2>1, Zenon DEF RecordTransientFailure
    <2>3. breaker'.state = "OPEN" \/ breaker'.state = breaker.state
      <3> DEFINE counted == [breaker EXCEPT !.failures = @ + 1]
      <3>1. \/ breaker' = open(breaker, seen[t])
            \/ breaker' = counted \/ breaker' = open(counted, seen[t])
        <4>1. CASE permit[t].half_open
          BY <1>6, <2>2, <4>1, Zenon DEF RecordTransientFailure
        <4>2. CASE ~permit[t].half_open
          BY <1>6, <2>2, <4>2, Zenon DEF RecordTransientFailure
        <4> QED
          BY <4>1, <4>2
      <3>2. open(breaker, seen[t]).state = "OPEN" /\ counted.state = breaker.state
        BY <1>0 DEF TypeOK, open
      <3>3. open(counted, seen[t]).state = "OPEN"
        BY <1>0 DEF TypeOK, open
      <3> HIDE DEF counted
      <3> QED
        BY <3>1, <3>2, <3>3
    <2>4. breaker.state # "OPEN"
      BY <2>2, Recorder
    <2>5. CASE breaker.state = "HALF_OPEN"
      <3>1. permit[t].half_open /\ breaker.probe
        BY <2>2, <2>5, Recorder
      <3>2. breaker' = open(breaker, seen[t])
        BY <1>6, <2>2, <2>5, <3>1, Zenon DEF RecordTransientFailure
      <3>3. open(breaker, seen[t]).state = "OPEN"
        BY <1>0 DEF TypeOK, open
      <3>4. breaker'.state = "OPEN"
        BY <3>2, <3>3, Zenon
      <3> QED
        BY <1>4, <2>2, <2>5, <3>4
    <2>6. CASE breaker.state = "CLOSED"
      <3>1. breaker'.state = "OPEN"
        <4> SUFFICES ASSUME breaker'.state = "CLOSED" PROVE FALSE
          BY <2>3, <2>6
        <4>1. Prober' = Prober
          BY <2>6, NoProber, NoProberNext
        <4> QED
          BY <1>6, <2>6, <4>1
      <3> QED
        BY <2>6, <3>1, NoProber, NoProberNext DEF Gate!Trip
    <2> QED
      BY <1>0, <2>4, <2>5, <2>6 DEF CircuitState
  <1>7. ASSUME ~Same
        PROVE  \E t \in Threads :
                 Acquire(t) \/ RecordNonTransient(t) \/ RecordTransientFailure(t)
    BY <1>1, <1>7 DEF Next, Step, Tick, Call, Retry, Responds, FailsTransiently, Cancelled,
                      vars
  <1> QED
    BY <1>3, <1>5, <1>6, <1>7 DEF Gate!GateNext

\* safety/circuit.py implements the probe gate: whatever the callers do, an open
\* circuit is tried by one prober at a time, and that prober's result alone
\* decides whether it closes or opens again.
THEOREM BreakerImplementsProbeGate == Spec => ImplementsProbeGate
  <1>1. Init => Gate!GateInit
    BY DEF Init, Gate!GateInit, Prober
  <1>2. IInv /\ IInv' /\ [Next]_vars => [Gate!GateNext]_<<breaker.state, Prober>>
    BY GateStep
  <1> QED
    BY <1>1, <1>2, Invariance, PTL DEF Spec, ImplementsProbeGate, Gate!GateSpec
=============================================================================
