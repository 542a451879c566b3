-------------------------- MODULE SandboxInstance --------------------------
(***************************************************************************)
(* The one EC2 sandbox instance (external) and the operator's emergency    *)
(* veto, an environment variable that the executor reads afresh.           *)
(***************************************************************************)
EXTENDS DurableTruth

CONSTANT MaxDrift      \* bound: out-of-band changes of the instance

ASSUME MaxDriftAssumption == MaxDrift \in Nat

VARIABLES instance,      \* lifecycle state DescribeInstances reports
          writesEnabled, \* AIOA_EMERGENCY_EXECUTION_DISABLED = "false"
          drift,         \* out-of-band changes so far
          stopCalls,     \* history: StopInstances requests sent (not DryRun)
          ambiguous      \* history: a request was sent and its reply lost

cloud == <<instance, writesEnabled, drift, stopCalls, ambiguous>>

CloudTypeOK ==
    /\ instance \in {"running", "stopping", "stopped"}
    /\ writesEnabled \in BOOLEAN
    /\ drift \in 0..MaxDrift
    /\ stopCalls \in Nat
    /\ ambiguous \in BOOLEAN

CloudInit ==
    /\ instance = "running"
    /\ writesEnabled = TRUE
    /\ drift = 0
    /\ stopCalls = 0
    /\ ambiguous = FALSE

\* EC2 finishes a graceful stop in its own time.
InstanceStops ==
    /\ instance = "stopping"
    /\ instance' = "stopped"
    /\ UNCHANGED <<durable, writesEnabled, drift, stopCalls, ambiguous>>

\* Somebody else stops or starts the instance through another console.
InstanceDrifts ==
    /\ drift < MaxDrift
    /\ drift' = drift + 1
    /\ instance' = IF instance = "running" THEN "stopping" ELSE "running"
    /\ UNCHANGED <<durable, writesEnabled, stopCalls, ambiguous>>

\* The operator raises the veto; it stays up for the rest of the run.
OperatorVeto ==
    /\ writesEnabled
    /\ writesEnabled' = FALSE
    /\ UNCHANGED <<durable, instance, drift, stopCalls, ambiguous>>

CloudNext == InstanceStops \/ InstanceDrifts \/ OperatorVeto
=============================================================================
