---------------------------- MODULE MCDynamoStore ----------------------------
(* Scenarios of DynamoStore in one run: a behaviour begins by choosing where  *)
(* the run stands, which methods are called, by how many clients and how      *)
(* often.  Clients are interchangeable.                                       *)
EXTENDS DynamoStore

VARIABLE cast

Cast(starts, kinds, targets, clients, calls, fault) ==
    [starts |-> starts, kinds |-> kinds, targets |-> targets, clients |-> clients,
     calls |-> calls, faults |-> fault]

\* A run is created, proposed and decided; a run is executed and verified; three
\* clients race with one call each.
Decide ==
    Cast({"new", "proposed", "awaiting", "approved"},
         {"create_run", "create_proposal", "transition_run", "transition_proposal",
          "create_approval", "register_idempotency", "save_checkpoint"},
         {"INVESTIGATING", "AWAITING_APPROVAL", "APPROVED", "DENIED_BY_HUMAN", "EXECUTING"},
         2, 2, 0)
Finish ==
    Cast({"executing", "verifying"},
         {"transition_run", "update_run_budget", "complete_idempotency",
          "record_execution_acknowledgement", "create_verification_evidence"},
         {"VERIFYING", "SUCCESS_WITH_EVIDENCE", "RECOVERY_REQUIRED"}, 2, 2, 1)
Race ==
    Cast({"awaiting", "approved", "executing", "verifying"},
         {"transition_run", "update_run_budget", "create_approval", "register_idempotency",
          "complete_idempotency", "record_execution_acknowledgement",
          "create_verification_evidence"},
         {"APPROVED", "DENIED_BY_HUMAN", "EXECUTING", "VERIFYING", "RECOVERY_REQUIRED"},
         3, 1, 1)

Acting == {c \in Clients : call[c].pc # "idle" \/ outcome[c].calls > 0}
MayBegin(c) ==
    /\ outcome[c].calls < cast.calls
    /\ c \in Acting \/ Cardinality(Acting) < cast.clients
InCast(kind, arg) == kind \in cast.kinds /\ (kind = "transition_run" => arg \in cast.targets)

ScenarioInit ==
    Init /\ cast \in {Decide, Finish, Race} /\ \E s \in cast.starts : table = Stages[s]
ScenarioNext ==
    /\ \E c \in Clients :
         \/ MayBegin(c) /\ Begin(c) /\ InCast(call'[c].kind, call'[c].arg)
         \/ Read(c) \/ Refuse(c) \/ Write(c) \/ Fails(c) \/ Lost(c) \/ Again(c)
    /\ faults' <= cast.faults
    /\ UNCHANGED cast
ScenarioSpec == ScenarioInit /\ [][ScenarioNext]_<<vars, cast>>

Symmetry == Permutations(Clients)
=============================================================================
