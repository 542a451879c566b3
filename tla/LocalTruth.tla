----------------------------- MODULE LocalTruth -----------------------------
(***************************************************************************)
(* What the local workflow keeps on disk: the durable truth file (a run    *)
(* and a checkpoint for each member of Runs) and the mock inventory file   *)
(* (one resource, and the receipts of what was done to it).  Each file is  *)
(* replaced as a whole under its lock, so a call is one atomic step; it    *)
(* can fail before the replacement or, when only the directory sync fails, *)
(* after it.  The audit log is only ever written, so an append is modelled *)
(* by how it ends.                                                         *)
(***************************************************************************)
EXTENDS NonZero

CONSTANTS Runs,        \* runs that target the one resource
          Nobody,
          Sessions,    \* operator sessions
          Kinds,       \* what the resource can be
          MaxRequests, \* bound: approval challenges issued for a run
          MaxFaults    \* bound: file operations that fail

ASSUME LocalAssumption ==
    /\ Nobody \notin Runs \cup Sessions
    /\ Kinds \subseteq {"address", "group", "ambiguous", "tags", "clean"}
    /\ MaxRequests \in Nat /\ MaxFaults \in Nat

VARIABLES run,        \* Run of each member of Runs
          checkpoint, \* its Checkpoint
          resource,   \* the inventory's resource
          receipts,   \* runs that own a receipt; one key serves all runs
          lapsed,     \* challenges past expires_at
          expired,    \* runs whose proposal is past expires_at
          faults,
          mutations   \* history: times the resource was changed

local == <<run, checkpoint, resource, receipts, lapsed, expired, faults, mutations>>
inventory == <<resource, receipts, mutations>>
time == <<lapsed, expired>>

Resource == {"absent", "address", "group", "ambiguous", "tags", "clean"}
Run == [state : WorkflowState, version : 0..10]
Decision == {"none", "APPROVED", "DENIED"}
Checkpoint ==
    [version : Nat, safe : WorkflowState, evidence : Resource \cup {"none"},
     proposal : BOOLEAN, request : 0..MaxRequests, session : Sessions \cup {Nobody},
     decision : Decision, intent : BOOLEAN, receipt : Runs \cup {Nobody}, verified : BOOLEAN]

LocalTypeOK ==
    /\ run \in [Runs -> Run]
    /\ checkpoint \in [Runs -> Checkpoint]
    /\ resource \in Resource
    /\ receipts \subseteq Runs
    /\ lapsed \subseteq Runs \X (1..MaxRequests)
    /\ expired \subseteq Runs
    /\ faults \in 0..MaxFaults
    /\ mutations \in Nat

NoRun == [state |-> "RECEIVED", version |-> 0]
Received == [state |-> "RECEIVED", version |-> 1]
NoCheckpoint ==
    [version |-> 0, safe |-> "RECEIVED", evidence |-> "none", proposal |-> FALSE,
     request |-> 0, session |-> Nobody, decision |-> "none", intent |-> FALSE,
     receipt |-> Nobody, verified |-> FALSE]

LocalInit ==
    /\ run = [r \in Runs |-> NoRun]
    /\ checkpoint = [r \in Runs |-> NoCheckpoint]
    /\ resource \in Kinds
    /\ receipts = {}
    /\ lapsed = {}
    /\ expired = {}
    /\ faults = 0
    /\ mutations = 0

-----------------------------------------------------------------------------
\* An OSError or a failed integrity check somewhere in a file operation.
Fault == faults < MaxFaults /\ faults' = faults + 1

\* A read of the durable truth file (under the shared lock).
ReadTruth(res) ==
    /\ UNCHANGED <<run, checkpoint, inventory, time>>
    /\ \/ res = "ok" /\ UNCHANGED faults
       \/ res = "unavailable" /\ Fault

\* _mutate: load, apply, replace.  A refused operation writes nothing; a failed
\* one leaves the old file or the new one, never a mixture.
Mutate(condition, change, same, res) ==
    \/ res = "ok" /\ condition /\ change /\ UNCHANGED faults
    \/ res = "conflict" /\ ~condition /\ same /\ UNCHANGED faults
    \/ res = "unavailable" /\ Fault /\ (same \/ (condition /\ change))

\* Refused when the run exists, or (a fault) when the store holds 2048 runs.
create_run(r, res) ==
    /\ \/ Mutate(run[r] = NoRun, run' = [run EXCEPT ![r] = Received], UNCHANGED run, res)
       \/ res = "conflict" /\ Fault /\ UNCHANGED run
    /\ UNCHANGED <<checkpoint, inventory, time>>

\* The proof in the stored checkpoint that a decision or success needs.
LocalProof(r, to) ==
    LET stored == checkpoint[r] IN
    /\ to = "APPROVED" => stored.proposal /\ stored.decision = "APPROVED"
    /\ to = "DENIED_BY_HUMAN" => stored.proposal /\ stored.decision = "DENIED"
    /\ to = "SUCCESS_WITH_EVIDENCE" => stored.proposal /\ stored.receipt = r /\ stored.verified

\* A transition the table forbids raises WorkflowTransitionError ("illegal").
transition_run(r, known, to, res) ==
    LET current == run[r] = known /\ LocalProof(r, to)
        legal   == to \in ALLOWED_WORKFLOW_TRANSITIONS[known.state]
    IN  /\ \/ /\ current => legal
              /\ Mutate(current, run' = [run EXCEPT ![r] = [state |-> to,
                                                            version |-> known.version + 1]],
                        UNCHANGED run, res)
           \/ res = "illegal" /\ current /\ ~legal /\ UNCHANGED <<run, faults>>
        /\ UNCHANGED <<checkpoint, inventory, time>>

\* Replaces the version it was built from.
save_checkpoint(r, base, new, res) ==
    /\ Mutate(checkpoint[r].version = base.version,
              checkpoint' = [checkpoint EXCEPT ![r] = [new EXCEPT !.version = base.version + 1]],
              UNCHANGED checkpoint, res)
    /\ UNCHANGED <<run, inventory, time>>

\* Refused only when the run's log is full, which counts as a fault.
append_audit_event(res) ==
    /\ UNCHANGED <<run, checkpoint, inventory, time>>
    /\ \/ res = "ok" /\ UNCHANGED faults
       \/ res \in {"conflict", "unavailable"} /\ Fault

\* The cross-record rules Checkpoint validates when it is built for run r.
ValidCheckpoint(r, c) ==
    /\ c.safe \notin {"EXECUTING", "VERIFYING"}
    /\ c.proposal => c.evidence # "none"
    /\ c.request > 0 => c.proposal
    /\ c.decision # "none" => c.request > 0
    /\ c.intent => c.decision = "APPROVED"
    /\ c.receipt # Nobody => c.intent /\ c.receipt = r
    /\ c.verified => c.receipt # Nobody

-----------------------------------------------------------------------------
(* The mock inventory *)

ReadInventory(res) ==
    /\ UNCHANGED <<run, checkpoint, inventory, time>>
    /\ \/ res = "ok" /\ UNCHANGED faults
       \/ res = "unavailable" /\ Fault

\* The receipt stored under the proposal's key.  The key is the proposal's
\* canonical hash, which leaves out the run: every run has the same one.
get_receipt == IF receipts = {} THEN Nobody ELSE CHOOSE owner \in receipts : TRUE

Applied(kind) == IF kind = "address" THEN "absent" ELSE "clean"

\* Mutant: the receipt of an earlier attempt is not looked for.
execute_again(r, evidence, res) ==
    LET change == /\ resource' = Applied(evidence)
                  /\ receipts' = receipts \cup {r}
                  /\ mutations' = mutations + 1
        same   == UNCHANGED inventory
    IN  /\ \/ res = "policy" /\ evidence = "ambiguous" /\ same /\ UNCHANGED faults
           \/ evidence # "ambiguous" /\ Mutate(TRUE, change, same, res)
        /\ UNCHANGED <<run, checkpoint, time>>

\* LocalMockStateStore.execute: an own receipt is returned, a foreign one or a
\* changed target is a conflict, duplicate rules are a policy denial; otherwise
\* resource and receipt are replaced together.
execute(r, evidence, res) ==
    LET change == /\ resource' = Applied(evidence)
                  /\ receipts' = receipts \cup {r}
                  /\ mutations' = mutations + 1
        same   == UNCHANGED inventory
    IN  /\ \/ r \in receipts /\ res = "ok" /\ same /\ UNCHANGED faults
           \/ r \in receipts /\ res = "unavailable" /\ same /\ Fault
           \/ /\ r \notin receipts
              /\ evidence = "ambiguous" /\ receipts = {} /\ resource = evidence
              /\ \/ res = "policy" /\ same /\ UNCHANGED faults
                 \/ res = "unavailable" /\ same /\ Fault
           \/ /\ r \notin receipts
              /\ evidence # "ambiguous"
              /\ Mutate(receipts = {} /\ resource = evidence, change, same, res)
        /\ UNCHANGED <<run, checkpoint, time>>

\* LocalMockStateStore.verify of run r's receipt.
ReadBack(r, evidence) == r \in receipts /\ resource = Applied(evidence)
=============================================================================
