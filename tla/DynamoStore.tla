---------------------------- MODULE DynamoStore ----------------------------
(***************************************************************************)
(* DynamoDbDurableTruthRepository.  A method reads the items it needs one  *)
(* by one, tests them, and sends one conditional write of one item; other  *)
(* clients write in between.  A request may fail before or after DynamoDB  *)
(* applied it.  The items belong to one run with its one proposal.         *)
(***************************************************************************)
EXTENDS NonZero, Sequences, TLC

CONSTANTS Clients,      \* processes that call the repository
          None,         \* absent
          Kinds,        \* the methods they call
          Targets,      \* run states they ask for
          Starts,       \* how far the run has come when they begin
          MaxCalls,     \* bound: calls of each client
          MaxFaults     \* bound: requests whose response is lost

ASSUME StoreAssumption == MaxCalls \in Nat /\ MaxFaults \in Nat /\ None \notin Clients

VARIABLES table,    \* the stored items
          call,     \* each client's call in progress
          snap,     \* the items the call has read
          outcome,  \* what each client's calls have come back with
          faults

vars == <<table, call, snap, outcome, faults>>

Items == {"run", "proposal", "approval", "idem", "evidence", "checkpoint"}
Idle == [kind |-> "none", arg |-> "none", expected |-> None, pc |-> "idle"]

\* An item is put with its record and the attributes that conditions can name
Claimed(status, ack) == [status |-> status, ack |-> ack, hash |-> ack, proof |-> None]
Stage(state, version, proposal, decision, claim) ==
    [run        |-> [state |-> state, version |-> version, turns |-> 0],
     proposal   |-> proposal,
     approval   |-> [decision |-> decision, by |-> None],
     idem       |-> claim,
     evidence   |-> [id |-> None, origin |-> "none"],
     checkpoint |-> [version |-> 0, by |-> None]]
Unclaimed == Claimed("none", None)
Stages ==
    [new       |-> Stage("none", 0, "none", "none", Unclaimed),
     proposed  |-> Stage("REMEDIATION_PROPOSED", 4, "PROPOSED", "none", Unclaimed),
     awaiting  |-> Stage("AWAITING_APPROVAL", 5, "AWAITING_APPROVAL", "none", Unclaimed),
     approved  |-> Stage("APPROVED", 6, "AWAITING_APPROVAL", "APPROVED", Unclaimed),
     executing |-> Stage("EXECUTING", 7, "AWAITING_APPROVAL", "APPROVED",
                         Claimed("REGISTERED", None)),
     verifying |-> Stage("VERIFYING", 8, "AWAITING_APPROVAL", "APPROVED",
                         Claimed("REGISTERED", None))]

\* The methods that write
Methods ==
    {"create_run", "transition_run", "update_run_budget", "create_proposal",
     "transition_proposal", "create_approval", "register_idempotency", "complete_idempotency",
     "record_execution_acknowledgement", "create_verification_evidence", "save_checkpoint"}

ASSUME ScopeAssumption ==
    Kinds \subseteq Methods /\ Targets \subseteq WorkflowState /\ Starts \subseteq DOMAIN Stages

Init ==
    /\ \E s \in Starts : table = Stages[s]
    /\ call = [c \in Clients |-> Idle]
    /\ snap = [c \in Clients |-> << >>]
    /\ outcome = [c \in Clients |-> [calls |-> 0, ok |-> {}]]
    /\ faults = 0

-----------------------------------------------------------------------------
(* The item a method writes, and the items it reads first, in order *)
Item(kind) ==
    CASE kind \in {"create_run", "transition_run", "update_run_budget"} -> "run"
      [] kind \in {"create_proposal", "transition_proposal"} -> "proposal"
      [] kind = "create_approval" -> "approval"
      [] kind \in {"register_idempotency", "complete_idempotency",
                   "record_execution_acknowledgement"} -> "idem"
      [] kind = "create_verification_evidence" -> "evidence"
      [] OTHER -> "checkpoint"

Reads(kind, arg) ==
    CASE kind = "transition_run" /\ arg \in {"APPROVED", "DENIED_BY_HUMAN"} ->
            <<"run", "proposal", "approval">>
      [] kind = "transition_run" /\ arg = "SUCCESS_WITH_EVIDENCE" ->
            <<"run", "proposal", "evidence", "idem">>
      [] kind = "transition_run" /\ arg \notin {"APPROVED", "DENIED_BY_HUMAN",
                                               "SUCCESS_WITH_EVIDENCE"} -> <<"run">>
      [] kind = "update_run_budget" -> <<"run">>
      [] kind \in {"transition_proposal", "create_approval"} -> <<"proposal">>
      [] kind = "register_idempotency" -> <<"idem", "proposal", "approval", "run">>
      [] kind \in {"complete_idempotency", "record_execution_acknowledgement"} -> <<"idem">>
      [] kind = "create_verification_evidence" -> <<"proposal", "run", "idem", "approval">>
      [] kind = "save_checkpoint" /\ arg = "advance" -> <<"checkpoint">>
      [] OTHER -> << >>

\* The arguments a caller has: expected states and versions from an earlier read
Arguments(kind) ==
    CASE kind = "transition_run" -> Targets
      [] kind = "transition_proposal" -> {"AWAITING_APPROVAL", "SUPERSEDED"}
      [] kind = "create_approval" -> {"APPROVED", "DENIED"}
      [] kind = "complete_idempotency" ->
            {"FAILED", "AMBIGUOUS"} \cup {o \in {"SUCCEEDED"} : table.evidence.id # None}
      [] kind = "create_verification_evidence" ->
            {"EXECUTION_ACKNOWLEDGEMENT", "RECOVERY_READ_BACK"}
      [] kind = "save_checkpoint" -> {IF table.checkpoint.version = 0 THEN "create" ELSE "advance"}
      [] OTHER -> {"none"}

Begin(c) ==
    /\ call[c].pc = "idle" /\ outcome[c].calls < MaxCalls
    /\ \E kind \in Kinds : \E arg \in Arguments(kind) :
        call' = [call EXCEPT ![c] =
                   [kind |-> kind, arg |-> arg, pc |-> "read",
                    expected |-> IF arg = "SUCCEEDED" THEN table.evidence
                                                      ELSE table[Item(kind)]]]
    /\ snap' = [snap EXCEPT ![c] = << >>]
    /\ UNCHANGED <<table, outcome, faults>>

\* How a call ends; a client remembers what it was told is stored
Return(c, res) ==
    /\ call' = [call EXCEPT ![c] = Idle]
    /\ snap' = [snap EXCEPT ![c] = << >>]
    /\ outcome' = [outcome EXCEPT
          ![c].calls = @ + 1,
          ![c].ok = IF res # "ok" THEN @ ELSE
             @ \cup {[kind |-> call[c].kind, arg |-> call[c].arg,
                      base |-> IF Item(call[c].kind) = "run" THEN call[c].expected.version ELSE 0]}]

\* _read, a consistent read of the next item
Pending(c) ==
    LET reads == Reads(call[c].kind, call[c].arg)
    IN  {n \in DOMAIN reads : reads[n] \notin DOMAIN snap[c]}
Read(c) ==
    /\ call[c].pc = "read" /\ Pending(c) # {}
    /\ \/ /\ \E n \in Pending(c) :
                /\ \A m \in Pending(c) : n <= m
                /\ LET i == Reads(call[c].kind, call[c].arg)[n]
                   IN  snap' = [snap EXCEPT ![c] = [j \in DOMAIN snap[c] \cup {i} |->
                                                       IF j = i THEN table[i] ELSE snap[c][j]]]
          /\ UNCHANGED <<call, outcome, faults>>
       \/ /\ faults < MaxFaults /\ faults' = faults + 1
          /\ Return(c, "unavailable")
    /\ UNCHANGED table

-----------------------------------------------------------------------------
(* The tests each method makes of what it has read *)
\* Mutant: only state and version are looked at
transition_run_unproven(c, s) == s.run = call[c].expected /\ s.run.state # "none"
transition_run(c, s) ==
    LET to == call[c].arg
    IN  /\ s.run = call[c].expected /\ s.run.state # "none"
        /\ to = "APPROVED" =>
              s.proposal = "AWAITING_APPROVAL" /\ s.approval.decision = "APPROVED"
        /\ to = "DENIED_BY_HUMAN" =>
              s.proposal = "AWAITING_APPROVAL" /\ s.approval.decision = "DENIED"
        /\ to = "SUCCESS_WITH_EVIDENCE" =>
              /\ s.proposal # "none" /\ s.evidence.id # None
              /\ s.idem.status = "COMPLETED" /\ s.idem.proof = s.evidence.id

transitioned_proposal(from) ==
    CASE from = "PROPOSED" -> {"AWAITING_APPROVAL", "SUPERSEDED"}
      [] from = "AWAITING_APPROVAL" -> {"SUPERSEDED"}
      [] OTHER -> {}

register_idempotency(s) ==
    /\ s.proposal = "AWAITING_APPROVAL" /\ s.approval.decision = "APPROVED"
    /\ s.run.state = "APPROVED"

create_verification_evidence(c, s) ==
    /\ s.proposal # "none" /\ s.run.state = "VERIFYING" /\ s.idem.status # "none"
    /\ \/ call[c].arg = "EXECUTION_ACKNOWLEDGEMENT" /\ s.idem.ack # None
       \/ /\ call[c].arg = "RECOVERY_READ_BACK" /\ s.idem.status = "REGISTERED"
          /\ s.idem.ack = None /\ s.approval.decision = "APPROVED"

record_execution_acknowledgement(c, s) == s.idem.status = "REGISTERED" /\ s.idem.ack = None

update_run_budget(c, s) == s.run.version = call[c].expected.version /\ s.run.version > 0
transition_proposal(c, s) ==
    s.proposal = call[c].expected /\ call[c].arg \in transitioned_proposal(s.proposal)
create_approval(s) == s.proposal = "AWAITING_APPROVAL"
complete_idempotency(s) == s.idem.status = "REGISTERED"
save_checkpoint(c, s) ==
    call[c].arg = "advance" => s.checkpoint.version = call[c].expected.version

Passes(c) ==
    LET s == snap[c]  kind == call[c].kind
    IN  CASE kind = "transition_run" -> transition_run(c, s)
          [] kind = "update_run_budget" -> update_run_budget(c, s)
          [] kind = "transition_proposal" -> transition_proposal(c, s)
          [] kind = "create_approval" -> create_approval(s)
          [] kind = "register_idempotency" -> register_idempotency(s)
          [] kind = "complete_idempotency" -> complete_idempotency(s)
          [] kind = "record_execution_acknowledgement" -> record_execution_acknowledgement(c, s)
          [] kind = "create_verification_evidence" -> create_verification_evidence(c, s)
          [] kind = "save_checkpoint" -> save_checkpoint(c, s)
          [] OTHER -> TRUE

\* What it returns without a write: an existing claim, or the very receipt it was given
Settled(c) ==
    \/ call[c].kind = "register_idempotency" /\ snap[c].idem.status # "none"
    \/ /\ call[c].kind = "record_execution_acknowledgement"
       /\ snap[c].idem.status = "REGISTERED" /\ snap[c].idem.ack = c
\* transition_run of the vocabulary raises before anything is sent
Illegal(c) ==
    /\ call[c].kind = "transition_run" /\ Passes(c)
    /\ call[c].arg \notin ALLOWED_WORKFLOW_TRANSITIONS[snap[c].run.state]

-----------------------------------------------------------------------------
(* The one conditional write *)
\* Mutant: only the version is compared, as for a record without a state
RunCondition_loose(c) == table.run.state # "none"
RunCondition(c) ==
    /\ table.run.state = snap[c].run.state
    /\ table.run.version = call[c].expected.version

\* _put_create demands that the item is absent
Absent(item) ==
    CASE item = "run" -> table.run.state = "none"
      [] item = "proposal" -> table.proposal = "none"
      [] item = "approval" -> table.approval.decision = "none"
      [] item = "idem" -> table.idem.status = "none"
      [] item = "evidence" -> table.evidence.id = None
      [] OTHER -> table.checkpoint.version = 0

CreateCondition(item) == Absent(item)

AcknowledgementCondition(c) == table.idem.status = "REGISTERED" /\ table.idem.hash = None

Condition(c) ==
    LET kind == call[c].kind
    IN  CASE kind \in {"transition_run", "update_run_budget"} -> RunCondition(c)
          [] kind = "transition_proposal" -> table.proposal = call[c].expected
          [] kind = "complete_idempotency" -> table.idem.status = "REGISTERED"
          [] kind = "record_execution_acknowledgement" -> AcknowledgementCondition(c)
          [] kind = "save_checkpoint" /\ call[c].arg = "advance" ->
                table.checkpoint.version = call[c].expected.version
          [] OTHER -> CreateCondition(Item(kind))

completed_idempotency_status(o) ==
    CASE o = "SUCCEEDED" -> "COMPLETED"
      [] o = "FAILED" -> "FAILED"
      [] OTHER -> "RECONCILIATION_REQUIRED"

\* The item written: built from the record read, not from the one stored now.
\* The acknowledgement's index attribute is not among those an update sets again.
NewItem(c) ==
    LET s == snap[c]  kind == call[c].kind  arg == call[c].arg
    IN  CASE kind = "create_run" -> [state |-> "RECEIVED", version |-> 1, turns |-> 0]
          [] kind = "transition_run" -> [s.run EXCEPT !.state = arg, !.version = @ + 1]
          [] kind = "update_run_budget" -> [s.run EXCEPT !.turns = @ + 1, !.version = @ + 1]
          [] kind = "create_proposal" -> "PROPOSED"
          [] kind = "transition_proposal" -> arg
          [] kind = "create_approval" -> [decision |-> arg, by |-> c]
          [] kind = "register_idempotency" -> Claimed("REGISTERED", None)
          [] kind = "complete_idempotency" ->
                [s.idem EXCEPT !.status = completed_idempotency_status(arg), !.hash = table.idem.hash,
                               !.proof = IF arg = "SUCCEEDED" THEN call[c].expected.id ELSE None]
          [] kind = "record_execution_acknowledgement" -> [s.idem EXCEPT !.ack = c, !.hash = c]
          [] kind = "create_verification_evidence" -> [id |-> c, origin |-> arg]
          [] OTHER -> [version |-> (IF arg = "create" THEN 0 ELSE call[c].expected.version) + 1,
                       by |-> c]

Apply(c) == table' = [table EXCEPT ![Item(call[c].kind)] = NewItem(c)]

\* These methods read again when the condition fails
Reconciles == {"create_approval", "register_idempotency", "record_execution_acknowledgement",
               "create_verification_evidence"}

Ready(c) == call[c].pc = "read" /\ Pending(c) = {}

\* A test fails, or nothing is left to write
Refuse(c) ==
    /\ Ready(c)
    /\ \/ Settled(c) /\ Return(c, "ok")
       \/ ~Settled(c) /\ ~Passes(c) /\ Return(c, "conflict")
       \/ ~Settled(c) /\ Illegal(c) /\ Return(c, "illegal")
    /\ UNCHANGED <<table, faults>>

Sends(c) == Ready(c) /\ ~Settled(c) /\ Passes(c) /\ ~Illegal(c)

Write(c) ==
    /\ Sends(c) /\ Condition(c)
    /\ Apply(c) /\ Return(c, "ok")
    /\ UNCHANGED faults

\* ConditionalCheckFailedException
Fails(c) ==
    /\ Sends(c) /\ ~Condition(c)
    /\ IF call[c].kind \in Reconciles
       THEN call' = [call EXCEPT ![c].pc = "again"] /\ UNCHANGED <<snap, outcome>>
       ELSE Return(c, "conflict")
    /\ UNCHANGED <<table, faults>>

\* Any other exception; the write may have been applied
Lost(c) ==
    /\ Sends(c) /\ faults < MaxFaults /\ faults' = faults + 1
    /\ \/ UNCHANGED table
       \/ Condition(c) /\ Apply(c)
    /\ Return(c, "unavailable")

\* The stored record is compared with the caller's
Matches(c) ==
    CASE call[c].kind = "create_approval" -> table.approval = [decision |-> call[c].arg, by |-> c]
      [] call[c].kind = "register_idempotency" -> table.idem.status # "none"
      [] call[c].kind = "record_execution_acknowledgement" -> table.idem.ack = c
      [] OTHER -> table.evidence = [id |-> c, origin |-> call[c].arg]

Again(c) ==
    /\ call[c].pc = "again"
    /\ \/ Return(c, IF Matches(c) THEN "ok" ELSE "conflict") /\ UNCHANGED faults
       \/ faults < MaxFaults /\ faults' = faults + 1 /\ Return(c, "unavailable")
    /\ UNCHANGED table

Next ==
    \E c \in Clients :
        Begin(c) \/ Read(c) \/ Refuse(c) \/ Write(c) \/ Fails(c) \/ Lost(c) \/ Again(c)

Spec == Init /\ [][Next]_vars

-----------------------------------------------------------------------------
TypeOK ==
    /\ table.run.state \in WorkflowState \cup {"none"} /\ table.run.version \in Nat
    /\ table.run.turns \in 0..table.run.version
    /\ table.proposal \in {"none", "PROPOSED", "AWAITING_APPROVAL", "SUPERSEDED"}
    /\ table.approval.decision \in {"none", "APPROVED", "DENIED"}
    /\ table.idem.status \in 
          {"none", "REGISTERED", "COMPLETED", "FAILED", "RECONCILIATION_REQUIRED"}
    /\ table.idem.ack \in Clients \cup {None} /\ table.evidence.id \in Clients \cup {None}
    /\ \A c \in Clients : DOMAIN snap[c] \subseteq Items /\ outcome[c].calls \in 0..MaxCalls
    /\ faults \in 0..MaxFaults

\* A decision or a proof that a caller was told is stored is the one that is stored,
\* for good: also when the answer came from reading again after a refused write.
ReturnedIsStored ==
    \A c \in Clients : \A r \in outcome[c].ok :
        /\ r.kind = "create_approval" => table.approval = [decision |-> r.arg, by |-> c]
        /\ r.kind = "create_verification_evidence" => table.evidence = [id |-> c, origin |-> r.arg]

\* Two callers that act on the same version of the run are never both told that they
\* moved it: a transition and a budget update exclude each other.
OneWriterPerVersion ==
    \A c, d \in Clients : c # d =>
        \A r \in outcome[c].ok, q \in outcome[d].ok :
            Item(r.kind) = "run" /\ Item(q.kind) = "run" => r.base # q.base

\* A receipt whose caller was told that it is stored stays with the claim while the
\* claim is open.  (Not longer: complete_idempotency writes back the whole record it
\* read, which may be older than the receipt.)
ReceiptKeptWhileOpen ==
    \A c \in Clients : \A r \in outcome[c].ok :
        r.kind = "record_execution_acknowledgement" /\ table.idem.status = "REGISTERED"
            => table.idem.ack = c

Contract == INSTANCE TruthContract WITH
    run <- table.run, proposal <- table.proposal, approval <- table.approval,
    idem <- [status |-> table.idem.status, ack |-> table.idem.ack, proof |-> table.idem.proof],
    evidence <- table.evidence, checkpoint <- table.checkpoint

\* The single-item conditional writes implement TruthContract: although every method
\* tests stale reads, no run claims a decision or a proof that is not stored, and each
\* record's history is lawful.
ImplementsContract == Contract!Spec

\* What a caller was told stays true: the record it stored is there, nobody else
\* moved the run from the same version, its receipt stays with the open claim.
AnswersStayTrue ==
    TypeOK /\ ReturnedIsStored /\ OneWriterPerVersion /\ ReceiptKeptWhileOpen
=============================================================================
