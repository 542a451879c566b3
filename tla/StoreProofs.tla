---------------------------- MODULE StoreProofs ----------------------------
(***************************************************************************)
(* The DynamoDB repository for any number of clients and calls: its        *)
(* conditional writes implement the contract, and its answers stay true.   *)
(***************************************************************************)
EXTENDS DynamoStore, TLAPS

RunRecord == [state : WorkflowState \cup {"none"}, version : Nat, turns : Nat]
ProposalState == {"none", "PROPOSED", "AWAITING_APPROVAL", "SUPERSEDED"}
ApprovalRecord == [decision : {"none", "APPROVED", "DENIED"}, by : Clients \cup {None}]
ClaimStatus == {"none", "REGISTERED", "COMPLETED", "FAILED", "RECONCILIATION_REQUIRED"}
ClaimRecord ==
    [status : ClaimStatus, ack : Clients \cup {None}, hash : Clients \cup {None},
     proof : Clients \cup {None}]
EvidenceRecord ==
    [id : Clients \cup {None},
     origin : {"none", "EXECUTION_ACKNOWLEDGEMENT", "RECOVERY_READ_BACK"}]
CheckpointRecord == [version : Nat, by : Clients \cup {None}]
Table ==
    [run : RunRecord, proposal : ProposalState, approval : ApprovalRecord,
     idem : ClaimRecord, evidence : EvidenceRecord, checkpoint : CheckpointRecord]

\* The stored items agree with themselves: an absent run has no version, an absent or
\* open claim has no proof, and an open claim's index attribute is its receipt.
Sound(t) ==
    /\ t \in Table
    /\ t.run.state = "none" <=> t.run.version = 0
    /\ t.run.turns <= t.run.version
    /\ t.idem.status = "none" => t.idem.ack = None
    /\ t.idem.status \in {"none", "REGISTERED"} =>
          t.idem.proof = None /\ t.idem.hash = t.idem.ack

\* What an earlier read says of the table now.  A version names one run record; a
\* decision, an evidence and a closed claim are never replaced; an open claim's
\* receipt is not exchanged for another while it stays open.
RunWas(t, r) ==
    /\ r \in RunRecord /\ r.version <= t.run.version
    /\ r.version = t.run.version => r = t.run
ApprovalWas(t, a) == a \in ApprovalRecord /\ (a.decision # "none" => t.approval = a)
EvidenceWas(t, e) == e \in EvidenceRecord /\ (e.id # None => t.evidence = e)
ClaimWas(t, k) ==
    /\ k \in ClaimRecord
    /\ k.status # "none" => t.idem.status # "none"
    /\ k.status \in {"none", "REGISTERED"} => k.proof = None
    /\ k.status \notin {"none", "REGISTERED"} => t.idem = k
    /\ k.status = "REGISTERED" /\ k.ack # None /\ t.idem.status = "REGISTERED" =>
          t.idem.ack = k.ack

Was(t, item, r) ==
    /\ item = "run" => RunWas(t, r)
    /\ item = "proposal" => r \in ProposalState
    /\ item = "approval" => ApprovalWas(t, r)
    /\ item = "idem" => ClaimWas(t, r)
    /\ item = "evidence" => EvidenceWas(t, r)
    /\ item = "checkpoint" => r \in CheckpointRecord

ReadsAreOld ==
    /\ DOMAIN snap = Clients
    /\ \A c \in Clients : \A i \in DOMAIN snap[c] : i \in Items /\ Was(table, i, snap[c][i])

\* What a call in progress was asked for.
Asked(c) ==
    /\ call[c].kind \in Methods
    /\ call[c].arg = "SUCCEEDED" =>
          /\ call[c].kind = "complete_idempotency"
          /\ EvidenceWas(table, call[c].expected) /\ call[c].expected.id # None
    /\ call[c].arg # "SUCCEEDED" => Was(table, Item(call[c].kind), call[c].expected)
    /\ call[c].kind = "transition_run" => call[c].arg \in WorkflowState
    /\ call[c].kind = "create_approval" => call[c].arg \in {"APPROVED", "DENIED"}
    /\ call[c].kind = "create_verification_evidence" =>
          call[c].arg \in {"EXECUTION_ACKNOWLEDGEMENT", "RECOVERY_READ_BACK"}
    /\ call[c].kind = "save_checkpoint" => call[c].arg \in {"create", "advance"}
CallsAreSound ==
    /\ DOMAIN call = Clients
    /\ \A c \in Clients :
        /\ call[c] = [kind |-> call[c].kind, arg |-> call[c].arg,
                      expected |-> call[c].expected, pc |-> call[c].pc]
        /\ call[c].pc \in {"idle", "read", "again"}
        /\ call[c].pc # "idle" => Asked(c)

StoreInv == Sound(table) /\ ReadsAreOld /\ CallsAreSound

-----------------------------------------------------------------------------
(* One conditional write *)
\* How a write may change the table: one item, in the order of its history.
Lawful(t, u) ==
    \/ \E r \in RunRecord :
          /\ u = [t EXCEPT !.run = r]
          /\ r.version = t.run.version + 1 /\ r.state # "none" /\ r.turns <= t.run.turns + 1
    \/ \E p \in ProposalState : u = [t EXCEPT !.proposal = p]
    \/ t.approval.decision = "none" /\ \E a \in ApprovalRecord : u = [t EXCEPT !.approval = a]
    \/ \E k \in ClaimRecord :
          /\ u = [t EXCEPT !.idem = k] /\ k.status # "none"
          /\ \/ /\ t.idem.status = "none" /\ k.status = "REGISTERED"
                /\ k.ack = None /\ k.hash = None /\ k.proof = None
             \/ /\ t.idem.status = "REGISTERED" /\ t.idem.ack = None
                /\ k.status = "REGISTERED" /\ k.hash = k.ack /\ k.proof = None
             \/ t.idem.status = "REGISTERED" /\ k.status # "REGISTERED"
    \/ t.evidence.id = None /\ \E e \in EvidenceRecord : u = [t EXCEPT !.evidence = e]
    \/ \E k \in CheckpointRecord : u = [t EXCEPT !.checkpoint = k]

\* A lawful write leaves the items in agreement.
LEMMA LawfulIsSound ==
  ASSUME NEW t, NEW u, Sound(t), Lawful(t, u)
  PROVE  Sound(u)
  BY DEF Sound, Lawful, Table, RunRecord, ApprovalRecord, ClaimRecord, EvidenceRecord,
         CheckpointRecord

\* What was read before a lawful write says the same of the table after it.
LEMMA LawfulKeepsReads ==
  ASSUME NEW t, NEW u, Sound(t), Lawful(t, u), NEW i, NEW r, Was(t, i, r)
  PROVE  Was(u, i, r)
  <1>1. i = "run" => RunWas(u, r)
    BY DEF Sound, Lawful, Table, RunRecord, Was, RunWas
  <1>2. i = "approval" => ApprovalWas(u, r)
    BY DEF Sound, Lawful, Table, Was, ApprovalWas
  <1>3. i = "idem" => ClaimWas(u, r)
    BY DEF Sound, Lawful, Table, ClaimRecord, Was, ClaimWas
  <1>4. i = "evidence" => EvidenceWas(u, r)
    BY DEF Sound, Lawful, Table, Was, EvidenceWas
  <1> QED
    BY <1>1, <1>2, <1>3, <1>4 DEF Was


\* A call that is done reading has read every item its method tests.
LEMMA ReadyHasRead ==
  ASSUME NEW c \in Clients, Ready(c)
  PROVE  /\ call[c].kind \in {"transition_run", "update_run_budget"} => "run" \in DOMAIN snap[c]
         /\ call[c].kind = "transition_run" /\ call[c].arg \in {"APPROVED", "DENIED_BY_HUMAN"} =>
               {"proposal", "approval"} \subseteq DOMAIN snap[c]
         /\ call[c].kind = "transition_run" /\ call[c].arg = "SUCCESS_WITH_EVIDENCE" =>
               {"proposal", "evidence", "idem"} \subseteq DOMAIN snap[c]
         /\ call[c].kind = "transition_proposal" => "proposal" \in DOMAIN snap[c]
         /\ call[c].kind = "register_idempotency" =>
               {"idem", "approval"} \subseteq DOMAIN snap[c]
         /\ call[c].kind \in {"complete_idempotency", "record_execution_acknowledgement"} =>
               "idem" \in DOMAIN snap[c]
         /\ call[c].kind = "create_verification_evidence" => "idem" \in DOMAIN snap[c]
  <1> DEFINE reads == Reads(call[c].kind, call[c].arg)
  <1>0. \A n \in DOMAIN reads : reads[n] \in DOMAIN snap[c]
    BY DEF Ready, Pending
  <1>1. ASSUME call[c].kind \in {"transition_run", "update_run_budget"}
        PROVE  "run" \in DOMAIN snap[c]
    BY <1>0, <1>1 DEF Reads
  <1>2. ASSUME call[c].kind = "transition_run", call[c].arg \in {"APPROVED", "DENIED_BY_HUMAN"}
        PROVE  {"proposal", "approval"} \subseteq DOMAIN snap[c]
    BY <1>0, <1>2 DEF Reads
  <1>3. ASSUME call[c].kind = "transition_run", call[c].arg = "SUCCESS_WITH_EVIDENCE"
        PROVE  {"proposal", "evidence", "idem"} \subseteq DOMAIN snap[c]
    BY <1>0, <1>3 DEF Reads
  <1>4. ASSUME call[c].kind = "transition_proposal" PROVE "proposal" \in DOMAIN snap[c]
    BY <1>0, <1>4 DEF Reads
  <1>5. ASSUME call[c].kind = "register_idempotency"
        PROVE  {"idem", "approval"} \subseteq DOMAIN snap[c]
    BY <1>0, <1>5 DEF Reads
  <1>6. ASSUME call[c].kind \in {"complete_idempotency", "record_execution_acknowledgement"}
        PROVE  "idem" \in DOMAIN snap[c]
    BY <1>0, <1>6 DEF Reads
  <1>7. ASSUME call[c].kind = "create_verification_evidence" PROVE "idem" \in DOMAIN snap[c]
    BY <1>0, <1>7 DEF Reads
  <1> QED
    BY <1>1, <1>2, <1>3, <1>4, <1>5, <1>6, <1>7


-----------------------------------------------------------------------------
(* The write of each method: what it tested, the condition, the item *)
\* transition_run puts back the record it read, moved.
LEMMA TransitionWrite ==
  ASSUME NEW c \in Clients, call[c].kind = "transition_run", Sends(c), Condition(c), Apply(c)
  PROVE  /\ transition_run(c, snap[c]) /\ RunCondition(c)
         /\ call[c].arg \in ALLOWED_WORKFLOW_TRANSITIONS[snap[c].run.state]
         /\ table' = [table EXCEPT !["run"] =
                        [snap[c].run EXCEPT !.state = call[c].arg, !.version = @ + 1]]
  BY DEF Sends, Passes, Illegal, Condition, Apply, Item, NewItem

\* update_run_budget puts back the record it read, one turn later.
LEMMA BudgetWrite ==
  ASSUME NEW c \in Clients, call[c].kind = "update_run_budget", Sends(c), Condition(c), Apply(c)
  PROVE  /\ update_run_budget(c, snap[c]) /\ RunCondition(c)
         /\ table' = [table EXCEPT !["run"] =
                        [snap[c].run EXCEPT !.turns = @ + 1, !.version = @ + 1]]
  BY DEF Sends, Passes, Condition, Apply, Item, NewItem

\* A proposal moves from the state the caller expected.
LEMMA ProposalWrite ==
  ASSUME NEW c \in Clients, call[c].kind = "transition_proposal", Sends(c), Condition(c), Apply(c)
  PROVE  /\ transition_proposal(c, snap[c]) /\ table.proposal = call[c].expected
         /\ table' = [table EXCEPT !["proposal"] = call[c].arg]
  BY DEF Sends, Passes, Condition, Apply, Item, NewItem

\* A result closes the open claim with the record that was read.
LEMMA CompletionWrite ==
  ASSUME NEW c \in Clients, call[c].kind = "complete_idempotency", Sends(c), Condition(c), Apply(c)
  PROVE  /\ snap[c].idem.status = "REGISTERED" /\ table.idem.status = "REGISTERED"
         /\ table' = [table EXCEPT !["idem"] =
               [snap[c].idem EXCEPT !.status = completed_idempotency_status(call[c].arg),
                                    !.hash = table.idem.hash,
                                    !.proof = IF call[c].arg = "SUCCEEDED"
                                              THEN call[c].expected.id ELSE None]]
  BY DEF Sends, Passes, complete_idempotency, Condition, Apply, Item, NewItem

\* A receipt goes into a claim that has none.
LEMMA ReceiptWrite ==
  ASSUME NEW c \in Clients, call[c].kind = "record_execution_acknowledgement",
         Sends(c), Condition(c), Apply(c)
  PROVE  /\ record_execution_acknowledgement(c, snap[c]) /\ AcknowledgementCondition(c)
         /\ table' = [table EXCEPT !["idem"] = [snap[c].idem EXCEPT !.ack = c, !.hash = c]]
  BY DEF Sends, Passes, Condition, Apply, Item, NewItem

\* A checkpoint advances from the version the caller expected.
LEMMA CheckpointWrite ==
  ASSUME NEW c \in Clients, call[c].kind = "save_checkpoint", Sends(c), Condition(c), Apply(c)
  PROVE  LET v == IF call[c].arg = "create" THEN 0 ELSE call[c].expected.version
         IN  /\ call[c].arg \in {"create", "advance"} => table.checkpoint.version = v
             /\ table' = [table EXCEPT !["checkpoint"] = [version |-> v + 1, by |-> c]]
  BY DEF Sends, Condition, CreateCondition, Absent, Apply, Item, NewItem

\* The other methods create their item.
LEMMA CreateWrite ==
  ASSUME NEW c \in Clients, Sends(c), Condition(c), Apply(c)
  PROVE  /\ call[c].kind = "create_run" =>
               /\ table.run.state = "none"
               /\ table' = [table EXCEPT !["run"] =
                              [state |-> "RECEIVED", version |-> 1, turns |-> 0]]
         /\ call[c].kind = "create_proposal" =>
               /\ table.proposal = "none"
               /\ table' = [table EXCEPT !["proposal"] = "PROPOSED"]
         /\ call[c].kind = "create_approval" =>
               /\ table.approval.decision = "none"
               /\ table' = [table EXCEPT !["approval"] = [decision |-> call[c].arg, by |-> c]]
         /\ call[c].kind = "register_idempotency" =>
               /\ register_idempotency(snap[c]) /\ table.idem.status = "none"
               /\ table' = [table EXCEPT !["idem"] = Claimed("REGISTERED", None)]
         /\ call[c].kind = "create_verification_evidence" =>
               /\ create_verification_evidence(c, snap[c]) /\ table.evidence.id = None
               /\ table' = [table EXCEPT !["evidence"] = [id |-> c, origin |-> call[c].arg]]
  <1>1. ASSUME call[c].kind = "create_run"
        PROVE  /\ table.run.state = "none"
               /\ table' = [table EXCEPT !["run"] =
                              [state |-> "RECEIVED", version |-> 1, turns |-> 0]]
    BY <1>1 DEF Condition, CreateCondition, Absent, Apply, Item, NewItem
  <1>2. ASSUME call[c].kind = "create_proposal"
        PROVE  /\ table.proposal = "none"
               /\ table' = [table EXCEPT !["proposal"] = "PROPOSED"]
    BY <1>2 DEF Condition, CreateCondition, Absent, Apply, Item, NewItem
  <1>3. ASSUME call[c].kind = "create_approval"
        PROVE  /\ table.approval.decision = "none"
               /\ table' = [table EXCEPT !["approval"] = [decision |-> call[c].arg, by |-> c]]
    BY <1>3 DEF Condition, CreateCondition, Absent, Apply, Item, NewItem
  <1>4. ASSUME call[c].kind = "register_idempotency"
        PROVE  /\ register_idempotency(snap[c]) /\ table.idem.status = "none"
               /\ table' = [table EXCEPT !["idem"] = Claimed("REGISTERED", None)]
    BY <1>4 DEF Sends, Passes, Condition, CreateCondition, Absent, Apply, Item, NewItem
  <1>5. ASSUME call[c].kind = "create_verification_evidence"
        PROVE  /\ create_verification_evidence(c, snap[c]) /\ table.evidence.id = None
               /\ table' = [table EXCEPT !["evidence"] = [id |-> c, origin |-> call[c].arg]]
    BY <1>5 DEF Sends, Passes, Condition, CreateCondition, Absent, Apply, Item, NewItem
  <1> QED
    BY <1>1, <1>2, <1>3, <1>4, <1>5


\* Records built from a record that was read, field by field.
LEMMA MovedRun ==
  ASSUME NEW r \in RunRecord, NEW s \in WorkflowState
  PROVE  LET q == [r EXCEPT !.state = s, !.version = @ + 1]
         IN  q \in RunRecord /\ q.state = s /\ q.version = r.version + 1 /\ q.turns = r.turns
  <1>1. r.version + 1 \in Nat
    BY DEF RunRecord
  <1> QED
    BY <1>1, Zenon DEF RunRecord

\* A model turn spent.
LEMMA SpentRun ==
  ASSUME NEW r \in RunRecord
  PROVE  LET q == [r EXCEPT !.turns = @ + 1, !.version = @ + 1]
         IN  /\ q \in RunRecord /\ q.state = r.state /\ q.version = r.version + 1
             /\ q.turns = r.turns + 1
  <1>1. r.version + 1 \in Nat /\ r.turns + 1 \in Nat
    BY DEF RunRecord
  <1> QED
    BY <1>1, Zenon DEF RunRecord

\* A claim with a receipt, or with another.
LEMMA ReceiptClaim ==
  ASSUME NEW k \in ClaimRecord, NEW x \in Clients
  PROVE  LET q == [k EXCEPT !.ack = x, !.hash = x]
         IN  /\ q \in ClaimRecord /\ q.status = k.status /\ q.ack = x /\ q.hash = x
             /\ q.proof = k.proof
  BY Zenon DEF ClaimRecord

\* Facts of a call in progress.
LEMMA InProgress ==
  ASSUME StoreInv, NEW c \in Clients, Ready(c)
  PROVE  Asked(c) /\ \A i \in DOMAIN snap[c] : Was(table, i, snap[c][i])
  BY DEF StoreInv, CallsAreSound, ReadsAreOld, Ready

\* A run is written back from its current record, whatever was read before.
LEMMA RunWriteIsFresh ==
  ASSUME StoreInv, NEW c \in Clients, Sends(c), Condition(c), Apply(c),
         call[c].kind \in {"transition_run", "update_run_budget"}
  PROVE  snap[c].run = table.run /\ table.run.state # "none"
  <1>1. Was(table, "run", snap[c].run)
    BY InProgress, ReadyHasRead DEF Sends
  <1>2. CASE call[c].kind = "transition_run"
    BY <1>1, <1>2, TransitionWrite DEF Was, RunWas, transition_run, RunCondition
  <1>3. CASE call[c].kind = "update_run_budget"
    <2>1. Sound(table)
      BY DEF StoreInv
    <2>2. snap[c].run = table.run /\ snap[c].run.version > 0
      BY <1>1, <1>3, BudgetWrite DEF Was, RunWas, update_run_budget, RunCondition
    <2> QED
      BY <2>1, <2>2 DEF Sound, Table, RunRecord
  <1> QED
    BY <1>2, <1>3

\* Every write is lawful.
LEMMA WriteIsLawful ==
  ASSUME StoreInv, NEW c \in Clients, Sends(c), Condition(c), Apply(c)
  PROVE  Lawful(table, table')
  <1>0. Asked(c) /\ \A i \in DOMAIN snap[c] : Was(table, i, snap[c][i])
    BY InProgress DEF Sends
  <1>T. Sound(table) /\ table \in Table
    BY DEF StoreInv, Sound
  <1>1. CASE call[c].kind = "create_run"
    <2>1. [state |-> "RECEIVED", version |-> 1, turns |-> 0] \in RunRecord
      BY DEF RunRecord, WorkflowState
    <2> QED
      BY <1>1, <1>T, <2>1, CreateWrite DEF Lawful, Sound, Table, RunRecord
  <1>2. CASE call[c].kind = "transition_run"
    <2>1. snap[c].run = table.run
      BY <1>2, RunWriteIsFresh
    <2>2. call[c].arg # "none"
      BY <1>0, <1>2 DEF Asked, WorkflowState, TERMINAL_WORKFLOW_STATES
    <2> QED
      <3> DEFINE q == [table.run EXCEPT !.state = call[c].arg, !.version = @ + 1]
      <3>1. /\ q \in RunRecord /\ q.state = call[c].arg /\ q.version = table.run.version + 1
            /\ q.turns = table.run.turns
        BY <1>0, <1>2, <1>T, MovedRun DEF Asked, Table
      <3>2. table' = [table EXCEPT !.run = q]
        BY <1>2, <2>1, TransitionWrite
      <3>3. q.turns <= table.run.turns + 1 /\ q.state # "none"
        BY <1>T, <2>2, <3>1 DEF Table, RunRecord
      <3> HIDE DEF q
      <3> QED
        BY <3>1, <3>2, <3>3, Zenon DEF Lawful
  <1>3. CASE call[c].kind = "update_run_budget"
    <2>1. snap[c].run = table.run /\ table.run.state # "none"
      BY <1>3, RunWriteIsFresh
    <2> QED
      <3> DEFINE q == [table.run EXCEPT !.turns = @ + 1, !.version = @ + 1]
      <3>1. /\ q \in RunRecord /\ q.state = table.run.state
            /\ q.version = table.run.version + 1 /\ q.turns = table.run.turns + 1
        BY <1>T, SpentRun DEF Table
      <3>2. table' = [table EXCEPT !.run = q]
        BY <1>3, <2>1, BudgetWrite
      <3>3. q.turns <= table.run.turns + 1 /\ q.state # "none"
        BY <1>T, <2>1, <3>1 DEF Table, RunRecord
      <3> HIDE DEF q
      <3> QED
        BY <3>1, <3>2, <3>3, Zenon DEF Lawful
  <1>4. CASE call[c].kind = "create_proposal"
    BY <1>4, CreateWrite DEF Lawful, ProposalState
  <1>5. CASE call[c].kind = "transition_proposal"
    <2>1. call[c].arg \in ProposalState
      BY <1>5, ProposalWrite DEF transition_proposal, transitioned_proposal, ProposalState
    <2> QED
      BY <1>5, <2>1, ProposalWrite DEF Lawful
  <1>6. CASE call[c].kind = "create_approval"
    BY <1>0, <1>6, CreateWrite DEF Lawful, Asked, ApprovalRecord
  <1>7. CASE call[c].kind = "register_idempotency"
    <2>1. Claimed("REGISTERED", None) \in ClaimRecord
      BY DEF Claimed, ClaimRecord, ClaimStatus
    <2>2. table' = [table EXCEPT !.idem = Claimed("REGISTERED", None)]
          /\ table.idem.status = "none"
      BY <1>7, CreateWrite
    <2> QED
      BY <2>1, <2>2 DEF Lawful, Claimed
  <1>8. CASE call[c].kind = "complete_idempotency"
    <2>1. snap[c].idem \in ClaimRecord
      BY <1>0, <1>8, ReadyHasRead DEF Sends, Was, ClaimWas
    <2>2. completed_idempotency_status(call[c].arg)
             \in {"COMPLETED", "FAILED", "RECONCILIATION_REQUIRED"}
      BY Zenon DEF completed_idempotency_status
    <2>3. (IF call[c].arg = "SUCCEEDED" THEN call[c].expected.id ELSE None)
             \in Clients \cup {None}
      BY <1>0 DEF Asked, EvidenceWas, EvidenceRecord
    <2> QED
      <3> DEFINE x == completed_idempotency_status(call[c].arg)
                 z == IF call[c].arg = "SUCCEEDED" THEN call[c].expected.id ELSE None
                 q == [snap[c].idem EXCEPT !.status = x, !.hash = table.idem.hash, !.proof = z]
      <3>1. x \in ClaimStatus /\ x # "none" /\ x # "REGISTERED"
        BY <2>2 DEF ClaimStatus
      <3>2. z \in Clients \cup {None} /\ table.idem.hash \in Clients \cup {None}
        BY <2>3, <1>T DEF Table, ClaimRecord
      <3>3. table.idem.status = "REGISTERED" /\ table' = [table EXCEPT !.idem = q]
        BY <1>8, CompletionWrite
      <3> HIDE DEF x, z
      <3>4. q \in ClaimRecord /\ q.status = x
        BY <2>1, <3>1, <3>2, Zenon DEF ClaimRecord
      <3> HIDE DEF q
      <3> QED
        BY <3>1, <3>3, <3>4 DEF Lawful
  <1>9. CASE call[c].kind = "record_execution_acknowledgement"
    <2>1. ClaimWas(table, snap[c].idem)
      BY <1>0, <1>9, ReadyHasRead DEF Sends, Was
    <2> QED
      <3> DEFINE q == [snap[c].idem EXCEPT !.ack = c, !.hash = c]
      <3>1. /\ q \in ClaimRecord /\ q.status = snap[c].idem.status /\ q.ack = c /\ q.hash = c
            /\ q.proof = snap[c].idem.proof
        BY <2>1, ReceiptClaim DEF ClaimWas
      <3>2. /\ snap[c].idem.status = "REGISTERED" /\ snap[c].idem.proof = None
            /\ table.idem.status = "REGISTERED" /\ table.idem.ack = None
        BY <1>9, <1>T, <2>1, ReceiptWrite
        DEF Sound, ClaimWas, AcknowledgementCondition, record_execution_acknowledgement
      <3>3. table' = [table EXCEPT !.idem = q]
        BY <1>9, ReceiptWrite
      <3> HIDE DEF q
      <3> QED
        BY <3>1, <3>2, <3>3 DEF Lawful
  <1>10. CASE call[c].kind = "create_verification_evidence"
    BY <1>0, <1>10, CreateWrite DEF Lawful, Asked, EvidenceRecord
  <1>11. CASE call[c].kind = "save_checkpoint"
    <2>1. call[c].expected.version \in Nat
      BY <1>0, <1>11 DEF Asked, Was, Item, CheckpointRecord
    <2> DEFINE v == IF call[c].arg = "create" THEN 0 ELSE call[c].expected.version
    <2>2. [version |-> v + 1, by |-> c] \in CheckpointRecord
      BY <2>1 DEF CheckpointRecord
    <2>3. table' = [table EXCEPT !.checkpoint = [version |-> v + 1, by |-> c]]
      BY <1>11, CheckpointWrite
    <2> QED
      BY <2>2, <2>3 DEF Lawful
  <1> QED
    BY <1>0, <1>1, <1>2, <1>3, <1>4, <1>5, <1>6, <1>7, <1>8, <1>9, <1>10, <1>11 DEF Asked, Methods


-----------------------------------------------------------------------------
(* Every step keeps the invariant *)
\* A step's effect on the table is one lawful write, or none.
LEMMA StepWrites ==
  ASSUME StoreInv, NEW c \in Clients,
         Begin(c) \/ Read(c) \/ Refuse(c) \/ Write(c) \/ Fails(c) \/ Lost(c) \/ Again(c)
  PROVE  table' = table \/ Lawful(table, table')
  <1>1. ASSUME Write(c) PROVE Lawful(table, table')
    BY <1>1, WriteIsLawful DEF Write
  <1>2. ASSUME Lost(c) PROVE table' = table \/ Lawful(table, table')
    BY <1>2, WriteIsLawful DEF Lost
  <1> QED
    BY <1>1, <1>2 DEF Begin, Read, Refuse, Fails, Again

\* So the items stay in agreement and what was read stays old.
LEMMA StepKeeps ==
  ASSUME StoreInv, table' = table \/ Lawful(table, table')
  PROVE  Sound(table') /\ \A i, r : Was(table, i, r) => Was(table', i, r)
  BY LawfulIsSound, LawfulKeepsReads DEF StoreInv

\* A call that ends leaves the others alone.
LEMMA ReturnKeeps ==
  ASSUME StoreInv, NEW c \in Clients, NEW res, Return(c, res),
         table' = table \/ Lawful(table, table')
  PROVE  StoreInv'
  <1>0. Sound(table') /\ \A i, r : Was(table, i, r) => Was(table', i, r)
    BY StepKeeps
  <1>1. ReadsAreOld'
    <2>1. DOMAIN snap' = Clients /\ DOMAIN snap'[c] = {}
      BY DEF StoreInv, ReadsAreOld, Return
    <2>2. ASSUME NEW d \in Clients, d # c, NEW i \in DOMAIN snap'[d]
          PROVE  i \in Items /\ Was(table', i, snap'[d][i])
      <3>1. snap'[d] = snap[d]
        BY <2>2 DEF StoreInv, ReadsAreOld, Return
      <3> QED
        BY <3>1, <2>2, <1>0 DEF StoreInv, ReadsAreOld
    <2> QED
      BY <2>1, <2>2 DEF ReadsAreOld
  <1>2. CallsAreSound'
    <2>1. DOMAIN call' = Clients /\ call'[c] = Idle
      BY DEF StoreInv, CallsAreSound, Return
    <2>2. ASSUME NEW d \in Clients, d # c, call[d].pc # "idle"
          PROVE  Asked(d)'
      <3>1. call'[d] = call[d] /\ Asked(d)
        BY <2>2 DEF StoreInv, CallsAreSound, Return
      <3>2. EvidenceWas(table, call[d].expected) => EvidenceWas(table', call[d].expected)
        BY <1>0 DEF Was
      <3> QED
        BY <3>1, <3>2, <1>0 DEF Asked
    <2>3. \A d \in Clients : d # c => call'[d] = call[d]
      BY DEF StoreInv, CallsAreSound, Return
    <2> QED
      BY <2>1, <2>2, <2>3 DEF StoreInv, CallsAreSound, Idle
  <1> QED
    BY <1>0, <1>1, <1>2 DEF StoreInv


\* What is read now is true now.
LEMMA ReadIsFresh ==
  ASSUME Sound(table), NEW i \in Items
  PROVE  Was(table, i, table[i])
  <1>1. i = "run" => RunWas(table, table[i])
    BY DEF Sound, Table, RunRecord, RunWas
  <1>2. i = "idem" => ClaimWas(table, table[i])
    BY DEF Sound, Table, ClaimWas
  <1> QED
    BY <1>1, <1>2 DEF Was, Sound, Table, ApprovalWas, EvidenceWas

\* A new call asks for what it has seen.
LEMMA BeginKeeps ==
  ASSUME StoreInv, NEW c \in Clients, Begin(c)
  PROVE  StoreInv'
  <1>1. PICK kind \in Kinds : \E arg \in Arguments(kind) :
          call' = [call EXCEPT ![c] =
                     [kind |-> kind, arg |-> arg, pc |-> "read",
                      expected |-> IF arg = "SUCCEEDED" THEN table.evidence
                                                        ELSE table[Item(kind)]]]
    BY DEF Begin
  <1>2. PICK arg \in Arguments(kind) :
          call' = [call EXCEPT ![c] =
                     [kind |-> kind, arg |-> arg, pc |-> "read",
                      expected |-> IF arg = "SUCCEEDED" THEN table.evidence
                                                        ELSE table[Item(kind)]]]
    BY <1>1
  <1>K. kind \in Methods
    BY ScopeAssumption
  <1>3. call'[c] = [kind |-> kind, arg |-> arg, pc |-> "read",
                    expected |-> IF arg = "SUCCEEDED" THEN table.evidence
                                                      ELSE table[Item(kind)]]
    BY <1>2 DEF StoreInv, CallsAreSound
  <1>4. /\ kind = "transition_run" => arg \in WorkflowState
        /\ kind = "create_approval" => arg \in {"APPROVED", "DENIED"}
        /\ kind = "create_verification_evidence" =>
              arg \in {"EXECUTION_ACKNOWLEDGEMENT", "RECOVERY_READ_BACK"}
        /\ kind = "save_checkpoint" => arg \in {"create", "advance"}
    BY ScopeAssumption, Zenon DEF Arguments
  <1>5. ASSUME arg = "SUCCEEDED"
        PROVE  kind = "complete_idempotency" /\ table.evidence.id # None
    <2>1. CASE kind = "complete_idempotency"
      BY <1>5, <2>1 DEF Arguments
    <2>2. CASE kind = "transition_run"
      BY <1>5, <2>2, <1>4 DEF WorkflowState, TERMINAL_WORKFLOW_STATES
    <2>3. CASE kind \notin {"complete_idempotency", "transition_run"}
      BY <1>5, <2>3 DEF Arguments
    <2> QED
      BY <2>1, <2>2, <2>3
  <1>6. Item(kind) \in Items
    BY Zenon DEF Item, Items
  <1>7. table' = table /\ Sound(table)
    BY DEF Begin, StoreInv
  <1>8. Asked(c)'
    <2>1. EvidenceWas(table, table.evidence)
      BY <1>7, ReadIsFresh DEF Items, Was
    <2>2. Was(table, Item(kind), table[Item(kind)])
      BY <1>6, <1>7, ReadIsFresh
    <2> QED
      BY <1>K, <1>3, <1>4, <1>5, <1>7, <2>1, <2>2 DEF Asked
  <1>9. \A d \in Clients : d # c => call'[d] = call[d]
    BY <1>2 DEF StoreInv, CallsAreSound
  <1>10. \A d \in Clients : d # c /\ call[d].pc # "idle" => Asked(d)'
    BY <1>7, <1>9 DEF StoreInv, CallsAreSound, Asked
  <1>11. CallsAreSound'
    BY <1>2, <1>3, <1>8, <1>9, <1>10 DEF StoreInv, CallsAreSound
  <1>12. ReadsAreOld'
    BY <1>7 DEF Begin, StoreInv, ReadsAreOld
  <1> QED
    BY <1>7, <1>11, <1>12 DEF StoreInv

\* The next item is read as it is stored.
LEMMA ReadKeeps ==
  ASSUME StoreInv, NEW c \in Clients, Read(c)
  PROVE  StoreInv'
  <1>1. CASE Return(c, "unavailable")
    BY <1>1, ReturnKeeps DEF Read
  <1>2. CASE ~Return(c, "unavailable")
    <2>1. PICK n \in Pending(c) :
            LET i == Reads(call[c].kind, call[c].arg)[n]
            IN  snap' = [snap EXCEPT ![c] = [j \in DOMAIN snap[c] \cup {i} |->
                                                IF j = i THEN table[i] ELSE snap[c][j]]]
      BY <1>2 DEF Read
    <2> DEFINE i == Reads(call[c].kind, call[c].arg)[n]
    <2>2. i \in Items
      <3>1. n \in DOMAIN Reads(call[c].kind, call[c].arg)
        BY DEF Pending
      <3> QED
        BY <3>1 DEF Reads, Items
    <2>3. table' = table /\ call' = call /\ Sound(table)
      BY <1>2 DEF Read, StoreInv
    <2>4. Was(table, i, table[i])
      BY <2>2, <2>3, ReadIsFresh
    <2> HIDE DEF i
    <2>5. snap' = [snap EXCEPT ![c] = [j \in DOMAIN snap[c] \cup {i} |->
                                          IF j = i THEN table[i] ELSE snap[c][j]]]
      BY <2>1 DEF i
    <2>6. \A j \in DOMAIN snap'[c] : j \in Items /\ Was(table, j, snap'[c][j])
      BY <2>2, <2>4, <2>5 DEF StoreInv, ReadsAreOld
    <2>7. ReadsAreOld'
      BY <2>3, <2>5, <2>6 DEF StoreInv, ReadsAreOld
    <2>8. CallsAreSound'
      BY <2>3 DEF StoreInv, CallsAreSound, Asked
    <2> QED
      BY <2>3, <2>7, <2>8 DEF StoreInv
  <1> QED
    BY <1>1, <1>2


\* The invariant holds initially.
LEMMA InitSound == Init => StoreInv
  <1> SUFFICES ASSUME Init PROVE StoreInv
    OBVIOUS
  <1>1. Sound(table)
    <2>1. PICK s \in DOMAIN Stages : table = Stages[s]
      BY ScopeAssumption DEF Init
    <2> QED
      BY <2>1 DEF Sound, Table, Stages, Stage, Unclaimed, Claimed, RunRecord, ProposalState,
        ApprovalRecord, ClaimRecord, ClaimStatus, EvidenceRecord, CheckpointRecord,
        WorkflowState
  <1>2. ReadsAreOld
    BY DEF Init, ReadsAreOld
  <1>3. CallsAreSound
    BY DEF Init, CallsAreSound, Idle
  <1> QED
    BY <1>1, <1>2, <1>3 DEF StoreInv

\* Every step keeps it.
LEMMA StoreStep == StoreInv /\ [Next]_vars => StoreInv'
  <1> SUFFICES ASSUME StoreInv, [Next]_vars PROVE StoreInv'
    OBVIOUS
  <1>1. CASE UNCHANGED vars
    BY <1>1 DEF vars, StoreInv, ReadsAreOld, CallsAreSound, Asked
  <1>2. ASSUME NEW c \in Clients,
               Begin(c) \/ Read(c) \/ Refuse(c) \/ Write(c) \/ Fails(c) \/ Lost(c) \/ Again(c)
        PROVE  StoreInv'
    <2>0. table' = table \/ Lawful(table, table')
      BY <1>2, StepWrites
    <2>1. CASE Begin(c)
      BY <2>1, BeginKeeps
    <2>2. CASE Read(c)
      BY <2>2, ReadKeeps
    <2>3. CASE Refuse(c) \/ Write(c) \/ Lost(c) \/ Again(c)
      BY <2>0, <2>3, ReturnKeeps DEF Refuse, Write, Lost, Again
    <2>4. CASE Fails(c)
      <3>1. CASE call[c].kind \notin Reconciles
        BY <2>0, <2>4, <3>1, ReturnKeeps DEF Fails
      <3>2. CASE call[c].kind \in Reconciles
        <4>1. /\ call' = [call EXCEPT ![c].pc = "again"]
              /\ table' = table /\ snap' = snap /\ call[c].pc = "read"
          BY <2>4, <3>2 DEF Fails, Sends, Ready
        <4>2. /\ DOMAIN call' = Clients /\ call'[c].pc = "again"
              /\ call'[c] = [kind |-> call[c].kind, arg |-> call[c].arg,
                             expected |-> call[c].expected, pc |-> "again"]
          BY <4>1 DEF StoreInv, CallsAreSound
        <4>3. \A d \in Clients : d # c => call'[d] = call[d]
          BY <4>1 DEF StoreInv, CallsAreSound
        <4>4. Asked(c)'
          BY <4>1, <4>2 DEF StoreInv, CallsAreSound, Asked
        <4>5. \A d \in Clients : d # c /\ call[d].pc # "idle" => Asked(d)'
          BY <4>1, <4>3 DEF StoreInv, CallsAreSound, Asked
        <4>6. CallsAreSound'
          BY <4>2, <4>3, <4>4, <4>5 DEF StoreInv, CallsAreSound
        <4> QED
          BY <4>1, <4>6 DEF StoreInv, ReadsAreOld
      <3> QED
        BY <3>1, <3>2
    <2> QED
      BY <1>2, <2>1, <2>2, <2>3, <2>4
  <1> QED
    BY <1>1, <1>2 DEF Next

\* StoreInv holds throughout.
LEMMA StoreInvariant == Spec => []StoreInv
  BY InitSound, StoreStep, PTL DEF Spec


-----------------------------------------------------------------------------
(* The contract *)
\* Every stored stage satisfies the contract's initial condition.
LEMMA InitImplements == Init => Contract!Init
  <1> SUFFICES ASSUME Init PROVE Contract!Init
    OBVIOUS
  <1>1. PICK s \in DOMAIN Stages : table = Stages[s]
    BY ScopeAssumption DEF Init
  <1> QED
    BY <1>1 DEF Contract!Init, Contract!DecisionStored, Contract!ProofStored, Stages, Stage,
                Unclaimed, Claimed

\* The stale records a transition was tested against are still what is stored.
LEMMA MoveImplements ==
  ASSUME StoreInv, NEW c \in Clients, Sends(c), Condition(c), Apply(c),
         call[c].kind = "transition_run"
  PROVE  Contract!MoveRun
  <1> DEFINE to == call[c].arg
  <1>0. Ready(c) /\ table \in Table
    BY DEF Sends, StoreInv, Sound
  <1>1. \A i \in DOMAIN snap[c] : Was(table, i, snap[c][i])
    BY <1>0, InProgress
  <1>2. snap[c].run = table.run /\ table.run.state # "none"
    BY RunWriteIsFresh
  <1>3. to \in ALLOWED_WORKFLOW_TRANSITIONS[table.run.state] /\ transition_run(c, snap[c])
    BY <1>2, TransitionWrite
  <1>4. Contract!DecisionStored(to)
    <2>1. ASSUME to \in {"APPROVED", "DENIED_BY_HUMAN"} PROVE ApprovalWas(table, snap[c].approval)
      BY <1>0, <1>1, <2>1, ReadyHasRead DEF Was
    <2> QED
      BY <1>3, <2>1 DEF Contract!DecisionStored, transition_run, ApprovalWas
  <1>5. Contract!ProofStored(to)
    <2>1. ASSUME to = "SUCCESS_WITH_EVIDENCE"
          PROVE  EvidenceWas(table, snap[c].evidence) /\ ClaimWas(table, snap[c].idem)
      BY <1>0, <1>1, <2>1, ReadyHasRead DEF Was
    <2> QED
      BY <1>3, <2>1 DEF Contract!ProofStored, transition_run, EvidenceWas, ClaimWas
  <1>6. table' = [table EXCEPT !.run = [table.run EXCEPT !.state = to, !.version = @ + 1]]
    BY <1>2, TransitionWrite
  <1>T. Contract!ALLOWED_WORKFLOW_TRANSITIONS = ALLOWED_WORKFLOW_TRANSITIONS
    BY Zenon DEF Contract!ALLOWED_WORKFLOW_TRANSITIONS, ALLOWED_WORKFLOW_TRANSITIONS,
       Contract!WorkflowState, WorkflowState, Contract!TERMINAL_WORKFLOW_STATES,
       TERMINAL_WORKFLOW_STATES, Contract!COMMON_FAILURES, COMMON_FAILURES
  <1>7. /\ table'.run = [table.run EXCEPT !.state = to, !.version = @ + 1]
        /\ \A i \in {"proposal", "approval", "idem", "evidence", "checkpoint"} :
              table'[i] = table[i]
    BY <1>0, <1>6 DEF Table
  <1> QED
    BY <1>T, <1>2, <1>3, <1>4, <1>5, <1>7 DEF Contract!MoveRun

\* Every write is a step of the contract.
LEMMA WriteImplements ==
  ASSUME StoreInv, NEW c \in Clients, Sends(c), Condition(c), Apply(c)
  PROVE  Contract!Next
  <1>0. Ready(c) /\ Sound(table) /\ table \in Table
    BY DEF Sends, StoreInv, Sound
  <1>A. Asked(c) /\ \A i \in DOMAIN snap[c] : Was(table, i, snap[c][i])
    BY <1>0, InProgress
  <1>1. CASE call[c].kind = "create_run"
    BY <1>0, <1>1, CreateWrite DEF Contract!Next, Contract!CreateRun, Table
  <1>2. CASE call[c].kind = "transition_run"
    BY <1>2, MoveImplements DEF Contract!Next
  <1>3. CASE call[c].kind = "update_run_budget"
    <2>1. snap[c].run = table.run
      BY <1>3, RunWriteIsFresh
    <2> DEFINE q == [table.run EXCEPT !.turns = @ + 1, !.version = @ + 1]
    <2>2. table' = [table EXCEPT !.run = q]
      BY <1>3, <2>1, BudgetWrite
    <2> HIDE DEF q
    <2>3. /\ table'.run = q
          /\ \A i \in {"proposal", "approval", "idem", "evidence", "checkpoint"} :
                table'[i] = table[i]
      BY <1>0, <2>2 DEF Table
    <2> QED
      BY <2>3 DEF q, Contract!Next, Contract!Spend
  <1>4. CASE call[c].kind = "create_proposal"
    BY <1>0, <1>4, CreateWrite DEF Contract!Next, Contract!MoveProposal, Table
  <1>5. CASE call[c].kind = "transition_proposal"
    <2>1. \/ table.proposal = "PROPOSED" /\ call[c].arg \in {"AWAITING_APPROVAL", "SUPERSEDED"}
          \/ table.proposal = "AWAITING_APPROVAL" /\ call[c].arg = "SUPERSEDED"
      BY <1>5, ProposalWrite DEF transition_proposal, transitioned_proposal
    <2> QED
      BY <1>0, <1>5, <2>1, ProposalWrite DEF Contract!Next, Contract!MoveProposal, Table
  <1>6. CASE call[c].kind = "create_approval"
    BY <1>0, <1>A, <1>6, CreateWrite DEF Contract!Next, Contract!Decide, Table, Asked
  <1>7. CASE call[c].kind = "register_idempotency"
    <2>1. ApprovalWas(table, snap[c].approval)
      BY <1>0, <1>A, <1>7, ReadyHasRead DEF Was
    <2>2. table.approval.decision = "APPROVED" /\ table.idem.status = "none"
      BY <1>7, <2>1, CreateWrite DEF register_idempotency, ApprovalWas
    <2>3. table.idem.ack = None /\ table.idem.proof = None
      BY <1>0, <2>2 DEF Sound
    <2> QED
      BY <1>0, <1>7, <2>2, <2>3, CreateWrite
      DEF Contract!Next, Contract!Claim, Claimed, Table
  <1>8. CASE call[c].kind = "complete_idempotency"
    <2>1. ClaimWas(table, snap[c].idem)
      BY <1>0, <1>A, <1>8, ReadyHasRead DEF Was
    <2>2. completed_idempotency_status(call[c].arg)
             \in {"COMPLETED", "FAILED", "RECONCILIATION_REQUIRED"}
      BY Zenon DEF completed_idempotency_status
    <2> DEFINE x == completed_idempotency_status(call[c].arg)
               z == IF call[c].arg = "SUCCEEDED" THEN call[c].expected.id ELSE None
               q == [snap[c].idem EXCEPT !.status = x, !.hash = table.idem.hash, !.proof = z]
    <2>3. z # None => z = table.evidence.id
      BY <1>A DEF Asked, EvidenceWas
    <2>4. /\ table.idem.status = "REGISTERED" /\ snap[c].idem.status = "REGISTERED"
          /\ table' = [table EXCEPT !.idem = q]
      BY <1>8, CompletionWrite
    <2>5. snap[c].idem.ack \in {table.idem.ack, None}
      BY <2>1, <2>4 DEF ClaimWas
    <2> HIDE DEF x, z
    <2>6. q.status = x /\ q.ack = snap[c].idem.ack /\ q.proof = z
      BY <2>1, Zenon DEF ClaimWas, ClaimRecord
    <2> HIDE DEF q
    <2>7. x \in {"COMPLETED", "FAILED", "RECONCILIATION_REQUIRED"}
      BY <2>2 DEF x
    <2> QED
      BY <1>0, <2>3, <2>4, <2>5, <2>6, <2>7 DEF Contract!Next, Contract!Complete, Table
  <1>9. CASE call[c].kind = "record_execution_acknowledgement"
    <2>1. ClaimWas(table, snap[c].idem)
      BY <1>0, <1>A, <1>9, ReadyHasRead DEF Was
    <2> DEFINE q == [snap[c].idem EXCEPT !.ack = c, !.hash = c]
    <2>2. /\ snap[c].idem.status = "REGISTERED" /\ snap[c].idem.proof = None
          /\ table.idem.status = "REGISTERED" /\ table.idem.ack = None
          /\ table.idem.proof = None
      BY <1>0, <1>9, <2>1, ReceiptWrite
      DEF Sound, ClaimWas, AcknowledgementCondition, record_execution_acknowledgement
    <2>3. q.status = snap[c].idem.status /\ q.ack = c /\ q.proof = snap[c].idem.proof
      BY <2>1, ReceiptClaim DEF ClaimWas
    <2>4. table' = [table EXCEPT !.idem = q]
      BY <1>9, ReceiptWrite
    <2> HIDE DEF q
    <2> QED
      BY <1>0, <2>2, <2>3, <2>4 DEF Contract!Next, Contract!Acknowledge, Table
  <1>10. CASE call[c].kind = "create_verification_evidence"
    <2>1. ClaimWas(table, snap[c].idem)
      BY <1>0, <1>A, <1>10, ReadyHasRead DEF Was
    <2>2. table.idem.status # "none"
      BY <1>10, <2>1, CreateWrite DEF create_verification_evidence, ClaimWas
    <2> QED
      BY <1>0, <1>10, <2>2, CreateWrite DEF Contract!Next, Contract!Verify, Table
  <1>11. CASE call[c].kind = "save_checkpoint"
    <2>1. call[c].arg \in {"create", "advance"}
      BY <1>A, <1>11 DEF Asked
    <2> QED
      BY <1>0, <1>11, <2>1, CheckpointWrite
      DEF Contract!Next, Contract!SaveCheckpoint, Table, CheckpointRecord
  <1> QED
    BY <1>A, <1>1, <1>2, <1>3, <1>4, <1>5, <1>6, <1>7, <1>8, <1>9, <1>10, <1>11 DEF Asked, Methods

\* Every step of the repository maps to a step of the contract or to none.
LEMMA StepImplements == StoreInv /\ [Next]_vars => [Contract!Next]_(Contract!contractVars)
  <1> SUFFICES ASSUME StoreInv, [Next]_vars
               PROVE  table' = table \/ Contract!Next
    BY DEF Contract!contractVars
  <1>1. ASSUME NEW c \in Clients, Write(c) PROVE Contract!Next
    BY <1>1, WriteImplements DEF Write
  <1>2. ASSUME NEW c \in Clients, Lost(c) PROVE table' = table \/ Contract!Next
    BY <1>2, WriteImplements DEF Lost
  <1> QED
    BY <1>1, <1>2 DEF Next, vars, Begin, Read, Refuse, Fails, Again

\* For any number of clients, calls and lost responses, the repository's single-item
\* conditional writes (nz_dynamodb.py _update, _put_create) implement TruthContract:
\* tests of stale reads suffice, since whatever they admit is still stored when the
\* condition of the write holds.
THEOREM StoreImplementsContract == Spec => ImplementsContract
  BY InitImplements, StoreInvariant, StepImplements, PTL
  DEF Spec, ImplementsContract, Contract!Spec


-----------------------------------------------------------------------------
(* Answers *)
\* What an answer promises of the table: the record that was stored is there, the
\* receipt is with the open claim, and the version the run was moved from is gone.
Holds(t, c, r) ==
    /\ r.kind = "create_approval" =>
          t.approval = [decision |-> r.arg, by |-> c] /\ r.arg \in {"APPROVED", "DENIED"}
    /\ r.kind = "create_verification_evidence" => t.evidence = [id |-> c, origin |-> r.arg]
    /\ r.kind = "record_execution_acknowledgement" =>
          t.idem.status # "none" /\ (t.idem.status = "REGISTERED" => t.idem.ack = c)
    /\ Item(r.kind) = "run" => r.base \in Nat /\ r.base < t.run.version

AnswersHold == \A c \in Clients : \A r \in outcome[c].ok : Holds(table, c, r)

\* Calls and faults are counted, and only methods that reconcile read again.
Counted ==
    /\ DOMAIN outcome = Clients
    /\ \A c \in Clients :
        /\ outcome[c] = [calls |-> outcome[c].calls, ok |-> outcome[c].ok]
        /\ outcome[c].calls \in 0..MaxCalls
        /\ call[c].pc # "idle" => outcome[c].calls < MaxCalls
        /\ call[c].pc = "again" => call[c].kind \in Reconciles
    /\ faults \in 0..MaxFaults

AnswerInv == StoreInv /\ Counted /\ AnswersHold /\ OneWriterPerVersion

\* The answer a call that ends with success gives.
Answer(c) ==
    [kind |-> call[c].kind, arg |-> call[c].arg,
     base |-> IF Item(call[c].kind) = "run" THEN call[c].expected.version ELSE 0]

\* A lawful write leaves every answer true.
LEMMA LawfulKeepsAnswers ==
  ASSUME NEW t, NEW u, Sound(t), Lawful(t, u), NEW c \in Clients, NEW r, Holds(t, c, r)
  PROVE  Holds(u, c, r)
  <1>1. r.kind = "create_approval" => u.approval = t.approval
    BY DEF Sound, Lawful, Table, Holds
  <1>2. r.kind = "create_verification_evidence" => u.evidence = t.evidence
    BY StoreAssumption DEF Sound, Lawful, Table, Holds
  <1>3. r.kind = "record_execution_acknowledgement" =>
           u.idem.status # "none" /\ (u.idem.status = "REGISTERED" => u.idem.ack = c)
    BY StoreAssumption DEF Sound, Lawful, Table, Holds
  <1>4. t.run.version \in Nat /\ u.run.version \in Nat /\ t.run.version <= u.run.version
    BY DEF Sound, Lawful, Table, RunRecord
  <1> QED
    BY <1>1, <1>2, <1>3, <1>4 DEF Holds

\* The answer of a write is true, and it moved the run from the version stored before.
LEMMA WriteAnswers ==
  ASSUME StoreInv, NEW c \in Clients, Sends(c), Condition(c), Apply(c)
  PROVE  /\ Holds(table', c, Answer(c))
         /\ Item(call[c].kind) = "run" => Answer(c).base = table.run.version
  <1>0. Ready(c) /\ Sound(table) /\ table \in Table /\ Lawful(table, table')
    BY WriteIsLawful DEF Sends, StoreInv, Sound
  <1>A. Asked(c) /\ \A i \in DOMAIN snap[c] : Was(table, i, snap[c][i])
    BY <1>0, InProgress
  <1>1. ASSUME call[c].kind = "create_approval"
        PROVE  /\ table'.approval = [decision |-> call[c].arg, by |-> c]
               /\ call[c].arg \in {"APPROVED", "DENIED"}
    BY <1>0, <1>A, <1>1, CreateWrite DEF Table, Asked
  <1>2. ASSUME call[c].kind = "create_verification_evidence"
        PROVE  table'.evidence = [id |-> c, origin |-> call[c].arg]
    BY <1>0, <1>2, CreateWrite DEF Table
  <1>3. ASSUME call[c].kind = "record_execution_acknowledgement"
        PROVE  table'.idem.status # "none" /\ table'.idem.ack = c
    <2> DEFINE q == [snap[c].idem EXCEPT !.ack = c, !.hash = c]
    <2>1. ClaimWas(table, snap[c].idem)
      BY <1>0, <1>A, <1>3, ReadyHasRead DEF Was
    <2>2. q.status = "REGISTERED" /\ q.ack = c
      BY <1>3, <2>1, ReceiptWrite, ReceiptClaim DEF ClaimWas, record_execution_acknowledgement
    <2>3. table' = [table EXCEPT !.idem = q]
      BY <1>3, ReceiptWrite
    <2> HIDE DEF q
    <2> QED
      BY <1>0, <2>2, <2>3 DEF Table
  <1>4. ASSUME Item(call[c].kind) = "run"
        PROVE  /\ call[c].expected.version = table.run.version
               /\ table'.run.version = table.run.version + 1
    <2>0. call[c].kind \in {"create_run", "transition_run", "update_run_budget"}
      BY <1>4, <1>A, Zenon DEF Item, Asked, Methods
    <2>1. CASE call[c].kind = "create_run"
      <3>1. RunWas(table, call[c].expected)
        BY <1>4, <1>A, <2>1 DEF Asked, Was
      <3> QED
        BY <1>0, <2>1, <3>1, CreateWrite DEF Sound, Table, RunRecord, RunWas
    <2>2. CASE call[c].kind \in {"transition_run", "update_run_budget"}
      <3>1. RunCondition(c) /\ snap[c].run = table.run
        BY <2>2, TransitionWrite, BudgetWrite, RunWriteIsFresh
      <3>2. table'.run.version = table.run.version + 1
        <4>1. CASE call[c].kind = "transition_run"
          <5> DEFINE q == [table.run EXCEPT !.state = call[c].arg, !.version = @ + 1]
          <5>1. table' = [table EXCEPT !.run = q]
            BY <3>1, <4>1, TransitionWrite
          <5>2. q.version = table.run.version + 1
            BY <1>0, <1>A, <4>1, MovedRun DEF Table, Asked
          <5> HIDE DEF q
          <5> QED
            BY <1>0, <5>1, <5>2 DEF Table
        <4>2. CASE call[c].kind = "update_run_budget"
          <5> DEFINE q == [table.run EXCEPT !.turns = @ + 1, !.version = @ + 1]
          <5>1. table' = [table EXCEPT !.run = q]
            BY <3>1, <4>2, BudgetWrite
          <5>2. q.version = table.run.version + 1
            BY <1>0, SpentRun DEF Table
          <5> HIDE DEF q
          <5> QED
            BY <1>0, <5>1, <5>2 DEF Table
        <4> QED
          BY <2>2, <4>1, <4>2
      <3> QED
        BY <3>1, <3>2 DEF RunCondition
    <2> QED
      BY <2>0, <2>1, <2>2
  <1>5. table.run.version \in Nat
    BY <1>0 DEF Table, RunRecord
  <1> QED
    BY <1>1, <1>2, <1>3, <1>4, <1>5 DEF Holds, Answer


\* Answers that are not the result of the write of this step concern no version of the run.
LEMMA OtherAnswers ==
  ASSUME StoreInv, Counted, NEW c \in Clients,
         \/ Ready(c) /\ Settled(c)
         \/ call[c].pc = "again" /\ Matches(c)
  PROVE  Holds(table, c, Answer(c)) /\ Item(call[c].kind) # "run"
  <1>0. Sound(table)
    BY DEF StoreInv
  <1>1. CASE Ready(c) /\ Settled(c)
    <2>1. CASE call[c].kind = "register_idempotency"
      BY <2>1 DEF Holds, Answer, Item
    <2>2. CASE call[c].kind = "record_execution_acknowledgement"
      <3>1. ClaimWas(table, snap[c].idem)
        BY <1>1, <2>2, InProgress, ReadyHasRead DEF Was
      <3>2. snap[c].idem.status = "REGISTERED" /\ snap[c].idem.ack = c
        BY <1>1, <2>2 DEF Settled
      <3>3. table.idem.status # "none" /\ (table.idem.status = "REGISTERED" => table.idem.ack = c)
        BY <3>1, <3>2, StoreAssumption DEF ClaimWas
      <3> QED
        BY <2>2, <3>3 DEF Holds, Answer, Item
    <2> QED
      BY <1>1, <2>1, <2>2 DEF Settled
  <1>2. CASE call[c].pc = "again" /\ Matches(c)
    <2>0. call[c].kind \in Reconciles /\ Asked(c)
      BY <1>2 DEF Counted, StoreInv, CallsAreSound
    <2>1. CASE call[c].kind = "create_approval"
      BY <1>2, <2>0, <2>1 DEF Holds, Answer, Item, Matches, Asked
    <2>2. CASE call[c].kind = "register_idempotency"
      BY <2>2 DEF Holds, Answer, Item
    <2>3. CASE call[c].kind = "record_execution_acknowledgement"
      <3>1. table.idem.ack = c
        BY <1>2, <2>3 DEF Matches
      <3>2. table.idem.status # "none"
        BY <1>0, <3>1, StoreAssumption DEF Sound
      <3> QED
        BY <2>3, <3>1, <3>2 DEF Holds, Answer, Item
    <2>4. CASE call[c].kind = "create_verification_evidence"
      BY <1>2, <2>4 DEF Holds, Answer, Item, Matches
    <2> QED
      BY <2>0, <2>1, <2>2, <2>3, <2>4 DEF Reconciles
  <1> QED
    BY <1>1, <1>2

\* What ending a call does to the outcomes.
LEMMA ReturnOutcome ==
  ASSUME Counted, CallsAreSound, NEW c \in Clients, NEW res, Return(c, res), call[c].pc # "idle"
  PROVE  /\ DOMAIN outcome' = Clients
         /\ \A d \in Clients : d # c => outcome'[d] = outcome[d] /\ call'[d] = call[d]
         /\ outcome'[c].calls \in 0..MaxCalls /\ call'[c].pc = "idle"
         /\ outcome'[c] = [calls |-> outcome'[c].calls, ok |-> outcome'[c].ok]
         /\ res # "ok" => outcome'[c].ok = outcome[c].ok
         /\ res = "ok" => outcome'[c].ok = outcome[c].ok \cup {Answer(c)}
  <1>1. outcome[c].calls + 1 \in 0..MaxCalls
    BY StoreAssumption DEF Counted
  <1>2. /\ outcome'[c].calls = outcome[c].calls + 1
        /\ outcome'[c] = [calls |-> outcome'[c].calls, ok |-> outcome'[c].ok]
        /\ outcome'[c].ok = IF res # "ok" THEN outcome[c].ok ELSE outcome[c].ok \cup {Answer(c)}
    <2> DEFINE k == outcome[c].calls + 1
               ok == IF res # "ok" THEN outcome[c].ok ELSE outcome[c].ok \cup {Answer(c)}
    <2>1. outcome' = [outcome EXCEPT ![c].calls = k, ![c].ok = ok]
      BY Zenon DEF Return, Answer
    <2>2. DOMAIN outcome = Clients /\ outcome[c] = [calls |-> outcome[c].calls, ok |-> outcome[c].ok]
      BY DEF Counted
    <2> HIDE DEF k, ok
    <2>3. outcome'[c] = [calls |-> k, ok |-> ok]
      BY <2>1, <2>2
    <2>4. outcome'[c].calls = k /\ outcome'[c].ok = ok
      BY <2>3
    <2> QED
      BY <2>3, <2>4 DEF k, ok
  <1>3. /\ DOMAIN outcome' = Clients
        /\ \A d \in Clients : d # c => outcome'[d] = outcome[d] /\ call'[d] = call[d]
    BY DEF Return, Counted, CallsAreSound
  <1>4. call'[c].pc = "idle"
    BY DEF Return, CallsAreSound, Idle
  <1> QED
    BY <1>1, <1>2, <1>3, <1>4


\* A call that ends keeps the answers true, the new one included.
LEMMA ReturnAnswers ==
  ASSUME AnswerInv, NEW c \in Clients, NEW res, Return(c, res), call[c].pc # "idle",
         faults' \in 0..MaxFaults, table' = table \/ Lawful(table, table'),
         res = "ok" =>
            /\ Holds(table', c, Answer(c))
            /\ Item(call[c].kind) = "run" => Answer(c).base = table.run.version
  PROVE  (Counted /\ AnswersHold /\ OneWriterPerVersion)'
  <1>0. /\ DOMAIN outcome' = Clients
        /\ \A d \in Clients : d # c => outcome'[d] = outcome[d] /\ call'[d] = call[d]
        /\ outcome'[c].calls \in 0..MaxCalls /\ call'[c].pc = "idle"
        /\ outcome'[c] = [calls |-> outcome'[c].calls, ok |-> outcome'[c].ok]
        /\ res # "ok" => outcome'[c].ok = outcome[c].ok
        /\ res = "ok" => outcome'[c].ok = outcome[c].ok \cup {Answer(c)}
    BY ReturnOutcome DEF AnswerInv, StoreInv
  <1>1. Counted'
    BY <1>0 DEF AnswerInv, Counted
  <1>2. \A d \in Clients : \A r \in outcome[d].ok : Holds(table', d, r)
    BY LawfulKeepsAnswers DEF AnswerInv, AnswersHold, StoreInv
  <1>3. AnswersHold'
    <2>1. ASSUME NEW d \in Clients, NEW r \in outcome'[d].ok PROVE Holds(table', d, r)
      <3>1. CASE r \in outcome[d].ok
        BY <1>2, <3>1
      <3>2. CASE r \notin outcome[d].ok
        <4>1. d = c /\ res = "ok" /\ r = Answer(c)
          BY <1>0, <2>1, <3>2
        <4> QED
          BY <4>1
      <3> QED
        BY <3>1, <3>2
    <2>2. \A d \in Clients : \A r \in outcome'[d].ok : Holds(table', d, r)
      BY <2>1
    <2> QED
      BY <2>2 DEF AnswersHold, Holds
  <1>4. OneWriterPerVersion'
    <2> SUFFICES ASSUME NEW d \in Clients, NEW e \in Clients, d # e,
                        NEW r \in outcome'[d].ok, NEW q \in outcome'[e].ok,
                        Item(r.kind) = "run", Item(q.kind) = "run"
                 PROVE  r.base # q.base
      BY DEF OneWriterPerVersion
    <2>0. \A f \in Clients : \A x \in outcome[f].ok : Item(x.kind) = "run" =>
             x.base # table.run.version
      <3>1. table.run.version \in Nat
        BY DEF AnswerInv, StoreInv, Sound, Table, RunRecord
      <3> QED
        <4> SUFFICES ASSUME NEW f \in Clients, NEW x \in outcome[f].ok, Item(x.kind) = "run"
                     PROVE  x.base # table.run.version
          OBVIOUS
        <4>1. Holds(table, f, x)
          BY DEF AnswerInv, AnswersHold
        <4>2. x.base \in Nat /\ x.base < table.run.version
          BY <4>1 DEF Holds
        <4> QED
          BY <3>1, <4>2
    <2>1. \A f \in Clients : \A x \in outcome'[f].ok : x \notin outcome[f].ok =>
             f = c /\ (Item(x.kind) = "run" => x.base = table.run.version)
      <3>1. res = "ok" /\ Item(Answer(c).kind) = "run" => Answer(c).base = table.run.version
        BY DEF Answer
      <3> QED
        BY <1>0, <3>1
    <2>2. CASE r \in outcome[d].ok /\ q \in outcome[e].ok
      BY <2>2 DEF AnswerInv, OneWriterPerVersion
    <2>3. CASE r \notin outcome[d].ok
      BY <2>0, <2>1, <2>3
    <2>4. CASE q \notin outcome[e].ok
      BY <2>0, <2>1, <2>4
    <2> QED
      BY <2>2, <2>3, <2>4
  <1> QED
    BY <1>1, <1>3, <1>4

\* Nobody has been answered yet.
LEMMA InitAnswers == Init => AnswerInv
  BY InitSound, StoreAssumption
  DEF Init, AnswerInv, Counted, AnswersHold, OneWriterPerVersion, Idle

\* A step that ends no call gives no answer.
LEMMA SilentAnswers ==
  ASSUME AnswerInv, table' = table, outcome' = outcome, faults' \in 0..MaxFaults, Counted'
  PROVE  (Counted /\ AnswersHold /\ OneWriterPerVersion)'
  BY DEF AnswerInv, AnswersHold, Holds, OneWriterPerVersion

\* Every step keeps the answers true.
LEMMA AnswerStep == AnswerInv /\ [Next]_vars => AnswerInv'
  <1> SUFFICES ASSUME AnswerInv, [Next]_vars PROVE AnswerInv'
    OBVIOUS
  <1>0. StoreInv /\ StoreInv' /\ Counted
    BY StoreStep DEF AnswerInv
  <1>1. CASE UNCHANGED vars
    BY <1>0, <1>1, SilentAnswers DEF vars, AnswerInv, Counted
  <1>2. ASSUME NEW c \in Clients,
               Begin(c) \/ Read(c) \/ Refuse(c) \/ Write(c) \/ Fails(c) \/ Lost(c) \/ Again(c)
        PROVE  (Counted /\ AnswersHold /\ OneWriterPerVersion)'
    <2>0. table' = table \/ Lawful(table, table')
      BY <1>0, <1>2, StepWrites
    <2>F. faults \in 0..MaxFaults /\ (faults < MaxFaults => faults + 1 \in 0..MaxFaults)
      BY <1>0, StoreAssumption DEF Counted
    <2>1. CASE Begin(c)
      <3>1. /\ table' = table /\ outcome' = outcome /\ faults' = faults
            /\ outcome[c].calls < MaxCalls
            /\ call'[c].pc = "read" /\ \A d \in Clients : d # c => call'[d] = call[d]
        BY <1>0, <2>1 DEF Begin, StoreInv, CallsAreSound
      <3> QED
        BY <1>0, <2>F, <3>1, SilentAnswers DEF Counted
    <2>2. CASE Read(c)
      <3>1. CASE Return(c, "unavailable")
        BY <2>0, <2>2, <2>F, <3>1, ReturnAnswers DEF Read
      <3>2. CASE ~Return(c, "unavailable")
        <4>1. UNCHANGED <<table, call, outcome, faults>>
          BY <2>2, <3>2 DEF Read
        <4> QED
          BY <1>0, <2>F, <4>1, SilentAnswers DEF Counted
      <3> QED
        BY <3>1, <3>2
    <2>3. CASE Refuse(c)
      <3>1. call[c].pc # "idle" /\ Ready(c) /\ table' = table /\ faults' = faults
        BY <2>3 DEF Refuse, Ready
      <3>2. CASE Settled(c) /\ Return(c, "ok")
        BY <1>0, <2>0, <2>F, <3>1, <3>2, OtherAnswers, ReturnAnswers DEF Holds
      <3>3. CASE Return(c, "conflict") \/ Return(c, "illegal")
        BY <2>0, <2>F, <3>1, <3>3, ReturnAnswers
      <3> QED
        BY <2>3, <3>2, <3>3 DEF Refuse
    <2>4. CASE Write(c)
      <3>1. /\ call[c].pc # "idle" /\ Return(c, "ok") /\ faults' = faults
            /\ Holds(table', c, Answer(c))
            /\ Item(call[c].kind) = "run" => Answer(c).base = table.run.version
        BY <1>0, <2>4, WriteAnswers DEF Write, Sends, Ready
      <3> QED
        BY <2>0, <2>F, <3>1, ReturnAnswers
    <2>5. CASE Fails(c)
      <3>1. call[c].pc = "read" /\ table' = table /\ faults' = faults
        BY <2>5 DEF Fails, Sends, Ready
      <3>2. CASE call[c].kind \notin Reconciles
        BY <2>0, <2>5, <2>F, <3>1, <3>2, ReturnAnswers DEF Fails
      <3>3. CASE call[c].kind \in Reconciles
        <4>1. /\ call' = [call EXCEPT ![c].pc = "again"] /\ outcome' = outcome
          BY <2>5, <3>3 DEF Fails
        <4>2. /\ call'[c].pc = "again" /\ call'[c].kind = call[c].kind
              /\ \A d \in Clients : d # c => call'[d] = call[d]
          BY <1>0, <4>1 DEF StoreInv, CallsAreSound
        <4>3. Counted'
          BY <1>0, <2>F, <3>1, <3>3, <4>1, <4>2 DEF Counted
        <4> QED
          BY <2>F, <3>1, <4>1, <4>3, SilentAnswers
      <3> QED
        BY <3>2, <3>3
    <2>6. CASE Lost(c)
      BY <2>0, <2>6, <2>F, ReturnAnswers DEF Lost, Sends, Ready
    <2>7. CASE Again(c)
      <3>1. call[c].pc = "again" /\ table' = table
        BY <2>7 DEF Again
      <3>2. CASE Return(c, "ok") /\ Matches(c) /\ faults' = faults
        BY <1>0, <2>0, <2>F, <3>1, <3>2, OtherAnswers, ReturnAnswers
      <3>3. CASE /\ Return(c, "conflict") \/ Return(c, "unavailable")
                 /\ faults' \in 0..MaxFaults
        BY <2>0, <3>1, <3>3, ReturnAnswers
      <3> QED
        BY <2>7, <2>F, <3>2, <3>3 DEF Again
    <2> QED
      BY <1>2, <2>1, <2>2, <2>3, <2>4, <2>5, <2>6, <2>7
  <1> QED
    BY <1>0, <1>1, <1>2, SilentAnswers DEF Next, AnswerInv, vars

\* The invariant implies what the run checks.
LEMMA AnswersFollow == AnswerInv => AnswersStayTrue
  <1> SUFFICES ASSUME AnswerInv PROVE AnswersStayTrue
    OBVIOUS
  <1>1. TypeOK
    BY DEF AnswerInv, StoreInv, Sound, Table, RunRecord, ProposalState, ApprovalRecord,
           ClaimRecord, ClaimStatus, EvidenceRecord, ReadsAreOld, Counted, TypeOK
  <1>2. ReturnedIsStored /\ ReceiptKeptWhileOpen
    BY DEF AnswerInv, AnswersHold, Holds, ReturnedIsStored, ReceiptKeptWhileOpen
  <1> QED
    BY <1>1, <1>2 DEF AnswerInv, AnswersStayTrue

\* Whatever other clients write and whichever responses are lost, an answer "stored"
\* stays true, the one that came from reading again after a failed condition included,
\* and no two clients are told that they moved the run from the same version.
THEOREM AnswersAreKept == Spec => []AnswersStayTrue
  BY InitAnswers, AnswerStep, AnswersFollow, PTL DEF Spec
=============================================================================
