--------------------------- MODULE TruthContract ---------------------------
(***************************************************************************)
(* What the durable truth repository promises of one run's records when    *)
(* each method changes one record at most (DurableTruthRepository, the     *)
(* protocol): every record has its own lawful history, and the decisions   *)
(* and proofs a run's state claims were stored before the state was.       *)
(***************************************************************************)
EXTENDS NonZero

CONSTANTS Clients, None

VARIABLES run, proposal, approval, idem, evidence, checkpoint

contractVars == <<run, proposal, approval, idem, evidence, checkpoint>>

DecisionStored(to) ==
    /\ to = "APPROVED" => approval.decision = "APPROVED"
    /\ to = "DENIED_BY_HUMAN" => approval.decision = "DENIED"
ProofStored(to) ==
    to = "SUCCESS_WITH_EVIDENCE" =>
        idem.status = "COMPLETED" /\ idem.proof = evidence.id /\ evidence.id # None

Init ==
    /\ DecisionStored(run.state) /\ ProofStored(run.state)
    /\ idem.status # "none" => approval.decision = "APPROVED"
    /\ evidence.id # None => idem.status # "none"

\* A new run is version one; a stored one moves along the transition table.
CreateRun ==
    /\ run.state = "none"
    /\ run' = [state |-> "RECEIVED", version |-> 1, turns |-> 0]
    /\ UNCHANGED <<proposal, approval, idem, evidence, checkpoint>>
MoveRun ==
    /\ run.state # "none"
    /\ \E to \in ALLOWED_WORKFLOW_TRANSITIONS[run.state] :
        /\ DecisionStored(to) /\ ProofStored(to)
        /\ run' = [run EXCEPT !.state = to, !.version = @ + 1]
    /\ UNCHANGED <<proposal, approval, idem, evidence, checkpoint>>
\* Counters grow under the same version, and never in a step that moves the run.
Spend ==
    /\ run' = [run EXCEPT !.turns = @ + 1, !.version = @ + 1]
    /\ UNCHANGED <<proposal, approval, idem, evidence, checkpoint>>

MoveProposal ==
    /\ <<proposal, proposal'>> \in
          {<<"none", "PROPOSED">>, <<"PROPOSED", "AWAITING_APPROVAL">>,
           <<"PROPOSED", "SUPERSEDED">>, <<"AWAITING_APPROVAL", "SUPERSEDED">>}
    /\ UNCHANGED <<run, approval, idem, evidence, checkpoint>>
\* One human decision, one claim, one result, one evidence: written once.
Decide ==
    /\ approval.decision = "none" /\ approval'.decision \in {"APPROVED", "DENIED"}
    /\ approval'.by \in Clients
    /\ UNCHANGED <<run, proposal, idem, evidence, checkpoint>>
Claim ==
    /\ idem.status = "none" /\ approval.decision = "APPROVED"
    /\ idem' = [idem EXCEPT !.status = "REGISTERED"]
    /\ UNCHANGED <<run, proposal, approval, evidence, checkpoint>>
Acknowledge ==
    /\ idem.status = "REGISTERED" /\ idem.ack = None
    /\ \E c \in Clients : idem' = [idem EXCEPT !.ack = c]
    /\ UNCHANGED <<run, proposal, approval, evidence, checkpoint>>
\* The result replaces the record the writer read, which may be without a receipt.
Complete ==
    /\ idem.status = "REGISTERED"
    /\ idem'.status \in {"COMPLETED", "FAILED", "RECONCILIATION_REQUIRED"}
    /\ idem'.ack \in {idem.ack, None}
    /\ idem'.proof # None => idem'.proof = evidence.id
    /\ UNCHANGED <<run, proposal, approval, evidence, checkpoint>>
Verify ==
    /\ evidence.id = None /\ evidence'.id \in Clients
    /\ idem.status # "none"
    /\ UNCHANGED <<run, proposal, approval, idem, checkpoint>>
SaveCheckpoint ==
    /\ checkpoint'.version = checkpoint.version + 1 /\ checkpoint'.by \in Clients
    /\ UNCHANGED <<run, proposal, approval, idem, evidence>>

Next ==
    \/ CreateRun \/ MoveRun \/ Spend \/ MoveProposal \/ Decide \/ Claim \/ Acknowledge
    \/ Complete \/ Verify \/ SaveCheckpoint

Spec == Init /\ [][Next]_contractVars
=============================================================================
