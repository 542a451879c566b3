--------------------------- MODULE LocalWorkflow ---------------------------
(***************************************************************************)
(* The local workflow as a whole: workers that carry out any operation on  *)
(* any run, crashes between any two steps, failing files and passing time. *)
(***************************************************************************)
EXTENDS LocalHitl

CONSTANT Crashing    \* the workers whose process may die

Init == LocalInit /\ WorkersInit

-----------------------------------------------------------------------------
(* LocalApiApplication.handle: a request that its parsing or its credentials *)
(* reject changes nothing; the others reach the workflow with the session    *)
(* derived from the token.                                                   *)
start(w, r) == Execute(w, r)
approval_request(w, r, s) == RequestApproval(w, r, s)
decision(w, r, s) ==
    \E d \in {"APPROVED", "DENIED"}, q \in 1..checkpoint[r].request : Decide(w, r, s, d, q)
resume(w, r, s) == Resume(w, r, s)

\* A request for one of the runs arrives at an idle worker.
handle(w, runs, sessions) ==
    \E r \in runs :
      \/ start(w, r)
      \/ \E s \in sessions : approval_request(w, r, s) \/ decision(w, r, s) \/ resume(w, r, s)

Step(w) == FirstStep(w) \/ HitlStep(w)

Next ==
    \/ \E w \in Workers : handle(w, Runs, Sessions) \/ Step(w) \/ (w \in Crashing /\ Crash(w))
    \/ \E r \in Runs : Lapse(r) \/ Expire(r)

Spec == Init /\ [][Next]_vars

\* A worker that does not die finishes its call, and the operator's console
\* keeps asking to resume each run.
FairSpec ==
    /\ Spec
    /\ \A w \in Workers \ Crashing : WF_vars(Step(w))
    /\ \A r \in Runs, s \in Sessions : SF_vars(\E w \in Workers \ Crashing : Resume(w, r, s))

-----------------------------------------------------------------------------
WorkerPc ==
    {"idle", "fail", "raised", "audit_denial",
     "f_get_run", "f_create", "f_audit_created", "f_raced", "f_reconcile", "f_investigating",
     "f_query", "f_audit_query", "f_evidence_ready", "f_checkpoint_1", "f_plan",
     "f_audit_rejected", "f_no_action", "f_recommend", "f_terminal_checkpoint", "f_proposed",
     "f_checkpoint_2", "f_awaiting", "f_audit_planned", "f_audit_end",
     "q_load", "q_load_checkpoint", "q_save", "q_audit",
     "d_load", "d_load_checkpoint", "d_save", "d_audit", "d_transition", "d_checkpoint",
     "s_transition", "s_checkpoint", "r_transition", "r_checkpoint",
     "r_load", "r_load_checkpoint", "r_fix_checkpoint", "r_expiry", "r_intent",
     "r_audit_intent", "r_executing", "r_audit_execution", "r_execute", "r_mutate",
     "r_save_receipt", "r_verifying", "r_audit_receipt", "r_verify",
     "r_save_verification", "r_success", "r_success_checkpoint", "r_audit_end", "r_end"}

TypeOK ==
    /\ LocalTypeOK
    /\ wpc \in [Workers -> WorkerPc]
    /\ wrun \in [Workers -> Runs \cup {Nobody}]
    /\ wcur \in [Workers -> Run]
    /\ wchk \in [Workers -> Checkpoint]
    /\ wto \in [Workers -> WorkflowState]
    /\ winp \in [Workers -> [session : Sessions \cup {Nobody}, decision : Decision,
                             request : 0..MaxRequests]]

\* The resource is changed at most once, whoever resumes which run how often and
\* wherever a process dies; and only for a run whose stored decision approves.
MutatedOnceAndApproved ==
    /\ mutations <= 1
    /\ \A r \in receipts : checkpoint[r].decision = "APPROVED" /\ checkpoint[r].intent

\* A run that counts as a success owns the receipt, the change is in the
\* inventory and the read-back is stored with it.
SuccessIsBacked ==
    \A r \in Runs : run[r].state = "SUCCESS_WITH_EVIDENCE" =>
        /\ checkpoint[r].verified
        /\ r \in receipts
        /\ resource = Applied(checkpoint[r].evidence)

\* Every checkpoint on disk satisfies the rules it would be validated against
\* when it is loaded again: no sequence of saves makes the file unreadable.
StoredCheckpointIsValid ==
    \A r \in Runs : checkpoint[r].version > 0 => ValidCheckpoint(r, checkpoint[r])

\* A run that was shown to a human has the evidence and the proposal it shows.
AwaitingIsBacked ==
    \A r \in Runs : run[r].state \in {"AWAITING_APPROVAL", "APPROVED", "DENIED_BY_HUMAN"} =>
        checkpoint[r].proposal /\ checkpoint[r].evidence # "none"

\* A stored decision, and the challenge and the session it answers, never change.
DecisionIsFinal ==
    [][\A r \in Runs : checkpoint[r].decision # "none" =>
         /\ checkpoint'[r].decision = checkpoint[r].decision
         /\ checkpoint'[r].request = checkpoint[r].request
         /\ checkpoint'[r].session = checkpoint[r].session]_vars

\* What a checkpoint has proved stays proved: intent, receipt and verification
\* are never dropped by a save from an older copy.
ProofIsKept ==
    [][\A r \in Runs :
         /\ checkpoint[r].intent => checkpoint'[r].intent
         /\ checkpoint[r].receipt # Nobody => checkpoint'[r].receipt = checkpoint[r].receipt
         /\ checkpoint[r].verified => checkpoint'[r].verified]_vars

\* A decision is recorded only while its challenge is open and only by the
\* session the challenge was issued to.
DecisionAnswersChallenge ==
    [][\A r \in Runs : checkpoint[r].decision = "none" /\ checkpoint'[r].decision # "none" =>
         \E w \in Workers : /\ wrun[w] = r
                            /\ winp[w].request = checkpoint[r].request
                            /\ winp[w].session = checkpoint[r].session
                            /\ winp[w].decision = checkpoint'[r].decision]_vars

\* An approved run does not stay in the middle of its execution: while somebody
\* keeps resuming it, it is carried through or its failure is stored.
ApprovedRunSettles ==
    \A r \in Runs : run[r].state \in {"APPROVED", "EXECUTING", "VERIFYING"}
                       ~> run[r].state \notin {"APPROVED", "EXECUTING", "VERIFYING"}

\* Until a proposal expires no call asks for a transition the table forbids,
\* whichever file operations fail.  (Afterwards one does: resume() sends a run past
\* its proposal's expiry to RECOVERY_REQUIRED whatever its stored state is,
\* RECOVERY_REQUIRED itself and DEPENDENCY_UNAVAILABLE included.)
NoTransitionError == expired = {} => \A w \in Workers : wpc[w] # "raised"

\* Every stored run is sound: its checkpoint can be loaded again, what a human is
\* shown or told is backed by it, and no call asks for a forbidden transition.
StoredRunsAreSound ==
    /\ TypeOK
    /\ SuccessIsBacked /\ AwaitingIsBacked /\ StoredCheckpointIsValid
    /\ NoTransitionError

\* A decision answers the open challenge, and neither it nor what was proved
\* after it is ever lost to a save from an older copy.
DecisionIsKept == DecisionAnswersChallenge /\ DecisionIsFinal /\ ProofIsKept
=============================================================================
