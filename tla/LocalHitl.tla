------------------------------ MODULE LocalHitl ------------------------------
(***************************************************************************)
(* LocalHitlFlow: request_approval, decide and resume.  Challenge,         *)
(* decision, intent, receipt and verification all live in the versioned    *)
(* checkpoint; the run's state follows it.                                 *)
(***************************************************************************)
EXTENDS LocalFirst

CONSTANT MayExpire   \* TRUE: challenges and proposals can pass their expiry

ASSUME ExpiryAssumption == MayExpire \in BOOLEAN

\* Where an approved decision may have led meanwhile.
APPROVED_DECISION_DOWNSTREAM_STATES ==
    {"EXECUTING", "VERIFYING", "SUCCESS_WITH_EVIDENCE", "DENIED_BY_POLICY",
     "MODEL_OUTPUT_INVALID", "AMBIGUOUS_RESULT", "DEPENDENCY_UNAVAILABLE",
     "BUDGET_EXHAUSTED", "EXECUTION_FAILED", "VERIFICATION_FAILED", "RECOVERY_REQUIRED"}

Expired(w) == wrun[w] \in expired

-----------------------------------------------------------------------------
(* _load: the run, then the checkpoint; something may happen in between. *)

LoadRun(w) ==
    /\ wpc[w] \in {"q_load", "d_load", "r_load"}
    /\ \E res \in Result :
         /\ ReadTruth(res)
         /\ IF res = "ok"
            THEN Hold(w, CASE wpc[w] = "q_load" -> "q_load_checkpoint"
                           [] wpc[w] = "d_load" -> "d_load_checkpoint"
                           [] OTHER             -> "r_load_checkpoint",
                      run[wrun[w]], wchk[w])
            ELSE Forget(w)

\* Read the checkpoint; without run, checkpoint or proposal the call ends.
Loaded(w, res) == res = "ok" /\ wcur[w] # NoRun /\ checkpoint[wrun[w]].proposal

-----------------------------------------------------------------------------
(* _apply_decision_state, shared by decide and resume *)

Target(chk) == IF chk.decision = "APPROVED" THEN "APPROVED" ELSE "DENIED_BY_HUMAN"

\* Its control points, by what the caller goes on with: decide audits, resume
\* goes on, and a call that only settles a stored decision returns.
TransitionAt == [decided |-> "d_transition", resumed |-> "r_transition", settled |-> "s_transition"]
CheckpointAt == [decided |-> "d_checkpoint", resumed |-> "r_checkpoint", settled |-> "s_checkpoint"]
AfterApply == [decided |-> "d_audit", resumed |-> "r_expiry", settled |-> "idle"]

Downstream(state, chk) ==
    chk.decision = "APPROVED" /\ state \in APPROVED_DECISION_DOWNSTREAM_STATES

EndOr(w, next, cur, chk) == IF next = "idle" THEN Forget(w) ELSE Hold(w, next, cur, chk)

\* Enter it with the run and the checkpoint held.
Apply(w, kind, cur, chk) ==
    CASE cur.state = Target(chk) ->
           IF chk.safe = Target(chk) THEN EndOr(w, AfterApply[kind], cur, chk)
           ELSE Hold(w, CheckpointAt[kind], cur, chk)
      [] Downstream(cur.state, chk) -> EndOr(w, AfterApply[kind], cur, chk)
      [] cur.state = "AWAITING_APPROVAL" -> Hold(w, TransitionAt[kind], cur, chk)
      [] OTHER -> Forget(w)

ApplyTransition(w) ==
    \E kind \in DOMAIN AfterApply :
      /\ wpc[w] = TransitionAt[kind]
      /\ \E res \in Result :
           /\ transition_run(wrun[w], wcur[w], Target(wchk[w]), res)
           /\ CASE res = "ok" ->
                     IF wchk[w].safe = Target(wchk[w])
                     THEN EndOr(w, AfterApply[kind], Moved(w, Target(wchk[w])), wchk[w])
                     ELSE Hold(w, CheckpointAt[kind], Moved(w, Target(wchk[w])), wchk[w])
                [] res = "illegal" -> Keep(w, "raised")
                [] OTHER           -> Forget(w)

\* Mutant: the expected version is the stored one, not the one this copy was built from.
ApplyCheckpointLatest(w) ==
    \E kind \in DOMAIN AfterApply :
      /\ wpc[w] = CheckpointAt[kind]
      /\ \E res \in Result :
           LET new == [wchk[w] EXCEPT !.safe = Target(wchk[w])] IN
           /\ save_checkpoint(wrun[w], checkpoint[wrun[w]], new, res)
           /\ IF res = "ok" THEN EndOr(w, AfterApply[kind], wcur[w], checkpoint'[wrun[w]])
              ELSE Forget(w)

ApplyCheckpoint(w) ==
    \E kind \in DOMAIN AfterApply :
      /\ wpc[w] = CheckpointAt[kind]
      /\ \E res \in Result :
           LET new == [wchk[w] EXCEPT !.safe = Target(wchk[w])] IN
           /\ save_checkpoint(wrun[w], wchk[w], new, res)
           /\ IF res = "ok"
              THEN EndOr(w, AfterApply[kind], wcur[w], [new EXCEPT !.version = @ + 1])
              ELSE Forget(w)

\* _audit_policy_denial: the audit is attempted, the call ends anyway.
AuditDenial(w) ==
    /\ wpc[w] = "audit_denial"
    /\ \E res \in Result : append_audit_event(res)
    /\ Forget(w)

-----------------------------------------------------------------------------
(* request_approval *)

RequestApproval(w, r, s) ==
    Begin(w, r, "q_load", [session |-> s, decision |-> "none", request |-> 0])

RequestLoaded(w) ==
    LET chk == checkpoint[wrun[w]] IN
    /\ wpc[w] = "q_load_checkpoint"
    /\ \E res \in Result :
         /\ ReadTruth(res)
         /\ IF ~Loaded(w, res) THEN Forget(w) ELSE
             IF /\ wcur[w].state = "AWAITING_APPROVAL"
                /\ chk.decision = "none"
                /\ ~Expired(w)
                /\ chk.request < MaxRequests    \* bound
             THEN Hold(w, "q_save", wcur[w], chk)
             ELSE Forget(w)

\* A fresh challenge replaces the last one and clears all that follows it.
SaveRequest(w) ==
    /\ wpc[w] = "q_save"
    /\ SaveHeld(w, [wchk[w] EXCEPT !.safe = "AWAITING_APPROVAL", !.request = @ + 1,
                                   !.session = winp[w].session, !.decision = "none",
                                   !.intent = FALSE, !.receipt = Nobody, !.verified = FALSE],
                "q_audit", Forget(w))

AuditRequest(w) ==
    /\ wpc[w] = "q_audit"
    /\ \E res \in Result : append_audit_event(res)
    /\ Forget(w)

-----------------------------------------------------------------------------
(* decide *)

\* The caller answers some challenge it was given.
Decide(w, r, s, decision, request) ==
    Begin(w, r, "d_load", [session |-> s, decision |-> decision, request |-> request])

\* _decision_matches_request: challenge (with its nonce) and session.
decision_matches_request(input, chk) ==
    input.request = chk.request /\ input.session = chk.session

DecideLoaded(w) ==
    LET chk == checkpoint[wrun[w]] IN
    /\ wpc[w] = "d_load_checkpoint"
    /\ \E res \in Result :
         /\ ReadTruth(res)
         /\ IF ~Loaded(w, res) \/ chk.request = 0 THEN Forget(w) ELSE
             IF ~decision_matches_request(winp[w], chk) THEN Keep(w, "audit_denial") ELSE
              CASE chk.decision # "none" ->
                     IF chk.decision = winp[w].decision THEN Apply(w, "settled", wcur[w], chk)
                     ELSE Forget(w)
                [] OTHER ->
                     IF <<wrun[w], chk.request>> \in lapsed \/ Expired(w)
                     THEN Keep(w, "audit_denial")
                     ELSE Hold(w, "d_save", wcur[w], chk)

\* The decision is stored before anything acts on it.
SaveDecision(w) ==
    /\ wpc[w] = "d_save"
    /\ \E res \in Result :
         LET new == [wchk[w] EXCEPT !.safe = "AWAITING_APPROVAL", !.decision = winp[w].decision]
         IN  /\ save_checkpoint(wrun[w], wchk[w], new, res)
             /\ IF res = "ok" THEN Apply(w, "decided", wcur[w], [new EXCEPT !.version = @ + 1])
                ELSE Forget(w)

AuditDecision(w) ==
    /\ wpc[w] = "d_audit"
    /\ \E res \in Result : append_audit_event(res)
    /\ Forget(w)

-----------------------------------------------------------------------------
(* resume *)

Resume(w, r, s) ==
    Begin(w, r, "r_load", [session |-> s, decision |-> "none", request |-> 0])

ResumeLoaded(w) ==
    LET chk == checkpoint[wrun[w]] IN
    /\ wpc[w] = "r_load_checkpoint"
    /\ \E res \in Result :
         /\ ReadTruth(res)
         /\ IF ~Loaded(w, res) \/ chk.decision = "none" THEN Forget(w) ELSE
             IF chk.session # winp[w].session THEN Keep(w, "audit_denial") ELSE
              IF chk.decision = "DENIED" THEN Apply(w, "settled", wcur[w], chk) ELSE
               CASE wcur[w].state = "SUCCESS_WITH_EVIDENCE" ->
                      IF chk.safe = "SUCCESS_WITH_EVIDENCE" THEN Forget(w)
                      ELSE Hold(w, "r_fix_checkpoint", wcur[w], chk)
                 [] wcur[w].state = "AWAITING_APPROVAL" -> Apply(w, "resumed", wcur[w], chk)
                 [] OTHER -> Hold(w, "r_expiry", wcur[w], chk)

FixCheckpoint(w) ==
    /\ wpc[w] = "r_fix_checkpoint"
    /\ SaveHeld(w, [wchk[w] EXCEPT !.safe = "SUCCESS_WITH_EVIDENCE"], "r_end", Forget(w))

\* Mutant: an execution somebody began is left to whoever began it.
CheckExpiryApprovedOnly(w) ==
    /\ wpc[w] = "r_expiry"
    /\ UNCHANGED local
    /\ IF Expired(w) THEN FailTo(w, "RECOVERY_REQUIRED") ELSE
        CASE wcur[w].state = "APPROVED" ->
               Keep(w, IF wchk[w].intent THEN "r_executing" ELSE "r_intent")
          [] wcur[w].state = "VERIFYING" -> Keep(w, "r_verify")
          [] OTHER                       -> Forget(w)

\* Expiry sends the run to RECOVERY_REQUIRED whatever state it is in; otherwise
\* the call goes on where the run stands.
CheckExpiry(w) ==
    /\ wpc[w] = "r_expiry"
    /\ UNCHANGED local
    /\ IF Expired(w) THEN FailTo(w, "RECOVERY_REQUIRED") ELSE
        CASE wcur[w].state = "APPROVED" ->
               Keep(w, IF wchk[w].intent THEN "r_executing" ELSE "r_intent")
          [] wcur[w].state = "EXECUTING" -> Keep(w, "r_execute")
          [] wcur[w].state = "VERIFYING" -> Keep(w, "r_verify")
          [] OTHER                       -> Forget(w)

\* An intent registered after the expiry fails the checkpoint's own validation.
SaveIntent(w) ==
    /\ wpc[w] = "r_intent"
    /\ \/ Expired(w) /\ UNCHANGED local /\ Forget(w)
       \/ /\ ~Expired(w)
          /\ SaveHeld(w, [wchk[w] EXCEPT !.safe = "APPROVED", !.intent = TRUE],
                      "r_audit_intent", Forget(w))

AuditIntent(w) ==
    /\ wpc[w] = "r_audit_intent"
    /\ \E res \in Result :
         /\ append_audit_event(res)
         /\ IF res = "ok" THEN Keep(w, "r_executing") ELSE Forget(w)

ToExecuting(w) ==
    /\ wpc[w] = "r_executing"
    /\ \E res \in Result :
         /\ transition_run(wrun[w], wcur[w], "EXECUTING", res)
         /\ IF res = "ok" THEN Hold(w, "r_audit_execution", Moved(w, "EXECUTING"), wchk[w])
            ELSE Forget(w)

AuditExecution(w) ==
    /\ wpc[w] = "r_audit_execution"
    /\ \E res \in Result :
         /\ append_audit_event(res)
         /\ IF res = "ok" THEN Keep(w, "r_execute") ELSE Forget(w)

\* A receipt already in the checkpoint needs no executor; otherwise the
\* inventory is asked for one under the proposal's key.
FindReceipt(w) ==
    /\ wpc[w] = "r_execute"
    /\ \/ ~wchk[w].intent /\ UNCHANGED local /\ FailTo(w, "RECOVERY_REQUIRED")
       \/ wchk[w].intent /\ wchk[w].receipt # Nobody /\ UNCHANGED local /\ Keep(w, "r_verifying")
       \/ /\ wchk[w].intent /\ wchk[w].receipt = Nobody
          /\ \E res \in Result :
               /\ ReadInventory(res)
               /\ IF res # "ok" THEN FailTo(w, "DEPENDENCY_UNAVAILABLE") ELSE
                   IF get_receipt = Nobody THEN Keep(w, "r_mutate") ELSE
                    Hold(w, "r_save_receipt", wcur[w], [wchk[w] EXCEPT !.receipt = get_receipt])

ExecuteMutation(w) ==
    /\ wpc[w] = "r_mutate"
    /\ \E res \in Result \cup {"policy"} :
         /\ execute(wrun[w], wchk[w].evidence, res)
         /\ CASE res = "ok"       -> Hold(w, "r_save_receipt", wcur[w],
                                          [wchk[w] EXCEPT !.receipt = wrun[w]])
              [] res = "conflict" -> FailTo(w, "RECOVERY_REQUIRED")
              [] res = "policy"   -> FailTo(w, "DENIED_BY_POLICY")
              [] OTHER            -> FailTo(w, "DEPENDENCY_UNAVAILABLE")

\* A receipt another run owns is refused by the checkpoint's own validation.
SaveReceipt(w) ==
    /\ wpc[w] = "r_save_receipt"
    /\ LET new == [wchk[w] EXCEPT !.safe = "APPROVED"] IN
       \/ ~ValidCheckpoint(wrun[w], new) /\ UNCHANGED local /\ Forget(w)
       \/ ValidCheckpoint(wrun[w], new) /\ SaveHeld(w, new, "r_verifying", Forget(w))

ToVerifying(w) ==
    /\ wpc[w] = "r_verifying"
    /\ \E res \in Result :
         /\ transition_run(wrun[w], wcur[w], "VERIFYING", res)
         /\ IF res = "ok" THEN Hold(w, "r_audit_receipt", Moved(w, "VERIFYING"), wchk[w])
            ELSE Forget(w)

AuditReceipt(w) ==
    /\ wpc[w] = "r_audit_receipt"
    /\ \E res \in Result :
         /\ append_audit_event(res)
         /\ IF res = "ok" THEN Keep(w, "r_verify") ELSE Forget(w)

Verify(w) ==
    /\ wpc[w] = "r_verify"
    /\ \/ wchk[w].receipt = Nobody /\ UNCHANGED local /\ FailTo(w, "VERIFICATION_FAILED")
       \/ wchk[w].receipt # Nobody /\ wchk[w].verified /\ UNCHANGED local /\ Keep(w, "r_success")
       \/ /\ wchk[w].receipt # Nobody /\ ~wchk[w].verified
          /\ \E res \in Result :
               /\ ReadInventory(res)
               /\ IF res # "ok" THEN FailTo(w, "DEPENDENCY_UNAVAILABLE") ELSE
                   IF ReadBack(wrun[w], wchk[w].evidence) THEN Keep(w, "r_save_verification")
                   ELSE FailTo(w, "VERIFICATION_FAILED")

SaveVerification(w) ==
    /\ wpc[w] = "r_save_verification"
    /\ SaveHeld(w, [wchk[w] EXCEPT !.safe = "APPROVED", !.verified = TRUE],
                "r_success", Forget(w))

ToSuccess(w) ==
    /\ wpc[w] = "r_success"
    /\ \E res \in Result :
         /\ transition_run(wrun[w], wcur[w], "SUCCESS_WITH_EVIDENCE", res)
         /\ IF res = "ok"
            THEN Hold(w, "r_success_checkpoint", Moved(w, "SUCCESS_WITH_EVIDENCE"), wchk[w])
            ELSE Forget(w)

SuccessCheckpoint(w) ==
    /\ wpc[w] = "r_success_checkpoint"
    /\ SaveHeld(w, [wchk[w] EXCEPT !.safe = "SUCCESS_WITH_EVIDENCE"], "r_audit_end", Forget(w))

AuditVerification(w) ==
    /\ wpc[w] = "r_audit_end"
    /\ \E res \in Result :
         /\ append_audit_event(res)
         /\ IF res = "ok" THEN Keep(w, "r_end") ELSE Forget(w)

\* _completed_from_checkpoint only builds the answer.
Complete(w) ==
    /\ wpc[w] = "r_end"
    /\ UNCHANGED local
    /\ Forget(w)

\* The HTTP application answers an exception nobody caught with a 500.
AnswerInternalError(w) ==
    /\ wpc[w] = "raised"
    /\ UNCHANGED local
    /\ Forget(w)

-----------------------------------------------------------------------------
HitlStep(w) ==
    \/ LoadRun(w) \/ ApplyTransition(w) \/ ApplyCheckpoint(w) \/ AuditDenial(w)
    \/ RequestLoaded(w) \/ SaveRequest(w) \/ AuditRequest(w)
    \/ DecideLoaded(w) \/ SaveDecision(w) \/ AuditDecision(w)
    \/ ResumeLoaded(w) \/ FixCheckpoint(w) \/ CheckExpiry(w) \/ SaveIntent(w)
    \/ AuditIntent(w) \/ ToExecuting(w) \/ AuditExecution(w) \/ FindReceipt(w)
    \/ ExecuteMutation(w) \/ SaveReceipt(w) \/ ToVerifying(w) \/ AuditReceipt(w)
    \/ Verify(w) \/ SaveVerification(w) \/ ToSuccess(w) \/ SuccessCheckpoint(w)
    \/ AuditVerification(w) \/ Complete(w) \/ AnswerInternalError(w)

\* Time passes: a challenge lapses, or the proposal and every challenge with it.
Lapse(r) ==
    /\ MayExpire
    /\ checkpoint[r].request > 0
    /\ <<r, checkpoint[r].request>> \notin lapsed
    /\ lapsed' = lapsed \cup {<<r, checkpoint[r].request>>}
    /\ UNCHANGED <<run, checkpoint, inventory, expired, faults, workers>>

Expire(r) ==
    /\ MayExpire
    /\ checkpoint[r].proposal
    /\ r \notin expired
    /\ expired' = expired \cup {r}
    /\ UNCHANGED <<run, checkpoint, inventory, lapsed, faults, workers>>
=============================================================================
