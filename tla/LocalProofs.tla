----------------------------- MODULE LocalProofs -----------------------------
(***************************************************************************)
(* Theorems about LocalWorkflow, for any number of workers, runs and       *)
(* sessions, any number of failing files, and whether or not time passes;  *)
(* and about LocalServer, for any number of server processes, clients and  *)
(* handler slots.                                                          *)
(***************************************************************************)
EXTENDS MCLocalService, FiniteSetTheorems, TLAPS

(***************************************************************************)
(* The invariant                                                           *)
(***************************************************************************)

\* How far along a run is; every step moves it deeper.
Depth(state) ==
    CASE state = "RECEIVED"             -> 1
      [] state = "INVESTIGATING"        -> 2
      [] state = "EVIDENCE_READY"       -> 3
      [] state = "REMEDIATION_PROPOSED" -> 4
      [] state = "AWAITING_APPROVAL"    -> 5
      [] state = "APPROVED"             -> 6
      [] state = "EXECUTING"            -> 7
      [] state = "VERIFYING"            -> 8
      [] OTHER                          -> 9

Placed(x) == x.version <= Depth(x.state)

\* What every later version of a checkpoint keeps of an earlier one.
Extends(new, old) ==
    /\ new.version >= old.version
    /\ new.version = old.version => new = old
    /\ old.proposal => new.proposal /\ new.evidence = old.evidence
    /\ old.decision # "none" =>
         new.decision = old.decision /\ new.request = old.request /\ new.session = old.session
    /\ old.intent => new.intent
    /\ old.receipt # Nobody => new.receipt = old.receipt
    /\ old.verified => new.verified

\* The two files agree: what a run's state and its checkpoint claim is there.
Backed(r) ==
    /\ Placed(run[r])
    /\ checkpoint[r].version = 0 => checkpoint[r] = NoCheckpoint
    /\ ValidCheckpoint(r, checkpoint[r])
    /\ checkpoint[r].verified => ReadBack(r, checkpoint[r].evidence)
    /\ r \in receipts => checkpoint[r].intent
    /\ run[r].state \in {"AWAITING_APPROVAL", "APPROVED", "DENIED_BY_HUMAN"} =>
         checkpoint[r].proposal
    /\ run[r].state = "SUCCESS_WITH_EVIDENCE" => checkpoint[r].verified

\* One run at most has changed the resource, and then once.
OneReceipt ==
    \/ receipts = {} /\ mutations = 0
    \/ mutations = 1 /\ \E r \in Runs : receipts = {r}

\* The stored version a copy was built from, by control point.  At those of the
\* first line nothing has been stored, or the copy is not used any more.
Known(pc, chk) ==
    CASE pc \in {"f_audit_query", "f_evidence_ready", "f_checkpoint_1", "fail", "raised"}
                                -> NoCheckpoint
      [] pc = "r_save_receipt"  -> [chk EXCEPT !.receipt = Nobody]
      [] OTHER                  -> chk

\* The state each control point believes the run to be in.
InState(pc, state) ==
    /\ pc \in {"f_audit_created", "f_investigating"} => state = "RECEIVED"
    /\ pc \in {"f_query", "f_audit_query", "f_evidence_ready"} => state = "INVESTIGATING"
    /\ pc \in {"f_checkpoint_1", "f_plan", "f_audit_rejected", "f_no_action",
               "f_recommend", "f_proposed"} => state = "EVIDENCE_READY"
    /\ pc = "f_terminal_checkpoint" => state \in {"NO_ACTION_REQUIRED", "RECOMMENDATION_ONLY"}
    /\ pc \in {"f_checkpoint_2", "f_awaiting"} => state = "REMEDIATION_PROPOSED"
    /\ pc \in {"q_save", "d_transition", "s_transition", "r_transition"} =>
         state = "AWAITING_APPROVAL"
    /\ pc \in {"r_intent", "r_audit_intent", "r_executing"} => state = "APPROVED"
    /\ pc \in {"r_audit_execution", "r_execute", "r_mutate", "r_save_receipt",
               "r_verifying"} => state = "EXECUTING"
    /\ pc \in {"r_audit_receipt", "r_verify", "r_save_verification", "r_success"} =>
         state = "VERIFYING"

\* What each control point has made sure of in its copy of the checkpoint.
Checked(pc, chk, inp) ==
    /\ pc \in {"f_audit_query", "f_evidence_ready", "f_checkpoint_1"} =>
         chk.evidence # "none" /\ chk = [NoCheckpoint EXCEPT !.evidence = chk.evidence]
    /\ pc \in {"f_plan", "f_no_action", "f_recommend", "f_terminal_checkpoint",
               "f_proposed", "f_checkpoint_2"} => chk.evidence # "none" /\ ~chk.proposal
    /\ pc = "f_awaiting" => chk.proposal
    /\ pc = "q_save" => chk.proposal /\ chk.decision = "none" /\ chk.request < MaxRequests
    /\ pc = "d_save" =>
         /\ chk.decision = "none" /\ chk.request > 0
         /\ decision_matches_request(inp, chk)
    /\ pc \in {"d_load", "d_load_checkpoint", "d_save"} => inp.decision # "none"
    /\ pc \in {"d_transition", "s_transition", "r_transition",
               "d_checkpoint", "s_checkpoint", "r_checkpoint"} => chk.decision # "none"
    /\ pc \in {"r_transition", "r_checkpoint", "r_expiry", "r_intent"} =>
         chk.decision = "APPROVED"
    /\ pc \in {"r_mutate", "r_save_receipt"} => chk.intent
    /\ pc = "r_mutate" => chk.receipt = Nobody
    /\ pc \in {"r_save_receipt", "r_save_verification"} => chk.receipt # Nobody

\* A failure about to be stored is one the table allows from where the run is
\* believed to be, unless a proposal expired; and it never leads back.
Failing(pc, state, to, late) ==
    /\ pc \in {"fail", "f_audit_rejected"} =>
         /\ to \in {"MODEL_OUTPUT_INVALID", "DENIED_BY_POLICY", "AMBIGUOUS_RESULT",
                    "DEPENDENCY_UNAVAILABLE", "VERIFICATION_FAILED", "RECOVERY_REQUIRED"}
         /\ state = "RECOVERY_REQUIRED" => to = "RECOVERY_REQUIRED"
         /\ late = {} => to \in ALLOWED_WORKFLOW_TRANSITIONS[state]
    /\ pc = "raised" => late # {}

\* A read-back about to be stored is still true.
SeenApplied(w) == wpc[w] = "r_save_verification" => ReadBack(wrun[w], wchk[w].evidence)

Holds(w) ==
    /\ wrun[w] \in Runs <=> wpc[w] # "idle"
    /\ wpc[w] = "idle" => wchk[w] = NoCheckpoint
    /\ wpc[w] # "idle" => Extends(checkpoint[wrun[w]], Known(wpc[w], wchk[w]))
    /\ Placed(wcur[w])
    /\ InState(wpc[w], wcur[w].state)
    /\ Checked(wpc[w], wchk[w], winp[w])
    /\ Failing(wpc[w], wcur[w].state, wto[w], expired)
    /\ SeenApplied(w)

IInv ==
    /\ TypeOK
    /\ OneReceipt
    /\ \A r \in Runs : Backed(r)
    /\ \A w \in Workers : Holds(w)

-----------------------------------------------------------------------------
(***************************************************************************)
(* Depth and versions                                                      *)
(***************************************************************************)

LEMMA DepthType == ASSUME NEW s PROVE Depth(s) \in 1..9
  BY DEF Depth

\* The table leads deeper, except back from RECOVERY_REQUIRED.
LEMMA Deeper ==
    ASSUME NEW s \in WorkflowState, s # "RECOVERY_REQUIRED",
           NEW t \in ALLOWED_WORKFLOW_TRANSITIONS[s]
    PROVE  t \in WorkflowState /\ Depth(t) > Depth(s)
  BY DEF WorkflowState, TERMINAL_WORKFLOW_STATES, COMMON_FAILURES,
         ALLOWED_WORKFLOW_TRANSITIONS, Depth

LEMMA ExtendsItself ==
    ASSUME NEW c \in Checkpoint PROVE Extends(c, c)
  BY DEF Extends, Checkpoint

LEMMA ExtendsFurther ==
    ASSUME NEW a \in Checkpoint, NEW b \in Checkpoint, NEW c \in Checkpoint,
           Extends(a, b), Extends(b, c)
    PROVE  Extends(a, c)
  BY DEF Extends, Checkpoint

LEMMA NoCheckpointType == NoCheckpoint \in Checkpoint
  BY LocalAssumption DEF NoCheckpoint, Checkpoint, Decision, WorkflowState

LEMMA CountedUp ==
    ASSUME NEW c \in Checkpoint, NEW v \in Nat
    PROVE  [c EXCEPT !.version = v + 1] \in Checkpoint
  BY DEF Checkpoint

LEMMA NoRunType == NoRun \in Run /\ Received \in Run /\ Placed(NoRun) /\ Placed(Received)
  BY DEF NoRun, Received, Run, Placed, Depth, WorkflowState

LEMMA KnownType ==
    ASSUME NEW pc, NEW chk \in Checkpoint PROVE Known(pc, chk) \in Checkpoint
  BY NoCheckpointType DEF Known, Checkpoint

-----------------------------------------------------------------------------
(***************************************************************************)
(* What the operations on the two files leave behind                       *)
(***************************************************************************)

\* The files in themselves.
Files == LocalTypeOK /\ OneReceipt /\ \A r \in Runs : Backed(r)

\* What is stored only grows, and a changed resource stays as it is.
Grows ==
    /\ \A r \in Runs : Extends(checkpoint'[r], checkpoint[r])
    /\ receipts # {} => receipts' = receipts /\ resource' = resource
    /\ expired \subseteq expired'

\* An operation that leaves run, checkpoint and inventory alone.
LEMMA FilesUntouched ==
    ASSUME Files, UNCHANGED <<run, checkpoint, inventory, time>>,
           UNCHANGED faults \/ Fault
    PROVE  Files' /\ Grows
  <1>1. LocalTypeOK'
    BY LocalAssumption DEF Files, LocalTypeOK, Fault, inventory, time
  <1>2. OneReceipt'
    BY DEF Files, OneReceipt, inventory
  <1>3. \A r \in Runs : Backed(r)'
    BY DEF Files, Backed, inventory, ReadBack
  <1>4. Grows
    BY ExtendsItself DEF Files, LocalTypeOK, Grows, inventory, time
  <1> QED
    BY <1>1, <1>2, <1>3, <1>4 DEF Files

LEMMA ReadTruthKeeps ==
    ASSUME Files, NEW res, ReadTruth(res) PROVE Files' /\ Grows
  BY FilesUntouched DEF ReadTruth

LEMMA AuditKeeps ==
    ASSUME Files, NEW res, append_audit_event(res) PROVE Files' /\ Grows
  BY FilesUntouched DEF append_audit_event

LEMMA ReadInventoryKeeps ==
    ASSUME Files, NEW res, ReadInventory(res) PROVE Files' /\ Grows
  BY FilesUntouched DEF ReadInventory

\* A run that moves.
LEMMA RunMoved ==
    ASSUME Files, NEW r \in Runs, NEW x \in Run, run' = [run EXCEPT ![r] = x],
           Placed(x),
           x.state \in {"AWAITING_APPROVAL", "APPROVED", "DENIED_BY_HUMAN"} =>
             checkpoint[r].proposal,
           x.state = "SUCCESS_WITH_EVIDENCE" => checkpoint[r].verified,
           UNCHANGED <<checkpoint, inventory, time>>, UNCHANGED faults \/ Fault
    PROVE  Files' /\ Grows
  <1>1. LocalTypeOK'
    BY LocalAssumption DEF Files, LocalTypeOK, Fault, inventory, time
  <1>2. OneReceipt'
    BY DEF Files, OneReceipt, inventory
  <1>3. ASSUME NEW q \in Runs PROVE Backed(q)'
    BY DEF Files, LocalTypeOK, Backed, inventory, ReadBack
  <1>4. Grows
    BY ExtendsItself DEF Files, LocalTypeOK, Grows, inventory, time
  <1> QED
    BY <1>1, <1>2, <1>3, <1>4 DEF Files

LEMMA CreateKeeps ==
    ASSUME Files, NEW r \in Runs, NEW res, create_run(r, res) PROVE Files' /\ Grows
  <1>1. CASE run' = [run EXCEPT ![r] = Received]
    BY <1>1, RunMoved, NoRunType DEF create_run, Mutate, Received
  <1>2. CASE UNCHANGED run
    BY <1>2, FilesUntouched DEF create_run, Mutate
  <1> QED
    BY <1>1, <1>2 DEF create_run, Mutate

\* A transition from a place the table never leads back from.
LEMMA TransitionKeeps ==
    ASSUME Files, NEW r \in Runs, NEW known \in Run, NEW to \in WorkflowState, NEW res,
           Placed(known), known.state # "RECOVERY_REQUIRED",
           to = "AWAITING_APPROVAL" => checkpoint[r].proposal,
           transition_run(r, known, to, res)
    PROVE  /\ Files' /\ Grows
           /\ res = "ok" => /\ [state |-> to, version |-> known.version + 1] \in Run
                            /\ Placed([state |-> to, version |-> known.version + 1])
  <1> DEFINE x == [state |-> to, version |-> known.version + 1]
  <1>1. CASE run' = [run EXCEPT ![r] = x] /\ LocalProof(r, to)
                /\ to \in ALLOWED_WORKFLOW_TRANSITIONS[known.state]
    <2>1. Depth(to) > Depth(known.state)
      BY <1>1, Deeper DEF Run
    <2>2. x \in Run /\ Placed(x)
      BY <2>1, DepthType DEF Run, Placed
    <2>3. UNCHANGED <<checkpoint, inventory, time>> /\ (UNCHANGED faults \/ Fault)
      BY DEF transition_run, Mutate
    <2>4. Files' /\ Grows
      BY <1>1, <2>2, <2>3, RunMoved DEF LocalProof
    <2> QED
      BY <2>2, <2>4
  <1>2. CASE UNCHANGED run /\ res # "ok"
    BY <1>2, FilesUntouched DEF transition_run, Mutate
  <1> QED
    BY <1>1, <1>2 DEF transition_run, Mutate

\* A checkpoint that is replaced by one that extends it.
LEMMA CheckpointReplaced ==
    ASSUME Files, NEW r \in Runs, NEW c \in Checkpoint,
           checkpoint' = [checkpoint EXCEPT ![r] = c],
           c.version > 0, Extends(c, checkpoint[r]), ValidCheckpoint(r, c),
           c.verified => ReadBack(r, c.evidence),
           UNCHANGED <<run, inventory, time>>, UNCHANGED faults \/ Fault
    PROVE  Files' /\ Grows
  <1>1. LocalTypeOK'
    BY LocalAssumption DEF Files, LocalTypeOK, Fault, inventory, time
  <1>2. OneReceipt'
    BY DEF Files, OneReceipt, inventory
  <1>3. ASSUME NEW q \in Runs PROVE Backed(q)'
    <2>1. CASE q = r
      BY <2>1 DEF Files, LocalTypeOK, Backed, inventory, ReadBack, Extends
    <2>2. CASE q # r
      BY <2>2 DEF Files, LocalTypeOK, Backed, inventory, ReadBack
    <2> QED
      BY <2>1, <2>2
  <1>4. Grows
    BY ExtendsItself DEF Files, LocalTypeOK, Grows, inventory, time
  <1> QED
    BY <1>1, <1>2, <1>3, <1>4 DEF Files

\* A save from a copy: it replaces the very version the copy was built from.
LEMMA SaveKeeps ==
    ASSUME Files, NEW r \in Runs, NEW known \in Checkpoint, NEW base \in Checkpoint,
           NEW new \in Checkpoint, NEW res,
           known.version = base.version, Extends(checkpoint[r], known),
           ValidCheckpoint(r, known) =>
             /\ Extends([new EXCEPT !.version = base.version + 1], known)
             /\ ValidCheckpoint(r, new),
           new.verified => known.verified \/ ReadBack(r, new.evidence),
           save_checkpoint(r, base, new, res)
    PROVE  /\ Files' /\ Grows
           /\ res = "ok" => /\ [new EXCEPT !.version = base.version + 1] \in Checkpoint
                            /\ checkpoint'[r] = [new EXCEPT !.version = base.version + 1]
  <1> DEFINE c == [new EXCEPT !.version = base.version + 1]
  <1>1. c \in Checkpoint /\ c.version > 0
    BY DEF Checkpoint
  <1>2. CASE checkpoint' = [checkpoint EXCEPT ![r] = c] /\ checkpoint[r].version = base.version
    <2>1. checkpoint[r] = known
      BY <1>2 DEF Extends
    <2>2. Extends(c, checkpoint[r]) /\ ValidCheckpoint(r, new)
      BY <2>1 DEF Files, Backed
    <2>3. ValidCheckpoint(r, c)
      BY <2>2 DEF ValidCheckpoint, Checkpoint
    <2>4. c.verified => ReadBack(r, c.evidence)
      <3>1. CASE known.verified
        <4>1. ReadBack(r, known.evidence) /\ known.proposal
          BY <2>1, <3>1 DEF Files, Backed, ValidCheckpoint
        <4> QED
          BY <4>1, <2>1, <2>2 DEF Extends
      <3>2. CASE ~known.verified
        BY <3>2 DEF Checkpoint
      <3> QED
        BY <3>1, <3>2
    <2>5. UNCHANGED <<run, inventory, time>> /\ (UNCHANGED faults \/ Fault)
      BY DEF save_checkpoint, Mutate
    <2>6. Files' /\ Grows
      BY <1>1, <1>2, <2>2, <2>3, <2>4, <2>5, CheckpointReplaced
    <2> QED
      BY <1>1, <1>2, <2>6 DEF Files, LocalTypeOK
  <1>3. CASE UNCHANGED checkpoint /\ res # "ok"
    BY <1>3, FilesUntouched DEF save_checkpoint, Mutate
  <1> QED
    BY <1>2, <1>3 DEF save_checkpoint, Mutate

\* The inventory: only the first execution of a run whose intent is stored changes it.
LEMMA ExecuteKeeps ==
    ASSUME Files, NEW r \in Runs, NEW evidence, NEW res, checkpoint[r].intent,
           execute(r, evidence, res)
    PROVE  Files' /\ Grows
  <1>1. CASE /\ receipts = {} /\ receipts' = receipts \cup {r}
             /\ resource' = Applied(evidence) /\ mutations' = mutations + 1
    <2>1. LocalTypeOK'
      BY <1>1, LocalAssumption
      DEF Files, LocalTypeOK, Fault, execute, Mutate, time, Applied, Resource
    <2>2. OneReceipt'
      BY <1>1 DEF Files, OneReceipt
    <2>3. ASSUME NEW q \in Runs PROVE Backed(q)'
      BY <1>1 DEF Files, Backed, execute, ReadBack
    <2>4. Grows
      BY <1>1, ExtendsItself DEF Files, LocalTypeOK, Grows, execute, time
    <2> QED
      BY <2>1, <2>2, <2>3, <2>4 DEF Files
  <1>2. CASE UNCHANGED inventory
    BY <1>2, FilesUntouched DEF execute, Mutate
  <1> QED
    BY <1>1, <1>2 DEF execute, Mutate

-----------------------------------------------------------------------------
(***************************************************************************)
(* What a worker's step leaves of the workers                              *)
(***************************************************************************)

WorkersTyped ==
    /\ wpc \in [Workers -> WorkerPc]
    /\ wrun \in [Workers -> Runs \cup {Nobody}]
    /\ wcur \in [Workers -> Run]
    /\ wchk \in [Workers -> Checkpoint]
    /\ wto \in [Workers -> WorkflowState]
    /\ winp \in [Workers -> [session : Sessions \cup {Nobody}, decision : Decision,
                             request : 0..MaxRequests]]

Elsewhere(w) ==
    \A v \in Workers \ {w} :
        /\ wpc'[v] = wpc[v] /\ wrun'[v] = wrun[v] /\ wcur'[v] = wcur[v]
        /\ wchk'[v] = wchk[v] /\ wto'[v] = wto[v] /\ winp'[v] = winp[v]

LEMMA HoldsElsewhere ==
    ASSUME IInv, Files', Grows, NEW v \in Workers,
           wpc'[v] = wpc[v], wrun'[v] = wrun[v], wcur'[v] = wcur[v],
           wchk'[v] = wchk[v], wto'[v] = wto[v], winp'[v] = winp[v]
    PROVE  Holds(v)'
  <1>0. Holds(v) /\ LocalTypeOK /\ LocalTypeOK' /\ wchk[v] \in Checkpoint
    BY DEF IInv, TypeOK, Files
  <1>1. wpc[v] # "idle" => Extends(checkpoint'[wrun[v]], Known(wpc[v], wchk[v]))
    <2> SUFFICES ASSUME wpc[v] # "idle"
                 PROVE  Extends(checkpoint'[wrun[v]], Known(wpc[v], wchk[v]))
      OBVIOUS
    <2>1. wrun[v] \in Runs /\ Extends(checkpoint[wrun[v]], Known(wpc[v], wchk[v]))
      BY <1>0 DEF Holds
    <2>2. checkpoint[wrun[v]] \in Checkpoint /\ checkpoint'[wrun[v]] \in Checkpoint
      BY <1>0, <2>1 DEF LocalTypeOK
    <2>3. Extends(checkpoint'[wrun[v]], checkpoint[wrun[v]])
      BY <2>1 DEF Grows
    <2> QED
      BY <1>0, <2>1, <2>2, <2>3, KnownType, ExtendsFurther
  <1>2. SeenApplied(v)'
    BY <1>0 DEF Holds, SeenApplied, ReadBack, Grows
  <1>3. Failing(wpc[v], wcur[v].state, wto[v], expired')
    BY <1>0 DEF Holds, Failing, Grows
  <1> QED
    BY <1>0, <1>1, <1>2, <1>3 DEF Holds, Placed

LEMMA StepDone ==
    ASSUME IInv, NEW w \in Workers, Files', Grows, WorkersTyped', Elsewhere(w), Holds(w)'
    PROVE  IInv' /\ Grows
  <1>1. ASSUME NEW v \in Workers PROVE Holds(v)'
    BY <1>1, HoldsElsewhere DEF Elsewhere
  <1>2. TypeOK'
    BY DEF Files, WorkersTyped, TypeOK
  <1> QED
    BY <1>1, <1>2 DEF IInv, Files

\* A worker that goes on.
LEMMA HoldStep ==
    ASSUME IInv, NEW w \in Workers, wpc[w] # "idle", Files', Grows,
           NEW pc \in WorkerPc, pc # "idle", NEW cur \in Run, NEW chk \in Checkpoint,
           Hold(w, pc, cur, chk), Placed(cur), InState(pc, cur.state),
           Checked(pc, chk, winp[w]), Failing(pc, cur.state, wto[w], expired'),
           \/ Extends(checkpoint[wrun[w]], Known(pc, chk))
           \/ Extends(checkpoint'[wrun[w]], Known(pc, chk)),
           pc = "r_save_verification" =>
             wrun[w] \in receipts' /\ resource' = Applied(chk.evidence)
    PROVE  IInv' /\ Grows
  <1>1. WorkersTyped' /\ Elsewhere(w)
    BY DEF IInv, TypeOK, WorkersTyped, Elsewhere, Hold
  <1>2. /\ wpc'[w] = pc /\ wcur'[w] = cur /\ wchk'[w] = chk
        /\ wrun'[w] = wrun[w] /\ wto'[w] = wto[w] /\ winp'[w] = winp[w]
    BY DEF IInv, TypeOK, Hold
  <1>3. wrun[w] \in Runs
    BY DEF IInv, Holds
  <1>4. Extends(checkpoint'[wrun[w]], Known(pc, chk))
    <2>1. checkpoint[wrun[w]] \in Checkpoint /\ checkpoint'[wrun[w]] \in Checkpoint
      BY <1>3 DEF IInv, TypeOK, Files, LocalTypeOK
    <2>2. Extends(checkpoint'[wrun[w]], checkpoint[wrun[w]])
      BY <1>3 DEF Grows
    <2> QED
      BY <2>1, <2>2, KnownType, ExtendsFurther
  <1>5. SeenApplied(w)'
    BY <1>2 DEF SeenApplied, ReadBack
  <1>6. Holds(w)'
    BY <1>2, <1>3, <1>4, <1>5 DEF Holds, Placed
  <1> QED
    BY <1>1, <1>6, StepDone

\* A worker that returns.
LEMMA ForgetStep ==
    ASSUME IInv, NEW w \in Workers, Files', Grows, Forget(w)
    PROVE  IInv' /\ Grows
  <1>1. WorkersTyped' /\ Elsewhere(w)
    BY NoRunType, NoCheckpointType, LocalAssumption
    DEF IInv, TypeOK, WorkersTyped, Elsewhere, Forget, WorkerPc, WorkflowState, NoInput, Decision
  <1>2. /\ wpc'[w] = "idle" /\ wcur'[w] = NoRun /\ wrun'[w] = Nobody
        /\ wchk'[w] = NoCheckpoint
    BY DEF IInv, TypeOK, Forget
  <1>3. Holds(w)'
    BY <1>2, NoRunType, LocalAssumption
    DEF Holds, Placed, InState, Checked, Failing, SeenApplied
  <1> QED
    BY <1>1, <1>3, StepDone

\* A worker that turns to storing a failure.
LEMMA FailStep ==
    ASSUME IInv, NEW w \in Workers, wpc[w] # "idle", Files', Grows,
           NEW to \in WorkflowState, FailTo(w, to),
           Failing("fail", wcur[w].state, to, expired')
    PROVE  IInv' /\ Grows
  <1>1. WorkersTyped' /\ Elsewhere(w)
    BY DEF IInv, TypeOK, WorkersTyped, Elsewhere, FailTo, WorkerPc
  <1>2. /\ wpc'[w] = "fail" /\ wcur'[w] = wcur[w] /\ wchk'[w] = wchk[w]
        /\ wrun'[w] = wrun[w] /\ wto'[w] = to /\ winp'[w] = winp[w]
    BY DEF IInv, TypeOK, FailTo
  <1>3. wrun[w] \in Runs /\ Placed(wcur[w])
    BY DEF IInv, Holds
  <1>4. ASSUME NEW r \in Runs PROVE Extends(checkpoint'[r], NoCheckpoint)
    <2>1. Backed(r)' /\ checkpoint'[r] \in Checkpoint
      BY DEF Files, LocalTypeOK
    <2> QED
      BY <2>1 DEF Extends, Backed, NoCheckpoint, Checkpoint
  <1>5. Holds(w)'
    BY <1>2, <1>3, <1>4 DEF Holds, Placed, InState, Checked, SeenApplied, Known
  <1> QED
    BY <1>1, <1>5, StepDone

\* What a worker holds, with its types.
LEMMA WorkerFacts ==
    ASSUME IInv, NEW w \in Workers, wpc[w] # "idle"
    PROVE  /\ Files /\ Holds(w)
           /\ wrun[w] \in Runs /\ wcur[w] \in Run /\ wchk[w] \in Checkpoint
           /\ winp[w].session \in Sessions \cup {Nobody} /\ winp[w].decision \in Decision
           /\ winp[w].request \in 0..MaxRequests /\ wto[w] \in WorkflowState
           /\ checkpoint[wrun[w]] \in Checkpoint /\ run[wrun[w]] \in Run
           /\ Backed(wrun[w])
  BY DEF IInv, TypeOK, LocalTypeOK, Files, Holds

\* A worker that goes on with what it needs at the next control point.
Arrives(w, pc, cur, chk) ==
    /\ pc \in WorkerPc \ {"idle", "fail", "raised", "f_audit_rejected", "r_save_verification"}
    /\ cur \in Run /\ Placed(cur) /\ InState(pc, cur.state)
    /\ chk \in Checkpoint /\ Checked(pc, chk, winp[w])

LEMMA ArriveStep ==
    ASSUME IInv, NEW w \in Workers, wpc[w] # "idle", Files', Grows,
           NEW pc, NEW cur, NEW chk, Hold(w, pc, cur, chk), Arrives(w, pc, cur, chk),
           \/ Extends(checkpoint[wrun[w]], Known(pc, chk))
           \/ Extends(checkpoint'[wrun[w]], Known(pc, chk))
    PROVE  IInv' /\ Grows
  <1>1. Failing(pc, cur.state, wto[w], expired')
    BY DEF Failing, Arrives
  <1> QED
    BY <1>1, HoldStep DEF Arrives

\* Whatever is stored comes after nothing stored.
LEMMA StoredIsLater ==
    ASSUME Files, NEW r \in Runs PROVE Extends(checkpoint[r], NoCheckpoint)
  <1>1. Backed(r) /\ checkpoint[r] \in Checkpoint
    BY DEF Files, LocalTypeOK
  <1> QED
    BY <1>1 DEF Extends, Backed, NoCheckpoint, Checkpoint

\* The control points at which a copy counts as it is.
Plain == WorkerPc \ {"f_audit_query", "f_evidence_ready", "f_checkpoint_1", "fail", "raised",
                     "r_save_receipt"}

\* A checkpoint built from the copy held; the call ends when it cannot be saved.
LEMMA SaveHeldStep ==
    ASSUME IInv, NEW w \in Workers, wpc[w] \notin {"idle", "fail", "raised"},
           NEW new \in Checkpoint, NEW next \in Plain, SaveHeld(w, new, next, Forget(w)),
           LET known == Known(wpc[w], wchk[w]) IN
           ValidCheckpoint(wrun[w], known) =>
             /\ Extends([new EXCEPT !.version = wchk[w].version + 1], known)
             /\ ValidCheckpoint(wrun[w], new),
           new.verified => wchk[w].verified \/ ReadBack(wrun[w], new.evidence),
           Arrives(w, next, wcur[w], [new EXCEPT !.version = wchk[w].version + 1])
    PROVE  IInv' /\ Grows
  <1> DEFINE r == wrun[w]
             c == [new EXCEPT !.version = wchk[w].version + 1]
             known == Known(wpc[w], wchk[w])
  <1>0. /\ Files /\ r \in Runs /\ wchk[w] \in Checkpoint /\ known \in Checkpoint
        /\ Extends(checkpoint[r], known)
    BY WorkerFacts, KnownType DEF Holds
  <1>1. known.version = wchk[w].version /\ (wchk[w].verified => known.verified)
    <2>1. Checked(wpc[w], wchk[w], winp[w])
      BY WorkerFacts DEF Holds
    <2>2. CASE wpc[w] \in {"f_audit_query", "f_evidence_ready", "f_checkpoint_1"}
      <3>1. wchk[w] = [NoCheckpoint EXCEPT !.evidence = wchk[w].evidence]
        BY <2>1, <2>2 DEF Checked
      <3> QED
        BY <2>2, <3>1 DEF Known, NoCheckpoint
    <2>3. CASE wpc[w] \notin {"f_audit_query", "f_evidence_ready", "f_checkpoint_1"}
      BY <1>0, <2>3 DEF Known, Checkpoint
    <2> QED
      BY <2>2, <2>3
  <1>2. PICK res \in Result :
          /\ save_checkpoint(r, wchk[w], new, res)
          /\ IF res = "ok" THEN Hold(w, next, wcur[w], c) ELSE Forget(w)
    BY DEF SaveHeld
  <1> HIDE DEF r, c, known
  <1>3. /\ Files' /\ Grows
        /\ res = "ok" => c \in Checkpoint /\ checkpoint'[r] = c
    <2>1. new.verified => known.verified \/ ReadBack(r, new.evidence)
      BY <1>1 DEF r
    <2>2. ValidCheckpoint(r, known) =>
            Extends([new EXCEPT !.version = wchk[w].version + 1], known) /\ ValidCheckpoint(r, new)
      BY DEF r, known
    <2> QED
      BY <1>0, <1>1, <1>2, <2>1, <2>2, SaveKeeps DEF c
  <1>4. CASE res = "ok"
    <2>1. Extends(checkpoint'[wrun[w]], Known(next, c))
      BY <1>3, <1>4, ExtendsItself DEF Known, Plain, r
    <2> QED
      BY <1>2, <1>3, <1>4, <2>1, ArriveStep DEF c
  <1>5. CASE res # "ok"
    BY <1>2, <1>3, <1>5, ForgetStep
  <1> QED
    BY <1>4, <1>5

\* A run moved along the table; the call ends when it cannot be.
LEMMA MoveStep ==
    ASSUME IInv, NEW w \in Workers, wpc[w] # "idle", wcur[w].state # "RECOVERY_REQUIRED",
           NEW to \in WorkflowState, NEW next, NEW res,
           to = "AWAITING_APPROVAL" => checkpoint[wrun[w]].proposal,
           transition_run(wrun[w], wcur[w], to, res),
           IF res = "ok" THEN Hold(w, next, Moved(w, to), wchk[w]) ELSE Forget(w),
           next \in WorkerPc \ {"idle", "fail", "raised", "f_audit_rejected",
                                "r_save_verification"},
           InState(next, to), Checked(next, wchk[w], winp[w]),
           Known(next, wchk[w]) = Known(wpc[w], wchk[w]) \/ Known(next, wchk[w]) = NoCheckpoint
    PROVE  IInv' /\ Grows
  <1>1. /\ Files /\ wrun[w] \in Runs /\ wcur[w] \in Run /\ wchk[w] \in Checkpoint
        /\ Placed(wcur[w]) /\ Extends(checkpoint[wrun[w]], Known(wpc[w], wchk[w]))
    BY WorkerFacts DEF Holds
  <1>2. /\ Files' /\ Grows
        /\ res = "ok" => Moved(w, to) \in Run /\ Placed(Moved(w, to))
    BY <1>1, TransitionKeeps DEF Moved
  <1>3. CASE res = "ok"
    <2>1. Arrives(w, next, Moved(w, to), wchk[w])
      BY <1>1, <1>2, <1>3 DEF Arrives, Moved
    <2>2. Extends(checkpoint[wrun[w]], Known(next, wchk[w]))
      BY <1>1, StoredIsLater
    <2> QED
      BY <1>2, <1>3, <2>1, <2>2, ArriveStep
  <1>4. CASE res # "ok"
    BY <1>2, <1>4, ForgetStep
  <1> QED
    BY <1>3, <1>4

\* A failure that could not be stored where the run is believed to be in `state`.
Allowed(state, to) ==
    /\ to \in {"MODEL_OUTPUT_INVALID", "DENIED_BY_POLICY", "AMBIGUOUS_RESULT",
               "DEPENDENCY_UNAVAILABLE", "VERIFICATION_FAILED", "RECOVERY_REQUIRED"}
    /\ state # "RECOVERY_REQUIRED"
    /\ to \in ALLOWED_WORKFLOW_TRANSITIONS[state]

LEMMA AllowedFailures ==
    /\ \A state \in {"INVESTIGATING", "EVIDENCE_READY"} :
         \A to \in {"MODEL_OUTPUT_INVALID", "DENIED_BY_POLICY", "AMBIGUOUS_RESULT",
                    "DEPENDENCY_UNAVAILABLE"} : Allowed(state, to)
    /\ \A to \in {"RECOVERY_REQUIRED", "DENIED_BY_POLICY", "DEPENDENCY_UNAVAILABLE"} :
         Allowed("EXECUTING", to)
    /\ \A to \in {"VERIFICATION_FAILED", "DEPENDENCY_UNAVAILABLE"} : Allowed("VERIFYING", to)
  BY DEF Allowed, ALLOWED_WORKFLOW_TRANSITIONS, WorkflowState, TERMINAL_WORKFLOW_STATES,
         COMMON_FAILURES

LEMMA AllowedStep ==
    ASSUME IInv, NEW w \in Workers, wpc[w] # "idle", Files', Grows,
           NEW to, Allowed(wcur[w].state, to), FailTo(w, to)
    PROVE  IInv' /\ Grows
  <1>1. to \in WorkflowState /\ Failing("fail", wcur[w].state, to, expired')
    BY DEF Allowed, Failing, WorkflowState, TERMINAL_WORKFLOW_STATES
  <1> QED
    BY <1>1, FailStep

\* The durable states of the failures the workflow stores.
LEMMA FailureStates ==
    /\ workflow_state_for_failure("TOOL_ADAPTER_FAILURE") = "DEPENDENCY_UNAVAILABLE"
    /\ workflow_state_for_failure("PROVIDER_FAILURE") = "DEPENDENCY_UNAVAILABLE"
    /\ workflow_state_for_failure("STORAGE_FAILURE") = "DEPENDENCY_UNAVAILABLE"
    /\ workflow_state_for_failure("NOT_FOUND") = "AMBIGUOUS_RESULT"
    /\ workflow_state_for_failure("VALIDATION_FAILURE") = "MODEL_OUTPUT_INVALID"
    /\ workflow_state_for_failure("POLICY_DENIAL") = "DENIED_BY_POLICY"
  BY DEF workflow_state_for_failure

-----------------------------------------------------------------------------
(***************************************************************************)
(* The investigation, step by step                                         *)
(***************************************************************************)

\* A copy of nothing: what a worker holds until it has queried the resource.
LEMMA KnownNothing ==
    ASSUME IInv, NEW w \in Workers, wpc[w] # "idle", NEW pc,
           pc \in {"f_create", "f_raced", "f_reconcile", "f_audit_created", "f_investigating",
                   "f_query"},
           Known(wpc[w], wchk[w]) = wchk[w]
    PROVE  Extends(checkpoint[wrun[w]], Known(pc, wchk[w])) /\ Checked(pc, wchk[w], winp[w])
  BY WorkerFacts DEF Holds, Known, Checked

LEMMA GetRunKeeps ==
    ASSUME IInv, NEW w \in Workers, GetRun(w) PROVE IInv' /\ Grows
  <1>1. PICK res \in Result :
          /\ ReadTruth(res)
          /\ LET found == run[wrun[w]] IN
             IF res # "ok" THEN Forget(w) ELSE
             CASE found = NoRun    -> Keep(w, "f_create")
               [] found = Received -> Hold(w, "f_investigating", Received, wchk[w])
               [] OTHER            -> Hold(w, "f_reconcile", found, wchk[w])
    BY DEF GetRun
  <1>2. wpc[w] = "f_get_run" /\ Known(wpc[w], wchk[w]) = wchk[w]
    BY DEF GetRun, Known
  <1>3. /\ Files /\ wcur[w] \in Run /\ Placed(wcur[w]) /\ wchk[w] \in Checkpoint
        /\ run[wrun[w]] \in Run /\ Placed(run[wrun[w]])
    BY <1>2, WorkerFacts DEF Holds, Backed
  <1>4. Files' /\ Grows
    BY <1>1, <1>3, ReadTruthKeeps
  <1>5. CASE Forget(w)
    BY <1>4, <1>5, ForgetStep
  <1>6. CASE Keep(w, "f_create")
    <2>1. Arrives(w, "f_create", wcur[w], wchk[w])
      BY <1>2, <1>3, KnownNothing DEF Arrives, InState, WorkerPc
    <2> QED
      BY <1>2, <1>4, <1>6, <2>1, KnownNothing, ArriveStep DEF Keep
  <1>7. CASE Hold(w, "f_investigating", Received, wchk[w])
    <2>1. Arrives(w, "f_investigating", Received, wchk[w])
      BY <1>2, <1>3, KnownNothing, NoRunType DEF Arrives, InState, WorkerPc, Received
    <2> QED
      BY <1>2, <1>4, <1>7, <2>1, KnownNothing, ArriveStep
  <1>8. CASE Hold(w, "f_reconcile", run[wrun[w]], wchk[w])
    <2>1. Arrives(w, "f_reconcile", run[wrun[w]], wchk[w])
      BY <1>2, <1>3, KnownNothing DEF Arrives, InState, WorkerPc
    <2> QED
      BY <1>2, <1>4, <1>8, <2>1, KnownNothing, ArriveStep
  <1> QED
    BY <1>1, <1>5, <1>6, <1>7, <1>8

LEMMA CreateRunKeeps ==
    ASSUME IInv, NEW w \in Workers, CreateRun(w) PROVE IInv' /\ Grows
  <1>1. PICK res \in Result :
          /\ create_run(wrun[w], res)
          /\ CASE res = "ok"       -> Hold(w, "f_audit_created", Received, wchk[w])
               [] res = "conflict" -> Keep(w, "f_raced")
               [] OTHER            -> Forget(w)
    BY DEF CreateRun
  <1>2. wpc[w] = "f_create" /\ Known(wpc[w], wchk[w]) = wchk[w]
    BY DEF CreateRun, Known
  <1>3. Files /\ wrun[w] \in Runs /\ wcur[w] \in Run /\ Placed(wcur[w]) /\ wchk[w] \in Checkpoint
    BY <1>2, WorkerFacts DEF Holds
  <1>4. Files' /\ Grows
    BY <1>1, <1>3, CreateKeeps
  <1>5. CASE Forget(w)
    BY <1>4, <1>5, ForgetStep
  <1>6. CASE Keep(w, "f_raced")
    <2>1. Arrives(w, "f_raced", wcur[w], wchk[w])
      BY <1>2, <1>3, KnownNothing DEF Arrives, InState, WorkerPc
    <2> QED
      BY <1>2, <1>4, <1>6, <2>1, KnownNothing, ArriveStep DEF Keep
  <1>7. CASE Hold(w, "f_audit_created", Received, wchk[w])
    <2>1. Arrives(w, "f_audit_created", Received, wchk[w])
      BY <1>2, <1>3, KnownNothing, NoRunType DEF Arrives, InState, WorkerPc, Received
    <2> QED
      BY <1>2, <1>4, <1>7, <2>1, KnownNothing, ArriveStep
  <1> QED
    BY <1>1, <1>5, <1>6, <1>7

LEMMA AuditCreatedKeeps ==
    ASSUME IInv, NEW w \in Workers, AuditCreated(w) PROVE IInv' /\ Grows
  <1>1. PICK res \in Result :
          /\ append_audit_event(res)
          /\ CASE res = "ok"       -> Keep(w, "f_investigating")
               [] res = "conflict" -> Keep(w, "f_raced")
               [] OTHER            -> Forget(w)
    BY DEF AuditCreated
  <1>2. wpc[w] = "f_audit_created" /\ Known(wpc[w], wchk[w]) = wchk[w]
    BY DEF AuditCreated, Known
  <1>3. /\ Files /\ wcur[w] \in Run /\ Placed(wcur[w]) /\ wchk[w] \in Checkpoint
        /\ wcur[w].state = "RECEIVED"
    BY <1>2, WorkerFacts DEF Holds, InState
  <1>4. Files' /\ Grows
    BY <1>1, <1>3, AuditKeeps
  <1>5. CASE Forget(w)
    BY <1>4, <1>5, ForgetStep
  <1>6. ASSUME NEW pc \in {"f_raced", "f_investigating"}, Keep(w, pc) PROVE IInv' /\ Grows
    <2>1. Arrives(w, pc, wcur[w], wchk[w])
      BY <1>2, <1>3, KnownNothing DEF Arrives, InState, WorkerPc
    <2> QED
      BY <1>2, <1>4, <1>6, <2>1, KnownNothing, ArriveStep DEF Keep
  <1> QED
    BY <1>1, <1>5, <1>6

LEMMA RacedKeeps ==
    ASSUME IInv, NEW w \in Workers, Raced(w) PROVE IInv' /\ Grows
  <1>1. PICK res \in Result :
          /\ ReadTruth(res)
          /\ IF res = "ok" /\ run[wrun[w]] # NoRun
             THEN Hold(w, "f_reconcile", run[wrun[w]], wchk[w])
             ELSE Forget(w)
    BY DEF Raced
  <1>2. wpc[w] = "f_raced" /\ Known(wpc[w], wchk[w]) = wchk[w]
    BY DEF Raced, Known
  <1>3. Files /\ wchk[w] \in Checkpoint /\ run[wrun[w]] \in Run /\ Placed(run[wrun[w]])
    BY <1>2, WorkerFacts DEF Backed
  <1>4. Files' /\ Grows
    BY <1>1, <1>3, ReadTruthKeeps
  <1>5. CASE Forget(w)
    BY <1>4, <1>5, ForgetStep
  <1>6. CASE Hold(w, "f_reconcile", run[wrun[w]], wchk[w])
    <2>1. Arrives(w, "f_reconcile", run[wrun[w]], wchk[w])
      BY <1>2, <1>3, KnownNothing DEF Arrives, InState, WorkerPc
    <2> QED
      BY <1>2, <1>4, <1>6, <2>1, KnownNothing, ArriveStep
  <1> QED
    BY <1>1, <1>5, <1>6

\* The steps that read, or write the audit log, and return.
LEMMA LastStepKeeps ==
    ASSUME IInv, NEW w \in Workers,
           \/ Reconcile(w) \/ AuditEnd(w) \/ AuditDenial(w) \/ AuditRequest(w)
           \/ AuditDecision(w) \/ Complete(w) \/ AnswerInternalError(w) \/ Crash(w)
    PROVE  IInv' /\ Grows
  <1>1. /\ Forget(w)
        /\ UNCHANGED <<run, checkpoint, inventory, time>>
        /\ UNCHANGED faults \/ Fault
    BY DEF Reconcile, AuditEnd, AuditDenial, AuditRequest, AuditDecision, Complete,
           AnswerInternalError, Crash, ReadTruth, append_audit_event, local, inventory, time
  <1>2. Files' /\ Grows
    BY <1>1, FilesUntouched DEF IInv, TypeOK, Files
  <1> QED
    BY <1>1, <1>2, ForgetStep

LEMMA ToInvestigatingKeeps ==
    ASSUME IInv, NEW w \in Workers, ToInvestigating(w) PROVE IInv' /\ Grows
  <1>1. PICK res \in Result :
          /\ transition_run(wrun[w], wcur[w], "INVESTIGATING", res)
          /\ IF res = "ok" THEN Hold(w, "f_query", Moved(w, "INVESTIGATING"), wchk[w])
             ELSE Forget(w)
    BY DEF ToInvestigating
  <1>2. wpc[w] = "f_investigating" /\ Known(wpc[w], wchk[w]) = wchk[w]
    BY DEF ToInvestigating, Known
  <1>3. wcur[w].state = "RECEIVED"
    BY <1>2, WorkerFacts DEF Holds, InState
  <1>4. /\ "f_query" \in WorkerPc \ {"idle", "fail", "raised", "f_audit_rejected",
                                     "r_save_verification"}
        /\ InState("f_query", "INVESTIGATING") /\ Checked("f_query", wchk[w], winp[w])
        /\ Known("f_query", wchk[w]) = wchk[w] /\ "INVESTIGATING" \in WorkflowState
    BY DEF WorkerPc, InState, Checked, Known, WorkflowState
  <1> QED
    BY <1>1, <1>2, <1>3, <1>4, MoveStep

LEMMA QueryKeeps ==
    ASSUME IInv, NEW w \in Workers, Query(w) PROVE IInv' /\ Grows
  <1> DEFINE seen == [NoCheckpoint EXCEPT !.evidence = resource]
  <1>1. PICK res \in Result :
          /\ ReadInventory(res)
          /\ \/ \E to \in {"DEPENDENCY_UNAVAILABLE", "AMBIGUOUS_RESULT", "MODEL_OUTPUT_INVALID"} :
                  FailTo(w, to)
             \/ Hold(w, "f_audit_query", wcur[w], seen)
    BY FailureStates DEF Query
  <1>2. wpc[w] = "f_query"
    BY DEF Query
  <1>3. /\ Files /\ wrun[w] \in Runs /\ wcur[w] \in Run /\ Placed(wcur[w])
        /\ wcur[w].state = "INVESTIGATING"
    BY <1>2, WorkerFacts DEF Holds, InState
  <1>4. Files' /\ Grows
    BY <1>1, <1>3, ReadInventoryKeeps
  <1>5. ASSUME NEW to \in {"DEPENDENCY_UNAVAILABLE", "AMBIGUOUS_RESULT", "MODEL_OUTPUT_INVALID"},
               FailTo(w, to)
        PROVE  IInv' /\ Grows
    BY <1>2, <1>3, <1>4, <1>5, AllowedFailures, AllowedStep
  <1>6. CASE Hold(w, "f_audit_query", wcur[w], seen)
    <2>1. seen \in Checkpoint /\ seen.evidence # "none" /\ seen.evidence = resource
      BY NoCheckpointType DEF IInv, TypeOK, LocalTypeOK, Checkpoint, Resource
    <2>2. Checked("f_audit_query", seen, winp[w])
      BY <2>1 DEF Checked
    <2>3. Arrives(w, "f_audit_query", wcur[w], seen)
      BY <1>3, <2>1, <2>2 DEF Arrives, InState, WorkerPc
    <2>4. Extends(checkpoint[wrun[w]], Known("f_audit_query", seen))
      BY <1>3, StoredIsLater DEF Known
    <2> QED
      BY <1>2, <1>4, <1>6, <2>3, <2>4, ArriveStep
  <1> QED
    BY <1>1, <1>5, <1>6

LEMMA AuditQueryKeeps ==
    ASSUME IInv, NEW w \in Workers, AuditQuery(w) PROVE IInv' /\ Grows
  <1>1. PICK res \in Result :
          /\ append_audit_event(res)
          /\ Keep(w, "f_evidence_ready") \/ FailTo(w, "DEPENDENCY_UNAVAILABLE")
    BY FailureStates DEF AuditQuery, StoreFailed
  <1>2. wpc[w] = "f_audit_query"
    BY DEF AuditQuery
  <1>3. /\ Files /\ wrun[w] \in Runs /\ wcur[w] \in Run /\ Placed(wcur[w])
        /\ wcur[w].state = "INVESTIGATING" /\ wchk[w] \in Checkpoint
        /\ Checked("f_audit_query", wchk[w], winp[w])
    BY <1>2, WorkerFacts DEF Holds, InState
  <1>4. Files' /\ Grows
    BY <1>1, <1>3, AuditKeeps
  <1>5. CASE FailTo(w, "DEPENDENCY_UNAVAILABLE")
    BY <1>2, <1>3, <1>4, <1>5, AllowedFailures, AllowedStep
  <1>6. CASE Keep(w, "f_evidence_ready")
    <2>1. Arrives(w, "f_evidence_ready", wcur[w], wchk[w])
      BY <1>3 DEF Arrives, InState, WorkerPc, Checked
    <2>2. Extends(checkpoint[wrun[w]], Known("f_evidence_ready", wchk[w]))
      BY <1>3, StoredIsLater DEF Known
    <2> QED
      BY <1>2, <1>4, <1>6, <2>1, <2>2, ArriveStep DEF Keep
  <1> QED
    BY <1>1, <1>5, <1>6

LEMMA ToEvidenceReadyKeeps ==
    ASSUME IInv, NEW w \in Workers, ToEvidenceReady(w) PROVE IInv' /\ Grows
  <1>1. PICK res \in Result :
          /\ transition_run(wrun[w], wcur[w], "EVIDENCE_READY", res)
          /\ IF res = "ok" THEN Hold(w, "f_checkpoint_1", Moved(w, "EVIDENCE_READY"), wchk[w])
             ELSE FailTo(w, "DEPENDENCY_UNAVAILABLE")
    BY FailureStates DEF ToEvidenceReady, StoreFailed
  <1>2. wpc[w] = "f_evidence_ready"
    BY DEF ToEvidenceReady
  <1>3. /\ Files /\ wrun[w] \in Runs /\ wcur[w] \in Run /\ Placed(wcur[w])
        /\ wcur[w].state = "INVESTIGATING" /\ wchk[w] \in Checkpoint
        /\ Checked("f_evidence_ready", wchk[w], winp[w])
    BY <1>2, WorkerFacts DEF Holds, InState
  <1>4. /\ Files' /\ Grows
        /\ res = "ok" => /\ Moved(w, "EVIDENCE_READY") \in Run
                         /\ Placed(Moved(w, "EVIDENCE_READY"))
    BY <1>1, <1>3, TransitionKeeps DEF Moved, WorkflowState
  <1>5. CASE res # "ok"
    BY <1>1, <1>2, <1>3, <1>4, <1>5, AllowedFailures, AllowedStep
  <1>6. CASE res = "ok"
    <2>1. Arrives(w, "f_checkpoint_1", Moved(w, "EVIDENCE_READY"), wchk[w])
      BY <1>3, <1>4, <1>6 DEF Arrives, InState, WorkerPc, Checked, Moved
    <2>2. Extends(checkpoint[wrun[w]], Known("f_checkpoint_1", wchk[w]))
      BY <1>3, StoredIsLater DEF Known
    <2> QED
      BY <1>1, <1>2, <1>4, <1>6, <2>1, <2>2, ArriveStep
  <1> QED
    BY <1>5, <1>6

\* The first checkpoint replaces version 0, or nothing.
LEMMA Checkpoint1Keeps ==
    ASSUME IInv, NEW w \in Workers, Checkpoint1(w) PROVE IInv' /\ Grows
  <1> DEFINE new == [wchk[w] EXCEPT !.safe = "EVIDENCE_READY"]
             c == [new EXCEPT !.version = wchk[w].version + 1]
  <1>1. PICK res \in Result :
          /\ save_checkpoint(wrun[w], wchk[w], new, res)
          /\ IF res = "ok" THEN Hold(w, "f_plan", wcur[w], c)
             ELSE FailTo(w, "DEPENDENCY_UNAVAILABLE")
    BY FailureStates DEF Checkpoint1, SaveHeld, StoreFailed
  <1>2. wpc[w] = "f_checkpoint_1"
    BY DEF Checkpoint1
  <1>3. /\ Files /\ wrun[w] \in Runs /\ wcur[w] \in Run /\ Placed(wcur[w])
        /\ wcur[w].state = "EVIDENCE_READY" /\ wchk[w] \in Checkpoint
        /\ Checked("f_checkpoint_1", wchk[w], winp[w])
        /\ Extends(checkpoint[wrun[w]], NoCheckpoint)
    BY <1>2, WorkerFacts, StoredIsLater DEF Holds, InState
  <1>4. wchk[w].evidence # "none" /\ wchk[w] = [NoCheckpoint EXCEPT !.evidence = wchk[w].evidence]
    BY <1>3 DEF Checked
  <1>5. /\ wchk[w].version = 0 /\ ~wchk[w].proposal /\ wchk[w].request = 0
        /\ wchk[w].decision = "none" /\ ~wchk[w].intent /\ wchk[w].receipt = Nobody
        /\ ~wchk[w].verified
    BY <1>4 DEF NoCheckpoint
  <1>6. new \in Checkpoint /\ c \in Checkpoint
    <2>1. "EVIDENCE_READY" \in WorkflowState
      BY DEF WorkflowState
    <2>2. new \in Checkpoint
      BY <1>3, <2>1 DEF Checkpoint
    <2> QED
      BY <1>3, <2>2, CountedUp DEF Checkpoint
  <1>7. Extends(c, NoCheckpoint) /\ ValidCheckpoint(wrun[w], new) /\ ~new.verified
    BY <1>3, <1>5 DEF Extends, ValidCheckpoint, NoCheckpoint, Checkpoint
  <1> HIDE DEF new
  <1>8. /\ Files' /\ Grows
        /\ res = "ok" => checkpoint'[wrun[w]] = c
    <2>1. NoCheckpoint.version = wchk[w].version
      BY <1>5 DEF NoCheckpoint
    <2> QED
      BY <1>1, <1>3, <1>6, <1>7, <2>1, SaveKeeps, NoCheckpointType
  <1>9. CASE res # "ok"
    BY <1>1, <1>2, <1>3, <1>8, <1>9, AllowedFailures, AllowedStep
  <1>10. CASE res = "ok"
    <2>1. Checked("f_plan", c, winp[w])
      BY <1>3, <1>4, <1>5 DEF Checked, Checkpoint, new
    <2>2. Arrives(w, "f_plan", wcur[w], c)
      BY <1>3, <1>6, <2>1 DEF Arrives, InState, WorkerPc
    <2>3. Extends(checkpoint'[wrun[w]], Known("f_plan", c))
      BY <1>6, <1>8, <1>10, ExtendsItself DEF Known
    <2> QED
      BY <1>1, <1>2, <1>8, <1>10, <2>2, <2>3, ArriveStep
  <1> QED
    BY <1>9, <1>10

LEMMA PlanKeeps ==
    ASSUME IInv, NEW w \in Workers, Plan(w) PROVE IInv' /\ Grows
  <1>1. /\ UNCHANGED local
        /\ \/ FailTo(w, "DEPENDENCY_UNAVAILABLE")
           \/ \E to \in {"MODEL_OUTPUT_INVALID", "DENIED_BY_POLICY"} :
                /\ wpc' = [wpc EXCEPT ![w] = "f_audit_rejected"]
                /\ wto' = [wto EXCEPT ![w] = to]
                /\ UNCHANGED <<wrun, wcur, wchk, winp>>
           \/ \E pc \in {"f_no_action", "f_recommend", "f_proposed"} : Keep(w, pc)
    BY FailureStates DEF Plan
  <1>2. wpc[w] = "f_plan"
    BY DEF Plan
  <1>3. /\ Files /\ wrun[w] \in Runs /\ wcur[w] \in Run /\ Placed(wcur[w])
        /\ wcur[w].state = "EVIDENCE_READY" /\ wchk[w] \in Checkpoint
        /\ Checked("f_plan", wchk[w], winp[w])
        /\ Extends(checkpoint[wrun[w]], wchk[w])
    BY <1>2, WorkerFacts DEF Holds, InState, Known
  <1>4. Files' /\ Grows
    BY <1>1, <1>3, FilesUntouched DEF local, inventory, time
  <1>5. CASE FailTo(w, "DEPENDENCY_UNAVAILABLE")
    BY <1>2, <1>3, <1>4, <1>5, AllowedFailures, AllowedStep
  <1>6. ASSUME NEW to \in {"MODEL_OUTPUT_INVALID", "DENIED_BY_POLICY"},
               wpc' = [wpc EXCEPT ![w] = "f_audit_rejected"],
               wto' = [wto EXCEPT ![w] = to],
               UNCHANGED <<wrun, wcur, wchk, winp>>
        PROVE  IInv' /\ Grows
    <2>1. WorkersTyped' /\ Elsewhere(w)
      BY <1>6 DEF IInv, TypeOK, WorkersTyped, Elsewhere, WorkerPc, WorkflowState,
                  TERMINAL_WORKFLOW_STATES
    <2>2. wpc'[w] = "f_audit_rejected" /\ wto'[w] = to
      BY <1>6 DEF IInv, TypeOK
    <2>3. Failing("f_audit_rejected", wcur[w].state, to, expired')
      BY <1>3, AllowedFailures DEF Allowed, Failing
    <2>4. checkpoint' = checkpoint
      BY <1>1 DEF local
    <2>5. Holds(w)'
      BY <1>3, <1>6, <2>2, <2>3, <2>4 DEF Holds, InState, Checked, Known, SeenApplied, Placed
    <2> QED
      BY <1>4, <2>1, <2>5, StepDone
  <1>7. ASSUME NEW pc \in {"f_no_action", "f_recommend", "f_proposed"}, Keep(w, pc)
        PROVE  IInv' /\ Grows
    <2>1. Arrives(w, pc, wcur[w], wchk[w])
      BY <1>3 DEF Arrives, InState, WorkerPc, Checked
    <2>2. Extends(checkpoint[wrun[w]], Known(pc, wchk[w]))
      BY <1>3 DEF Known
    <2> QED
      BY <1>2, <1>4, <1>7, <2>1, <2>2, ArriveStep DEF Keep
  <1> QED
    BY <1>1, <1>5, <1>6, <1>7

LEMMA AuditRejectedKeeps ==
    ASSUME IInv, NEW w \in Workers, AuditRejected(w) PROVE IInv' /\ Grows
  <1>1. PICK res \in Result :
          /\ append_audit_event(res)
          /\ IF res = "ok" THEN Keep(w, "fail") ELSE Forget(w)
    BY DEF AuditRejected
  <1>2. wpc[w] = "f_audit_rejected"
    BY DEF AuditRejected
  <1>3. /\ Files /\ wrun[w] \in Runs /\ wcur[w] \in Run /\ Placed(wcur[w])
        /\ wchk[w] \in Checkpoint
        /\ Failing("f_audit_rejected", wcur[w].state, wto[w], expired)
    BY <1>2, WorkerFacts DEF Holds
  <1>4. Files' /\ Grows
    BY <1>1, <1>3, AuditKeeps
  <1>5. CASE Forget(w)
    BY <1>4, <1>5, ForgetStep
  <1>6. CASE Keep(w, "fail")
    <2>1. Failing("fail", wcur[w].state, wto[w], expired')
      BY <1>3, <1>4 DEF Failing, Grows
    <2>2. Extends(checkpoint[wrun[w]], Known("fail", wchk[w]))
      BY <1>3, StoredIsLater DEF Known
    <2>3. "fail" \in WorkerPc /\ InState("fail", wcur[w].state) /\ Checked("fail", wchk[w], winp[w])
      BY DEF WorkerPc, InState, Checked
    <2> QED
      BY <1>2, <1>3, <1>4, <1>6, <2>1, <2>2, <2>3, HoldStep DEF Keep
  <1> QED
    BY <1>1, <1>5, <1>6

LEMMA SafeTerminalKeeps ==
    ASSUME IInv, NEW w \in Workers, SafeTerminal(w) PROVE IInv' /\ Grows
  <1>1. PICK to \in {"NO_ACTION_REQUIRED", "RECOMMENDATION_ONLY"}, res \in Result :
          /\ transition_run(wrun[w], wcur[w], to, res)
          /\ IF res = "ok" THEN Hold(w, "f_terminal_checkpoint", Moved(w, to), wchk[w])
             ELSE Forget(w)
    BY DEF SafeTerminal
  <1>2. wpc[w] \in {"f_no_action", "f_recommend"}
    BY DEF SafeTerminal
  <1>3. wcur[w].state = "EVIDENCE_READY" /\ Checked(wpc[w], wchk[w], winp[w])
    BY <1>2, WorkerFacts DEF Holds, InState
  <1>4. /\ "f_terminal_checkpoint" \in WorkerPc \ {"idle", "fail", "raised", "f_audit_rejected",
                                                   "r_save_verification"}
        /\ InState("f_terminal_checkpoint", to)
        /\ Checked("f_terminal_checkpoint", wchk[w], winp[w])
        /\ Known("f_terminal_checkpoint", wchk[w]) = Known(wpc[w], wchk[w])
        /\ to \in WorkflowState
    BY <1>2, <1>3
    DEF WorkerPc, InState, Checked, Known, WorkflowState, TERMINAL_WORKFLOW_STATES
  <1> QED
    BY <1>1, <1>2, <1>3, <1>4, MoveStep

LEMMA ToProposedKeeps ==
    ASSUME IInv, NEW w \in Workers, ToProposed(w) PROVE IInv' /\ Grows
  <1>1. PICK res \in Result :
          /\ transition_run(wrun[w], wcur[w], "REMEDIATION_PROPOSED", res)
          /\ IF res = "ok"
             THEN Hold(w, "f_checkpoint_2", Moved(w, "REMEDIATION_PROPOSED"), wchk[w])
             ELSE Forget(w)
    BY DEF ToProposed
  <1>2. wpc[w] = "f_proposed"
    BY DEF ToProposed
  <1>3. wcur[w].state = "EVIDENCE_READY" /\ Checked("f_proposed", wchk[w], winp[w])
    BY <1>2, WorkerFacts DEF Holds, InState
  <1>4. /\ "f_checkpoint_2" \in WorkerPc \ {"idle", "fail", "raised", "f_audit_rejected",
                                            "r_save_verification"}
        /\ InState("f_checkpoint_2", "REMEDIATION_PROPOSED")
        /\ Checked("f_checkpoint_2", wchk[w], winp[w])
        /\ Known("f_checkpoint_2", wchk[w]) = Known(wpc[w], wchk[w])
        /\ "REMEDIATION_PROPOSED" \in WorkflowState
    BY <1>2, <1>3 DEF WorkerPc, InState, Checked, Known, WorkflowState
  <1> QED
    BY <1>1, <1>2, <1>3, <1>4, MoveStep

\* The run waits only once the proposal it waits for is stored.
LEMMA ToAwaitingKeeps ==
    ASSUME IInv, NEW w \in Workers, ToAwaiting(w) PROVE IInv' /\ Grows
  <1>1. PICK res \in Result :
          /\ transition_run(wrun[w], wcur[w], "AWAITING_APPROVAL", res)
          /\ IF res = "ok"
             THEN Hold(w, "f_audit_planned", Moved(w, "AWAITING_APPROVAL"), wchk[w])
             ELSE Forget(w)
    BY DEF ToAwaiting
  <1>2. wpc[w] = "f_awaiting"
    BY DEF ToAwaiting
  <1>3. /\ wcur[w].state = "REMEDIATION_PROPOSED" /\ wchk[w].proposal
        /\ Extends(checkpoint[wrun[w]], wchk[w])
    BY <1>2, WorkerFacts DEF Holds, InState, Checked, Known
  <1>4. /\ "f_audit_planned" \in WorkerPc \ {"idle", "fail", "raised", "f_audit_rejected",
                                             "r_save_verification"}
        /\ InState("f_audit_planned", "AWAITING_APPROVAL")
        /\ Checked("f_audit_planned", wchk[w], winp[w])
        /\ Known("f_audit_planned", wchk[w]) = Known(wpc[w], wchk[w])
        /\ "AWAITING_APPROVAL" \in WorkflowState
    BY <1>2 DEF WorkerPc, InState, Checked, Known, WorkflowState
  <1>5. checkpoint[wrun[w]].proposal
    BY <1>3 DEF Extends
  <1> QED
    BY <1>1, <1>2, <1>3, <1>4, <1>5, MoveStep

LEMMA AuditPlannedKeeps ==
    ASSUME IInv, NEW w \in Workers, AuditPlanned(w) PROVE IInv' /\ Grows
  <1>1. PICK res \in Result :
          /\ append_audit_event(res)
          /\ IF res = "ok" THEN Keep(w, "f_audit_end") ELSE Forget(w)
    BY DEF AuditPlanned
  <1>2. wpc[w] = "f_audit_planned"
    BY DEF AuditPlanned
  <1>3. /\ Files /\ wcur[w] \in Run /\ Placed(wcur[w]) /\ wchk[w] \in Checkpoint
        /\ Extends(checkpoint[wrun[w]], wchk[w])
    BY <1>2, WorkerFacts DEF Holds, Known
  <1>4. Files' /\ Grows
    BY <1>1, <1>3, AuditKeeps
  <1>5. CASE Forget(w)
    BY <1>4, <1>5, ForgetStep
  <1>6. CASE Keep(w, "f_audit_end")
    <2>1. Arrives(w, "f_audit_end", wcur[w], wchk[w])
      BY <1>3 DEF Arrives, InState, Checked, WorkerPc
    <2> QED
      BY <1>2, <1>3, <1>4, <1>6, <2>1, ArriveStep DEF Keep, Known
  <1> QED
    BY <1>1, <1>5, <1>6

\* The checkpoint of a run that ends without a proposal to decide.
LEMMA TerminalCheckpointKeeps ==
    ASSUME IInv, NEW w \in Workers, TerminalCheckpoint(w) PROVE IInv' /\ Grows
  <1> DEFINE new == [wchk[w] EXCEPT !.safe = wcur[w].state,
                                    !.proposal = wcur[w].state = "RECOMMENDATION_ONLY"]
             c == [new EXCEPT !.version = wchk[w].version + 1]
  <1>1. wpc[w] = "f_terminal_checkpoint" /\ SaveHeld(w, new, "f_audit_end", Forget(w))
    BY DEF TerminalCheckpoint
  <1>2. /\ wcur[w].state \in {"NO_ACTION_REQUIRED", "RECOMMENDATION_ONLY"}
        /\ wchk[w] \in Checkpoint /\ wcur[w] \in Run /\ Placed(wcur[w])
        /\ wchk[w].evidence # "none" /\ ~wchk[w].proposal
    BY <1>1, WorkerFacts DEF Holds, InState, Checked
  <1>3. new \in Checkpoint
    BY <1>2 DEF Checkpoint, Run
  <1>4. c \in Checkpoint
    <2>1. wchk[w].version \in Nat
      BY <1>2 DEF Checkpoint
    <2> HIDE DEF new
    <2> QED
      BY <1>3, <2>1, CountedUp
  <1>5. ValidCheckpoint(wrun[w], wchk[w]) => Extends(c, wchk[w]) /\ ValidCheckpoint(wrun[w], new)
    BY <1>2 DEF Extends, ValidCheckpoint, Checkpoint
  <1>6. Arrives(w, "f_audit_end", wcur[w], c)
    BY <1>2, <1>4 DEF Arrives, InState, Checked, WorkerPc
  <1>7. new.verified => wchk[w].verified
    BY <1>2 DEF Checkpoint
  <1>8. Known(wpc[w], wchk[w]) = wchk[w] /\ "f_audit_end" \in Plain
    BY <1>1 DEF Known, Plain, WorkerPc
  <1> HIDE DEF new
  <1> QED
    BY <1>1, <1>3, <1>5, <1>6, <1>7, <1>8, SaveHeldStep

\* The proposal.
LEMMA Checkpoint2Keeps ==
    ASSUME IInv, NEW w \in Workers, Checkpoint2(w) PROVE IInv' /\ Grows
  <1> DEFINE new == [wchk[w] EXCEPT !.safe = "AWAITING_APPROVAL", !.proposal = TRUE]
             c == [new EXCEPT !.version = wchk[w].version + 1]
  <1>1. wpc[w] = "f_checkpoint_2" /\ SaveHeld(w, new, "f_awaiting", Forget(w))
    BY DEF Checkpoint2
  <1>2. /\ wcur[w].state = "REMEDIATION_PROPOSED"
        /\ wchk[w] \in Checkpoint /\ wcur[w] \in Run /\ Placed(wcur[w])
        /\ wchk[w].evidence # "none" /\ ~wchk[w].proposal
    BY <1>1, WorkerFacts DEF Holds, InState, Checked
  <1>3. new \in Checkpoint
    BY <1>2 DEF Checkpoint, WorkflowState
  <1>4. c \in Checkpoint
    <2>1. wchk[w].version \in Nat
      BY <1>2 DEF Checkpoint
    <2> HIDE DEF new
    <2> QED
      BY <1>3, <2>1, CountedUp
  <1>5. ValidCheckpoint(wrun[w], wchk[w]) => Extends(c, wchk[w]) /\ ValidCheckpoint(wrun[w], new)
    BY <1>2 DEF Extends, ValidCheckpoint, Checkpoint
  <1>6. Arrives(w, "f_awaiting", wcur[w], c)
    BY <1>2, <1>4 DEF Arrives, InState, Checked, WorkerPc, Checkpoint
  <1>7. new.verified => wchk[w].verified
    BY <1>2 DEF Checkpoint
  <1>8. Known(wpc[w], wchk[w]) = wchk[w] /\ "f_awaiting" \in Plain
    BY <1>1 DEF Known, Plain, WorkerPc
  <1> HIDE DEF new
  <1> QED
    BY <1>1, <1>3, <1>5, <1>6, <1>7, <1>8, SaveHeldStep

\* A failure is stored along the table, or raised because a proposal expired.
LEMMA PersistFailureKeeps ==
    ASSUME IInv, NEW w \in Workers, PersistFailure(w) PROVE IInv' /\ Grows
  <1>1. wpc[w] = "fail"
    BY DEF PersistFailure
  <1>2. /\ Files /\ wrun[w] \in Runs /\ wcur[w] \in Run /\ Placed(wcur[w])
        /\ wchk[w] \in Checkpoint /\ wto[w] \in WorkflowState
        /\ Failing("fail", wcur[w].state, wto[w], expired)
    BY <1>1, WorkerFacts DEF Holds
  <1>3. CASE UNCHANGED local /\ Forget(w)
    <2>1. Files' /\ Grows
      BY <1>2, <1>3, FilesUntouched DEF local, inventory, time
    <2> QED
      BY <1>3, <2>1, ForgetStep
  <1>4. ASSUME wcur[w].state # wto[w], NEW res \in Result,
               transition_run(wrun[w], wcur[w], wto[w], res),
               IF res = "illegal" THEN Keep(w, "raised") ELSE Forget(w)
        PROVE  IInv' /\ Grows
    <2>1. wcur[w].state # "RECOVERY_REQUIRED" /\ wto[w] # "AWAITING_APPROVAL"
      BY <1>2, <1>4 DEF Failing
    <2>2. Files' /\ Grows
      BY <1>2, <1>4, <2>1, TransitionKeeps
    <2>3. CASE res # "illegal"
      BY <1>4, <2>2, <2>3, ForgetStep
    <2>4. CASE res = "illegal"
      <3>1. wto[w] \notin ALLOWED_WORKFLOW_TRANSITIONS[wcur[w].state]
        BY <1>4, <2>4 DEF transition_run, Mutate
      <3>2. Failing("raised", wcur[w].state, wto[w], expired')
        BY <1>2, <2>2, <3>1 DEF Failing, Grows
      <3>3. Extends(checkpoint[wrun[w]], Known("raised", wchk[w]))
        BY <1>2, StoredIsLater DEF Known
      <3>4. /\ "raised" \in WorkerPc /\ InState("raised", wcur[w].state)
            /\ Checked("raised", wchk[w], winp[w])
        BY DEF WorkerPc, InState, Checked
      <3> QED
        BY <1>1, <1>2, <1>4, <2>2, <2>4, <3>2, <3>3, <3>4, HoldStep DEF Keep
    <2> QED
      BY <2>3, <2>4
  <1> QED
    BY <1>3, <1>4 DEF PersistFailure

LEMMA FirstStepKeeps ==
    ASSUME IInv, NEW w \in Workers, FirstStep(w) PROVE IInv' /\ Grows
  BY GetRunKeeps, CreateRunKeeps, AuditCreatedKeeps, RacedKeeps, LastStepKeeps,
     ToInvestigatingKeeps, QueryKeeps, AuditQueryKeeps, ToEvidenceReadyKeeps, Checkpoint1Keeps,
     PlanKeeps, AuditRejectedKeeps, SafeTerminalKeeps, TerminalCheckpointKeeps, ToProposedKeeps,
     Checkpoint2Keeps, ToAwaitingKeeps, AuditPlannedKeeps, PersistFailureKeeps
  DEF FirstStep

-----------------------------------------------------------------------------
(***************************************************************************)
(* Challenge, decision and resumption, step by step                        *)
(***************************************************************************)

LEMMA LoadRunKeeps ==
    ASSUME IInv, NEW w \in Workers, LoadRun(w) PROVE IInv' /\ Grows
  <1>1. PICK res \in Result :
          /\ ReadTruth(res)
          /\ \/ wpc[w] = "q_load" /\ Hold(w, "q_load_checkpoint", run[wrun[w]], wchk[w])
             \/ wpc[w] = "d_load" /\ Hold(w, "d_load_checkpoint", run[wrun[w]], wchk[w])
             \/ wpc[w] = "r_load" /\ Hold(w, "r_load_checkpoint", run[wrun[w]], wchk[w])
             \/ Forget(w)
    BY DEF LoadRun
  <1>2. wpc[w] \in {"q_load", "d_load", "r_load"}
    BY DEF LoadRun
  <1>3. /\ Files /\ wchk[w] \in Checkpoint /\ run[wrun[w]] \in Run /\ Placed(run[wrun[w]])
        /\ Checked(wpc[w], wchk[w], winp[w]) /\ Extends(checkpoint[wrun[w]], wchk[w])
    BY <1>2, WorkerFacts DEF Holds, Known, Backed
  <1>4. Files' /\ Grows
    BY <1>1, <1>3, ReadTruthKeeps
  <1>5. ASSUME NEW pc \in {"q_load_checkpoint", "d_load_checkpoint", "r_load_checkpoint"},
               pc = "d_load_checkpoint" => wpc[w] = "d_load",
               Hold(w, pc, run[wrun[w]], wchk[w])
        PROVE  IInv' /\ Grows
    <2>1. Arrives(w, pc, run[wrun[w]], wchk[w])
      BY <1>3, <1>5 DEF Arrives, InState, Checked, WorkerPc
    <2> QED
      BY <1>2, <1>3, <1>4, <1>5, <2>1, ArriveStep DEF Known
  <1>6. CASE Forget(w)
    BY <1>4, <1>6, ForgetStep
  <1> QED
    BY <1>1, <1>5, <1>6

LEMMA RequestLoadedKeeps ==
    ASSUME IInv, NEW w \in Workers, RequestLoaded(w) PROVE IInv' /\ Grows
  <1> DEFINE chk == checkpoint[wrun[w]]
  <1>1. PICK res \in Result :
          /\ ReadTruth(res)
          /\ \/ Forget(w)
             \/ /\ wcur[w].state = "AWAITING_APPROVAL" /\ chk.proposal /\ chk.decision = "none"
                /\ chk.request < MaxRequests /\ Hold(w, "q_save", wcur[w], chk)
    BY DEF RequestLoaded, Loaded
  <1>2. wpc[w] = "q_load_checkpoint"
    BY DEF RequestLoaded
  <1>3. Files /\ wcur[w] \in Run /\ Placed(wcur[w]) /\ chk \in Checkpoint
    BY <1>2, WorkerFacts DEF Holds
  <1>4. Files' /\ Grows
    BY <1>1, <1>3, ReadTruthKeeps
  <1>5. CASE Forget(w)
    BY <1>4, <1>5, ForgetStep
  <1>6. ASSUME wcur[w].state = "AWAITING_APPROVAL", chk.proposal, chk.decision = "none",
               chk.request < MaxRequests, Hold(w, "q_save", wcur[w], chk)
        PROVE  IInv' /\ Grows
    <2>1. Arrives(w, "q_save", wcur[w], chk)
      BY <1>3, <1>6 DEF Arrives, InState, Checked, WorkerPc
    <2> QED
      BY <1>2, <1>3, <1>4, <1>6, <2>1, ArriveStep, ExtendsItself DEF Known
  <1> QED
    BY <1>1, <1>5, <1>6

\* A new challenge takes nothing away: without a decision there is no intent.
LEMMA SaveRequestKeeps ==
    ASSUME IInv, NEW w \in Workers, SaveRequest(w) PROVE IInv' /\ Grows
  <1> DEFINE new == [wchk[w] EXCEPT !.safe = "AWAITING_APPROVAL", !.request = @ + 1,
                                    !.session = winp[w].session, !.decision = "none",
                                    !.intent = FALSE, !.receipt = Nobody, !.verified = FALSE]
             c == [new EXCEPT !.version = wchk[w].version + 1]
  <1>1. wpc[w] = "q_save" /\ SaveHeld(w, new, "q_audit", Forget(w))
    BY DEF SaveRequest
  <1>2. /\ wchk[w] \in Checkpoint /\ wcur[w] \in Run /\ Placed(wcur[w])
        /\ wchk[w].proposal /\ wchk[w].decision = "none" /\ wchk[w].request < MaxRequests
        /\ winp[w].session \in Sessions \cup {Nobody}
    BY <1>1, WorkerFacts DEF Holds, Checked
  <1>3. new \in Checkpoint
    <2>1. wchk[w].request + 1 \in 0..MaxRequests
      BY <1>2, LocalAssumption DEF Checkpoint
    <2>2. "AWAITING_APPROVAL" \in WorkflowState /\ "none" \in Decision
      BY DEF WorkflowState, Decision
    <2> QED
      BY <1>2, <2>1, <2>2 DEF Checkpoint
  <1>4. c \in Checkpoint
    <2>1. wchk[w].version \in Nat
      BY <1>2 DEF Checkpoint
    <2> HIDE DEF new
    <2> QED
      BY <1>3, <2>1, CountedUp
  <1>5. ValidCheckpoint(wrun[w], wchk[w]) => Extends(c, wchk[w]) /\ ValidCheckpoint(wrun[w], new)
    BY <1>2 DEF Extends, ValidCheckpoint, Checkpoint
  <1>6. Arrives(w, "q_audit", wcur[w], c)
    BY <1>2, <1>4 DEF Arrives, InState, Checked, WorkerPc
  <1>7. ~new.verified
    BY <1>2 DEF Checkpoint
  <1>8. Known(wpc[w], wchk[w]) = wchk[w] /\ "q_audit" \in Plain
    BY <1>1 DEF Known, Plain, WorkerPc
  <1> HIDE DEF new
  <1> QED
    BY <1>1, <1>3, <1>5, <1>6, <1>7, <1>8, SaveHeldStep

Kind == {"decided", "resumed", "settled"}

\* Going on with a decided checkpoint.
Decided(kind, chk) ==
    /\ chk \in Checkpoint /\ chk.decision # "none"
    /\ kind = "resumed" => chk.decision = "APPROVED"

LEMMA EndOrKeeps ==
    ASSUME IInv, NEW w \in Workers, wpc[w] # "idle", Files', Grows,
           NEW kind \in Kind, NEW cur \in Run, Placed(cur), NEW chk, Decided(kind, chk),
           \/ Extends(checkpoint[wrun[w]], chk)
           \/ Extends(checkpoint'[wrun[w]], chk),
           EndOr(w, AfterApply[kind], cur, chk)
    PROVE  IInv' /\ Grows
  <1>1. CASE kind = "settled"
    BY <1>1, ForgetStep DEF EndOr, AfterApply
  <1>2. CASE kind \in {"decided", "resumed"}
    <2>1. PICK pc \in {"d_audit", "r_expiry"} :
            pc = AfterApply[kind] /\ (pc = "r_expiry" => kind = "resumed")
      BY <1>2 DEF AfterApply
    <2>2. Hold(w, pc, cur, chk)
      BY <2>1 DEF EndOr
    <2>3. Arrives(w, pc, cur, chk)
      BY <2>1 DEF Arrives, InState, Checked, WorkerPc, Decided
    <2>4. Known(pc, chk) = chk
      BY <2>1 DEF Known
    <2> QED
      BY <2>2, <2>3, <2>4, ArriveStep
  <1> QED
    BY <1>1, <1>2 DEF Kind

\* The three control points of a transition or a checkpoint being applied.
LEMMA ApplyPoints ==
    ASSUME NEW kind \in Kind
    PROVE  /\ TransitionAt[kind] \in {"d_transition", "s_transition", "r_transition"}
           /\ CheckpointAt[kind] \in {"d_checkpoint", "s_checkpoint", "r_checkpoint"}
           /\ TransitionAt[kind] = "r_transition" <=> kind = "resumed"
           /\ CheckpointAt[kind] = "r_checkpoint" <=> kind = "resumed"
  BY DEF Kind, TransitionAt, CheckpointAt

LEMMA ApplyKeeps ==
    ASSUME IInv, NEW w \in Workers, wpc[w] # "idle", Files', Grows,
           NEW kind \in Kind, NEW cur \in Run, Placed(cur), NEW chk, Decided(kind, chk),
           \/ Extends(checkpoint[wrun[w]], chk)
           \/ Extends(checkpoint'[wrun[w]], chk),
           Apply(w, kind, cur, chk)
    PROVE  IInv' /\ Grows
  <1>1. \/ EndOr(w, AfterApply[kind], cur, chk)
        \/ Forget(w)
        \/ Hold(w, CheckpointAt[kind], cur, chk)
        \/ cur.state = "AWAITING_APPROVAL" /\ Hold(w, TransitionAt[kind], cur, chk)
    BY DEF Apply
  <1>2. CASE EndOr(w, AfterApply[kind], cur, chk)
    BY <1>2, EndOrKeeps
  <1>3. CASE Forget(w)
    BY <1>3, ForgetStep
  <1>4. ASSUME NEW pc \in {"d_transition", "s_transition", "r_transition",
                           "d_checkpoint", "s_checkpoint", "r_checkpoint"},
               pc \in {"r_transition", "r_checkpoint"} => kind = "resumed",
               pc \in {"d_transition", "s_transition", "r_transition"} =>
                 cur.state = "AWAITING_APPROVAL",
               Hold(w, pc, cur, chk)
        PROVE  IInv' /\ Grows
    <2>1. Arrives(w, pc, cur, chk)
      BY <1>4 DEF Arrives, InState, Checked, WorkerPc, Decided
    <2>2. Known(pc, chk) = chk
      BY DEF Known
    <2> QED
      BY <1>4, <2>1, <2>2, ArriveStep
  <1> QED
    BY <1>1, <1>2, <1>3, <1>4, ApplyPoints

LEMMA ApplyTransitionKeeps ==
    ASSUME IInv, NEW w \in Workers, ApplyTransition(w) PROVE IInv' /\ Grows
  <1>1. PICK kind \in Kind, res \in Result :
          /\ wpc[w] = TransitionAt[kind]
          /\ transition_run(wrun[w], wcur[w], Target(wchk[w]), res)
          /\ CASE res = "ok" ->
                    IF wchk[w].safe = Target(wchk[w])
                    THEN EndOr(w, AfterApply[kind], Moved(w, Target(wchk[w])), wchk[w])
                    ELSE Hold(w, CheckpointAt[kind], Moved(w, Target(wchk[w])), wchk[w])
               [] res = "illegal" -> Keep(w, "raised")
               [] OTHER           -> Forget(w)
    BY DEF ApplyTransition, AfterApply, Kind
  <1>2. wpc[w] \in {"d_transition", "s_transition", "r_transition"}
    BY <1>1, ApplyPoints
  <1>3. /\ Files /\ wrun[w] \in Runs /\ wcur[w] \in Run /\ Placed(wcur[w])
        /\ wcur[w].state = "AWAITING_APPROVAL"
        /\ Decided(kind, wchk[w]) /\ Extends(checkpoint[wrun[w]], wchk[w])
    BY <1>1, <1>2, WorkerFacts, ApplyPoints DEF Holds, Known, InState, Checked, Decided
  <1>4. /\ Target(wchk[w]) \in WorkflowState /\ Target(wchk[w]) # "AWAITING_APPROVAL"
        /\ Target(wchk[w]) \in ALLOWED_WORKFLOW_TRANSITIONS["AWAITING_APPROVAL"]
    BY DEF Target, WorkflowState, TERMINAL_WORKFLOW_STATES, ALLOWED_WORKFLOW_TRANSITIONS
  <1>5. /\ Files' /\ Grows
        /\ res = "ok" => /\ Moved(w, Target(wchk[w])) \in Run
                         /\ Placed(Moved(w, Target(wchk[w])))
    BY <1>1, <1>3, <1>4, TransitionKeeps DEF Moved
  <1>6. res # "illegal"
    BY <1>1, <1>3, <1>4 DEF transition_run, Mutate
  <1>7. CASE Forget(w)
    BY <1>5, <1>7, ForgetStep
  <1>8. CASE res = "ok" /\ EndOr(w, AfterApply[kind], Moved(w, Target(wchk[w])), wchk[w])
    BY <1>2, <1>3, <1>5, <1>8, EndOrKeeps
  <1>9. CASE res = "ok" /\ Hold(w, CheckpointAt[kind], Moved(w, Target(wchk[w])), wchk[w])
    <2>1. PICK pc \in {"d_checkpoint", "s_checkpoint", "r_checkpoint"} :
            pc = CheckpointAt[kind] /\ (pc = "r_checkpoint" => kind = "resumed")
      BY ApplyPoints
    <2>2. Arrives(w, pc, Moved(w, Target(wchk[w])), wchk[w])
      BY <1>3, <1>5, <1>9, <2>1 DEF Arrives, InState, Checked, WorkerPc, Decided
    <2>3. Known(pc, wchk[w]) = wchk[w]
      BY DEF Known
    <2> QED
      BY <1>2, <1>3, <1>5, <1>9, <2>1, <2>2, <2>3, ArriveStep
  <1>10. \/ Forget(w)
         \/ res = "ok" /\ EndOr(w, AfterApply[kind], Moved(w, Target(wchk[w])), wchk[w])
         \/ res = "ok" /\ Hold(w, CheckpointAt[kind], Moved(w, Target(wchk[w])), wchk[w])
    BY <1>1, <1>6
  <1> QED
    BY <1>7, <1>8, <1>9, <1>10

LEMMA ApplyCheckpointKeeps ==
    ASSUME IInv, NEW w \in Workers, ApplyCheckpoint(w) PROVE IInv' /\ Grows
  <1> DEFINE new == [wchk[w] EXCEPT !.safe = Target(wchk[w])]
             c == [new EXCEPT !.version = wchk[w].version + 1]
  <1>1. PICK kind \in Kind, res \in Result :
          /\ wpc[w] = CheckpointAt[kind]
          /\ save_checkpoint(wrun[w], wchk[w], new, res)
          /\ IF res = "ok"
             THEN EndOr(w, AfterApply[kind], wcur[w], [new EXCEPT !.version = @ + 1])
             ELSE Forget(w)
    BY DEF ApplyCheckpoint, AfterApply, Kind
  <1>2. wpc[w] \in {"d_checkpoint", "s_checkpoint", "r_checkpoint"}
    BY <1>1, ApplyPoints
  <1>3. /\ Files /\ wrun[w] \in Runs /\ wcur[w] \in Run /\ Placed(wcur[w])
        /\ Decided(kind, wchk[w]) /\ Extends(checkpoint[wrun[w]], wchk[w])
        /\ wchk[w] \in Checkpoint
    BY <1>1, <1>2, WorkerFacts, ApplyPoints DEF Holds, Known, Checked, Decided
  <1>4. /\ Target(wchk[w]) \in WorkflowState
        /\ Target(wchk[w]) \in {"APPROVED", "DENIED_BY_HUMAN"}
    BY DEF Target, WorkflowState, TERMINAL_WORKFLOW_STATES
  <1>5. new \in Checkpoint
    BY <1>3, <1>4 DEF Checkpoint
  <1>6. c \in Checkpoint
    <2>1. wchk[w].version \in Nat
      BY <1>3 DEF Checkpoint
    <2> HIDE DEF new
    <2> QED
      BY <1>5, <2>1, CountedUp
  <1>7. ValidCheckpoint(wrun[w], wchk[w]) => Extends(c, wchk[w]) /\ ValidCheckpoint(wrun[w], new)
    BY <1>3, <1>4 DEF Extends, ValidCheckpoint, Checkpoint
  <1>8. /\ new.verified => wchk[w].verified
        /\ [new EXCEPT !.version = @ + 1] = c
        /\ c.decision = wchk[w].decision
    BY <1>3 DEF Checkpoint
  <1> HIDE DEF new
  <1>9. /\ Files' /\ Grows
        /\ res = "ok" => checkpoint'[wrun[w]] = c
    BY <1>1, <1>3, <1>5, <1>7, <1>8, SaveKeeps
  <1>10. CASE res = "ok"
    <2>1. Decided(kind, c) /\ Extends(checkpoint'[wrun[w]], c)
      BY <1>3, <1>6, <1>8, <1>9, <1>10, ExtendsItself DEF Decided
    <2>2. EndOr(w, AfterApply[kind], wcur[w], c)
      BY <1>1, <1>8, <1>10
    <2> HIDE DEF c
    <2> QED
      BY <1>2, <1>3, <1>9, <2>1, <2>2, EndOrKeeps
  <1>11. CASE res # "ok"
    BY <1>1, <1>9, <1>11, ForgetStep
  <1> QED
    BY <1>10, <1>11

LEMMA DecideLoadedKeeps ==
    ASSUME IInv, NEW w \in Workers, DecideLoaded(w) PROVE IInv' /\ Grows
  <1> DEFINE chk == checkpoint[wrun[w]]
  <1>1. PICK res \in Result :
          /\ ReadTruth(res)
          /\ \/ Forget(w)
             \/ Keep(w, "audit_denial")
             \/ chk.decision # "none" /\ Apply(w, "settled", wcur[w], chk)
             \/ /\ chk.decision = "none" /\ chk.request # 0
                /\ decision_matches_request(winp[w], chk) /\ Hold(w, "d_save", wcur[w], chk)
    BY DEF DecideLoaded
  <1>2. wpc[w] = "d_load_checkpoint"
    BY DEF DecideLoaded
  <1>3. /\ Files /\ wcur[w] \in Run /\ Placed(wcur[w]) /\ wchk[w] \in Checkpoint
        /\ chk \in Checkpoint /\ winp[w].decision # "none"
        /\ Extends(checkpoint[wrun[w]], wchk[w])
    BY <1>2, WorkerFacts DEF Holds, Checked, Known
  <1>4. Files' /\ Grows
    BY <1>1, <1>3, ReadTruthKeeps
  <1>5. CASE Forget(w)
    BY <1>4, <1>5, ForgetStep
  <1>6. CASE Keep(w, "audit_denial")
    <2>1. Arrives(w, "audit_denial", wcur[w], wchk[w])
      BY <1>3 DEF Arrives, InState, Checked, WorkerPc
    <2> QED
      BY <1>2, <1>3, <1>4, <1>6, <2>1, ArriveStep DEF Keep, Known
  <1>7. CASE chk.decision # "none" /\ Apply(w, "settled", wcur[w], chk)
    BY <1>2, <1>3, <1>4, <1>7, ApplyKeeps, ExtendsItself DEF Decided, Kind
  <1>8. ASSUME chk.decision = "none", chk.request # 0,
               decision_matches_request(winp[w], chk), Hold(w, "d_save", wcur[w], chk)
        PROVE  IInv' /\ Grows
    <2>1. chk.request > 0
      BY <1>3, <1>8 DEF Checkpoint
    <2>2. Arrives(w, "d_save", wcur[w], chk)
      BY <1>3, <1>8, <2>1 DEF Arrives, InState, Checked, WorkerPc
    <2> QED
      BY <1>2, <1>3, <1>4, <1>8, <2>2, ArriveStep, ExtendsItself DEF Known
  <1> QED
    BY <1>1, <1>5, <1>6, <1>7, <1>8

LEMMA SaveDecisionKeeps ==
    ASSUME IInv, NEW w \in Workers, SaveDecision(w) PROVE IInv' /\ Grows
  <1> DEFINE new == [wchk[w] EXCEPT !.safe = "AWAITING_APPROVAL", !.decision = winp[w].decision]
             c == [new EXCEPT !.version = wchk[w].version + 1]
  <1>1. PICK res \in Result :
          /\ save_checkpoint(wrun[w], wchk[w], new, res)
          /\ IF res = "ok" THEN Apply(w, "decided", wcur[w], [new EXCEPT !.version = @ + 1])
             ELSE Forget(w)
    BY DEF SaveDecision
  <1>2. wpc[w] = "d_save"
    BY DEF SaveDecision
  <1>3. /\ Files /\ wrun[w] \in Runs /\ wcur[w] \in Run /\ Placed(wcur[w])
        /\ Extends(checkpoint[wrun[w]], wchk[w]) /\ wchk[w] \in Checkpoint
        /\ wchk[w].decision = "none" /\ wchk[w].request > 0
        /\ winp[w].decision \in Decision /\ winp[w].decision # "none"
    BY <1>2, WorkerFacts DEF Holds, Known, Checked
  <1>4. new \in Checkpoint
    <2>1. "AWAITING_APPROVAL" \in WorkflowState
      BY DEF WorkflowState
    <2> QED
      BY <1>3, <2>1 DEF Checkpoint
  <1>5. c \in Checkpoint
    <2>1. wchk[w].version \in Nat
      BY <1>3 DEF Checkpoint
    <2> HIDE DEF new
    <2> QED
      BY <1>4, <2>1, CountedUp
  <1>6. ValidCheckpoint(wrun[w], wchk[w]) => Extends(c, wchk[w]) /\ ValidCheckpoint(wrun[w], new)
    BY <1>3 DEF Extends, ValidCheckpoint, Checkpoint
  <1>7. /\ new.verified => wchk[w].verified
        /\ [new EXCEPT !.version = @ + 1] = c
        /\ c.decision = winp[w].decision
    BY <1>3 DEF Checkpoint
  <1> HIDE DEF new
  <1>8. /\ Files' /\ Grows
        /\ res = "ok" => checkpoint'[wrun[w]] = c
    BY <1>1, <1>3, <1>4, <1>6, <1>7, SaveKeeps
  <1>9. CASE res = "ok"
    <2>1. Decided("decided", c) /\ Extends(checkpoint'[wrun[w]], c)
      BY <1>3, <1>5, <1>7, <1>8, <1>9, ExtendsItself DEF Decided
    <2>2. Apply(w, "decided", wcur[w], c)
      BY <1>1, <1>7, <1>9
    <2> HIDE DEF c
    <2> QED
      BY <1>2, <1>3, <1>8, <2>1, <2>2, ApplyKeeps DEF Kind
  <1>10. CASE res # "ok"
    BY <1>1, <1>8, <1>10, ForgetStep
  <1> QED
    BY <1>9, <1>10

LEMMA ResumeLoadedKeeps ==
    ASSUME IInv, NEW w \in Workers, ResumeLoaded(w) PROVE IInv' /\ Grows
  <1> DEFINE chk == checkpoint[wrun[w]]
  <1>1. PICK res \in Result :
          /\ ReadTruth(res)
          /\ \/ Forget(w)
             \/ Keep(w, "audit_denial")
             \/ chk.decision = "DENIED" /\ Apply(w, "settled", wcur[w], chk)
             \/ /\ chk.decision \notin {"none", "DENIED"}
                /\ \/ \E pc \in {"r_fix_checkpoint", "r_expiry"} : Hold(w, pc, wcur[w], chk)
                   \/ Apply(w, "resumed", wcur[w], chk)
    BY DEF ResumeLoaded
  <1>2. wpc[w] = "r_load_checkpoint"
    BY DEF ResumeLoaded
  <1>3. /\ Files /\ wcur[w] \in Run /\ Placed(wcur[w]) /\ wchk[w] \in Checkpoint
        /\ chk \in Checkpoint /\ chk.decision \in Decision
        /\ Extends(checkpoint[wrun[w]], wchk[w])
    BY <1>2, WorkerFacts DEF Holds, Checked, Known, Checkpoint
  <1>4. Files' /\ Grows
    BY <1>1, <1>3, ReadTruthKeeps
  <1>5. CASE Forget(w)
    BY <1>4, <1>5, ForgetStep
  <1>6. CASE Keep(w, "audit_denial")
    <2>1. Arrives(w, "audit_denial", wcur[w], wchk[w])
      BY <1>3 DEF Arrives, InState, Checked, WorkerPc
    <2> QED
      BY <1>2, <1>3, <1>4, <1>6, <2>1, ArriveStep DEF Keep, Known
  <1>7. CASE chk.decision = "DENIED" /\ Apply(w, "settled", wcur[w], chk)
    BY <1>2, <1>3, <1>4, <1>7, ApplyKeeps, ExtendsItself DEF Decided, Kind
  <1>8. CASE chk.decision \notin {"none", "DENIED"} /\ Apply(w, "resumed", wcur[w], chk)
    BY <1>2, <1>3, <1>4, <1>8, ApplyKeeps, ExtendsItself DEF Decided, Kind, Decision
  <1>9. ASSUME chk.decision \notin {"none", "DENIED"},
               NEW pc \in {"r_fix_checkpoint", "r_expiry"}, Hold(w, pc, wcur[w], chk)
        PROVE  IInv' /\ Grows
    <2>1. Arrives(w, pc, wcur[w], chk)
      BY <1>3, <1>9 DEF Arrives, InState, Checked, WorkerPc, Decision
    <2> QED
      BY <1>2, <1>3, <1>4, <1>9, <2>1, ArriveStep, ExtendsItself DEF Known
  <1> QED
    BY <1>1, <1>5, <1>6, <1>7, <1>8, <1>9

\* The checks before resume() goes on.
LEMMA CheckExpiryKeeps ==
    ASSUME IInv, NEW w \in Workers, CheckExpiry(w) PROVE IInv' /\ Grows
  <1>1. /\ UNCHANGED local
        /\ \/ wrun[w] \in expired /\ FailTo(w, "RECOVERY_REQUIRED")
           \/ wcur[w].state = "APPROVED" /\ Keep(w, "r_intent")
           \/ wcur[w].state = "APPROVED" /\ Keep(w, "r_executing")
           \/ wcur[w].state = "EXECUTING" /\ Keep(w, "r_execute")
           \/ wcur[w].state = "VERIFYING" /\ Keep(w, "r_verify")
           \/ Forget(w)
    BY DEF CheckExpiry, Expired
  <1>2. wpc[w] = "r_expiry"
    BY DEF CheckExpiry
  <1>3. /\ Files /\ wcur[w] \in Run /\ Placed(wcur[w]) /\ wchk[w] \in Checkpoint
        /\ wchk[w].decision = "APPROVED" /\ Extends(checkpoint[wrun[w]], wchk[w])
    BY <1>2, WorkerFacts DEF Holds, Checked, Known
  <1>4. Files' /\ Grows /\ expired' = expired
    BY <1>1, <1>3, FilesUntouched DEF local, inventory, time
  <1>5. CASE Forget(w)
    BY <1>4, <1>5, ForgetStep
  <1>6. CASE wrun[w] \in expired /\ FailTo(w, "RECOVERY_REQUIRED")
    <2>1. Failing("fail", wcur[w].state, "RECOVERY_REQUIRED", expired')
      BY <1>4, <1>6 DEF Failing
    <2> QED
      BY <1>2, <1>4, <1>6, <2>1, FailStep DEF WorkflowState
  <1>7. ASSUME NEW pc \in {"r_intent", "r_executing", "r_execute", "r_verify"},
               pc \in {"r_intent", "r_executing"} => wcur[w].state = "APPROVED",
               pc = "r_execute" => wcur[w].state = "EXECUTING",
               pc = "r_verify" => wcur[w].state = "VERIFYING",
               Keep(w, pc)
        PROVE  IInv' /\ Grows
    <2>1. Arrives(w, pc, wcur[w], wchk[w])
      BY <1>3, <1>7 DEF Arrives, InState, Checked, WorkerPc
    <2> QED
      BY <1>2, <1>3, <1>4, <1>7, <2>1, ArriveStep DEF Keep, Known
  <1> QED
    BY <1>1, <1>5, <1>6, <1>7

\* The checkpoint catches up with a run that succeeded.
LEMMA SuccessSavedKeeps ==
    ASSUME IInv, NEW w \in Workers, FixCheckpoint(w) \/ SuccessCheckpoint(w)
    PROVE  IInv' /\ Grows
  <1> DEFINE new == [wchk[w] EXCEPT !.safe = "SUCCESS_WITH_EVIDENCE"]
             c == [new EXCEPT !.version = wchk[w].version + 1]
  <1>1. PICK next \in {"r_end", "r_audit_end"} : SaveHeld(w, new, next, Forget(w))
    BY DEF FixCheckpoint, SuccessCheckpoint
  <1>2. wpc[w] \in {"r_fix_checkpoint", "r_success_checkpoint"}
    BY DEF FixCheckpoint, SuccessCheckpoint
  <1>3. wchk[w] \in Checkpoint /\ wcur[w] \in Run /\ Placed(wcur[w])
    BY <1>2, WorkerFacts DEF Holds
  <1>4. new \in Checkpoint
    <2>1. "SUCCESS_WITH_EVIDENCE" \in WorkflowState
      BY DEF WorkflowState, TERMINAL_WORKFLOW_STATES
    <2> QED
      BY <1>3, <2>1 DEF Checkpoint
  <1>5. c \in Checkpoint
    <2>1. wchk[w].version \in Nat
      BY <1>3 DEF Checkpoint
    <2> HIDE DEF new
    <2> QED
      BY <1>4, <2>1, CountedUp
  <1>6. ValidCheckpoint(wrun[w], wchk[w]) => Extends(c, wchk[w]) /\ ValidCheckpoint(wrun[w], new)
    BY <1>3 DEF Extends, ValidCheckpoint, Checkpoint
  <1>7. Arrives(w, next, wcur[w], c)
    BY <1>3, <1>5 DEF Arrives, InState, Checked, WorkerPc
  <1>8. /\ new.verified => wchk[w].verified
        /\ Known(wpc[w], wchk[w]) = wchk[w] /\ next \in Plain
    BY <1>2, <1>3 DEF Known, Plain, WorkerPc, Checkpoint
  <1> HIDE DEF new
  <1> QED
    BY <1>1, <1>2, <1>4, <1>6, <1>7, <1>8, SaveHeldStep

LEMMA SaveIntentKeeps ==
    ASSUME IInv, NEW w \in Workers, SaveIntent(w) PROVE IInv' /\ Grows
  <1> DEFINE new == [wchk[w] EXCEPT !.safe = "APPROVED", !.intent = TRUE]
             c == [new EXCEPT !.version = wchk[w].version + 1]
  <1>1. /\ wpc[w] = "r_intent"
        /\ \/ UNCHANGED local /\ Forget(w)
           \/ SaveHeld(w, new, "r_audit_intent", Forget(w))
    BY DEF SaveIntent
  <1>2. /\ Files /\ wchk[w] \in Checkpoint /\ wcur[w] \in Run /\ Placed(wcur[w])
        /\ wcur[w].state = "APPROVED" /\ wchk[w].decision = "APPROVED"
    BY <1>1, WorkerFacts DEF Holds, InState, Checked
  <1>3. CASE UNCHANGED local /\ Forget(w)
    <2>1. Files' /\ Grows
      BY <1>2, <1>3, FilesUntouched DEF local, inventory, time
    <2> QED
      BY <1>3, <2>1, ForgetStep
  <1>4. CASE SaveHeld(w, new, "r_audit_intent", Forget(w))
    <2>1. new \in Checkpoint
      <3>1. "APPROVED" \in WorkflowState
        BY DEF WorkflowState
      <3> QED
        BY <1>2, <3>1 DEF Checkpoint
    <2>2. c \in Checkpoint
      <3>1. wchk[w].version \in Nat
        BY <1>2 DEF Checkpoint
      <3> HIDE DEF new
      <3> QED
        BY <2>1, <3>1, CountedUp
    <2>3. ValidCheckpoint(wrun[w], wchk[w]) => Extends(c, wchk[w]) /\ ValidCheckpoint(wrun[w], new)
      BY <1>2 DEF Extends, ValidCheckpoint, Checkpoint
    <2>4. Arrives(w, "r_audit_intent", wcur[w], c)
      BY <1>2, <2>2 DEF Arrives, InState, Checked, WorkerPc
    <2>5. /\ new.verified => wchk[w].verified
          /\ Known(wpc[w], wchk[w]) = wchk[w] /\ "r_audit_intent" \in Plain
      BY <1>1, <1>2 DEF Known, Plain, WorkerPc, Checkpoint
    <2> HIDE DEF new
    <2> QED
      BY <1>1, <1>4, <2>1, <2>3, <2>4, <2>5, SaveHeldStep
  <1> QED
    BY <1>1, <1>3, <1>4

\* A receipt enters the checkpoint only if it is the run's own.
LEMMA SaveReceiptKeeps ==
    ASSUME IInv, NEW w \in Workers, SaveReceipt(w) PROVE IInv' /\ Grows
  <1> DEFINE new == [wchk[w] EXCEPT !.safe = "APPROVED"]
             c == [new EXCEPT !.version = wchk[w].version + 1]
             known == [wchk[w] EXCEPT !.receipt = Nobody]
  <1>1. /\ wpc[w] = "r_save_receipt"
        /\ \/ UNCHANGED local /\ Forget(w)
           \/ ValidCheckpoint(wrun[w], new) /\ SaveHeld(w, new, "r_verifying", Forget(w))
    BY DEF SaveReceipt
  <1>2. /\ Files /\ wchk[w] \in Checkpoint /\ wcur[w] \in Run /\ Placed(wcur[w])
        /\ wcur[w].state = "EXECUTING"
    BY <1>1, WorkerFacts DEF Holds, InState
  <1>3. CASE UNCHANGED local /\ Forget(w)
    <2>1. Files' /\ Grows
      BY <1>2, <1>3, FilesUntouched DEF local, inventory, time
    <2> QED
      BY <1>3, <2>1, ForgetStep
  <1>4. CASE ValidCheckpoint(wrun[w], new) /\ SaveHeld(w, new, "r_verifying", Forget(w))
    <2>1. new \in Checkpoint
      <3>1. "APPROVED" \in WorkflowState
        BY DEF WorkflowState
      <3> QED
        BY <1>2, <3>1 DEF Checkpoint
    <2>2. c \in Checkpoint
      <3>1. wchk[w].version \in Nat
        BY <1>2 DEF Checkpoint
      <3> HIDE DEF new
      <3> QED
        BY <2>1, <3>1, CountedUp
    <2>3. Extends(c, known)
      BY <1>2 DEF Extends, Checkpoint
    <2>4. Arrives(w, "r_verifying", wcur[w], c)
      BY <1>2, <2>2 DEF Arrives, InState, Checked, WorkerPc
    <2>5. /\ new.verified => wchk[w].verified
          /\ Known(wpc[w], wchk[w]) = known /\ "r_verifying" \in Plain
      BY <1>1, <1>2 DEF Known, Plain, WorkerPc, Checkpoint
    <2> HIDE DEF new, known
    <2> QED
      BY <1>1, <1>4, <2>1, <2>3, <2>4, <2>5, SaveHeldStep
  <1> QED
    BY <1>1, <1>3, <1>4

LEMMA SaveVerificationKeeps ==
    ASSUME IInv, NEW w \in Workers, SaveVerification(w) PROVE IInv' /\ Grows
  <1> DEFINE new == [wchk[w] EXCEPT !.safe = "APPROVED", !.verified = TRUE]
             c == [new EXCEPT !.version = wchk[w].version + 1]
  <1>1. wpc[w] = "r_save_verification" /\ SaveHeld(w, new, "r_success", Forget(w))
    BY DEF SaveVerification
  <1>2. /\ wchk[w] \in Checkpoint /\ wcur[w] \in Run /\ Placed(wcur[w])
        /\ wcur[w].state = "VERIFYING" /\ wchk[w].receipt # Nobody
        /\ ReadBack(wrun[w], wchk[w].evidence)
    BY <1>1, WorkerFacts DEF Holds, InState, Checked, SeenApplied
  <1>3. new \in Checkpoint
    <2>1. "APPROVED" \in WorkflowState
      BY DEF WorkflowState
    <2> QED
      BY <1>2, <2>1 DEF Checkpoint
  <1>4. c \in Checkpoint
    <2>1. wchk[w].version \in Nat
      BY <1>2 DEF Checkpoint
    <2> HIDE DEF new
    <2> QED
      BY <1>3, <2>1, CountedUp
  <1>5. ValidCheckpoint(wrun[w], wchk[w]) => Extends(c, wchk[w]) /\ ValidCheckpoint(wrun[w], new)
    BY <1>2 DEF Extends, ValidCheckpoint, Checkpoint
  <1>6. Arrives(w, "r_success", wcur[w], c)
    BY <1>2, <1>4 DEF Arrives, InState, Checked, WorkerPc
  <1>7. /\ ReadBack(wrun[w], new.evidence)
        /\ Known(wpc[w], wchk[w]) = wchk[w] /\ "r_success" \in Plain
    BY <1>1, <1>2 DEF Known, Plain, WorkerPc, Checkpoint
  <1> HIDE DEF new
  <1> QED
    BY <1>1, <1>3, <1>5, <1>6, <1>7, SaveHeldStep

\* The audit events of resume(), which goes on only once they are written.
LEMMA ResumeAuditKeeps ==
    ASSUME IInv, NEW w \in Workers,
           AuditIntent(w) \/ AuditExecution(w) \/ AuditReceipt(w) \/ AuditVerification(w)
    PROVE  IInv' /\ Grows
  <1>1. PICK res \in Result :
          /\ append_audit_event(res)
          /\ \/ Forget(w)
             \/ wpc[w] = "r_audit_intent" /\ Keep(w, "r_executing")
             \/ wpc[w] = "r_audit_execution" /\ Keep(w, "r_execute")
             \/ wpc[w] = "r_audit_receipt" /\ Keep(w, "r_verify")
             \/ wpc[w] = "r_audit_end" /\ Keep(w, "r_end")
    BY DEF AuditIntent, AuditExecution, AuditReceipt, AuditVerification
  <1>2. wpc[w] \in {"r_audit_intent", "r_audit_execution", "r_audit_receipt", "r_audit_end"}
    BY DEF AuditIntent, AuditExecution, AuditReceipt, AuditVerification
  <1>3. /\ Files /\ wcur[w] \in Run /\ Placed(wcur[w]) /\ wchk[w] \in Checkpoint
        /\ InState(wpc[w], wcur[w].state) /\ Extends(checkpoint[wrun[w]], wchk[w])
    BY <1>2, WorkerFacts DEF Holds, Known
  <1>4. Files' /\ Grows
    BY <1>1, <1>3, AuditKeeps
  <1>5. CASE Forget(w)
    BY <1>4, <1>5, ForgetStep
  <1>6. ASSUME NEW pc \in {"r_executing", "r_execute", "r_verify", "r_end"}, Keep(w, pc),
               pc = "r_executing" => wpc[w] = "r_audit_intent",
               pc = "r_execute" => wpc[w] = "r_audit_execution",
               pc = "r_verify" => wpc[w] = "r_audit_receipt"
        PROVE  IInv' /\ Grows
    <2>1. Arrives(w, pc, wcur[w], wchk[w])
      BY <1>3, <1>6 DEF Arrives, InState, Checked, WorkerPc
    <2> QED
      BY <1>2, <1>3, <1>4, <1>6, <2>1, ArriveStep DEF Keep, Known
  <1> QED
    BY <1>1, <1>5, <1>6

\* The transitions of resume().
LEMMA ResumeMovesKeep ==
    ASSUME IInv, NEW w \in Workers, ToExecuting(w) \/ ToVerifying(w) \/ ToSuccess(w)
    PROVE  IInv' /\ Grows
  <1>1. PICK to \in {"EXECUTING", "VERIFYING", "SUCCESS_WITH_EVIDENCE"},
             next \in {"r_audit_execution", "r_audit_receipt", "r_success_checkpoint"},
             res \in Result :
          /\ next = "r_audit_execution" => to = "EXECUTING"
          /\ next = "r_audit_receipt" => to = "VERIFYING"
          /\ transition_run(wrun[w], wcur[w], to, res)
          /\ IF res = "ok" THEN Hold(w, next, Moved(w, to), wchk[w]) ELSE Forget(w)
    BY DEF ToExecuting, ToVerifying, ToSuccess
  <1>2. wpc[w] \in {"r_executing", "r_verifying", "r_success"}
    BY DEF ToExecuting, ToVerifying, ToSuccess
  <1>3. wcur[w].state # "RECOVERY_REQUIRED"
    BY <1>2, WorkerFacts DEF Holds, InState
  <1>4. /\ next \in WorkerPc \ {"idle", "fail", "raised", "f_audit_rejected",
                                "r_save_verification"}
        /\ InState(next, to) /\ Checked(next, wchk[w], winp[w])
        /\ Known(next, wchk[w]) = Known(wpc[w], wchk[w])
        /\ to \in WorkflowState
    BY <1>1, <1>2 DEF WorkerPc, InState, Checked, Known, WorkflowState, TERMINAL_WORKFLOW_STATES
  <1> QED
    BY <1>1, <1>2, <1>3, <1>4, MoveStep

LEMMA FindReceiptKeeps ==
    ASSUME IInv, NEW w \in Workers, FindReceipt(w) PROVE IInv' /\ Grows
  <1> DEFINE found == [wchk[w] EXCEPT !.receipt = get_receipt]
  <1>1. /\ UNCHANGED <<run, checkpoint, inventory, time>> /\ (UNCHANGED faults \/ Fault)
        /\ \/ FailTo(w, "RECOVERY_REQUIRED")
           \/ FailTo(w, "DEPENDENCY_UNAVAILABLE")
           \/ Keep(w, "r_verifying")
           \/ wchk[w].intent /\ wchk[w].receipt = Nobody /\ Keep(w, "r_mutate")
           \/ /\ wchk[w].intent /\ wchk[w].receipt = Nobody /\ get_receipt # Nobody
              /\ Hold(w, "r_save_receipt", wcur[w], found)
    BY DEF FindReceipt, ReadInventory, local, inventory, time
  <1>2. wpc[w] = "r_execute"
    BY DEF FindReceipt
  <1>3. /\ Files /\ wcur[w] \in Run /\ Placed(wcur[w]) /\ wchk[w] \in Checkpoint
        /\ wcur[w].state = "EXECUTING" /\ Extends(checkpoint[wrun[w]], wchk[w])
    BY <1>2, WorkerFacts DEF Holds, InState, Known
  <1>4. Files' /\ Grows
    BY <1>1, <1>3, FilesUntouched
  <1>5. ASSUME NEW to \in {"RECOVERY_REQUIRED", "DEPENDENCY_UNAVAILABLE"}, FailTo(w, to)
        PROVE  IInv' /\ Grows
    BY <1>2, <1>3, <1>4, <1>5, AllowedFailures, AllowedStep
  <1>6. ASSUME NEW pc \in {"r_verifying", "r_mutate"}, Keep(w, pc),
               pc = "r_mutate" => wchk[w].intent /\ wchk[w].receipt = Nobody
        PROVE  IInv' /\ Grows
    <2>1. Arrives(w, pc, wcur[w], wchk[w])
      BY <1>3, <1>6 DEF Arrives, InState, Checked, WorkerPc
    <2> QED
      BY <1>2, <1>3, <1>4, <1>6, <2>1, ArriveStep DEF Keep, Known
  <1>7. ASSUME wchk[w].intent, wchk[w].receipt = Nobody, get_receipt # Nobody,
               Hold(w, "r_save_receipt", wcur[w], found)
        PROVE  IInv' /\ Grows
    <2>1. get_receipt \in Runs
      BY <1>3, <1>7 DEF get_receipt, Files, LocalTypeOK
    <2>2. found \in Checkpoint /\ found.intent /\ found.receipt # Nobody
      BY <1>3, <1>7, <2>1 DEF Checkpoint
    <2>3. [found EXCEPT !.receipt = Nobody] = wchk[w]
      BY <1>3, <1>7 DEF Checkpoint
    <2>4. Arrives(w, "r_save_receipt", wcur[w], found)
      BY <1>3, <2>2 DEF Arrives, InState, Checked, WorkerPc
    <2>5. Extends(checkpoint[wrun[w]], Known("r_save_receipt", found))
      BY <1>3, <2>3 DEF Known
    <2> QED
      BY <1>2, <1>4, <1>7, <2>4, <2>5, ArriveStep
  <1> QED
    BY <1>1, <1>5, <1>6, <1>7

\* The one step that changes the resource.
LEMMA ExecuteMutationKeeps ==
    ASSUME IInv, NEW w \in Workers, ExecuteMutation(w) PROVE IInv' /\ Grows
  <1> DEFINE found == [wchk[w] EXCEPT !.receipt = wrun[w]]
  <1>1. PICK res \in Result \cup {"policy"} :
          /\ execute(wrun[w], wchk[w].evidence, res)
          /\ \/ \E to \in {"RECOVERY_REQUIRED", "DENIED_BY_POLICY", "DEPENDENCY_UNAVAILABLE"} :
                  FailTo(w, to)
             \/ Hold(w, "r_save_receipt", wcur[w], found)
    BY DEF ExecuteMutation
  <1>2. wpc[w] = "r_mutate"
    BY DEF ExecuteMutation
  <1>3. /\ Files /\ wrun[w] \in Runs /\ wcur[w] \in Run /\ Placed(wcur[w])
        /\ wchk[w] \in Checkpoint /\ wcur[w].state = "EXECUTING"
        /\ wchk[w].intent /\ wchk[w].receipt = Nobody
        /\ Extends(checkpoint[wrun[w]], wchk[w])
    BY <1>2, WorkerFacts DEF Holds, InState, Checked, Known
  <1>4. checkpoint[wrun[w]].intent
    BY <1>3 DEF Extends
  <1>5. Files' /\ Grows
    BY <1>1, <1>3, <1>4, ExecuteKeeps
  <1>6. ASSUME NEW to \in {"RECOVERY_REQUIRED", "DENIED_BY_POLICY", "DEPENDENCY_UNAVAILABLE"},
               FailTo(w, to)
        PROVE  IInv' /\ Grows
    BY <1>2, <1>3, <1>5, <1>6, AllowedFailures, AllowedStep
  <1>7. CASE Hold(w, "r_save_receipt", wcur[w], found)
    <2>1. found \in Checkpoint /\ found.intent /\ found.receipt # Nobody
      BY <1>3, LocalAssumption DEF Checkpoint
    <2>2. [found EXCEPT !.receipt = Nobody] = wchk[w]
      BY <1>3 DEF Checkpoint
    <2>3. Arrives(w, "r_save_receipt", wcur[w], found)
      BY <1>3, <2>1 DEF Arrives, InState, Checked, WorkerPc
    <2>4. Extends(checkpoint[wrun[w]], Known("r_save_receipt", found))
      BY <1>3, <2>2 DEF Known
    <2> QED
      BY <1>2, <1>5, <1>7, <2>3, <2>4, ArriveStep
  <1> QED
    BY <1>1, <1>6, <1>7

\* A read-back that is true stays true: nobody changes the resource again.
LEMMA VerifyKeeps ==
    ASSUME IInv, NEW w \in Workers, Verify(w) PROVE IInv' /\ Grows
  <1>1. /\ UNCHANGED <<run, checkpoint, inventory, time>> /\ (UNCHANGED faults \/ Fault)
        /\ \/ FailTo(w, "VERIFICATION_FAILED")
           \/ FailTo(w, "DEPENDENCY_UNAVAILABLE")
           \/ Keep(w, "r_success")
           \/ /\ wchk[w].receipt # Nobody /\ ReadBack(wrun[w], wchk[w].evidence)
              /\ Keep(w, "r_save_verification")
    BY DEF Verify, ReadInventory, local, inventory, time
  <1>2. wpc[w] = "r_verify"
    BY DEF Verify
  <1>3. /\ Files /\ wcur[w] \in Run /\ Placed(wcur[w]) /\ wchk[w] \in Checkpoint
        /\ wcur[w].state = "VERIFYING" /\ Extends(checkpoint[wrun[w]], wchk[w])
    BY <1>2, WorkerFacts DEF Holds, InState, Known
  <1>4. Files' /\ Grows
    BY <1>1, <1>3, FilesUntouched
  <1>5. ASSUME NEW to \in {"VERIFICATION_FAILED", "DEPENDENCY_UNAVAILABLE"}, FailTo(w, to)
        PROVE  IInv' /\ Grows
    BY <1>2, <1>3, <1>4, <1>5, AllowedFailures, AllowedStep
  <1>6. CASE Keep(w, "r_success")
    <2>1. Arrives(w, "r_success", wcur[w], wchk[w])
      BY <1>3 DEF Arrives, InState, Checked, WorkerPc
    <2> QED
      BY <1>2, <1>3, <1>4, <1>6, <2>1, ArriveStep DEF Keep, Known
  <1>7. ASSUME wchk[w].receipt # Nobody, ReadBack(wrun[w], wchk[w].evidence),
               Keep(w, "r_save_verification")
        PROVE  IInv' /\ Grows
    <2>1. /\ "r_save_verification" \in WorkerPc
          /\ InState("r_save_verification", wcur[w].state)
          /\ Checked("r_save_verification", wchk[w], winp[w])
          /\ Failing("r_save_verification", wcur[w].state, wto[w], expired')
          /\ Known("r_save_verification", wchk[w]) = wchk[w]
      BY <1>3, <1>7 DEF InState, Checked, WorkerPc, Failing, Known
    <2>2. wrun[w] \in receipts' /\ resource' = Applied(wchk[w].evidence)
      BY <1>1, <1>7 DEF ReadBack, inventory
    <2> QED
      BY <1>2, <1>3, <1>4, <1>7, <2>1, <2>2, HoldStep DEF Keep
  <1> QED
    BY <1>1, <1>5, <1>6, <1>7

LEMMA HitlStepKeeps ==
    ASSUME IInv, NEW w \in Workers, HitlStep(w) PROVE IInv' /\ Grows
  BY LoadRunKeeps, ApplyTransitionKeeps, ApplyCheckpointKeeps, LastStepKeeps, RequestLoadedKeeps,
     SaveRequestKeeps, DecideLoadedKeeps, SaveDecisionKeeps, ResumeLoadedKeeps, SuccessSavedKeeps,
     CheckExpiryKeeps, SaveIntentKeeps, ResumeAuditKeeps, ResumeMovesKeep, FindReceiptKeeps,
     ExecuteMutationKeeps, SaveReceiptKeeps, VerifyKeeps, SaveVerificationKeeps
  DEF HitlStep

-----------------------------------------------------------------------------
(***************************************************************************)
(* The workflow as a whole                                                 *)
(***************************************************************************)

\* A request arrives.
LEMMA BeginKeeps ==
    ASSUME IInv, NEW w \in Workers, NEW r \in Runs,
           NEW next \in {"f_get_run", "q_load", "d_load", "r_load"},
           NEW input \in [session : Sessions \cup {Nobody}, decision : Decision,
                          request : 0..MaxRequests],
           next = "d_load" => input.decision # "none",
           Begin(w, r, next, input)
    PROVE  IInv' /\ Grows
  <1>1. Files /\ Holds(w) /\ wpc[w] = "idle"
    BY DEF IInv, TypeOK, Files, Begin
  <1>2. UNCHANGED <<run, checkpoint, inventory, time, faults>>
    BY DEF Begin, local, inventory, time
  <1>3. Files' /\ Grows
    BY <1>1, <1>2, FilesUntouched
  <1>4. WorkersTyped' /\ Elsewhere(w)
    BY DEF IInv, TypeOK, WorkersTyped, Elsewhere, Begin, WorkerPc
  <1>5. /\ wpc'[w] = next /\ wrun'[w] = r /\ winp'[w] = input
        /\ wcur'[w] = wcur[w] /\ wchk'[w] = NoCheckpoint /\ wto'[w] = wto[w]
    BY <1>1 DEF IInv, TypeOK, Begin, Holds
  <1>6. Extends(checkpoint'[r], NoCheckpoint)
    BY <1>1, <1>2, StoredIsLater
  <1>7. Known(next, NoCheckpoint) = NoCheckpoint
    BY DEF Known
  <1>8. Holds(w)'
    <2>1. Placed(wcur[w]) /\ r # Nobody
      BY <1>1, LocalAssumption DEF Holds
    <2>2. /\ InState(next, wcur[w].state) /\ Checked(next, NoCheckpoint, input)
          /\ Failing(next, wcur[w].state, wto[w], expired')
      BY DEF InState, Checked, Failing
    <2>3. SeenApplied(w)'
      BY <1>5 DEF SeenApplied
    <2> QED
      BY <1>5, <1>6, <1>7, <2>1, <2>2, <2>3 DEF Holds, Placed
  <1> QED
    BY <1>3, <1>4, <1>8, StepDone

LEMMA HandleKeeps ==
    ASSUME IInv, NEW w \in Workers, handle(w, Runs, Sessions) PROVE IInv' /\ Grows
  <1>1. PICK r \in Runs :
          \/ start(w, r)
          \/ \E s \in Sessions : approval_request(w, r, s) \/ decision(w, r, s) \/ resume(w, r, s)
    BY DEF handle
  <1>2. CASE start(w, r)
    <2>1. NoInput \in [session : Sessions \cup {Nobody}, decision : Decision,
                       request : 0..MaxRequests]
      BY LocalAssumption DEF NoInput, Decision
    <2> QED
      BY <1>2, <2>1, BeginKeeps DEF start, Execute
  <1>3. ASSUME NEW s \in Sessions, NEW next \in {"q_load", "r_load"},
               Begin(w, r, next, [session |-> s, decision |-> "none", request |-> 0])
        PROVE  IInv' /\ Grows
    <2>1. [session |-> s, decision |-> "none", request |-> 0]
            \in [session : Sessions \cup {Nobody}, decision : Decision, request : 0..MaxRequests]
      BY LocalAssumption DEF Decision
    <2> QED
      BY <1>3, <2>1, BeginKeeps
  <1>4. ASSUME NEW s \in Sessions, NEW d \in {"APPROVED", "DENIED"},
               NEW q \in 1..checkpoint[r].request,
               Begin(w, r, "d_load", [session |-> s, decision |-> d, request |-> q])
        PROVE  IInv' /\ Grows
    <2>1. checkpoint[r].request \in 0..MaxRequests
      BY DEF IInv, TypeOK, LocalTypeOK, Checkpoint
    <2>2. q \in 0..MaxRequests
      BY <2>1, LocalAssumption
    <2>3. [session |-> s, decision |-> d, request |-> q]
            \in [session : Sessions \cup {Nobody}, decision : Decision, request : 0..MaxRequests]
      BY <2>2 DEF Decision
    <2> QED
      BY <1>4, <2>3, BeginKeeps
  <1> QED
    BY <1>1, <1>2, <1>3, <1>4
    DEF approval_request, decision, resume, RequestApproval, Decide, Resume

\* Time passes.
LEMMA TimeKeeps ==
    ASSUME IInv, NEW r \in Runs, Lapse(r) \/ Expire(r) PROVE IInv' /\ Grows
  <1>1. /\ UNCHANGED <<run, checkpoint, inventory, faults, workers>>
        /\ expired \subseteq expired' /\ expired' \subseteq expired \cup {r}
        /\ lapsed' \subseteq lapsed \cup {<<r, checkpoint[r].request>>}
        /\ lapsed' = lapsed \/ checkpoint[r].request > 0
    BY DEF Lapse, Expire
  <1>2. LocalTypeOK'
    <2>1. checkpoint[r].request \in 0..MaxRequests
      BY DEF IInv, TypeOK, LocalTypeOK, Checkpoint
    <2>2. lapsed' \subseteq Runs \X (1..MaxRequests)
      BY <1>1, <2>1, LocalAssumption DEF IInv, TypeOK, LocalTypeOK
    <2> QED
      BY <1>1, <2>2 DEF IInv, TypeOK, LocalTypeOK, inventory
  <1>3. OneReceipt' /\ \A q \in Runs : Backed(q)'
    BY <1>1 DEF IInv, OneReceipt, Backed, ReadBack, inventory
  <1>4. Grows
    BY <1>1, ExtendsItself DEF IInv, TypeOK, LocalTypeOK, Grows, inventory
  <1>5. Files'
    BY <1>2, <1>3 DEF Files
  <1>6. ASSUME NEW v \in Workers PROVE Holds(v)'
    BY <1>1, <1>4, <1>5, HoldsElsewhere DEF workers
  <1>7. TypeOK'
    BY <1>1, <1>2 DEF IInv, TypeOK, workers
  <1> QED
    BY <1>3, <1>4, <1>6, <1>7 DEF IInv

LEMMA NextKeeps ==
    ASSUME IInv, [Next]_vars PROVE IInv' /\ Grows
  <1>1. CASE Next
    BY <1>1, HandleKeeps, FirstStepKeeps, HitlStepKeeps, LastStepKeeps, TimeKeeps DEF Next, Step
  <1>2. CASE UNCHANGED vars
    <2>1. Files' /\ Grows
      BY <1>2, FilesUntouched DEF vars, local, inventory, time, IInv, TypeOK, Files
    <2>2. ASSUME NEW v \in Workers PROVE Holds(v)'
      BY <1>2, <2>1, HoldsElsewhere DEF vars, workers
    <2>3. TypeOK'
      BY <1>2, <2>1 DEF IInv, TypeOK, Files, vars, workers
    <2> QED
      BY <2>1, <2>2, <2>3 DEF IInv, Files
  <1> QED
    BY <1>1, <1>2

LEMMA InitHolds == Init => IInv
  <1> SUFFICES ASSUME Init PROVE IInv
    OBVIOUS
  <1>1. LocalTypeOK
    BY LocalAssumption, NoRunType, NoCheckpointType
    DEF Init, LocalInit, LocalTypeOK, Resource
  <1>2. TypeOK
    BY <1>1, LocalAssumption, NoRunType, NoCheckpointType
    DEF Init, WorkersInit, TypeOK, WorkerPc, WorkflowState, NoInput, Decision
  <1>3. OneReceipt
    BY DEF Init, LocalInit, OneReceipt
  <1>4. ASSUME NEW r \in Runs PROVE Backed(r)
    BY NoRunType DEF Init, LocalInit, Backed, ValidCheckpoint, NoCheckpoint, NoRun
  <1>5. ASSUME NEW w \in Workers PROVE Holds(w)
    BY NoRunType, LocalAssumption
    DEF Init, WorkersInit, Holds, InState, Checked, Failing, SeenApplied
  <1> QED
    BY <1>2, <1>3, <1>4, <1>5 DEF IInv

LEMMA Inductive == Spec => []IInv
  <1>1. IInv /\ [Next]_vars => IInv'
    BY NextKeeps
  <1> QED
    BY <1>1, InitHolds, PTL DEF Spec

-----------------------------------------------------------------------------
(***************************************************************************)
(* Decisions                                                               *)
(***************************************************************************)

\* No decision is recorded where there was none.
StillOpen ==
    \A r \in Runs : checkpoint[r].decision = "none" => checkpoint'[r].decision = "none"

\* One is, and it is the answer a worker brought to the challenge stored there.
Answered ==
    \A r \in Runs : checkpoint[r].decision = "none" /\ checkpoint'[r].decision # "none" =>
      \E w \in Workers : /\ wrun[w] = r
                         /\ winp[w].request = checkpoint[r].request
                         /\ winp[w].session = checkpoint[r].session
                         /\ winp[w].decision = checkpoint'[r].decision

\* A save that succeeds replaces the very version its worker holds.
LEMMA SavedFromHeld ==
    ASSUME IInv, NEW w \in Workers, wpc[w] \notin {"idle", "fail", "raised"},
           NEW new, NEW res, save_checkpoint(wrun[w], wchk[w], new, res)
    PROVE  \/ UNCHANGED checkpoint
           \/ /\ wrun[w] \in Runs
              /\ checkpoint[wrun[w]] = Known(wpc[w], wchk[w])
              /\ wchk[w].decision = checkpoint[wrun[w]].decision
              /\ checkpoint' = [checkpoint EXCEPT ![wrun[w]] =
                                  [new EXCEPT !.version = wchk[w].version + 1]]
  <1> DEFINE known == Known(wpc[w], wchk[w])
  <1>1. /\ wrun[w] \in Runs /\ wchk[w] \in Checkpoint /\ Extends(checkpoint[wrun[w]], known)
        /\ Checked(wpc[w], wchk[w], winp[w])
    BY WorkerFacts DEF Holds
  <1>2. known.version = wchk[w].version /\ known.decision = wchk[w].decision
    <2>1. CASE wpc[w] \in {"f_audit_query", "f_evidence_ready", "f_checkpoint_1"}
      <3>1. wchk[w] = [NoCheckpoint EXCEPT !.evidence = wchk[w].evidence]
        BY <1>1, <2>1 DEF Checked
      <3> QED
        BY <2>1, <3>1 DEF Known, NoCheckpoint
    <2>2. CASE wpc[w] \notin {"f_audit_query", "f_evidence_ready", "f_checkpoint_1"}
      BY <1>1, <2>2 DEF Known, Checkpoint
    <2> QED
      BY <2>1, <2>2
  <1> HIDE DEF known
  <1>3. CASE checkpoint[wrun[w]].version = wchk[w].version
    <2>1. checkpoint[wrun[w]] = known
      BY <1>1, <1>2, <1>3 DEF Extends
    <2> QED
      BY <1>1, <1>2, <2>1 DEF save_checkpoint, Mutate, known
  <1>4. CASE checkpoint[wrun[w]].version # wchk[w].version
    BY <1>4 DEF save_checkpoint, Mutate
  <1> QED
    BY <1>3, <1>4

\* A save that neither adds nor changes a decision.
Saves(w, new) ==
    /\ \E res \in Result : save_checkpoint(wrun[w], wchk[w], new, res)
    /\ [new EXCEPT !.version = wchk[w].version + 1].decision \in {"none", wchk[w].decision}

LEMMA SaveStaysOpen ==
    ASSUME IInv, NEW w \in Workers, wpc[w] \notin {"idle", "fail", "raised"},
           NEW new, Saves(w, new)
    PROVE  StillOpen
  <1>1. checkpoint \in [Runs -> Checkpoint]
    BY DEF IInv, TypeOK, LocalTypeOK
  <1>2. PICK res \in Result : save_checkpoint(wrun[w], wchk[w], new, res)
    BY DEF Saves
  <1>3. CASE UNCHANGED checkpoint
    BY <1>3 DEF StillOpen
  <1>4. CASE ~UNCHANGED checkpoint
    <2> DEFINE c == [new EXCEPT !.version = wchk[w].version + 1]
    <2>1. /\ wrun[w] \in Runs /\ wchk[w].decision = checkpoint[wrun[w]].decision
          /\ checkpoint' = [checkpoint EXCEPT ![wrun[w]] = c]
      BY <1>2, <1>4, SavedFromHeld
    <2>2. c.decision \in {"none", checkpoint[wrun[w]].decision}
      BY <2>1 DEF Saves
    <2> HIDE DEF c
    <2> QED
      BY <1>1, <2>1, <2>2 DEF StillOpen
  <1> QED
    BY <1>3, <1>4

\* The saves of execute, request_approval and resume.
LEMMA SavesStayOpen ==
    ASSUME IInv, NEW w \in Workers,
           \/ Checkpoint1(w) \/ TerminalCheckpoint(w) \/ Checkpoint2(w)
           \/ SaveRequest(w) \/ ApplyCheckpoint(w) \/ FixCheckpoint(w) \/ SaveIntent(w)
           \/ SaveReceipt(w) \/ SaveVerification(w) \/ SuccessCheckpoint(w)
    PROVE  StillOpen
  <1>1. wchk[w] \in Checkpoint
    BY DEF IInv, TypeOK
  <1>2. wpc[w] \notin {"idle", "fail", "raised"}
    BY DEF Checkpoint1, TerminalCheckpoint, Checkpoint2, SaveRequest, ApplyCheckpoint,
           CheckpointAt, AfterApply, FixCheckpoint, SaveIntent, SaveReceipt,
           SaveVerification, SuccessCheckpoint
  <1>3. CASE UNCHANGED local
    BY <1>3 DEF local, StillOpen
  <1>4. CASE Checkpoint1(w)
    <2> DEFINE new == [wchk[w] EXCEPT !.safe = "EVIDENCE_READY"]
    <2>1. \E res \in Result : save_checkpoint(wrun[w], wchk[w], new, res)
      BY <1>4 DEF Checkpoint1, SaveHeld
    <2>2. [new EXCEPT !.version = wchk[w].version + 1].decision \in {"none", wchk[w].decision}
      BY <1>1 DEF Checkpoint
    <2> HIDE DEF new
    <2> QED
      BY <1>2, <2>1, <2>2, SaveStaysOpen DEF Saves
  <1>5. CASE TerminalCheckpoint(w)
    <2> DEFINE new == [wchk[w] EXCEPT !.safe = wcur[w].state,
                                        !.proposal = wcur[w].state = "RECOMMENDATION_ONLY"]
    <2>1. \E res \in Result : save_checkpoint(wrun[w], wchk[w], new, res)
      BY <1>5 DEF TerminalCheckpoint, SaveHeld
    <2>2. [new EXCEPT !.version = wchk[w].version + 1].decision \in {"none", wchk[w].decision}
      BY <1>1 DEF Checkpoint
    <2> HIDE DEF new
    <2> QED
      BY <1>2, <2>1, <2>2, SaveStaysOpen DEF Saves
  <1>6. CASE Checkpoint2(w)
    <2> DEFINE new == [wchk[w] EXCEPT !.safe = "AWAITING_APPROVAL", !.proposal = TRUE]
    <2>1. \E res \in Result : save_checkpoint(wrun[w], wchk[w], new, res)
      BY <1>6 DEF Checkpoint2, SaveHeld
    <2>2. [new EXCEPT !.version = wchk[w].version + 1].decision \in {"none", wchk[w].decision}
      BY <1>1 DEF Checkpoint
    <2> HIDE DEF new
    <2> QED
      BY <1>2, <2>1, <2>2, SaveStaysOpen DEF Saves
  <1>7. CASE SaveRequest(w)
    <2> DEFINE new == [wchk[w] EXCEPT !.safe = "AWAITING_APPROVAL", !.request = @ + 1,
                                        !.session = winp[w].session, !.decision = "none",
                                        !.intent = FALSE, !.receipt = Nobody, !.verified = FALSE]
    <2>1. \E res \in Result : save_checkpoint(wrun[w], wchk[w], new, res)
      BY <1>7 DEF SaveRequest, SaveHeld
    <2>2. [new EXCEPT !.version = wchk[w].version + 1].decision \in {"none", wchk[w].decision}
      BY <1>1 DEF Checkpoint
    <2> HIDE DEF new
    <2> QED
      BY <1>2, <2>1, <2>2, SaveStaysOpen DEF Saves
  <1>8. CASE ApplyCheckpoint(w)
    <2> DEFINE new == [wchk[w] EXCEPT !.safe = Target(wchk[w])]
    <2>1. \E res \in Result : save_checkpoint(wrun[w], wchk[w], new, res)
      BY <1>8 DEF ApplyCheckpoint
    <2>2. [new EXCEPT !.version = wchk[w].version + 1].decision \in {"none", wchk[w].decision}
      BY <1>1 DEF Checkpoint
    <2> HIDE DEF new
    <2> QED
      BY <1>2, <2>1, <2>2, SaveStaysOpen DEF Saves
  <1>9. CASE FixCheckpoint(w)
    <2> DEFINE new == [wchk[w] EXCEPT !.safe = "SUCCESS_WITH_EVIDENCE"]
    <2>1. \E res \in Result : save_checkpoint(wrun[w], wchk[w], new, res)
      BY <1>9 DEF FixCheckpoint, SaveHeld
    <2>2. [new EXCEPT !.version = wchk[w].version + 1].decision \in {"none", wchk[w].decision}
      BY <1>1 DEF Checkpoint
    <2> HIDE DEF new
    <2> QED
      BY <1>2, <2>1, <2>2, SaveStaysOpen DEF Saves
  <1>10. CASE SaveIntent(w) /\ ~UNCHANGED local
    <2> DEFINE new == [wchk[w] EXCEPT !.safe = "APPROVED", !.intent = TRUE]
    <2>1. \E res \in Result : save_checkpoint(wrun[w], wchk[w], new, res)
      BY <1>10 DEF SaveIntent, SaveHeld
    <2>2. [new EXCEPT !.version = wchk[w].version + 1].decision \in {"none", wchk[w].decision}
      BY <1>1 DEF Checkpoint
    <2> HIDE DEF new
    <2> QED
      BY <1>2, <2>1, <2>2, SaveStaysOpen DEF Saves
  <1>11. CASE SaveReceipt(w) /\ ~UNCHANGED local
    <2> DEFINE new == [wchk[w] EXCEPT !.safe = "APPROVED"]
    <2>1. \E res \in Result : save_checkpoint(wrun[w], wchk[w], new, res)
      BY <1>11 DEF SaveReceipt, SaveHeld
    <2>2. [new EXCEPT !.version = wchk[w].version + 1].decision \in {"none", wchk[w].decision}
      BY <1>1 DEF Checkpoint
    <2> HIDE DEF new
    <2> QED
      BY <1>2, <2>1, <2>2, SaveStaysOpen DEF Saves
  <1>12. CASE SaveVerification(w)
    <2> DEFINE new == [wchk[w] EXCEPT !.safe = "APPROVED", !.verified = TRUE]
    <2>1. \E res \in Result : save_checkpoint(wrun[w], wchk[w], new, res)
      BY <1>12 DEF SaveVerification, SaveHeld
    <2>2. [new EXCEPT !.version = wchk[w].version + 1].decision \in {"none", wchk[w].decision}
      BY <1>1 DEF Checkpoint
    <2> HIDE DEF new
    <2> QED
      BY <1>2, <2>1, <2>2, SaveStaysOpen DEF Saves
  <1>13. CASE SuccessCheckpoint(w)
    <2> DEFINE new == [wchk[w] EXCEPT !.safe = "SUCCESS_WITH_EVIDENCE"]
    <2>1. \E res \in Result : save_checkpoint(wrun[w], wchk[w], new, res)
      BY <1>13 DEF SuccessCheckpoint, SaveHeld
    <2>2. [new EXCEPT !.version = wchk[w].version + 1].decision \in {"none", wchk[w].decision}
      BY <1>1 DEF Checkpoint
    <2> HIDE DEF new
    <2> QED
      BY <1>2, <2>1, <2>2, SaveStaysOpen DEF Saves
  <1> QED
    BY <1>3, <1>4, <1>5, <1>6, <1>7, <1>8, <1>9, <1>10, <1>11, <1>12, <1>13

\* decide stores its answer only over the version whose challenge it answers.
LEMMA SaveDecisionAnswers ==
    ASSUME IInv, NEW w \in Workers, SaveDecision(w) PROVE Answered
  <1> DEFINE new == [wchk[w] EXCEPT !.safe = "AWAITING_APPROVAL", !.decision = winp[w].decision]
             c == [new EXCEPT !.version = wchk[w].version + 1]
  <1>1. PICK res \in Result : save_checkpoint(wrun[w], wchk[w], new, res)
    BY DEF SaveDecision
  <1>2. wpc[w] = "d_save" /\ wpc[w] \notin {"idle", "fail", "raised"}
    BY DEF SaveDecision
  <1>3. /\ wchk[w] \in Checkpoint /\ decision_matches_request(winp[w], wchk[w])
        /\ checkpoint \in [Runs -> Checkpoint]
    BY <1>2, WorkerFacts DEF Holds, Checked, IInv, TypeOK, LocalTypeOK
  <1>4. c.decision = winp[w].decision
    BY <1>3 DEF Checkpoint
  <1> HIDE DEF new
  <1>5. CASE UNCHANGED checkpoint
    BY <1>5 DEF Answered
  <1>6. CASE ~UNCHANGED checkpoint
    <2>1. /\ wrun[w] \in Runs /\ checkpoint[wrun[w]] = wchk[w]
          /\ checkpoint' = [checkpoint EXCEPT ![wrun[w]] = c]
      BY <1>1, <1>2, <1>6, SavedFromHeld DEF Known
    <2> HIDE DEF c
    <2> QED
      BY <1>3, <1>4, <2>1 DEF Answered, decision_matches_request
  <1> QED
    BY <1>5, <1>6

\* No other step writes a checkpoint.
LEMMA FirstStepAnswers ==
    ASSUME IInv, NEW w \in Workers, FirstStep(w) PROVE Answered
  <1>1. CASE \/ GetRun(w) \/ AuditCreated(w) \/ Raced(w) \/ Reconcile(w) \/ Query(w)
             \/ AuditQuery(w) \/ Plan(w) \/ AuditRejected(w) \/ AuditPlanned(w) \/ AuditEnd(w)
    <2>1. UNCHANGED checkpoint
      BY <1>1 DEF GetRun, AuditCreated, Raced, Reconcile, Query, AuditQuery, Plan, AuditRejected,
                  AuditPlanned, AuditEnd, ReadTruth, ReadInventory, append_audit_event, local
    <2> QED
      BY <2>1 DEF Answered
  <1>2. CASE \/ CreateRun(w) \/ ToInvestigating(w) \/ ToEvidenceReady(w) \/ SafeTerminal(w)
             \/ ToProposed(w) \/ ToAwaiting(w) \/ PersistFailure(w)
    <2>1. UNCHANGED checkpoint
      BY <1>2 DEF CreateRun, ToInvestigating, ToEvidenceReady, SafeTerminal, ToProposed, ToAwaiting,
                  PersistFailure, create_run, transition_run, local
    <2> QED
      BY <2>1 DEF Answered
  <1>3. CASE Checkpoint1(w) \/ TerminalCheckpoint(w) \/ Checkpoint2(w)
    BY <1>3, SavesStayOpen DEF StillOpen, Answered
  <1> QED
    BY <1>1, <1>2, <1>3 DEF FirstStep

LEMMA HitlStepAnswers ==
    ASSUME IInv, NEW w \in Workers, HitlStep(w) PROVE Answered
  <1>1. CASE \/ LoadRun(w) \/ AuditDenial(w) \/ RequestLoaded(w) \/ AuditRequest(w)
             \/ DecideLoaded(w) \/ AuditDecision(w) \/ ResumeLoaded(w) \/ AuditIntent(w)
             \/ AuditExecution(w) \/ AuditReceipt(w) \/ AuditVerification(w)
    <2>1. UNCHANGED checkpoint
      BY <1>1 DEF LoadRun, AuditDenial, RequestLoaded, AuditRequest, DecideLoaded, AuditDecision,
                  ResumeLoaded, AuditIntent, AuditExecution, AuditReceipt, AuditVerification,
                  ReadTruth, append_audit_event
    <2> QED
      BY <2>1 DEF Answered
  <1>2. CASE \/ ApplyTransition(w) \/ CheckExpiry(w) \/ ToExecuting(w) \/ ToVerifying(w)
             \/ ToSuccess(w) \/ FindReceipt(w) \/ ExecuteMutation(w) \/ Verify(w)
             \/ Complete(w) \/ AnswerInternalError(w)
    <2>1. UNCHANGED checkpoint
      BY <1>2 DEF ApplyTransition, CheckExpiry, ToExecuting, ToVerifying, ToSuccess, FindReceipt,
                  ExecuteMutation, Verify, Complete, AnswerInternalError, transition_run,
                  ReadInventory, execute, local
    <2> QED
      BY <2>1 DEF Answered
  <1>3. CASE \/ ApplyCheckpoint(w) \/ SaveRequest(w) \/ FixCheckpoint(w) \/ SaveIntent(w)
             \/ SaveReceipt(w) \/ SaveVerification(w) \/ SuccessCheckpoint(w)
    BY <1>3, SavesStayOpen DEF StillOpen, Answered
  <1>4. CASE SaveDecision(w)
    BY <1>4, SaveDecisionAnswers
  <1> QED
    BY <1>1, <1>2, <1>3, <1>4 DEF HitlStep

LEMMA NextAnswers ==
    ASSUME IInv, [Next]_vars PROVE Answered
  <1>1. ASSUME NEW w \in Workers, Step(w) PROVE Answered
    BY <1>1, FirstStepAnswers, HitlStepAnswers DEF Step
  <1>2. ASSUME NEW w \in Workers, handle(w, Runs, Sessions) \/ Crash(w) PROVE Answered
    BY <1>2 DEF handle, start, approval_request, decision, resume, Execute, RequestApproval, Decide,
                Resume, Begin, Crash, local, Answered
  <1>3. ASSUME NEW r \in Runs, Lapse(r) \/ Expire(r) PROVE Answered
    BY <1>3 DEF Lapse, Expire, Answered
  <1>4. CASE UNCHANGED vars
    BY <1>4 DEF vars, local, Answered
  <1> QED
    BY <1>1, <1>2, <1>3, <1>4 DEF Next

-----------------------------------------------------------------------------
(***************************************************************************)
(* The theorems                                                            *)
(***************************************************************************)

\* However many workers call execute, request_approval, decide and resume on
\* however many runs, whichever process dies between two steps and whichever file
\* operation fails, LocalMockStateStore.execute changes the resource at most once,
\* and only for a run whose stored checkpoint holds the approval and the intent.
THEOREM ResourceChangedOnce == Spec => []MutatedOnceAndApproved
  <1>1. IInv => MutatedOnceAndApproved
    <2> SUFFICES ASSUME IInv PROVE MutatedOnceAndApproved
      OBVIOUS
    <2>1. mutations <= 1
      BY DEF IInv, OneReceipt
    <2>2. ASSUME NEW r \in receipts
          PROVE  checkpoint[r].decision = "APPROVED" /\ checkpoint[r].intent
      BY DEF IInv, TypeOK, LocalTypeOK, Backed, ValidCheckpoint
    <2> QED
      BY <2>1, <2>2 DEF MutatedOnceAndApproved
  <1> QED
    BY <1>1, Inductive, PTL

\* What the store holds of a run is sound at every moment: its checkpoint satisfies
\* the rules it is validated against when it is loaded again, a run shown to a
\* human has the proposal and the evidence it shows, a success has its receipt, its
\* read-back and the change itself, and until a proposal expires no call asks for a
\* transition the table forbids.
THEOREM StoredRunsSound == Spec => []StoredRunsAreSound
  <1>1. IInv => StoredRunsAreSound
    <2> SUFFICES ASSUME IInv PROVE StoredRunsAreSound
      OBVIOUS
    <2>1. SuccessIsBacked
      BY DEF IInv, Backed, SuccessIsBacked, ReadBack
    <2>2. AwaitingIsBacked
      BY DEF IInv, Backed, AwaitingIsBacked, ValidCheckpoint
    <2>3. StoredCheckpointIsValid
      BY DEF IInv, Backed, StoredCheckpointIsValid
    <2>4. NoTransitionError
      BY DEF IInv, Holds, Failing, NoTransitionError
    <2> QED
      BY <2>1, <2>2, <2>3, <2>4 DEF IInv, StoredRunsAreSound
  <1> QED
    BY <1>1, Inductive, PTL

\* decide records an answer only over the challenge it answers, from the session
\* the challenge was issued to; and no later save, from however old a copy, drops
\* or changes a decision, an intent, a receipt or a verification.
THEOREM DecisionsAreKept == Spec => DecisionIsKept
  <1> DEFINE Final == \A r \in Runs : checkpoint[r].decision # "none" =>
                        /\ checkpoint'[r].decision = checkpoint[r].decision
                        /\ checkpoint'[r].request = checkpoint[r].request
                        /\ checkpoint'[r].session = checkpoint[r].session
             Kept == \A r \in Runs :
                        /\ checkpoint[r].intent => checkpoint'[r].intent
                        /\ checkpoint[r].receipt # Nobody =>
                             checkpoint'[r].receipt = checkpoint[r].receipt
                        /\ checkpoint[r].verified => checkpoint'[r].verified
  <1>1. IInv /\ [Next]_vars => [Answered]_vars
    BY NextAnswers
  <1>2. IInv /\ [Next]_vars => [Final]_vars /\ [Kept]_vars
    BY NextKeeps DEF Grows, Extends
  <1>3. Spec => [][Answered]_vars
    BY <1>1, Inductive, PTL DEF Spec
  <1>4. Spec => [][Final]_vars
    BY <1>2, Inductive, PTL DEF Spec
  <1>5. Spec => [][Kept]_vars
    BY <1>2, Inductive, PTL DEF Spec
  <1> QED
    BY <1>3, <1>4, <1>5, PTL
    DEF DecisionIsKept, DecisionAnswersChallenge, DecisionIsFinal, ProofIsKept, Answered

(***************************************************************************)
(* The server: processes that share a token file, the listen queue, the    *)
(* accept loop and its threads                                             *)
(***************************************************************************)

Pc == {"off"} \cup Booting \cup Looping
Process ==
    [pc : Pc, token : Token, slots : 0..MaxConcurrent, queue : Seq(Conns),
     holds : Conns \cup {Absent}, lost : BOOLEAN]
Connection ==
    [at : {"none", "queued", "held", "handling", "release"}, to : Servers \cup {Absent},
     calls : Nat]

ServerTyped ==
    /\ server \in [Servers -> Process]
    /\ conn \in [Conns -> Connection]
    /\ tokenFile = Absent \/ tokenFile \in [made : 1..MaxStarts, written : 0..Whole]
    /\ starts \in 0..MaxStarts

\* What a server believes of the token file: it is the one that writes it, or read it.
TokenIsTheFiles(p) ==
    /\ server[p].pc \in Booting => server[p].token.made \in 1..MaxStarts /\ ~server[p].token.cut
    /\ server[p].pc = "load" => tokenFile # Absent
    /\ server[p].pc \in {"write", "sync"} \cup Looping =>
         tokenFile # Absent /\ server[p].token.made = tokenFile.made

\* The connections that wait in a server's listen queue, and the one its loop holds.
Waiting(p) ==
    /\ \A i \in 1..Len(server[p].queue) :
         conn[server[p].queue[i]].at = "queued" /\ conn[server[p].queue[i]].to = p
    /\ \A i, j \in 1..Len(server[p].queue) : server[p].queue[i] = server[p].queue[j] => i = j
    /\ server[p].pc \in {"slot", "spawn"} =>
         /\ server[p].holds \in Conns
         /\ conn[server[p].holds].at = "held" /\ conn[server[p].holds].to = p
    /\ server[p].pc \notin Looping => server[p].queue = << >>

\* A connection belongs to a server that serves.
Attached(c) ==
    conn[c].at # "none" => conn[c].to \in Servers /\ server[conn[c].to].pc \in Looping

Busy(p) == {c \in Conns : conn[c].to = p /\ conn[c].at \in {"handling", "release"}}
Taken(p) == IF server[p].pc = "spawn" THEN 1 ELSE 0

\* The slots a server has, the one its loop has just taken and those of its threads.
Slots(p) ==
    server[p].pc \in Looping /\ ~server[p].lost =>
        /\ IsFiniteSet(Busy(p))
        /\ server[p].slots + Taken(p) + Cardinality(Busy(p)) = MaxConcurrent

ServerInv ==
    /\ ServerTyped
    /\ \A p \in Servers : TokenIsTheFiles(p) /\ Waiting(p) /\ Slots(p)
    /\ \A c \in Conns : Attached(c)

LEMMA LocalConstants == Absent \notin [made : Nat, written : Nat] /\ MaxConcurrent \in Nat \ {0} /\ MaxStarts \in Nat
  BY ServerAssumption

\* A server that starts up.
LEMMA BootStep ==
    ASSUME ServerInv, NEW p \in Servers, NEW x \in Process, server' = [server EXCEPT ![p] = x],
           server[p].pc \notin Looping, x.queue = << >>, UNCHANGED conn,
           x.pc \in Looping => x.slots = MaxConcurrent /\ x.pc = "select",
           starts' \in 0..MaxStarts,
           \/ UNCHANGED tokenFile
           \/ /\ tokenFile' \in [made : 1..MaxStarts, written : 0..Whole]
              /\ tokenFile # Absent => tokenFile'.made = tokenFile.made,
           TokenIsTheFiles(p)'
    PROVE  ServerInv'
  <1>1. ServerTyped'
    BY DEF ServerInv, ServerTyped
  <1>2. tokenFile # Absent => tokenFile' # Absent /\ tokenFile'.made = tokenFile.made
    BY LocalConstants DEF Whole
  <1>3. ASSUME NEW q \in Servers PROVE TokenIsTheFiles(q)'
    <2>1. CASE q = p
      BY <2>1
    <2>2. CASE q # p
      BY <1>2, <2>2 DEF ServerInv, ServerTyped, TokenIsTheFiles
    <2> QED
      BY <2>1, <2>2
  <1>4. ASSUME NEW q \in Servers PROVE Waiting(q)'
    <2>1. CASE q = p
      BY <2>1 DEF ServerInv, ServerTyped, Waiting, Process, Looping
    <2>2. CASE q # p
      BY <2>2 DEF ServerInv, ServerTyped, Waiting
    <2> QED
      BY <2>1, <2>2
  <1>5. ASSUME NEW c \in Conns PROVE Attached(c)'
    BY DEF ServerInv, ServerTyped, Attached
  <1>6. ASSUME NEW q \in Servers PROVE Slots(q)'
    <2>1. CASE q = p
      <3>1. Busy(p)' = {}
        BY DEF ServerInv, Attached, Busy
      <3>2. IsFiniteSet({}) /\ Cardinality({}) = 0
        BY FS_EmptySet
      <3> QED
        BY <2>1, <3>1, <3>2, LocalConstants DEF ServerInv, ServerTyped, Slots, Taken
    <2>2. CASE q # p
      <3>1. Busy(q)' = Busy(q)
        BY DEF Busy
      <3> QED
        BY <2>2, <3>1 DEF ServerInv, ServerTyped, Slots, Taken
    <2> QED
      BY <2>1, <2>2
  <1> QED
    BY <1>1, <1>3, <1>4, <1>5, <1>6 DEF ServerInv

LEMMA BootKeeps ==
    ASSUME ServerInv, NEW p \in Servers,
           Start(p) \/ LookUp(p) \/ Load(p) \/ Create(p) \/ Write(p) \/ Sync(p)
    PROVE  ServerInv'
  <1> DEFINE s == server[p]
  <1>0. /\ s \in Process /\ server \in [Servers -> Process] /\ starts \in 0..MaxStarts
        /\ tokenFile = Absent \/ tokenFile \in [made : 1..MaxStarts, written : 0..Whole]
        /\ TokenIsTheFiles(p) /\ Waiting(p)
    BY DEF ServerInv, ServerTyped
  <1>1. CASE Start(p)
    <2> DEFINE x == [Off EXCEPT !.pc = "look", !.token = [NoToken EXCEPT !.made = starts + 1]]
    <2>1. starts + 1 \in 1..MaxStarts /\ starts' = starts + 1
      BY <1>0, <1>1, LocalConstants DEF Start
    <2>2. /\ x \in Process /\ x.pc = "look" /\ x.pc \notin Looping /\ x.queue = << >>
          /\ x.token.made = starts + 1 /\ ~x.token.cut
      <3> DEFINE t == [NoToken EXCEPT !.made = starts + 1]
      <3>1. t \in Token /\ t.made = starts + 1 /\ ~t.cut
        <4>1. starts + 1 \in 0..MaxStarts
          BY <1>0, <2>1, LocalConstants
        <4>2. NoToken \in Token
          BY LocalConstants DEF Token, NoToken
        <4>3. t \in Token
          BY <4>1, <4>2 DEF Token
        <4>4. t.made = starts + 1 /\ t.cut = NoToken.cut
          BY <4>2 DEF Token
        <4> QED
          BY <4>3, <4>4 DEF NoToken
      <3>2. Off \in Process /\ "look" \in Pc /\ "look" \notin Looping /\ Off.queue = << >>
        BY LocalConstants DEF Off, NoToken, Process, Token, Pc, Booting, Looping
      <3>3. x = [Off EXCEPT !.pc = "look", !.token = t]
        OBVIOUS
      <3> HIDE DEF t, x
      <3>4. x \in Process
        BY <3>1, <3>2, <3>3 DEF Process
      <3>5. x.pc = "look" /\ x.queue = Off.queue /\ x.token = t
        BY <3>2, <3>3 DEF Process
      <3> QED
        BY <3>1, <3>2, <3>4, <3>5
    <2>3. server' = [server EXCEPT ![p] = x] /\ s.pc \notin Looping /\ UNCHANGED <<conn, tokenFile>>
      BY <1>1 DEF Start, Looping
    <2> HIDE DEF x
    <2>4. TokenIsTheFiles(p)'
      BY <1>0, <2>1, <2>2, <2>3 DEF TokenIsTheFiles, Booting, Looping
    <2>5. starts' \in 0..MaxStarts
      BY <2>1
    <2> QED
      BY <2>2, <2>3, <2>4, <2>5, BootStep
  <1>2. CASE LookUp(p)
    <2> DEFINE x == [s EXCEPT !.pc = IF tokenFile = Absent THEN "create" ELSE "load"]
    <2>1. /\ x \in Process /\ x.pc = (IF tokenFile = Absent THEN "create" ELSE "load")
          /\ x.queue = << >> /\ x.token = s.token /\ x.pc \notin Looping
      BY <1>0, <1>2 DEF LookUp, Process, Pc, Booting, Looping, Waiting
    <2>2. server' = [server EXCEPT ![p] = x] /\ s.pc = "look" /\ UNCHANGED <<conn, tokenFile, starts>>
      BY <1>2 DEF LookUp, At
    <2> HIDE DEF x
    <2>3. TokenIsTheFiles(p)'
      BY <1>0, <2>1, <2>2 DEF TokenIsTheFiles, Booting, Looping
    <2>4. s.pc \notin Looping /\ starts' \in 0..MaxStarts
      BY <1>0, <2>2 DEF Looping
    <2> QED
      BY <2>1, <2>2, <2>3, <2>4, BootStep
  <1>3. ASSUME NEW token \in Token, Serving(p, token), UNCHANGED <<tokenFile, conn, starts>>,
               s.pc \in {"load", "sync"}, tokenFile # Absent, token.made = tokenFile.made
        PROVE  ServerInv'
    <2> DEFINE x == [s EXCEPT !.pc = "select", !.token = token, !.slots = MaxConcurrent]
    <2>0. s.queue = << >> /\ s.pc \notin Looping
      BY <1>0, <1>3 DEF Looping, Waiting
    <2>1. /\ x \in Process /\ x.pc = "select" /\ x.queue = << >> /\ x.slots = MaxConcurrent
          /\ x.token = token
      <3>1. "select" \in Pc /\ MaxConcurrent \in 0..MaxConcurrent
        BY LocalConstants DEF Pc, Looping
      <3> QED
        BY <1>0, <2>0, <3>1 DEF Process
    <2>2. server' = [server EXCEPT ![p] = x]
      BY <1>0, <1>3 DEF Serving
    <2> HIDE DEF x
    <2>3. TokenIsTheFiles(p)'
      BY <1>0, <1>3, <2>1, <2>2 DEF TokenIsTheFiles, Booting, Looping
    <2> QED
      BY <1>0, <1>3, <2>1, <2>2, <2>3, BootStep DEF Looping
  <1>4. CASE Load(p)
    <2>1. s.pc = "load" /\ tokenFile # Absent /\ UNCHANGED <<tokenFile, conn, starts>>
      BY <1>0, <1>4 DEF Load, TokenIsTheFiles
    <2>2. CASE server' = [server EXCEPT ![p] = Off]
      <3>1. Off \in Process /\ Off.pc = "off" /\ Off.queue = << >>
        BY LocalConstants DEF Off, NoToken, Process, Token, Pc
      <3>2. TokenIsTheFiles(p)'
        BY <1>0, <2>2, <3>1 DEF TokenIsTheFiles, Booting, Looping
      <3> QED
        BY <1>0, <2>1, <2>2, <3>1, <3>2, BootStep DEF Looping
    <2>3. CASE Serving(p, [made |-> tokenFile.made, cut |-> tokenFile.written < Whole])
      <3>1. [made |-> tokenFile.made, cut |-> tokenFile.written < Whole] \in Token
        BY <1>0, <2>1 DEF Token, Whole
      <3> QED
        BY <1>3, <2>1, <2>3, <3>1
    <2> QED
      BY <1>4, <2>2, <2>3 DEF Load
  <1>5. CASE Create(p)
    <2>1. s.pc = "create" /\ s.token.made \in 1..MaxStarts /\ UNCHANGED <<conn, starts>>
      BY <1>0, <1>5 DEF Create, TokenIsTheFiles, Booting
    <2>2. \/ /\ tokenFile = Absent /\ tokenFile' = [made |-> s.token.made, written |-> Nothing]
             /\ At(p, "write")
          \/ tokenFile # Absent /\ At(p, "load") /\ UNCHANGED tokenFile
      BY <1>5 DEF Create
    <2> DEFINE x(pc) == [s EXCEPT !.pc = pc]
    <2>3. ASSUME NEW pc \in {"write", "load"}
          PROVE  /\ x(pc) \in Process /\ x(pc).pc = pc /\ x(pc).queue = << >>
                 /\ x(pc).token = s.token
      BY <1>0, <2>1 DEF Process, Pc, Booting, Looping, Waiting
    <2>4. ASSUME NEW pc, At(p, pc) PROVE server' = [server EXCEPT ![p] = x(pc)]
      BY <2>4 DEF At
    <2> HIDE DEF x
    <2>5. CASE tokenFile = Absent /\ tokenFile' = [made |-> s.token.made, written |-> Nothing]
               /\ At(p, "write")
      <3>1. tokenFile' \in [made : 1..MaxStarts, written : 0..Whole] /\ tokenFile' # Absent
        BY <2>1, <2>5, LocalConstants DEF Nothing, Whole
      <3>2. TokenIsTheFiles(p)'
        BY <1>0, <2>1, <2>3, <2>4, <2>5, <3>1 DEF TokenIsTheFiles, Booting, Looping
      <3> QED
        BY <1>0, <2>1, <2>3, <2>4, <2>5, <3>1, <3>2, BootStep DEF Looping
    <2>6. CASE tokenFile # Absent /\ At(p, "load") /\ UNCHANGED tokenFile
      <3>1. TokenIsTheFiles(p)'
        BY <1>0, <2>1, <2>3, <2>4, <2>6 DEF TokenIsTheFiles, Booting, Looping
      <3> QED
        BY <1>0, <2>1, <2>3, <2>4, <2>6, <3>1, BootStep DEF Looping
    <2> QED
      BY <2>2, <2>5, <2>6
  <1>6. CASE Write(p)
    <2>1. PICK written \in tokenFile.written + 1 .. Whole :
            /\ tokenFile' = [tokenFile EXCEPT !.written = written]
            /\ At(p, IF written = Whole THEN "sync" ELSE "write")
      BY <1>6 DEF Write
    <2>2. s.pc = "write" /\ tokenFile # Absent /\ UNCHANGED <<conn, starts>>
      BY <1>0, <1>6 DEF Write, TokenIsTheFiles
    <2>3. tokenFile' \in [made : 1..MaxStarts, written : 0..Whole] /\ tokenFile'.made = tokenFile.made
          /\ tokenFile' # Absent
      BY <1>0, <2>1, <2>2, LocalConstants DEF Whole
    <2> DEFINE pc == IF written = Whole THEN "sync" ELSE "write"
               x == [s EXCEPT !.pc = pc]
    <2>4. /\ x \in Process /\ x.pc \in {"sync", "write"} /\ x.queue = << >>
          /\ x.token = s.token
      BY <1>0, <2>2 DEF Process, Pc, Booting, Looping, Waiting
    <2>5. server' = [server EXCEPT ![p] = x]
      BY <2>1 DEF At
    <2> HIDE DEF x
    <2>6. TokenIsTheFiles(p)'
      BY <1>0, <2>2, <2>3, <2>4, <2>5 DEF TokenIsTheFiles, Booting, Looping
    <2> QED
      BY <1>0, <2>2, <2>3, <2>4, <2>5, <2>6, BootStep DEF Looping
  <1>7. CASE Sync(p)
    <2>1. /\ s.token \in Token /\ s.pc = "sync" /\ tokenFile # Absent
          /\ s.token.made = tokenFile.made /\ Serving(p, s.token)
      BY <1>0, <1>7 DEF Sync, TokenIsTheFiles, Process
    <2> QED
      BY <1>3, <1>7, <2>1 DEF Sync
  <1> QED
    BY <1>1, <1>2, <1>4, <1>5, <1>6, <1>7

\* A server that ends: its connections are closed, whatever state they are in.
LEMMA OffStep ==
    ASSUME ServerInv, NEW p \in Servers, server' = [server EXCEPT ![p] = Off],
           conn' = [c \in Conns |-> IF conn[c].to = p THEN NoConn ELSE conn[c]],
           UNCHANGED <<tokenFile, starts>>
    PROVE  ServerInv'
  <1>1. Off \in Process /\ Off.pc = "off" /\ Off.queue = << >>
    BY LocalConstants DEF Off, NoToken, Process, Token, Pc
  <1>2. NoConn \in Connection /\ NoConn.at = "none"
    BY DEF NoConn, Connection
  <1> HIDE DEF Off, NoConn
  <1>3. ServerTyped'
    BY <1>1, <1>2 DEF ServerInv, ServerTyped
  <1>4. ASSUME NEW q \in Servers PROVE TokenIsTheFiles(q)'
    BY <1>1 DEF ServerInv, ServerTyped, TokenIsTheFiles, Booting, Looping
  <1>5. ASSUME NEW q \in Servers PROVE Waiting(q)'
    <2>1. CASE q = p
      BY <1>1, <2>1 DEF ServerInv, ServerTyped, Waiting, Looping
    <2>2. CASE q # p
      <3>1. server'[q] = server[q] /\ Waiting(q) /\ server[q] \in Process
        BY <2>2 DEF ServerInv, ServerTyped
      <3>2. ASSUME NEW c \in Conns, conn[c].to = q PROVE conn'[c] = conn[c]
        BY <2>2, <3>2
      <3>3. \A i \in 1..Len(server[q].queue) : server[q].queue[i] \in Conns
        BY <3>1 DEF Process
      <3> QED
        BY <3>1, <3>2, <3>3 DEF Waiting
    <2> QED
      BY <2>1, <2>2
  <1>6. ASSUME NEW c \in Conns PROVE Attached(c)'
    BY <1>2 DEF ServerInv, ServerTyped, Attached
  <1>7. ASSUME NEW q \in Servers PROVE Slots(q)'
    <2>1. CASE q = p
      BY <1>1, <2>1 DEF ServerInv, ServerTyped, Slots, Looping
    <2>2. CASE q # p
      <3>1. Busy(q)' = Busy(q)
        BY <1>2, <2>2 DEF Busy
      <3> QED
        BY <2>2, <3>1 DEF ServerInv, ServerTyped, Slots, Taken
    <2> QED
      BY <2>1, <2>2
  <1> QED
    BY <1>3, <1>4, <1>5, <1>6, <1>7 DEF ServerInv

\* A step of a serving server's loop, which keeps its token.
LEMMA LoopStep ==
    ASSUME ServerInv, NEW p \in Servers, server[p].pc \in Looping,
           NEW x \in Process, server' = [server EXCEPT ![p] = x], x.pc \in Looping,
           x.token = server[p].token, UNCHANGED <<tokenFile, starts>>,
           conn' \in [Conns -> Connection],
           \A c \in Conns : conn[c].to # p /\ conn[c].at # "none" => conn'[c] = conn[c],
           \A c \in Conns : conn[c].to = p \/ conn[c].at = "none" =>
                              conn'[c].to = p \/ conn'[c].at = "none",
           Waiting(p)', Slots(p)'
    PROVE  ServerInv'
  <1>1. ServerTyped'
    BY DEF ServerInv, ServerTyped
  <1>2. ASSUME NEW q \in Servers PROVE TokenIsTheFiles(q)'
    BY DEF ServerInv, ServerTyped, TokenIsTheFiles, Booting, Looping
  <1>3. ASSUME NEW q \in Servers, q # p
        PROVE  /\ server'[q] = server[q] /\ server[q] \in Process
               /\ \A c \in Conns : conn[c].to = q /\ conn[c].at # "none" => conn'[c] = conn[c]
               /\ Waiting(q) /\ Slots(q)
    BY <1>3 DEF ServerInv, ServerTyped
  <1>4. ASSUME NEW q \in Servers PROVE Waiting(q)'
    <2>1. CASE q # p
      <3>1. \A i \in 1..Len(server[q].queue) : server[q].queue[i] \in Conns
        BY <1>3, <2>1 DEF Process
      <3> QED
        BY <1>3, <2>1, <3>1 DEF Waiting
    <2> QED
      BY <2>1
  <1>5. ASSUME NEW c \in Conns PROVE Attached(c)'
    BY DEF ServerInv, ServerTyped, Attached
  <1>6. ASSUME NEW q \in Servers PROVE Slots(q)'
    <2>1. CASE q # p
      <3>1. Busy(q)' = Busy(q)
        BY <1>3, <2>1 DEF Busy
      <3> QED
        BY <1>3, <2>1, <3>1 DEF Slots, Taken
    <2> QED
      BY <2>1
  <1> QED
    BY <1>1, <1>2, <1>4, <1>5, <1>6 DEF ServerInv

\* What holds of a server and its queue while its loop runs.
LEMMA LoopFacts ==
    ASSUME ServerInv, NEW p \in Servers, server[p].pc \in Looping
    PROVE  /\ server[p] \in Process /\ server \in [Servers -> Process]
           /\ conn \in [Conns -> Connection] /\ Waiting(p) /\ Slots(p)
           /\ server[p].queue \in Seq(Conns)
           /\ server[p].slots \in 0..MaxConcurrent
  BY DEF ServerInv, ServerTyped, Process

LEMMA ConnectKeeps ==
    ASSUME ServerInv, NEW p \in Servers, NEW c \in Conns, Connect(c, p) PROVE ServerInv'
  <1> DEFINE s == server[p]
             x == [s EXCEPT !.queue = Append(s.queue, c)]
             n == [NoConn EXCEPT !.at = "queued", !.to = p]
  <1>1. /\ conn[c].at = "none" /\ s.pc \in Looping /\ conn' = [conn EXCEPT ![c] = n]
        /\ server' = [server EXCEPT ![p] = x] /\ UNCHANGED <<tokenFile, starts>>
    BY DEF Connect
  <1>2. /\ s \in Process /\ conn \in [Conns -> Connection] /\ Waiting(p) /\ Slots(p)
        /\ s.queue \in Seq(Conns) /\ server \in [Servers -> Process]
    BY <1>1, LoopFacts
  <1>3. n \in Connection /\ n.at = "queued" /\ n.to = p
    BY DEF NoConn, Connection
  <1>4. /\ x \in Process /\ x.pc = s.pc /\ x.token = s.token /\ x.slots = s.slots
        /\ x.holds = s.holds /\ x.lost = s.lost /\ x.queue = Append(s.queue, c)
    <2>1. Append(s.queue, c) \in Seq(Conns)
      BY <1>2
    <2> DEFINE q == Append(s.queue, c)
    <2> HIDE DEF q
    <2>2. x = [s EXCEPT !.queue = q]
      BY DEF q
    <2> HIDE DEF x
    <2>3. q \in Seq(Conns)
      BY <2>1 DEF q
    <2> QED
      BY <1>2, <2>2, <2>3 DEF Process, q
  <1> HIDE DEF x, n
  <1>5. Waiting(p)'
    <2>1. \A i \in 1..Len(s.queue) : s.queue[i] # c
      BY <1>1, <1>2 DEF Waiting
    <2>2. /\ Len(x.queue) = Len(s.queue) + 1 /\ x.queue[Len(s.queue) + 1] = c
          /\ \A i \in 1..Len(s.queue) : x.queue[i] = s.queue[i]
          /\ Len(s.queue) \in Nat
      BY <1>2, <1>4
    <2>3. \A i \in 1..Len(s.queue) : s.queue[i] \in Conns
      BY <1>2
    <2>4. server'[p] = x
      BY <1>1, <1>2
    <2>5. \A d \in Conns : d # c => conn'[d] = conn[d]
      BY <1>1, <1>2
    <2>6. conn'[c] = n
      BY <1>1, <1>2
    <2>7. ASSUME NEW k \in 1..Len(x.queue)
          PROVE  \/ k \in 1..Len(s.queue) /\ x.queue[k] = s.queue[k] /\ x.queue[k] # c
                 \/ k = Len(s.queue) + 1 /\ x.queue[k] = c
      <3>1. k \in 1..Len(s.queue) \/ k = Len(s.queue) + 1
        BY <2>2
      <3>2. ASSUME k \in 1..Len(s.queue) PROVE x.queue[k] = s.queue[k] /\ x.queue[k] # c
        BY <2>1, <2>2, <3>2
      <3> QED
        BY <2>2, <3>1, <3>2
    <2>8. ASSUME NEW i \in 1..Len(x.queue)
          PROVE  conn'[x.queue[i]].at = "queued" /\ conn'[x.queue[i]].to = p
      <3>1. CASE x.queue[i] = c
        BY <1>3, <2>6, <3>1
      <3>2. CASE x.queue[i] # c
        <4>1. i \in 1..Len(s.queue) /\ x.queue[i] = s.queue[i] /\ s.queue[i] \in Conns
          BY <2>3, <2>7, <3>2
        <4>2. conn[s.queue[i]].at = "queued" /\ conn[s.queue[i]].to = p
          BY <1>2, <4>1 DEF Waiting
        <4> QED
          BY <2>5, <3>2, <4>1, <4>2
      <3> QED
        BY <3>1, <3>2
    <2>9. ASSUME NEW i \in 1..Len(x.queue), NEW j \in 1..Len(x.queue), x.queue[i] = x.queue[j]
          PROVE  i = j
      <3>1. CASE x.queue[i] = c
        BY <2>7, <2>9, <3>1
      <3>2. CASE x.queue[i] # c
        <4>1. i \in 1..Len(s.queue) /\ j \in 1..Len(s.queue) /\ s.queue[i] = s.queue[j]
          BY <2>7, <2>9, <3>2
        <4> QED
          BY <1>2, <4>1 DEF Waiting
      <3> QED
        BY <3>1, <3>2
    <2>10. s.pc \in {"slot", "spawn"} =>
            /\ s.holds \in Conns
            /\ conn'[s.holds].at = "held" /\ conn'[s.holds].to = p
      BY <1>1, <1>2, <2>5 DEF Waiting
    <2>11. server'[p].queue = x.queue /\ server'[p].pc = s.pc /\ server'[p].holds = s.holds
      BY <1>4, <2>4
    <2> QED
      BY <1>1, <2>8, <2>9, <2>10, <2>11 DEF Waiting
  <1>6. Slots(p)'
    <2>1. Busy(p)' = Busy(p)
      BY <1>1, <1>2, <1>3 DEF Busy
    <2> QED
      BY <1>1, <1>2, <1>4, <2>1 DEF Slots, Taken
  <1>7. /\ conn' \in [Conns -> Connection]
        /\ \A d \in Conns : conn[d].to # p /\ conn[d].at # "none" => conn'[d] = conn[d]
        /\ \A d \in Conns : conn[d].to = p \/ conn[d].at = "none" =>
                              conn'[d].to = p \/ conn'[d].at = "none"
    BY <1>1, <1>2, <1>3
  <1> QED
    BY <1>1, <1>4, <1>5, <1>6, <1>7, LoopStep

LEMMA AcceptKeeps ==
    ASSUME ServerInv, NEW p \in Servers, Accept(p) PROVE ServerInv'
  <1> DEFINE s == server[p]
             h == Head(s.queue)
             x == [s EXCEPT !.pc = "slot", !.holds = h, !.queue = Tail(s.queue)]
             n == [conn[h] EXCEPT !.at = "held"]
  <1>1. /\ s.pc = "select" /\ s.queue # << >> /\ s.pc \in Looping
        /\ server' = [server EXCEPT ![p] = x] /\ UNCHANGED <<tokenFile, starts>>
        /\ conn' = [conn EXCEPT ![h] = n]
    BY DEF Accept, Looping
  <1>2. /\ s \in Process /\ conn \in [Conns -> Connection] /\ Waiting(p) /\ Slots(p)
        /\ s.queue \in Seq(Conns) /\ server \in [Servers -> Process]
    BY <1>1, LoopFacts
  <1>3. /\ h \in Conns /\ h = s.queue[1] /\ Len(s.queue) \in Nat /\ Len(s.queue) >= 1
        /\ Tail(s.queue) \in Seq(Conns) /\ Len(Tail(s.queue)) = Len(s.queue) - 1
        /\ \A i \in 1..Len(Tail(s.queue)) : Tail(s.queue)[i] = s.queue[i + 1]
    BY <1>1, <1>2
  <1>4. conn[h].at = "queued" /\ conn[h].to = p
    BY <1>2, <1>3 DEF Waiting
  <1>5. /\ x \in Process /\ x.pc = "slot" /\ x.token = s.token /\ x.slots = s.slots
        /\ x.holds = h /\ x.lost = s.lost /\ x.queue = Tail(s.queue)
    BY <1>2, <1>3 DEF Process, Pc, Looping
  <1>6. n \in Connection /\ n.at = "held" /\ n.to = p
    BY <1>2, <1>3, <1>4 DEF Connection
  <1> HIDE DEF x, n, h
  <1>7. Waiting(p)'
    <2>1. server'[p] = x /\ conn'[h] = n /\ \A d \in Conns : d # h => conn'[d] = conn[d]
      BY <1>1, <1>2, <1>3
    <2>2. ASSUME NEW i \in 1..Len(x.queue)
          PROVE  /\ i + 1 \in 1..Len(s.queue) /\ x.queue[i] = s.queue[i + 1]
                 /\ s.queue[i + 1] \in Conns /\ s.queue[i + 1] # h
      <3>1. i + 1 \in 1..Len(s.queue) /\ 1 \in 1..Len(s.queue) /\ i + 1 # 1
        BY <1>3, <1>5
      <3> QED
        BY <1>2, <1>3, <1>5, <3>1 DEF Waiting
    <2>3. \A i \in 1..Len(x.queue) :
            conn'[x.queue[i]].at = "queued" /\ conn'[x.queue[i]].to = p
      BY <1>2, <2>1, <2>2 DEF Waiting
    <2>4. \A i, j \in 1..Len(x.queue) : x.queue[i] = x.queue[j] => i = j
      BY <1>2, <2>2 DEF Waiting
    <2>5. server'[p].queue = x.queue /\ server'[p].pc = "slot" /\ server'[p].holds = h
      BY <1>5, <2>1
    <2>6. conn'[h].at = "held" /\ conn'[h].to = p
      BY <1>6, <2>1
    <2> QED
      BY <1>3, <2>3, <2>4, <2>5, <2>6 DEF Waiting, Looping
  <1>8. Slots(p)'
    <2>1. Busy(p)' = Busy(p)
      BY <1>1, <1>2, <1>3, <1>4, <1>6 DEF Busy
    <2> QED
      BY <1>1, <1>2, <1>5, <2>1 DEF Slots, Taken, Looping
  <1>9. x.pc \in Looping
    BY <1>5 DEF Looping
  <1>10. /\ conn' \in [Conns -> Connection]
         /\ \A c \in Conns : conn[c].to # p /\ conn[c].at # "none" => conn'[c] = conn[c]
         /\ \A c \in Conns : conn[c].to = p \/ conn[c].at = "none" =>
                               conn'[c].to = p \/ conn'[c].at = "none"
    BY <1>1, <1>2, <1>3, <1>4, <1>6
  <1> QED
    BY <1>1, <1>5, <1>7, <1>8, <1>9, <1>10, LoopStep

LEMMA AcquireKeeps ==
    ASSUME ServerInv, NEW p \in Servers, Acquire(p) PROVE ServerInv'
  <1> DEFINE s == server[p]
             x == [s EXCEPT !.pc = "spawn", !.slots = s.slots - 1]
  <1>1. /\ s.pc = "slot" /\ s.slots > 0 /\ s.pc \in Looping /\ UNCHANGED <<tokenFile, starts, conn>>
        /\ server' = [server EXCEPT ![p] = x]
    BY DEF Acquire, Looping
  <1>2. /\ s \in Process /\ server \in [Servers -> Process] /\ conn \in [Conns -> Connection]
        /\ Waiting(p) /\ Slots(p) /\ s.slots \in 0..MaxConcurrent
    BY <1>1, LoopFacts
  <1>3. s.slots - 1 \in 0..MaxConcurrent /\ "spawn" \in Pc /\ "spawn" \in Looping
    BY <1>1, <1>2, LocalConstants DEF Pc, Looping
  <1>4. /\ x \in Process /\ x.pc = "spawn" /\ x.token = s.token /\ x.slots = s.slots - 1
        /\ x.holds = s.holds /\ x.lost = s.lost /\ x.queue = s.queue
    BY <1>2, <1>3 DEF Process
  <1> HIDE DEF x
  <1>5. server'[p] = x
    BY <1>1, <1>2
  <1>6. Waiting(p)'
    BY <1>1, <1>2, <1>3, <1>4, <1>5 DEF Waiting
  <1>7. Slots(p)'
    <2>1. Busy(p)' = Busy(p)
      BY <1>1 DEF Busy
    <2>2. CASE s.lost
      BY <1>4, <1>5, <2>2 DEF Slots
    <2>3. CASE ~s.lost
      <3>1. IsFiniteSet(Busy(p)) /\ s.slots + 0 + Cardinality(Busy(p)) = MaxConcurrent
        BY <1>1, <1>2, <2>3 DEF Slots, Taken
      <3>2. Cardinality(Busy(p)) \in Nat
        BY <3>1, FS_CardinalityType
      <3> QED
        BY <1>2, <1>4, <1>5, <2>1, <3>1, <3>2, LocalConstants DEF Slots, Taken
    <2> QED
      BY <2>2, <2>3
  <1> QED
    BY <1>1, <1>2, <1>3, <1>4, <1>6, <1>7, LoopStep

LEMMA SpawnedKeeps ==
    ASSUME ServerInv, NEW p \in Servers, server[p].pc = "spawn", At(p, "spawned"),
           conn' = [conn EXCEPT ![server[p].holds].at = "handling"],
           UNCHANGED <<tokenFile, starts>>
    PROVE  ServerInv'
  <1> DEFINE s == server[p]
             h == s.holds
             x == [s EXCEPT !.pc = "spawned"]
             n == [conn[h] EXCEPT !.at = "handling"]
  <1>1. /\ s.pc = "spawn" /\ s.pc \in Looping /\ server' = [server EXCEPT ![p] = x]
        /\ conn' = [conn EXCEPT ![h] = n]
    BY DEF At, Looping
  <1>2. /\ s \in Process /\ server \in [Servers -> Process] /\ conn \in [Conns -> Connection]
        /\ Waiting(p) /\ Slots(p) /\ s.slots \in 0..MaxConcurrent /\ s.queue \in Seq(Conns)
    BY <1>1, LoopFacts
  <1>3. h \in Conns /\ conn[h].at = "held" /\ conn[h].to = p
    BY <1>1, <1>2 DEF Waiting
  <1>4. "spawned" \in Pc /\ "spawned" \in Looping
    BY DEF Pc, Looping
  <1>5. /\ x \in Process /\ x.pc = "spawned" /\ x.token = s.token /\ x.slots = s.slots
        /\ x.lost = s.lost /\ x.queue = s.queue
    BY <1>2, <1>4 DEF Process
  <1>6. n \in Connection /\ n.at = "handling" /\ n.to = p
    BY <1>2, <1>3 DEF Connection
  <1> HIDE DEF x, n, h
  <1>7. server'[p] = x /\ conn'[h] = n /\ \A c \in Conns : c # h => conn'[c] = conn[c]
    BY <1>1, <1>2, <1>3
  <1>8. Waiting(p)'
    <2>1. \A i \in 1..Len(s.queue) : s.queue[i] \in Conns /\ s.queue[i] # h
      BY <1>2, <1>3 DEF Waiting
    <2> QED
      BY <1>2, <1>4, <1>5, <1>7, <2>1 DEF Waiting
  <1>9. Slots(p)'
    <2>1. Busy(p)' = Busy(p) \cup {h} /\ h \notin Busy(p)
      BY <1>2, <1>3, <1>6, <1>7 DEF Busy
    <2>2. CASE s.lost
      BY <1>5, <1>7, <2>2 DEF Slots
    <2>3. CASE ~s.lost
      <3>1. IsFiniteSet(Busy(p)) /\ s.slots + 1 + Cardinality(Busy(p)) = MaxConcurrent
        BY <1>1, <1>2, <2>3 DEF Slots, Taken
      <3>2. /\ IsFiniteSet(Busy(p) \cup {h}) /\ Cardinality(Busy(p)) \in Nat
            /\ Cardinality(Busy(p) \cup {h}) = Cardinality(Busy(p)) + 1
        BY <2>1, <3>1, FS_AddElement, FS_CardinalityType
      <3> QED
        BY <1>2, <1>5, <1>7, <2>1, <3>1, <3>2, LocalConstants DEF Slots, Taken
    <2> QED
      BY <2>2, <2>3
  <1>10. /\ conn' \in [Conns -> Connection]
         /\ \A c \in Conns : conn[c].to # p /\ conn[c].at # "none" => conn'[c] = conn[c]
         /\ \A c \in Conns : conn[c].to = p \/ conn[c].at = "none" =>
                               conn'[c].to = p \/ conn'[c].at = "none"
    BY <1>1, <1>2, <1>3, <1>6, <1>7
  <1> QED
    BY <1>1, <1>4, <1>5, <1>8, <1>9, <1>10, LoopStep

\* The loop drops the connection it holds, or leaves it to its thread.
LEMMA BackToSelect ==
    ASSUME ServerInv, NEW p \in Servers, server[p].pc \in {"slot", "spawn", "spawned"},
           NEW slots \in 0..MaxConcurrent, NEW lost \in BOOLEAN,
           server' = [server EXCEPT ![p] = [server[p] EXCEPT !.pc = "select", !.slots = slots,
                                                             !.holds = Absent, !.lost = lost]],
           \/ UNCHANGED conn
           \/ /\ server[p].pc \in {"slot", "spawn"}
              /\ conn' = [conn EXCEPT ![server[p].holds] = NoConn],
           server[p].lost => lost,
           ~lost => slots = server[p].slots + Taken(p),
           UNCHANGED <<tokenFile, starts>>
    PROVE  ServerInv'
  <1> DEFINE s == server[p]
             h == s.holds
             x == [s EXCEPT !.pc = "select", !.slots = slots, !.holds = Absent, !.lost = lost]
  <1>1. s.pc \in Looping /\ server' = [server EXCEPT ![p] = x]
    BY DEF Looping
  <1>2. /\ s \in Process /\ server \in [Servers -> Process] /\ conn \in [Conns -> Connection]
        /\ Waiting(p) /\ Slots(p) /\ s.slots \in 0..MaxConcurrent /\ s.queue \in Seq(Conns)
    BY <1>1, LoopFacts
  <1>3. NoConn \in Connection /\ NoConn.at = "none"
    BY DEF NoConn, Connection
  <1>4. "select" \in Pc /\ "select" \in Looping
    BY DEF Pc, Looping
  <1>5. /\ x \in Process /\ x.pc = "select" /\ x.token = s.token /\ x.slots = slots
        /\ x.lost = lost /\ x.queue = s.queue
    BY <1>2, <1>4 DEF Process
  <1> HIDE DEF x, NoConn
  <1>6. server'[p] = x
    BY <1>1, <1>2
  <1>7. ASSUME s.pc \in {"slot", "spawn"}
        PROVE  h \in Conns /\ conn[h].at = "held" /\ conn[h].to = p
    BY <1>2, <1>7 DEF Waiting
  <1>8. ASSUME NEW c \in Conns, conn[c].at # "held" PROVE conn'[c] = conn[c]
    BY <1>2, <1>7, <1>8
  <1>9. ASSUME NEW c \in Conns, conn'[c] # conn[c] PROVE conn[c].to = p /\ conn'[c] = NoConn
    BY <1>2, <1>7, <1>9
  <1>10. Waiting(p)'
    <2>1. \A i \in 1..Len(s.queue) : s.queue[i] \in Conns /\ conn'[s.queue[i]] = conn[s.queue[i]]
      BY <1>2, <1>8 DEF Waiting
    <2> QED
      BY <1>2, <1>4, <1>5, <1>6, <2>1 DEF Waiting
  <1>11. Slots(p)'
    <2>1. Busy(p)' = Busy(p)
      <3>1. ASSUME NEW c \in Conns
            PROVE  (conn'[c].to = p /\ conn'[c].at \in {"handling", "release"})
                     <=> (conn[c].to = p /\ conn[c].at \in {"handling", "release"})
        BY <1>3, <1>8, <1>9
      <3> QED
        BY <3>1 DEF Busy
    <2>2. CASE lost
      BY <1>5, <1>6, <2>2 DEF Slots
    <2>3. CASE ~lost
      <3>1. /\ ~s.lost /\ IsFiniteSet(Busy(p))
            /\ s.slots + Taken(p) + Cardinality(Busy(p)) = MaxConcurrent
        BY <1>1, <1>2, <2>3 DEF Slots
      <3>2. Cardinality(Busy(p)) \in Nat /\ Taken(p) \in Nat
        BY <3>1, FS_CardinalityType DEF Taken
      <3>3. Taken(p)' = 0
        BY <1>5, <1>6 DEF Taken
      <3> QED
        BY <1>2, <1>5, <1>6, <2>1, <2>3, <3>1, <3>2, <3>3 DEF Slots
    <2> QED
      BY <2>2, <2>3
  <1>12. /\ conn' \in [Conns -> Connection]
         /\ \A c \in Conns : conn[c].to # p /\ conn[c].at # "none" => conn'[c] = conn[c]
         /\ \A c \in Conns : conn[c].to = p \/ conn[c].at = "none" =>
                               conn'[c].to = p \/ conn'[c].at = "none"
    BY <1>2, <1>3, <1>9
  <1> QED
    BY <1>1, <1>4, <1>5, <1>10, <1>11, <1>12, LoopStep

LEMMA SpawnKeeps ==
    ASSUME ServerInv, NEW p \in Servers, Spawn(p) PROVE ServerInv'
  <1> DEFINE s == server[p]
  <1>1. s.pc = "spawn" /\ s.pc \in Looping /\ UNCHANGED <<tokenFile, starts>>
    BY DEF Spawn, Looping
  <1>2. s \in Process /\ Slots(p) /\ s.slots \in 0..MaxConcurrent /\ s.lost \in BOOLEAN
    BY <1>1, LoopFacts DEF Process
  <1>3. CASE At(p, "spawned") /\ conn' = [conn EXCEPT ![server[p].holds].at = "handling"]
    BY <1>1, <1>3, SpawnedKeeps
  <1>4. CASE Dropped(p, Released(p))
    <2>1. Released(p) \in 0..MaxConcurrent
      BY <1>2, LocalConstants DEF Released
    <2>2. ASSUME ~s.lost PROVE Released(p) = s.slots + Taken(p)
      <3>1. IsFiniteSet(Busy(p)) /\ s.slots + 1 + Cardinality(Busy(p)) = MaxConcurrent
        BY <1>1, <1>2, <2>2 DEF Slots, Taken
      <3>2. Cardinality(Busy(p)) \in Nat
        BY <3>1, FS_CardinalityType
      <3>3. s.slots < MaxConcurrent
        BY <1>2, <3>1, <3>2, LocalConstants
      <3> QED
        BY <1>1, <3>3 DEF Released, Taken
    <2> DEFINE slots == Released(p)
               lost == s.lost
    <2>3. /\ server' = [server EXCEPT ![p] = [server[p] EXCEPT !.pc = "select", !.slots = slots,
                                                !.holds = Absent, !.lost = lost]]
          /\ conn' = [conn EXCEPT ![server[p].holds] = NoConn]
      <3>1. conn' = [conn EXCEPT ![server[p].holds] = NoConn]
        BY <1>4 DEF Dropped
      <3>2. server' = [server EXCEPT ![p] = [server[p] EXCEPT !.pc = "select", !.slots = slots,
                                               !.holds = Absent]]
        BY <1>4 DEF Dropped
      <3>3. [s EXCEPT !.pc = "select", !.slots = slots, !.holds = Absent]
              = [s EXCEPT !.pc = "select", !.slots = slots, !.holds = Absent, !.lost = lost]
        BY <1>2 DEF Process
      <3> QED
        BY <3>1, <3>2, <3>3
    <2>4. slots \in 0..MaxConcurrent /\ lost \in BOOLEAN /\ (s.lost => lost)
          /\ (~lost => slots = s.slots + Taken(p))
      BY <1>2, <2>1, <2>2
    <2> HIDE DEF slots, lost
    <2> QED
      BY <1>1, <2>3, <2>4, BackToSelect
  <1> QED
    BY <1>3, <1>4 DEF Spawn

LEMMA ReturnKeeps ==
    ASSUME ServerInv, NEW p \in Servers, Return(p) PROVE ServerInv'
  <1> DEFINE s == server[p]
             slots == s.slots
             lost == s.lost
  <1>1. s.pc = "spawned" /\ s.pc \in Looping /\ UNCHANGED <<tokenFile, starts, conn>>
    BY DEF Return, Looping
  <1>2. s \in Process /\ slots \in 0..MaxConcurrent /\ lost \in BOOLEAN
    BY <1>1, LoopFacts DEF Process
  <1>3. server' = [server EXCEPT ![p] = [s EXCEPT !.pc = "select", !.holds = Absent]]
    BY DEF Return
  <1>4. [s EXCEPT !.pc = "select", !.holds = Absent]
          = [s EXCEPT !.pc = "select", !.slots = slots, !.holds = Absent, !.lost = lost]
    BY <1>2 DEF Process
  <1>5. (s.lost => lost) /\ (~lost => slots = s.slots + Taken(p))
    BY <1>1, <1>2 DEF Taken
  <1>6. server' = [server EXCEPT ![p] = [server[p] EXCEPT !.pc = "select", !.slots = slots,
                                           !.holds = Absent, !.lost = lost]]
    BY <1>3, <1>4
  <1> HIDE DEF slots, lost
  <1> QED
    BY <1>1, <1>2, <1>5, <1>6, BackToSelect

LEMMA SignalKeeps ==
    ASSUME ServerInv, NEW p \in Servers, Signal(p) PROVE ServerInv'
  <1>1. UNCHANGED <<tokenFile, starts>>
    BY DEF Signal
  <1>2. CASE /\ server' = [server EXCEPT ![p] = Off]
             /\ conn' = [c \in Conns |-> IF conn[c].to = p THEN NoConn ELSE conn[c]]
    BY <1>1, <1>2, OffStep
  <1>3. ASSUME NEW slots \in 0..MaxConcurrent,
               server[p].pc \in {"slot", "spawn", "spawned"},
               server' = [server EXCEPT ![p].pc = "select", ![p].slots = slots,
                                        ![p].holds = Absent, ![p].lost = TRUE],
               conn' = IF server[p].pc = "spawned" THEN conn
                       ELSE [conn EXCEPT ![server[p].holds] = NoConn]
        PROVE  ServerInv'
    <2>1. server' = [server EXCEPT ![p] = [server[p] EXCEPT !.pc = "select", !.slots = slots,
                                             !.holds = Absent, !.lost = TRUE]]
      BY <1>3
    <2>2. \/ UNCHANGED conn
          \/ /\ server[p].pc \in {"slot", "spawn"}
             /\ conn' = [conn EXCEPT ![server[p].holds] = NoConn]
      BY <1>3
    <2>3. TRUE \in BOOLEAN
      OBVIOUS
    <2> QED
      BY <1>1, <1>3, <2>1, <2>2, <2>3, BackToSelect
  <1> QED
    BY <1>2, <1>3 DEF Signal

LEMMA DieKeeps ==
    ASSUME ServerInv, NEW p \in Servers, Die(p) PROVE ServerInv'
  BY OffStep DEF Die

\* What holds of the connection a thread works for.
LEMMA ThreadFacts ==
    ASSUME ServerInv, NEW c \in Conns, conn[c].at \in {"handling", "release"}
    PROVE  /\ conn[c].to \in Servers /\ server[conn[c].to].pc \in Looping
           /\ conn[c] \in Connection
  BY DEF ServerInv, ServerTyped, Attached

\* A thread that changes only its own connection, and remains busy with it.
LEMMA BusyStep ==
    ASSUME ServerInv, NEW c \in Conns, conn[c].at \in {"handling", "release"},
           NEW n \in Connection, n.to = conn[c].to, n.at \in {"handling", "release"},
           conn' = [conn EXCEPT ![c] = n], UNCHANGED <<tokenFile, server, starts>>
    PROVE  ServerInv'
  <1>2. PICK p \in Servers : p = conn[c].to
    BY ThreadFacts
  <1> DEFINE s == server[p]
  <1>1. s.pc \in Looping
    BY <1>2, ThreadFacts
  <1>3. /\ s \in Process /\ server \in [Servers -> Process] /\ conn \in [Conns -> Connection]
        /\ Waiting(p) /\ Slots(p) /\ s.queue \in Seq(Conns)
    BY <1>1, LoopFacts
  <1>4. conn'[c] = n /\ \A d \in Conns : d # c => conn'[d] = conn[d]
    BY <1>3
  <1>5. Waiting(p)'
    <2>1. \A i \in 1..Len(s.queue) : s.queue[i] \in Conns /\ s.queue[i] # c
      BY <1>3 DEF Waiting
    <2>2. s.pc \in {"slot", "spawn"} => s.holds # c
      BY <1>3 DEF Waiting
    <2> QED
      BY <1>3, <1>4, <2>1, <2>2 DEF Waiting
  <1>6. Slots(p)'
    <2>1. Busy(p)' = Busy(p)
      BY <1>2, <1>4 DEF Busy
    <2> QED
      BY <1>3, <2>1 DEF Slots, Taken
  <1>7. /\ conn' \in [Conns -> Connection]
        /\ \A d \in Conns : conn[d].to # p /\ conn[d].at # "none" => conn'[d] = conn[d]
        /\ \A d \in Conns : conn[d].to = p \/ conn[d].at = "none" =>
                              conn'[d].to = p \/ conn'[d].at = "none"
    BY <1>2, <1>3, <1>4
  <1>8. server' = [server EXCEPT ![p] = s]
    BY <1>3
  <1> QED
    BY <1>1, <1>3, <1>5, <1>6, <1>7, <1>8, LoopStep

LEMMA DispatchKeeps ==
    ASSUME ServerInv, NEW c \in Conns, Dispatch(c) PROVE ServerInv'
  <1> DEFINE n == [conn[c] EXCEPT !.calls = conn[c].calls + 1]
  <1>1. /\ conn[c].at = "handling" /\ conn' = [conn EXCEPT ![c] = n]
        /\ UNCHANGED <<tokenFile, server, starts>>
    BY DEF Dispatch
  <1>2. conn[c] \in Connection
    BY <1>1, ThreadFacts
  <1>3. n \in Connection /\ n.to = conn[c].to /\ n.at = "handling"
    BY <1>1, <1>2 DEF Connection
  <1> HIDE DEF n
  <1> QED
    BY <1>1, <1>3, BusyStep

LEMMA FinishKeeps ==
    ASSUME ServerInv, NEW c \in Conns, Finish(c) PROVE ServerInv'
  <1> DEFINE n == [conn[c] EXCEPT !.at = "release"]
  <1>1. /\ conn[c].at = "handling" /\ conn' = [conn EXCEPT ![c] = n]
        /\ UNCHANGED <<tokenFile, server, starts>>
    BY DEF Finish
  <1>2. conn[c] \in Connection
    BY <1>1, ThreadFacts
  <1>3. n \in Connection /\ n.to = conn[c].to /\ n.at = "release"
    BY <1>1, <1>2 DEF Connection
  <1> HIDE DEF n
  <1> QED
    BY <1>1, <1>3, BusyStep

LEMMA ReleaseKeeps ==
    ASSUME ServerInv, NEW c \in Conns, Release(c) PROVE ServerInv'
  <1>3. PICK p \in Servers : p = conn[c].to
    BY ThreadFacts DEF Release
  <1> DEFINE s == server[p]
             slots == Released(p)
             x == [s EXCEPT !.slots = slots]
  <1>1. /\ conn[c].at = "release" /\ conn' = [conn EXCEPT ![c] = NoConn]
        /\ UNCHANGED <<tokenFile, starts>>
        /\ server' = [server EXCEPT ![p] = x]
    BY <1>3 DEF Release
  <1>2. s.pc \in Looping
    BY <1>1, <1>3, ThreadFacts
  <1>4. /\ s \in Process /\ server \in [Servers -> Process] /\ conn \in [Conns -> Connection]
        /\ Waiting(p) /\ Slots(p) /\ s.queue \in Seq(Conns) /\ s.slots \in 0..MaxConcurrent
    BY <1>2, LoopFacts
  <1>5. slots \in 0..MaxConcurrent
    BY <1>4, LocalConstants DEF Released
  <1>6. slots = IF s.slots < MaxConcurrent THEN s.slots + 1 ELSE s.slots
    BY DEF Released
  <1> HIDE DEF slots
  <1>7. /\ x \in Process /\ x.pc = s.pc /\ x.token = s.token /\ x.slots = slots
        /\ x.lost = s.lost /\ x.queue = s.queue /\ x.holds = s.holds
    BY <1>4, <1>5 DEF Process
  <1> HIDE DEF x
  <1>8. NoConn \in Connection /\ NoConn.at = "none"
    BY DEF NoConn, Connection
  <1>9. conn'[c] = NoConn /\ \A d \in Conns : d # c => conn'[d] = conn[d]
    BY <1>1, <1>4
  <1>10. server'[p] = x
    BY <1>1, <1>2, <1>4
  <1>11. Waiting(p)'
    <2>1. \A i \in 1..Len(s.queue) : s.queue[i] \in Conns /\ s.queue[i] # c
      BY <1>1, <1>4 DEF Waiting
    <2>2. s.pc \in {"slot", "spawn"} => s.holds # c
      BY <1>1, <1>4 DEF Waiting
    <2> QED
      BY <1>2, <1>4, <1>7, <1>9, <1>10, <2>1, <2>2 DEF Waiting
  <1>12. Slots(p)'
    <2>1. Busy(p)' = Busy(p) \ {c} /\ c \in Busy(p)
      BY <1>1, <1>3, <1>8, <1>9 DEF Busy
    <2>2. CASE s.lost
      BY <1>7, <1>10, <2>2 DEF Slots
    <2>3. CASE ~s.lost
      <3>1. IsFiniteSet(Busy(p)) /\ s.slots + Taken(p) + Cardinality(Busy(p)) = MaxConcurrent
        BY <1>2, <1>4, <2>3 DEF Slots
      <3>2. /\ IsFiniteSet(Busy(p) \ {c})
            /\ Cardinality(Busy(p) \ {c}) = Cardinality(Busy(p)) - 1
        BY <2>1, <3>1, FS_RemoveElement
      <3>3. Cardinality(Busy(p)) \in Nat /\ Cardinality(Busy(p) \ {c}) \in Nat
        BY <3>1, <3>2, FS_CardinalityType
      <3>4. Taken(p) \in Nat /\ Taken(p)' = Taken(p)
        BY <1>7, <1>10 DEF Taken
      <3>5. s.slots < MaxConcurrent
        BY <1>4, <3>1, <3>2, <3>3, <3>4, LocalConstants
      <3>6. slots + Taken(p)' + Cardinality(Busy(p)') = MaxConcurrent
        BY <1>4, <1>6, <2>1, <3>1, <3>2, <3>3, <3>4, <3>5, LocalConstants
      <3> QED
        BY <1>7, <1>10, <2>1, <3>2, <3>6 DEF Slots
    <2> QED
      BY <2>2, <2>3
  <1>13. /\ conn' \in [Conns -> Connection]
         /\ \A d \in Conns : conn[d].to # p /\ conn[d].at # "none" => conn'[d] = conn[d]
         /\ \A d \in Conns : conn[d].to = p \/ conn[d].at = "none" =>
                               conn'[d].to = p \/ conn'[d].at = "none"
    BY <1>1, <1>3, <1>4, <1>8, <1>9
  <1> QED
    BY <1>1, <1>2, <1>7, <1>11, <1>12, <1>13, LoopStep

LEMMA ServerNextKeeps ==
    ASSUME ServerInv, [ServerNext]_serverVars PROVE ServerInv'
  <1>1. ASSUME NEW p \in Servers, Boot(p) PROVE ServerInv'
    BY <1>1, BootKeeps, DieKeeps DEF Boot
  <1>2. ASSUME NEW p \in Servers, Loop(p) PROVE ServerInv'
    BY <1>2, AcceptKeeps, AcquireKeeps, SpawnKeeps, ReturnKeeps DEF Loop
  <1>3. ASSUME NEW p \in Servers, Signal(p) PROVE ServerInv'
    BY <1>3, SignalKeeps
  <1>4. ASSUME NEW p \in Servers, NEW c \in Conns, Connect(c, p) PROVE ServerInv'
    BY <1>4, ConnectKeeps
  <1>5. ASSUME NEW c \in Conns, Dispatch(c) \/ Thread(c) PROVE ServerInv'
    BY <1>5, DispatchKeeps, FinishKeeps, ReleaseKeeps DEF Thread
  <1>6. CASE UNCHANGED serverVars
    <2>1. UNCHANGED <<tokenFile, server, conn, starts>>
      BY <1>6 DEF serverVars
    <2>2. ServerTyped' /\ \A c \in Conns : Attached(c)'
      BY <2>1 DEF ServerInv, ServerTyped, Attached
    <2>3. ASSUME NEW p \in Servers PROVE TokenIsTheFiles(p)' /\ Waiting(p)'
      BY <2>1 DEF ServerInv, TokenIsTheFiles, Waiting
    <2>4. ASSUME NEW p \in Servers PROVE Slots(p)'
      <3>1. Busy(p)' = Busy(p) /\ Taken(p)' = Taken(p)
        BY <2>1 DEF Busy, Taken
      <3> QED
        BY <2>1, <3>1 DEF ServerInv, Slots
    <2> QED
      BY <2>2, <2>3, <2>4 DEF ServerInv
  <1> QED
    BY <1>1, <1>2, <1>3, <1>4, <1>5, <1>6 DEF ServerNext

LEMMA ServerInitHolds == ServerInit => ServerInv
  <1> SUFFICES ASSUME ServerInit PROVE ServerInv
    OBVIOUS
  <1>1. Off \in Process /\ Off.pc = "off" /\ Off.queue = << >>
    BY LocalConstants DEF Off, NoToken, Process, Token, Pc
  <1>2. NoConn \in Connection /\ NoConn.at = "none"
    BY DEF NoConn, Connection
  <1> HIDE DEF Off, NoConn
  <1>3. ServerTyped
    BY <1>1, <1>2, LocalConstants DEF ServerInit, ServerTyped
  <1>4. \A p \in Servers : server[p] = Off
    BY DEF ServerInit
  <1>5. \A p \in Servers : TokenIsTheFiles(p) /\ Waiting(p) /\ Slots(p)
    BY <1>1, <1>4 DEF TokenIsTheFiles, Waiting, Slots, Booting, Looping
  <1>6. \A c \in Conns : Attached(c)
    BY <1>2 DEF ServerInit, Attached
  <1> QED
    BY <1>3, <1>5, <1>6 DEF ServerInv

LEMMA Sound == ServerInv => ServerIsSound
  <1> SUFFICES ASSUME ServerInv PROVE ServerIsSound
    OBVIOUS
  <1>1. ServerTypeOK
    BY DEF ServerInv, ServerTyped, ServerTypeOK, Process, Connection, Pc
  <1>2. OneToken
    <2> SUFFICES ASSUME NEW p \in Servers, NEW q \in Servers, Serves(p), Serves(q)
                 PROVE  /\ server[p].token.made = server[q].token.made
                        /\ \/ server[p].token = server[q].token
                           \/ server[p].token.cut \/ server[q].token.cut
      BY DEF OneToken
    <2>1. server[p].token.made = tokenFile.made /\ server[q].token.made = tokenFile.made
      BY DEF ServerInv, TokenIsTheFiles, Serves
    <2>2. server[p].token \in Token /\ server[q].token \in Token
      BY DEF ServerInv, ServerTyped, Process
    <2>3. ASSUME ~server[p].token.cut, ~server[q].token.cut
          PROVE  server[p].token = server[q].token
      BY <2>1, <2>2, <2>3 DEF Token
    <2> QED
      BY <2>1, <2>3
  <1>3. SlotsAreConserved
    <2>1. ASSUME NEW p \in Servers
          PROVE  /\ Taken(p) = IF server[p].pc = "spawn" THEN 1 ELSE 0
                 /\ Busy(p) = {c \in Conns : conn[c].to = p /\ conn[c].at \in {"handling", "release"}}
      BY DEF Taken, Busy
    <2> QED
      BY <2>1 DEF ServerInv, Slots, SlotsAreConserved, Serves
  <1> QED
    BY <1>1, <1>2, <1>3 DEF ServerIsSound

-----------------------------------------------------------------------------
\* local_api/server.py, portable_server.py: for any number of processes that start,
\* are killed and share one token file, those that serve have the token that one of
\* them made, and a server has as many handler slots as its semaphore was given,
\* less those of the threads it started, until a shutdown signal is lost in it.
THEOREM ServerStaysSound == ServerSpec => []ServerIsSound
  <1>1. ServerInit => ServerInv
    BY ServerInitHolds
  <1>2. ServerInv /\ [ServerNext]_serverVars => ServerInv'
    BY ServerNextKeeps
  <1>3. ServerInv => ServerIsSound
    BY Sound
  <1> QED
    BY <1>1, <1>2, <1>3, PTL DEF ServerSpec

\* The same of the service as it is checked, where the workflow and the server
\* share a specification: no step of the workflow disturbs the server.
THEOREM ServiceStaysSound == ServiceSpec => []ServerIsSound
  <1>1. ServiceInit => ServerInv
    BY ServerInitHolds DEF ServiceInit
  <1>2. ServerInv /\ [ServiceNext]_<<vars, serverVars, part>> => ServerInv'
    <2>1. ServiceNext => [ServerNext]_serverVars
      BY DEF ServiceNext, Workflow, Server
    <2>2. UNCHANGED <<vars, serverVars, part>> => [ServerNext]_serverVars
      OBVIOUS
    <2> QED
      BY <2>1, <2>2, ServerNextKeeps
  <1>3. ServerInv => ServerIsSound
    BY Sound
  <1> QED
    BY <1>1, <1>2, <1>3, PTL DEF ServiceSpec
=============================================================================
