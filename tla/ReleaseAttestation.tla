------------------------- MODULE ReleaseAttestation -------------------------
(***************************************************************************)
(* run_local_gate.py runs the proofs of a clean commit for hours and writes *)
(* evidence that names the commit; attest_release.py binds the evidence to  *)
(* the pushed HEAD and to the attested files, and later verifies that the   *)
(* binding still holds.  All of them read one worktree and one repository,  *)
(* call by call, while developers edit, commit, push and check out.         *)
(***************************************************************************)
EXTENDS Naturals, Sequences

CONSTANTS MaxShifts,   \* bound: edits, commits, pushes and checkouts
          NoDocument

\* What the tests read, what is attested file by file, and the one report that may
\* follow the tested commit (ALLOWED_POST_TEST_REPORT).
Paths == {"source", "contract", "report"}
\* Contents of a repository; one commit for each.  At 1 the source passes its tests
\* and the contract names the package version of the candidate.
Commits == [Paths -> {0, 1}]
Ready == [p \in Paths |-> 1]

VARIABLES git,          \* HEAD, worktree, origin/main, and whether main is checked out
          gate,         \* run_local_gate.py
          proof,        \* the evidence file
          attestation,  \* the attestation file
          attester,     \* attest_release.py, attesting or verifying
          shifts

attesting == <<git, gate, proof, attestation, attester, shifts>>

\* steady is a history variable: nothing moved since the process began
IdleGate == [pc |-> "idle", expected |-> NoDocument, steady |-> TRUE]
IdleAttester == [pc |-> "idle", verify |-> FALSE, expected |-> NoDocument,
                 tested |-> NoDocument, contract |-> 0, head |-> NoDocument,
                 tree |-> NoDocument, origin |-> NoDocument, artifact |-> 0,
                 steady |-> TRUE, accepted |-> FALSE]

Evidence == [tested_git_sha : Commits, steady : BOOLEAN]
Attestation == [head : Commits, tree : Commits, origin : Commits, evidence : Evidence,
                artifact : {0, 1}, contract : {0, 1}]

AttestationTypeOK ==
    /\ git \in [head : Commits, work : Commits, origin : Commits, main : BOOLEAN]
    /\ proof = NoDocument \/ proof \in Evidence
    /\ attestation = NoDocument \/ attestation \in Attestation
    /\ shifts \in 0..MaxShifts

AttestationInit ==
    /\ \E c \in Commits : git = [head |-> c, work |-> c, origin |-> c, main |-> TRUE]
    /\ gate = IdleGate /\ attester = IdleAttester
    /\ proof = NoDocument /\ attestation = NoDocument /\ shifts = 0

-----------------------------------------------------------------------------
(* run_local_gate.py *)

\* What each group of commands needs of the worktree it runs in.
full_tests == git.work["source"] = 1
priority_gates == git.work["source"] = 1
quality_checks == git.work["contract"] = 1
generated_artifacts == git.work["contract"] = 1
offline_chain == git.work["source"] = 1 /\ git.work["contract"] = 1

Stages == <<"FULL_TESTS", "PRIORITY", "QUALITY", "GENERATED", "OFFLINE_CHAIN">>
Passes(stage) ==
    CASE stage = "FULL_TESTS" -> full_tests
      [] stage = "PRIORITY"   -> priority_gates
      [] stage = "QUALITY"    -> quality_checks
      [] stage = "GENERATED"  -> generated_artifacts
      [] OTHER                -> offline_chain

GateTo(pc) == gate' = [gate EXCEPT !.pc = pc]
\* LocalGateError: nothing is written, and an older evidence file stays
GateEnds == gate' = IdleGate

StartGate ==
    /\ gate.pc = "idle" /\ gate' = [IdleGate EXCEPT !.pc = "head", !.expected = git.head]
    /\ UNCHANGED <<git, proof, attestation, attester, shifts>>

assert_clean_expected_head ==
    /\ \/ /\ gate.pc = "head"
          /\ IF git.head = gate.expected THEN GateTo("status") ELSE GateEnds
       \/ /\ gate.pc = "status"
          /\ IF git.main /\ git.work = git.head THEN GateTo(Stages[1]) ELSE GateEnds
    /\ UNCHANGED <<git, proof, attestation, attester, shifts>>

\* A command reads the worktree as it is when it runs; it may time out as well.
RunStage(n) ==
    /\ gate.pc = Stages[n]
    /\ \/ /\ Passes(Stages[n])
          /\ GateTo(IF n = Len(Stages) THEN "write" ELSE Stages[n + 1])
       \/ GateEnds
    /\ UNCHANGED <<git, proof, attestation, attester, shifts>>

create_local_gate_evidence == [tested_git_sha |-> gate.expected, steady |-> gate.steady]

\* _private_write: atomic, or it fails
WriteEvidence ==
    /\ gate.pc = "write"
    /\ proof' = create_local_gate_evidence \/ proof' = proof
    /\ GateEnds
    /\ UNCHANGED <<git, attestation, attester, shifts>>

execute_local_gate ==
    \/ StartGate \/ assert_clean_expected_head
    \/ (\E n \in DOMAIN Stages : RunStage(n)) \/ WriteEvidence

-----------------------------------------------------------------------------
(* attest_release.py and release/attestation.py *)

To(pc) == attester' = [attester EXCEPT !.pc = pc]
Fails == attester' = IdleAttester

\* contract and evidence are loaded first, or the attestation to verify
Load(verify) ==
    /\ attester.pc = "idle"
    /\ (IF verify THEN attestation ELSE proof) # NoDocument
    /\ attester' = [IdleAttester EXCEPT
                      !.pc = "version", !.verify = verify, !.expected = git.head,
                      !.tested = IF verify THEN attestation.evidence ELSE proof,
                      !.contract = IF verify THEN attestation.contract
                                   ELSE git.work["contract"]]
    /\ UNCHANGED <<git, gate, proof, attestation, shifts>>

package_version ==
    /\ attester.pc = "version"
    /\ IF git.work["contract"] = 1 THEN To("head") ELSE Fails
    /\ UNCHANGED <<git, gate, proof, attestation, shifts>>

\* The git calls of _repository_state, each by itself.
ReadHead ==
    /\ attester.pc = "head" /\ attester' = [attester EXCEPT !.pc = "tree", !.head = git.head]
    /\ UNCHANGED <<git, gate, proof, attestation, shifts>>
ReadTree ==
    /\ attester.pc = "tree" /\ attester' = [attester EXCEPT !.pc = "origin", !.tree = git.head]
    /\ UNCHANGED <<git, gate, proof, attestation, shifts>>
ReadOrigin ==
    /\ attester.pc = "origin"
    /\ attester' = [attester EXCEPT !.pc = "status", !.origin = git.origin]
    /\ UNCHANGED <<git, gate, proof, attestation, shifts>>

\* git diff --name-only between the tested commit and HEAD
post_test_changes(tested, head) == {p \in Paths : tested[p] # head[p]}

\* Branch and status are read, and everything read is judged.
repository_state ==
    /\ git.main /\ git.work = git.head
    /\ attester.expected = attester.head /\ attester.origin = attester.head
    /\ post_test_changes(attester.tested.tested_git_sha, attester.head)
            \in {{}, {"report"}}

\* What verification compares with the attestation; equal commits have equal changes.
binding_holds ==
    /\ attester.head = attestation.head /\ attester.tree = attestation.tree
    /\ attester.origin = attestation.origin

JudgeRepository ==
    /\ attester.pc = "status"
    /\ IF repository_state /\ (attester.verify => binding_holds) THEN To("files") ELSE Fails
    /\ UNCHANGED <<git, gate, proof, attestation, shifts>>

\* _artifact_evidence: the attested files of the worktree are hashed
HashArtifacts ==
    /\ attester.pc = "files"
    /\ IF attester.verify
       THEN IF git.work["contract"] = attestation.artifact THEN To("contract") ELSE Fails
       ELSE attester' = [attester EXCEPT !.pc = "write", !.artifact = git.work["contract"]]
    /\ UNCHANGED <<git, gate, proof, attestation, shifts>>

attestation_material ==
    [head |-> attester.head, tree |-> attester.tree, origin |-> attester.origin,
     evidence |-> attester.tested, artifact |-> attester.artifact,
     contract |-> attester.contract]

\* what the document itself must satisfy
validate_attestation(d) ==
    /\ d.head = d.origin
    /\ post_test_changes(d.evidence.tested_git_sha, d.head) \in {{}, {"report"}}

attest_release_candidate ==
    /\ attester.pc = "write"
    /\ attestation' \in IF validate_attestation(attestation_material)
                        THEN {attestation_material, attestation} ELSE {attestation}
    /\ Fails
    /\ UNCHANGED <<git, gate, proof, shifts>>

\* validate_release_candidate: the contract is read from the worktree once more
AcceptCandidate ==
    /\ attester.pc = "contract"
    /\ IF git.work["contract"] = attestation.contract /\ validate_attestation(attestation)
       THEN attester' = [IdleAttester EXCEPT !.accepted = TRUE, !.steady = attester.steady]
       ELSE Fails
    /\ UNCHANGED <<git, gate, proof, attestation, shifts>>

Kill ==
    /\ attester.pc # "idle" /\ Fails
    /\ UNCHANGED <<git, gate, proof, attestation, shifts>>

attest_release ==
    \/ (\E verify \in BOOLEAN : Load(verify)) \/ package_version
    \/ ReadHead \/ ReadTree \/ ReadOrigin \/ JudgeRepository \/ HashArtifacts
    \/ attest_release_candidate \/ AcceptCandidate \/ Kill

-----------------------------------------------------------------------------
(* The developers *)

Shift(to) ==
    /\ shifts < MaxShifts /\ shifts' = shifts + 1
    /\ git' = to /\ git' # git
    /\ gate' = [gate EXCEPT !.steady = gate.pc = "idle"]
    /\ attester' = [attester EXCEPT !.steady = attester.pc = "idle"]
    /\ UNCHANGED <<proof, attestation>>
Edit(p) == Shift([git EXCEPT !.work[p] = 1 - @])
CommitAll == Shift([git EXCEPT !.head = git.work])
Push == git.main /\ Shift([git EXCEPT !.origin = git.head])
\* what was pushed is checked out, as main or detached
CheckOut ==
    /\ git.work = git.head
    /\ \E main \in BOOLEAN :
         Shift([git EXCEPT !.main = main, !.head = git.origin, !.work = git.origin])

AttestationNext ==
    \/ execute_local_gate \/ attest_release
    \/ (\E p \in Paths : Edit(p)) \/ CommitAll \/ Push \/ CheckOut

-----------------------------------------------------------------------------
\* Whatever moved while evidence and attestation were made: a verification nothing
\* moves under accepts only an attestation that is wholly HEAD's, clean and pushed;
\* and if nothing moved under the gate either, every proof passed on HEAD's content.
AcceptedIsTrue ==
    attester'.accepted /\ ~attester.accepted /\ attester'.steady =>
        /\ git.work = git.head
        /\ {attestation.head, attestation.tree, attestation.origin, git.origin} = {git.head}
        /\ attestation.artifact = git.head["contract"]
        /\ attestation.contract = git.head["contract"]
        /\ attestation.evidence.steady =>
              \A p \in Paths \ {"report"} :
                  git.head[p] = 1 /\ attestation.evidence.tested_git_sha[p] = 1
=============================================================================
