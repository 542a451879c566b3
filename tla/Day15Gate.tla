------------------------------ MODULE Day15Gate ------------------------------
(***************************************************************************)
(* run_day15_gate.py: ten gates, one after the other.  The template is     *)
(* read once before them, the other sources when a gate asks for them, and *)
(* D15-G04 reads the three files of a build and builds nothing itself.     *)
(***************************************************************************)
EXTENDS ArtifactBuild

CONSTANT Broken   \* for each tree, the static gates whose contract it breaks

VARIABLES dg,      \* the gate run
          stirred  \* history: a file it reads changed while it ran

vars == <<repo, published, bd, builds, doubtful, dg, stirred>>

Gates == 1..10
\* What revalidate_artifact returns: the archive whose hash it records, the ones it
\* extracted and imported, and the fresh verdicts.
NoFresh == [inspected |-> NoFile, extracted |-> NoFile, imported |-> NoFile,
            status |-> "PASS", container |-> "PASS"]
IdleGate == [pc |-> 0, at |-> "gate", call |-> 1, template |-> NoFile, manifest |-> NoFile,
             doubtful |-> FALSE, scan |-> NoFile, inspected |-> NoFile, artifact |-> NoFile,
             fresh |-> NoFresh, found |-> OneTree(NoFile), provenance |-> "PASS",
             results |-> {}, ready |-> FALSE]

TypeOK ==
    /\ BuildTypeOK
    /\ dg.pc \in 0..11 /\ dg.call \in Calls \cup {7} /\ dg.provenance \in Proof
    /\ dg.results \subseteq Proof /\ dg.ready \in BOOLEAN

Init == BuildInit /\ dg = IdleGate /\ stirred = FALSE

-----------------------------------------------------------------------------
(* The static gates: each judges the template loaded at the start (t), and   *)
(* some the sources as they are when it runs (s).                            *)
Meets(tree, gate) == gate \notin Broken[tree]

\* handlers, routes, budget and resumption as the sources declare them
runtime_contracts_are_exact(s) == Meets(s, 1)
gate_runtime(t, s) == Meets(t, 1) /\ runtime_contracts_are_exact(s)
gate_iam(t) == Meets(t, 2)
gate_retries(s) == Meets(s, 3)
gate_state(t) == Meets(t, 5)
gate_region(t) == Meets(t, 6)
\* the alias rollback's own source is read as a contract
rollback_contract_is_exact(s) == Meets(s, 7)
gate_versions(t, s) == Meets(t, 7) /\ rollback_contract_is_exact(s)
gate_observability(t) == Meets(t, 8)
gate_public_surface(t) == Meets(t, 9)

StaticGate(g, t, s) ==
    CASE g = 1 -> gate_runtime(t, s)
      [] g = 2 -> gate_iam(t)
      [] g = 3 -> gate_retries(s)
      [] g = 5 -> gate_state(t)
      [] g = 6 -> gate_region(t)
      [] g = 7 -> gate_versions(t, s)
      [] g = 8 -> gate_observability(t)
      [] OTHER -> gate_public_surface(t)

GateKeeps == UNCHANGED <<repo, published, bd, builds, doubtful>>
Result(status) == dg' = [dg EXCEPT !.pc = @ + 1, !.at = "gate", !.results = @ \cup {status}]

RunGate ==
    /\ dg.pc = 0
    /\ dg' = [IdleGate EXCEPT !.pc = 1, !.template = wt]
    /\ GateKeeps

Static ==
    /\ dg.pc \in Gates \ {4, 10}
    /\ Result(IF StaticGate(dg.pc, dg.template, wt) THEN "PASS" ELSE "FAIL")
    /\ GateKeeps

-----------------------------------------------------------------------------
(* D15-G04: the files are opened one after the other, and the archive five   *)
(* times, whichever build it is of by then.                                  *)
At(place) == dg.pc = 4 /\ dg.at = place

\* a missing file ends the gate
LookForArtifact ==
    /\ At("gate")
    /\ IF artifact = NoFile THEN Result("BLOCKED") ELSE dg' = [dg EXCEPT !.at = "manifest"]
    /\ GateKeeps

ReadManifest ==
    /\ At("manifest")
    /\ IF manifest = NoFile THEN Result("BLOCKED")
       ELSE dg' = [dg EXCEPT !.at = "scan", !.manifest = manifest, !.doubtful = doubtful]
    /\ GateKeeps

ReadScan ==
    /\ At("scan")
    /\ IF scan = NoFile THEN Result("BLOCKED")
       ELSE dg' = [dg EXCEPT !.at = "inspect", !.scan = scan]
    /\ GateKeeps

InspectArtifact ==
    /\ At("inspect")
    /\ dg' = [dg EXCEPT !.at = "hash", !.inspected = artifact]
    /\ GateKeeps

ReadArtifact ==
    /\ At("hash")
    /\ dg' = [dg EXCEPT !.at = "fresh", !.artifact = artifact]
    /\ GateKeeps

\* revalidate_artifact: what it raises is kept as a verdict without an archive
Raise == \E status \in Verdicts \ {"PASS"} :
            dg' = [dg EXCEPT !.at = "repository", !.fresh = [NoFresh EXCEPT !.status = status]]

FreshInspect ==
    /\ At("fresh")
    /\ Raise \/ dg' = [dg EXCEPT !.at = "extract", !.fresh = [@ EXCEPT !.inspected = artifact]]
    /\ GateKeeps

FreshExtract ==
    /\ At("extract")
    /\ Raise \/ dg' = [dg EXCEPT !.at = "import", !.fresh = [@ EXCEPT !.extracted = artifact]]
    /\ GateKeeps

\* the container and the scanner then work on what was extracted
FreshImport ==
    /\ At("import")
    /\ \/ Raise
       \/ \E status \in dependency_security_scan, container \in lambda_container_validation :
            dg' = [dg EXCEPT !.at = "repository",
                             !.fresh = [@ EXCEPT !.imported = artifact, !.status = status,
                                                 !.container = container]]
    /\ GateKeeps

\* One call of the gate's own validate_repository_inputs: an unclean worktree blocks,
\* objects that differ fail.
FreshRepository ==
    /\ At("repository") /\ dg.call \in Calls
    /\ IF Clean(dg.call) /\ Agrees(dg.call, dg.found)
       THEN dg' = [dg EXCEPT !.call = @ + 1, !.found = Recorded(dg.call, dg.found)]
       ELSE dg' = [dg EXCEPT !.call = 7, !.found = OneTree(NoFile),
                             !.provenance = IF Clean(dg.call) THEN "FAIL" ELSE "BLOCKED"]
    /\ GateKeeps

\* A published proof that did not pass lacks fields that are compared, so that it
\* fails the gate even when it was only blocked.
PublishedFails ==
    \/ {dg.manifest.artifact, dg.scan.artifact, dg.inspected} # {dg.artifact}
    \/ dg.provenance = "PASS" /\ dg.manifest.repository # dg.found
    \/ {dg.scan.status, dg.manifest.container} # {"PASS"}

FreshFails == dg.fresh.inspected \notin {NoFile, dg.inspected}

\* everything that was read is compared
JudgeArtifact ==
    /\ At("repository") /\ dg.call \notin Calls
    /\ LET fresh == {dg.provenance, dg.fresh.status, dg.fresh.container}
       IN Result(IF PublishedFails \/ FreshFails \/ "FAIL" \in fresh THEN "FAIL"
                 ELSE IF "BLOCKED" \in fresh THEN "BLOCKED" ELSE "PASS")
    /\ GateKeeps

-----------------------------------------------------------------------------
(* D15-G10: what its four checks report; the second judges the G10 receipts  *)
(* (module ReleaseChain)                                                     *)
judge_token_not_after == Verdicts
g10_candidate_receipt_result == Verdicts
deployment_policy_result == Verdicts
aws_cli_tool_result == Verdicts
template_token_binding(t) == Meets(t, 10)

combine_status(statuses) ==
    IF "FAIL" \in statuses THEN "FAIL"
    ELSE IF "BLOCKED" \in statuses THEN "BLOCKED" ELSE "PASS"

External ==
    /\ dg.pc = 10
    /\ \E token \in judge_token_not_after, receipts \in g10_candidate_receipt_result,
          policy \in deployment_policy_result, cli \in aws_cli_tool_result :
         Result(combine_status({token, receipts, policy, cli,
                                IF template_token_binding(dg.template) THEN "PASS" ELSE "FAIL"}))
    /\ GateKeeps

\* combine_status and _payload
Payload ==
    /\ dg.pc = 11
    /\ dg' = [IdleGate EXCEPT !.ready = combine_status(dg.results) = "PASS"]
    /\ GateKeeps

run_gate ==
    \/ RunGate \/ Static \/ LookForArtifact \/ ReadManifest \/ ReadScan \/ InspectArtifact
    \/ ReadArtifact \/ FreshInspect \/ FreshExtract \/ FreshImport \/ FreshRepository
    \/ JudgeArtifact \/ External \/ Payload

Others ==
    /\ \/ \E b \in Builders : build_artifact(b)
       \/ EditTree \/ CommitTree \/ CheckOut
    /\ UNCHANGED dg

Next ==
    /\ run_gate \/ Others
    /\ stirred' = (dg.pc # 0 /\ (stirred \/ <<wt, commit, published>>' # <<wt, commit, published>>))

Spec == Init /\ [][Next]_vars

-----------------------------------------------------------------------------
\* D15-G04's files are of one tree, whichever build published which: when it passes
\* after gates that passed, the manifest, the scan and the archives it inspected and
\* hashed are of one build, with both proofs clean; unless the manifest is excepted
\* above, they are of the one commit its Git calls found.  (Nothing is said of the
\* archive extracted and scanned afresh: it is opened again.)
ArtifactGateIsSound ==
    dg.pc = 4 /\ dg'.pc = 5 /\ dg'.results = {"PASS"} =>
        /\ {dg.inspected, dg.fresh.inspected, dg.manifest.artifact} = {dg.artifact}
        /\ dg.scan = [artifact |-> dg.artifact, status |-> "PASS"]
        /\ dg.fresh.status = "PASS" /\ {dg.fresh.container, dg.manifest.container} = {"PASS"}
        /\ ~dg.doubtful => dg.found = OneTree(dg.artifact)

\* A run that calls the candidate ready, nothing having moved under it, judged the
\* template and the sources of HEAD and the archive that is published, and what it
\* ran and scanned afresh was that archive.
ReadyIsHead ==
    dg.pc = 11 /\ dg'.ready /\ ~stirred /\ ~dg.doubtful =>
        /\ wt = commit /\ dg.template = commit /\ Broken[commit] = {}
        /\ artifact = commit /\ scan = [artifact |-> commit, status |-> "PASS"]
        /\ manifest = [artifact |-> commit, repository |-> OneTree(commit), container |-> "PASS"]
        /\ dg.fresh = [inspected |-> commit, extracted |-> commit, imported |-> commit,
                       status |-> "PASS", container |-> "PASS"]
=============================================================================
