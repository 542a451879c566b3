---------------------------- MODULE ArtifactBuild ----------------------------
(***************************************************************************)
(* build_lambda_artifact.py: the Lambda artifact is built twice from the   *)
(* worktree of one clean commit and published as three files, each by an   *)
(* atomic replacement of its own: the artifact, its manifest and the       *)
(* dependency scan.  Developers edit, commit and check out while it runs;  *)
(* two builds may run at once and either may die at any step.              *)
(***************************************************************************)
EXTENDS Naturals, FiniteSets

CONSTANTS Builders,
          Trees,       \* contents of the repository; one commit for each
          MaxMoves,    \* bound: edits, commits and checkouts
          MaxBuilds,   \* bound: builds begun
          Verdicts,    \* what container validation and scan may report
          NoFile

VARIABLES commit,    \* HEAD
          wt,        \* the worktree; clean when it is HEAD's
          artifact,  \* the tree the published archive was made of
          manifest, scan,
          bd,        \* each build
          moves, builds,
          \* history: how often HEAD moved, and whether the manifest's build saw the
          \* hazard ManifestIsTrue excepts
          heads, doubtful

repo == <<commit, wt, moves, heads>>
published == <<artifact, manifest, scan>>

Proof == {"PASS", "FAIL", "BLOCKED"}
\* What validate_repository_inputs returns: the commit, the inputs' objects and the
\* source tree, each by the name of the tree it is of.
Repository == [commit : Trees, inputs : Trees, source : Trees]
OneTree(t) == [commit |-> t, inputs |-> t, source |-> t]
\* What a manifest binds: the archive, the repository it says it was built from, and
\* the verdict of the container validation.
ManifestFile == [artifact : Trees, repository : Repository, container : Proof]
ScanFile == [artifact : Trees, status : Proof]

Calls == 1..6
IdleBuild == [pc |-> "idle", call |-> 1, found |-> OneTree(NoFile),
              repository |-> OneTree(NoFile), stage |-> NoFile, container |-> "PASS",
              scan |-> "PASS", since |-> 0, left |-> FALSE, last |-> 0]

BuildTypeOK ==
    /\ commit \in Trees /\ wt \in Trees /\ moves \in 0..MaxMoves /\ builds \in 0..MaxBuilds
    /\ heads \in 0..moves /\ doubtful \in BOOLEAN
    /\ artifact \in Trees \cup {NoFile}
    /\ manifest = NoFile \/ manifest \in ManifestFile
    /\ scan = NoFile \/ scan \in ScanFile
    /\ \A b \in Builders : bd[b].call \in Calls \cup {7} /\ bd[b].stage \in Trees \cup {NoFile}

BuildInit ==
    /\ commit \in Trees /\ wt = commit
    /\ artifact = NoFile /\ manifest = NoFile /\ scan = NoFile
    /\ bd = [b \in Builders |-> IdleBuild]
    /\ moves = 0 /\ builds = 0 /\ heads = 0 /\ doubtful = FALSE

-----------------------------------------------------------------------------
(* validate_repository_inputs runs Git once for each of: HEAD, the status,   *)
(* the index, HEAD's objects, the worktree's objects, HEAD's source tree.    *)
(* The repository may move between any two; the index follows HEAD.          *)
Recorded(call, found) ==
    [commit |-> IF call = 1 THEN commit ELSE found.commit,
     inputs |-> IF call = 3 THEN commit ELSE found.inputs,
     source |-> IF call = 6 THEN commit ELSE found.source]
Clean(call) == call = 2 => wt = commit
Agrees(call, found) ==
    /\ call = 4 => commit = found.inputs
    /\ call = 5 => wt = found.inputs

To(b, pc) == bd' = [bd EXCEPT ![b].pc = pc]
Refused(b) == bd' = [bd EXCEPT ![b] = IdleBuild]
BuildKeeps == UNCHANGED <<repo, published, builds, doubtful>>

Begin(b) ==
    /\ bd[b].pc = "idle" /\ builds < MaxBuilds /\ builds' = builds + 1
    /\ To(b, "validate")
    /\ UNCHANGED <<repo, published, doubtful>>

\* One call of the first validation; the history keeps when it looked at HEAD.
Validate(b) ==
    /\ bd[b].pc = "validate" /\ bd[b].call \in Calls
    /\ IF Clean(bd[b].call) /\ Agrees(bd[b].call, bd[b].found)
       THEN bd' = [bd EXCEPT ![b].call = @ + 1,
                             ![b].found = Recorded(bd[b].call, bd[b].found),
                             ![b].since = IF bd[b].call = 1 THEN heads ELSE @]
       ELSE Refused(b)
    /\ BuildKeeps

\* lock, template and toolchain are read and compared with the recorded objects
Capture(b) ==
    /\ bd[b].pc = "validate" /\ bd[b].call \notin Calls
    /\ IF wt = bd[b].found.inputs
       THEN bd' = [bd EXCEPT ![b].pc = "copy", ![b].call = 1, ![b].repository = bd[b].found,
                             ![b].found = OneTree(NoFile)]
       ELSE Refused(b)
    /\ BuildKeeps

\* _assemble_clean_runtime_stage: the source is copied
Assemble(b) ==
    /\ bd[b].pc = "copy"
    /\ bd' = [bd EXCEPT ![b].pc = "compare", ![b].stage = wt]
    /\ BuildKeeps

\* and the copy compared with what HEAD holds by then
CompareStage(b) ==
    /\ bd[b].pc = "compare"
    /\ IF bd[b].stage = commit THEN To(b, "recopy") ELSE Refused(b)
    /\ BuildKeeps

\* _build_independent_runtime: a second copy, whose archive must have the same bytes
Rebuild(b) ==
    /\ bd[b].pc = "recopy"
    /\ IF bd[b].stage = wt THEN To(b, "recompare") ELSE Refused(b)
    /\ BuildKeeps

CompareRebuild(b) ==
    /\ bd[b].pc = "recompare"
    /\ IF bd[b].stage = commit THEN To(b, "check") ELSE Refused(b)
    /\ BuildKeeps

\* What the archive inspection and the clean import find, and what the container
\* validation and the dependency scan report: a missing tool blocks, it never passes.
inspect_archive == BOOLEAN
clean_import_handlers == BOOLEAN
lambda_container_validation == Verdicts
dependency_security_scan == Verdicts

\* the first two raise, the others report
Check(b) ==
    /\ bd[b].pc = "check"
    /\ \/ FALSE \in inspect_archive \cup clean_import_handlers /\ Refused(b)
       \/ \E container \in lambda_container_validation, status \in dependency_security_scan :
            bd' = [bd EXCEPT ![b].pc = "revalidate", ![b].container = container,
                             ![b].scan = status]
    /\ BuildKeeps

\* One call of the second validation.
Revalidate(b) ==
    /\ bd[b].pc = "revalidate" /\ bd[b].call \in Calls
    /\ IF Clean(bd[b].call) /\ Agrees(bd[b].call, bd[b].found)
       THEN bd' = [bd EXCEPT ![b].call = @ + 1,
                             ![b].found = Recorded(bd[b].call, bd[b].found),
                             ![b].left = IF bd[b].call = 1 THEN heads # bd[b].since ELSE @,
                             ![b].last = IF bd[b].call = 1 THEN moves ELSE @]
       ELSE Refused(b)
    /\ BuildKeeps

\* It must have returned the same, and the three inputs are read once more.
Unchanged(b) ==
    /\ bd[b].pc = "revalidate" /\ bd[b].call \notin Calls
    /\ IF bd[b].found = bd[b].repository /\ wt = bd[b].repository.inputs
       THEN To(b, "sources") ELSE Refused(b)
    /\ BuildKeeps

\* Mutant: the staged sources are not compared with the worktree again.
SourcesUnread(b) ==
    /\ bd[b].pc = "sources"
    /\ To(b, "artifact")
    /\ BuildKeeps

\* every staged source is compared with the worktree
UnchangedSources(b) ==
    /\ bd[b].pc = "sources"
    /\ IF bd[b].stage = wt THEN To(b, "artifact") ELSE Refused(b)
    /\ BuildKeeps

PublishArtifact(b) ==
    /\ bd[b].pc = "artifact"
    /\ artifact' = bd[b].stage
    /\ To(b, "manifest")
    /\ UNCHANGED <<repo, manifest, scan, builds, doubtful>>

PublishManifest(b) ==
    /\ bd[b].pc = "manifest"
    /\ manifest' = [artifact |-> bd[b].stage, repository |-> bd[b].repository,
                    container |-> bd[b].container]
    /\ doubtful' = (bd[b].left /\ moves # bd[b].last)
    /\ To(b, "scan")
    /\ UNCHANGED <<repo, artifact, scan, builds>>

PublishScan(b) ==
    /\ bd[b].pc = "scan"
    /\ scan' = [artifact |-> bd[b].stage, status |-> bd[b].scan]
    /\ Refused(b)
    /\ UNCHANGED <<repo, artifact, manifest, builds, doubtful>>

\* Killed, or a publication failed.
Die(b) ==
    /\ bd[b].pc # "idle" /\ Refused(b)
    /\ BuildKeeps

build_artifact(b) ==
    \/ Begin(b) \/ Validate(b) \/ Capture(b) \/ Assemble(b) \/ CompareStage(b) \/ Rebuild(b)
    \/ CompareRebuild(b) \/ Check(b) \/ Revalidate(b) \/ Unchanged(b) \/ UnchangedSources(b)
    \/ PublishArtifact(b) \/ PublishManifest(b) \/ PublishScan(b) \/ Die(b)

-----------------------------------------------------------------------------
Move ==
    /\ moves < MaxMoves /\ moves' = moves + 1
    /\ heads' = IF commit' = commit THEN heads ELSE heads + 1
    /\ UNCHANGED <<published, bd, builds, doubtful>>
EditTree == (\E t \in Trees \ {wt} : wt' = t) /\ UNCHANGED commit /\ Move
CommitTree == wt # commit /\ commit' = wt /\ UNCHANGED wt /\ Move
CheckOut == (\E t \in Trees \ {commit} : commit' = t /\ wt' = t) /\ Move

-----------------------------------------------------------------------------
\* Whatever moved while it was built: a manifest names one commit, inputs and source
\* tree, and the archive was made of it.  The one exception: HEAD moved between the
\* two looks at it, and something moved again after the second, so that the two
\* validations may return the same commit and the objects of another.
ManifestIsTrue ==
    manifest # NoFile /\ ~doubtful => manifest.repository = OneTree(manifest.artifact)
=============================================================================
