--------------------------- MODULE MCReleaseTools ---------------------------
(* The tools that prepare a release, each by itself: the authority           *)
(* bootstrap, the AWS preflight, the closure with those who judge its        *)
(* receipts, the reviewer evidence, the alias rollback and the cleanup, the  *)
(* artifact builds with the day-15 gate, and the local gate with the release *)
(* attestation.  A behaviour begins by choosing the tool and what disturbs   *)
(* it.                                                                       *)
EXTENDS Integers, FiniteSets, TLC

CONSTANTS Operators, Nobody, MaxRuns, MaxEdits, MaxFaults, MaxCrashes,
          MaxDefects,
          Judges, Kinds, MaxVersions, MaxClosures, MaxTime, ReceiptAge, CaptureAge,
          NoFile, MaxChanges,
          Versions, MaxOutages, MaxDeploys,
          Trees, Verdicts, MaxMoves, MaxBuilds,
          Expected, Unexpected, Retained, MaxAge, Lifetime, MaxDrifts,
          MaxShifts

ASSUME BoundsAssumption ==
    /\ IsFiniteSet(Operators) /\ Nobody \notin Operators
    /\ {MaxRuns, MaxEdits, MaxFaults, MaxCrashes, MaxDefects} \subseteq Nat
    /\ {MaxVersions, MaxClosures, MaxTime, ReceiptAge, CaptureAge, MaxChanges} \subseteq Nat
    /\ 0 \notin {MaxRuns, MaxVersions}
    /\ {MaxOutages, MaxDeploys} \cup Versions \subseteq Nat
    /\ {MaxMoves, MaxBuilds} \cup Trees \subseteq Nat /\ NoFile \notin Trees
    /\ Verdicts \subseteq {"PASS", "FAIL", "BLOCKED"}
    /\ {MaxAge, Lifetime, MaxDrifts, MaxShifts} \subseteq Nat
    /\ Expected \cap Unexpected = {} /\ Retained \subseteq Expected
    /\ Kinds \subseteq {"gate", "review"}

VARIABLES file, config, lock, receipt, backups, op, results, edits, faults, crashes,
          at, ledger, answer, reasons, synthetic, awsReceipt,
          head, worktree, build, gates, contract, private, public, export, clock, cl, jd,
          closures,
          work, index, committed, history, code, gen, val, changes, disturbed,
          live, rb, outages, deploys,
          commit, wt, artifact, manifest, scan, bd, moves, builds, heads, doubtful, dg, stirred,
          stack, observed, plan, approval, envelope, consumed, age, drifts, stale,
          git, gate, proof, attestation, attester, shifts,
          cast

Bootstrap == INSTANCE AuthorityBootstrap
Preflight == INSTANCE AwsPreflight WITH receipt <- awsReceipt
Chain     == INSTANCE ReleaseChain WITH Closers <- Operators
Evidence  == INSTANCE ReviewerEvidence WITH head <- committed
Aliases   == INSTANCE AliasRollback
Clean     == INSTANCE Cleanup WITH Nonces <- Versions, Unmade <- NoFile
Attest    == INSTANCE ReleaseAttestation WITH NoDocument <- NoFile
\* The first tree meets every static gate.
Gate      ==
    INSTANCE Day15Gate WITH Builders <- Operators,
                            Broken <- [t \in Trees |-> IF t = 1 THEN {} ELSE {3, 7}]

bootstrap == <<file, config, lock, receipt, backups, op, results, edits, faults, crashes>>
preflight == <<at, ledger, answer, reasons, synthetic, awsReceipt>>
chain == <<head, worktree, build, gates, contract, private, public, export, clock, cl, jd,
           closures>>
evidence == <<work, index, committed, history, code, gen, val, changes, disturbed>>
aliases == <<live, rb, outages, deploys>>
cleanup == <<stack, observed, plan, approval, envelope, consumed, age, drifts, stale>>
gating == <<commit, wt, artifact, manifest, scan, bd, moves, builds, heads, doubtful, dg,
            stirred>>
attesting == <<git, gate, proof, attestation, attester, shifts>>

\* Processes that take part, and how often files fail, are edited or runs killed.
Booting(processes, fault, edit, crash) ==
    [tool |-> "bootstrap", processes |-> processes, faults |-> fault, edits |-> edit,
     crashes |-> crash]
\* Processes that take part, versions of the candidate, observations and time.
Closing(processes, kinds, versions, closure, time) ==
    [tool |-> "chain", processes |-> processes, kinds |-> kinds, versions |-> versions,
     closures |-> closure, time |-> time]

\* Whether the generator runs, and the manifests the repository starts with.
Reviewing(generator, manifests, change) ==
    [tool |-> "evidence", generator |-> generator, manifests |-> manifests, changes |-> change]

\* Operators that roll back, calls that fail, deployments.
RollingBack(processes, outage, deploy) ==
    [tool |-> "rollback", processes |-> processes, outages |-> outage, deploys |-> deploy]

\* Processes that build, how often, what they report, moves of the repository under
\* them, and whether the gate runs beside them.
Gating(processes, build_, verdicts, move, judged) ==
    [tool |-> "gate", processes |-> processes, builds |-> build_, verdicts |-> verdicts,
     moves |-> move, judged |-> judged]

Casts ==
    {[tool |-> "preflight"], [tool |-> "cleanup"], [tool |-> "attest"]}
    \cup {Reviewing(TRUE, {"reviewed"}, MaxChanges), Reviewing(TRUE, Evidence!Manifest, 0),
          Reviewing(FALSE, Evidence!Manifest, MaxChanges)}
    \cup {RollingBack({p}, MaxOutages, MaxDeploys) : p \in Operators}
    \cup {RollingBack(Operators, 1, 0)}
    \cup {Gating({b}, 1, Verdicts, MaxMoves, FALSE) : b \in Operators}
    \cup {Gating({b}, 1, Verdicts, 2, TRUE) : b \in Operators}
    \cup {Gating({b}, MaxBuilds, {"PASS"}, 1, TRUE) : b \in Operators}
    \cup {Gating(Operators, MaxBuilds, Verdicts, 0, TRUE)}
    \cup {Booting({p}, MaxFaults, 0, 1) : p \in Operators}
    \cup {Booting({p}, 1, 1, 1) : p \in Operators}
    \cup {Booting(Operators, 1, 0, 1), Booting(Operators, 0, 1, 0)}
    \cup {Closing({c}, {"gate"}, MaxVersions, MaxClosures, 0) : c \in Operators}
    \cup {Closing({c}, Kinds, MaxVersions, 1, 0) : c \in Operators}
    \cup {Closing({c}, Kinds, 1, MaxClosures, 0) : c \in Operators}
    \cup {Closing({c}, Kinds, 1, 1, MaxTime) : c \in Operators}
    \cup {Closing(Operators, {"gate"}, 1, MaxClosures, 0)}

\* Between two operators an editor replaces the file, which leaves one of them with
\* a lock on the old one; beside one operator it also appends, and adds an alias.
BootstrapNext ==
    /\ \/ \E p \in cast.processes :
            Bootstrap!Run_authority_bootstrap(p) \/ Bootstrap!Crash(p)
       \/ Bootstrap!Edit("user") /\ (config' = config => Cardinality(cast.processes) = 1)
       \/ Bootstrap!Edit("alien") /\ Cardinality(cast.processes) = 1
    /\ faults' <= cast.faults /\ edits' <= cast.edits /\ crashes' <= cast.crashes
ChainNext ==
    /\ \/ \E c \in cast.processes : Chain!run_closure(c)
       \/ \E j \in Judges : Chain!judge(j) /\ jd'[j].kind \in cast.kinds
       \/ Chain!Edit \/ Chain!Commit \/ Chain!Build \/ Chain!Select
       \/ "review" \in cast.kinds /\ Chain!Capture
       \/ Chain!Tick
    /\ worktree' <= cast.versions /\ clock' <= cast.time /\ closures' <= cast.closures

EvidenceNext ==
    /\ Evidence!Next
    /\ changes' <= cast.changes /\ (gen' = gen \/ cast.generator)

AliasesNext ==
    /\ (\E o \in cast.processes : Aliases!Rollback(o)) \/ Aliases!Deploy
    /\ outages' <= cast.outages /\ deploys' <= cast.deploys

\* Where two builds may be made, the repository moves by a checkout between them.
GatingNext ==
    /\ Gate!Next
    /\ builds' <= cast.builds /\ moves' <= cast.moves /\ (dg' = dg \/ cast.judged)
    /\ moves' # moves /\ cast.builds > 1 =>
         commit' # commit /\ \A b \in cast.processes : bd[b].pc = "idle"
    /\ \A b \in Operators :
         IF b \in cast.processes THEN {bd'[b].container, bd'[b].scan} \subseteq cast.verdicts
         ELSE bd'[b] = bd[b]

\* What a tool finds may differ only where that tool is the one that runs.
Init ==
    /\ cast \in Casts
    /\ Bootstrap!Init /\ Chain!Init
    /\ Preflight!Init /\ (cast.tool # "preflight" => synthetic)
    /\ Evidence!Init
    /\ IF cast.tool = "evidence" THEN work["json"] \in cast.manifests
       ELSE work["json"] = "reviewed"
    /\ Aliases!Init
    /\ \A v \in Versions, role \in Aliases!Roles : live[role] >= v
    /\ cast.tool # "rollback" => \A o \in Operators : rb[o].target = live
    /\ Gate!Init /\ (cast.tool # "gate" => commit = 1)
    /\ Clean!CleanupInit
    /\ cast.tool # "cleanup" => \A i \in Expected : ~stack[i].there
    /\ Attest!AttestationInit /\ (cast.tool # "attest" => git.head = Attest!Ready)
Next ==
    /\ \/ cast.tool = "bootstrap" /\ BootstrapNext
          /\ UNCHANGED <<preflight, chain, evidence, aliases, gating, cleanup, attesting>>
       \/ cast.tool = "preflight" /\ Preflight!Next
          /\ UNCHANGED <<bootstrap, chain, evidence, aliases, gating, cleanup, attesting>>
       \/ cast.tool = "chain" /\ ChainNext
          /\ UNCHANGED <<bootstrap, preflight, evidence, aliases, gating, cleanup, attesting>>
       \/ cast.tool = "evidence" /\ EvidenceNext
          /\ UNCHANGED <<bootstrap, preflight, chain, aliases, gating, cleanup, attesting>>
       \/ cast.tool = "rollback" /\ AliasesNext
          /\ UNCHANGED <<bootstrap, preflight, chain, evidence, gating, cleanup, attesting>>
       \/ cast.tool = "gate" /\ GatingNext
          /\ UNCHANGED <<bootstrap, preflight, chain, evidence, aliases, cleanup, attesting>>
       \/ cast.tool = "cleanup" /\ Clean!CleanupNext
          /\ UNCHANGED <<bootstrap, preflight, chain, evidence, aliases, gating, attesting>>
       \/ cast.tool = "attest" /\ Attest!AttestationNext
          /\ UNCHANGED <<bootstrap, preflight, chain, evidence, aliases, gating, cleanup>>
    /\ UNCHANGED cast
Spec ==
    Init /\ [][Next]_<<bootstrap, preflight, chain, evidence, aliases, gating, cleanup,
                       attesting, cast>>

Symmetry == Permutations(Operators)

-----------------------------------------------------------------------------
\* g10_operator_bootstrap.py: racing, killed and half failed runs never leave two
\* headers of the deployment profile in the config file; a run whose bytes stay
\* there says so; every path ends in receipts the validators accept; a PASS receipt
\* of a finished run means it returned PASS, unless two local writes failed; and
\* with one operator at a time no later run destroys the proof of an earlier PASS.
BootstrapIsHonest ==
    cast.tool = "bootstrap" =>
    /\ Bootstrap!TypeOK
    /\ Bootstrap!OneAliasHeader /\ Bootstrap!LeftoverIsReported
    /\ Bootstrap!ReceiptsValidate /\ Bootstrap!PassReceiptIsReturned
    /\ Cardinality(cast.processes) = 1 => Bootstrap!PassIsPreserved

\* g10_aws_preflight.py: whatever the calls answer, the validator accepts the
\* receipt; a PASS stands for nineteen calls made and answered well; the paid model
\* call is made once at most, after every read before it found what it should.
PreflightPassIsEarned ==
    cast.tool = "preflight" =>
    /\ Preflight!TypeOK
    /\ Preflight!ReceiptValidates /\ Preflight!PassIsComplete /\ Preflight!ProbeIsEarned

\* run_g10_closure.py and its judges: a PASS rests on two receipts of one closure
\* that froze the candidate the judge built and that the contract names, and on
\* nothing older than allowed.
ClosurePassIsSound ==
    cast.tool = "chain" =>
    /\ Chain!TypeOK
    /\ Chain!PassIsOneClosure /\ Chain!PassIsFresh /\ Chain!ObservedAsSelected

\* The reviewer evidence: undisturbed, the validator passes exactly the trees a
\* reviewer may rely on; disturbed, it passes no manifest but the reviewed one.
EvidenceVerdictIsExact == 
    [][cast.tool = "evidence" => Evidence!TypeOK /\ Evidence!ExactVerdict]_evidence

\* alias_rollback.py: an alias is moved only as its operator reviewed it; nobody
\* else moving one, PASS leaves both where they were captured and a run that moved
\* one alias and not the other says PARTIAL.  cleanup.py: what is authorised is an
\* approved plan that deletes nothing foreign or retained, once for one nonce, and
\* that has nothing to do once everything is gone.
RollbackIsTold ==
    [][/\ cast.tool = "rollback" =>
             Aliases!TypeOK /\ Aliases!UpdatesAreReviewed /\ Aliases!OutcomeIsTold
       /\ cast.tool = "cleanup" =>
             Clean!AuthorizedPlanIsOwned /\ Clean!DeletionIsOwned /\ Clean!CleanupEnds
      ]_<<aliases, cleanup, attesting>>

\* build_lambda_artifact.py and run_day15_gate.py: builds that race, die between
\* their three files or lose the commit under their Git calls publish a manifest of
\* one commit, but for the exception ManifestIsTrue names; D15-G04 passes on files of
\* one build only, and a run nothing moves under is ready for HEAD's only.
\* run_local_gate.py and attest_release.py: whatever moved before, a verification
\* nothing moves under accepts only what is wholly HEAD's, pushed and proved.
ReadyIsOneBuild ==
    [][/\ cast.tool = "gate" =>
             /\ Gate!TypeOK /\ Gate!ManifestIsTrue
             /\ Gate!ArtifactGateIsSound /\ Gate!ReadyIsHead
       /\ cast.tool = "attest" => Attest!AttestationTypeOK /\ Attest!AcceptedIsTrue
      ]_<<gating, attesting>>
=============================================================================
