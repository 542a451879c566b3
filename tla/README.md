# TLA+ specifications of the Non-Zero CloudOps agent

The agent stops one idle EC2 sandbox instance: it investigates, proposes a stop,
waits for one human decision, sends one `StopInstances` request, verifies the
result independently and, after a crash, recovers without ever repeating the
mutation. This directory models that program from the first tool call to the
proven result, the stores it trusts, its local and its public front ends, and the
tools that prepare a release of it. Paths are relative to
`src/src/aioa_cloudops_agent/` unless they start with `src/`.

## The system

| Component | State | Operations | Talks to |
|---|---|---|---|
| Durable truth (`persistence/`, `nz/contracts.py`) | run, proposal, approval, idempotency claim, checkpoint, evidence, audit log | conditional writes, reads | everyone |
| Investigation (`agent/investigation_flow.py`) | run, budget, checkpoint | `execute`: one bounded agent call, evidence, proposal | durable truth, tools, model |
| Approval flow (`agent/approval_flow.py`, `agent/hitl.py`) | call-local copies of run, proposal, checkpoint | `request`, `resume` | durable truth, the model runtime |
| Remediation (`remediation/`) | call-local run, failure kind | `execute`: register, claim, audit, executor, acknowledge or store the failure | durable truth, EC2 directly or through a private Lambda |
| Verification (`verification/`) | call-local run, observation, attempt | `verify`: bounded polling, evidence, completed claim, audit, success | durable truth, EC2 read-only |
| Recovery (`recovery/coordinator.py`) | snapshot of six records | `recover`: classify, claim a lease, resume verification or read back | durable truth, verification, EC2 read-only |
| Local workflow (`agent/local_first.py`, `agent/local_hitl.py`) | the same, inside the checkpoint | investigate, request, decide, resume | local store, mock inventory |
| Local API (`local_api/`, `portable_server.py`) | token file, handler slots, signal | accept, serve, shut down | local workflow |
| Safety (`safety/`) | circuit state, permits, attempts | `acquire`, `record_*`, retry, model streams | providers |
| Stores (`persistence/local.py`, `nz_dynamodb.py`) | two locked files; one table | the repository methods | file system, DynamoDB |
| Judge (`judge/`, `deployment/`) | daily counters, observation counters, runs, per-process caches | `investigate`, `status`, `ready` | investigation, Secrets Manager, DynamoDB |
| Release tools (`release/`, `src/scripts/`) | receipts, artifacts, evidence, aliases, AWS config file | bootstrap, preflight, closure, review, gates, rollback, cleanup, attestation | AWS, Git, each other through files |

There is no lock around a workflow. Calls come from a Lambda, a tool loop or an
operator, may run concurrently, and may die between any two repository calls.
What keeps them apart is optimistic versions on the run and the checkpoint,
create-once records and one idempotency claim. The hard behaviours are therefore
interleavings over stale copies, crashes between two writes that belong together,
replies lost while the work goes on, storage calls that fail with their write
applied, leases, caches and credentials that expire, and everything that has to
end. `PROJECT.json` lists them as hazards, at their lines, with the properties
that would catch them going wrong.

## Modules

The stop workflow. A call is a member of `Executors`, `Verifiers`, `Recoverers`,
`Approvers` or `Investigators` and runs once; its control point names the next
repository or provider call. Every such call is one atomic step and nothing else
is: a value read in one step may be stale in the next. A result is `ok`, `conflict`
(`StorageConflictError`), `unavailable` (`StorageDependencyError`, with the write
applied or not) or `illegal` (`WorkflowTransitionError`).

| Module | Models | State and actions |
|---|---|---|
| `NonZero` | `nz/enums.py`, `nz/transitions.py`, `safety/failures.py` | constants: states, failures, transition table, failure map |
| `DurableTruth` | `persistence/memory.py`, records of `nz/contracts.py` | one variable per record of one run; one operator per method, its condition and its result |
| `SandboxInstance` | EC2 (external), the emergency variable | instance state, veto, history of stop requests |
| `Remediation` | `remediation/*`, `persistence/prerequisites.py` | `xpc` and the copies each `execute()` holds |
| `Verification` | `verification/*` | `vpc` likewise for `verify()` |
| `Recovery` | `recovery/coordinator.py` | `rpc` likewise for `recover()`; `continuation` and `recovery_disposition` are its decisions on the snapshot |
| `ApprovalFlow` | `agent/approval_flow.py`, `agent/hitl.py` | `apc` likewise for `request()` and `resume()` |
| `StopWorkflow` | their composition | all calls, EC2 and the operator interleaved; the properties |
| `Investigation` | `agent/investigation_flow.py` | `ipc` likewise for `execute()` up to the proposal, composed with the approval calls |

The other parts.

| Module | Models | State and actions |
|---|---|---|
| `TruthContract` | the repository protocol | abstract: what each record's history may be and what a run's state rests on |
| `DynamoStore` | `persistence/nz_dynamodb.py` | a table, and for each client its reads so far; a method is reads one by one, then one conditional write; requests fail, responses are lost and the SDK sends again |
| `ProbeGate` | what a circuit promises | abstract: one prober at a time decides |
| `Circuit` | `safety/circuit.py`, `model_circuit.py`, `retry.py` | breaker, permits, clock readings taken before the lock |
| `LocalTruth`, `LocalFirst`, `LocalHitl`, `LocalWorkflow` | `persistence/local*.py`, `agent/local_first.py`, `agent/local_hitl.py` | the two files; worker threads that investigate, challenge, decide and resume; their composition with crashes, failing files and passing time |
| `LocalServer` | `local_api/server.py`, `portable_server.py` | token file, accept loop, bounded slots, shutdown signal |
| `JudgeService` | `judge/`, `deployment/quota.py`, `auth.py`, `status.py` | environments that serve one request at a time over shared counters, with caches of their own |
| `AuthorityBootstrap` | `src/scripts/day15/g10_operator_bootstrap.py` | config file, lock, append with rollback, receipt |
| `AwsPreflight` | `src/scripts/day15/g10_aws_preflight.py` | nineteen reads, their receipt and its validator |
| `ReleaseChain` | `run_g10_closure.py`, `g10_candidate.py`, `change_set_review.py` | candidate, contract, two receipts, and those who judge them |
| `ReviewerEvidence` | `build_` and `validate_reviewer_evidence_manifest.py` | a manifest and two views, a Git history that moves |
| `AliasRollback`, `Cleanup` | `src/scripts/day15/alias_rollback.py`, `release/cleanup.py` | aliases and plans; stack, plan, approval, envelope |
| `ArtifactBuild`, `Day15Gate` | `build_lambda_artifact.py`, `run_day15_gate.py` | two builds from a worktree that moves between any two of their Git calls and reads, three published files, ten gates that read them one by one |
| `ReleaseAttestation` | `release/attestation.py`, `run_local_gate.py`, `attest_release.py` | gate evidence, attestation and its verification over a moving repository |

`MC*` modules instantiate these for TLC: `MCStopWorkflow` (symmetry, and a view
that forgets the locals of calls that have returned), `MCScenarios`,
`MCInvestigation`, `MCLocalWorkflow`, `MCLocalService`, `MCJudgeService`,
`MCDynamoStore`, `MCReleaseTools`. `StopWorkflowProofs`,
`InvestigationProofs`, `LocalProofs`, `CircuitProofs`, `StoreProofs`, `JudgeProofs` and
`ReleaseProofs` hold theorems; `ApprovalProofs` holds the lemmas about the vocabulary, the
repository and the approval calls that the first two share.

Abstractions. Hashes, identifiers, targets, tags and timestamps are left out where
they only bind records to the one proposal there is. An acknowledgement, a piece of
evidence and a receipt are named by the call that made them, because each carries
fresh identities and times. The 1,025th audit event of a run (`persistence/memory.py:350`)
is represented by audit appends that fail for a while: that they would fail for ever is
not modelled. A lease is `none`, `live` or `expired`. The audit log is
the set of event types in it. The model's agent call is a choice of its outcomes.
Reads of records that no longer change are merged with the next one. What a document
of the release tools says is one classification of its content; what it is bound to
and when it was read is kept. History variables (`done`, `claims`, `failedAt`,
`stopCalls`, `stirred`, `heads`, `doubtful` and the like) record what the program did and
are read by properties only.

`ArtifactBuild` and `Day15Gate` keep apart every Git call of `validate_repository_inputs`,
each copy of the sources and the comparison after it, each published file, and the five
opens of the archive by D15-G04 (inspected, hashed, inspected afresh, extracted,
imported). Merged or left out, and why that is safe for what is claimed: a Git call, a
copy or a comparison over several files is one step on one opaque tree, and Git's index
follows HEAD. A build under which HEAD has not moved compares every file with the one
commit, and one under which nothing moves after its second look sees a single tree, so a
finer grain adds behaviour only where `ManifestIsTrue` claims nothing. The two opens
inside `inspect_archive`, and those of `clean_import_handlers`, are one each. D15-G04's
comparisons of lock, handlers, dependencies and toolchain are left out, so no property
relies on them.

Definitions marked `Mutant` are plausible bugs: each replaces the operation of the
same place, and the property named for it in `PROJECT.json` must then fail. They are
not used by the specification.

## Runs

One run asks one question. Where a component has several situations worth their own
bounds, a behaviour first chooses a *cast*: which calls are made, which of them may
die, how many faults, edits or ticks happen. Every step is then a step of the
component's own `Next`; the cast only withholds some. Deadlock checking is off in all
runs because every call ends and bounded clocks and counters run out: a finished
system has nothing left to do.

| Run | Instance | Properties, and what they show |
|---|---|---|
| `approval` | 3 approval calls, 2 sessions, an execution or a recovery, all may die | `DecisionGoverns`: the run follows the one stored decision |
| `execution` | casts of 2 executions, 1 verification and 1 recovery behind the Lambda; 1 storage fault, 1 drift, 2 polls, the veto, crashes | `TypeOK`, `OneSender`, `StopIsAuthorised`, `NoTransitionError`, `OutcomeIsProven`, `VetoHonoured`, `DecidedStaysDecided` |
| `recovery_race` | 1 execution, 2 recoveries, crashes, lease expiry, no Lambda | `AtMostOneStop`, `OneClaimPerLease`, `AmbiguousStopNotFailed`, `OutcomeIsProven`, `DecidedStaysDecided` |
| `settles` | 1 execution that may die, 1 verification, 1 recovery | `LostExecutionIsReconciled`, `VerifyingSettles` |
| `evidence_restart` | 1 execution, 1 verification that may die, 1 recovery | `VerifiedResultReconciles` fails: see below |
| `investigate` | casts of 2 investigations and 2 approval calls, crashes, 1 fault, 2 turns | `ProposedRunIsSound`, `ApprovalIsKept`, `FaultFreeRunLeavesInvestigation` |
| `circuit` | a stream and a cancellable reader, threshold 2, cooldown 1, 3 calls, 3 ticks | `StateStaysValid`, `CooldownHonoured`, `ImplementsProbeGate`, `ProbeIsDecided` |
| `local` | casts of 2 workers: one run with 2 sessions and 2 challenges; 1 failing file with expiry; 2 runs that share a resource | `MutatedOnceAndApproved`, `StoredRunsAreSound`, `DecisionIsKept` |
| `local_settles` | 1 worker dies and one keeps resuming; 2 servers and a token file; 1 server, 3 clients, 2 slots, 1 signal | `ApprovedRunSettles`, `ServerIsSound`, `ConnectionIsServed` |
| `judge` | casts of 2 environments, 2 runs, 3 requests, 4 ticks (days of 2), 1 rotation, 1 fault or crash | `BudgetsHold`, `AnswersAreBacked`, `PollerIsReleased` |
| `dynamo` | casts of 2 or 3 clients, 2 calls or 1, from every stage of a run, 1 fault or lost response | `ImplementsContract`, `AnswersStayTrue` |
| `release_tools` | one tool per cast, each with what disturbs it: 2 operators, an editor, kills, failing writes and reads, commits, deployments, time | `BootstrapIsHonest`, `PreflightPassIsEarned`, `ClosurePassIsSound`, `EvidenceVerdictIsExact`, `RollbackIsTold`, `ReadyIsOneBuild` |

Why the bounds are enough. Each race has one conditional write and a winner, so two
calls of a kind lose every race the code arbitrates; a third takes the steps of the
second. `DynamoStore` gets a third client because a lost response lets a client race
with itself. One fault reaches every error path, since each path handles one failure;
the bootstrap gets two because its rollback is what happens after the first. Clocks
run past every expiry once. A developer gets three moves beside a build, because a
manifest that names the wrong commit takes three: away from it after HEAD was read, back
before HEAD is read again, and away once more. For the stop workflow, the investigation, the local
workflow, the circuit, the store and the judge the proofs below remove the bounds,
except for liveness.

What the less obvious properties say. `OutcomeIsProven`: a success has evidence made
by a call that saw the instance stopped itself and a completed claim that names it,
no claim is open behind a terminal run, polling is bounded. `AnswersStayTrue`: the
record a client was told it stored is there, nobody else moved the run from the same
version, a receipt stays with its open claim. `ProposedRunIsSound`: a run a human sees
has its audits and its checkpoint behind it, is within its budget, and the agent was
called once. `MutatedOnceAndApproved`: the resource changes once at most, whoever
resumes how often and wherever a process dies. `ClosurePassIsSound`: a PASS rests on
two receipts of one closure that froze the candidate the judge built, and on nothing
older than allowed. `EvidenceVerdictIsExact`: a verdict nothing moved under is exactly right; one under
which something moved accepts nothing else. `ReadyIsOneBuild` speaks of
builds, gate and attestation. A manifest names the one commit its archive was made of, whatever was
edited, committed or checked out meanwhile, with one exception: HEAD moved between the two
looks the build takes at it, and something moved again after the second (`doubtful`). When
D15-G04 passes after gates that passed, the manifest, the scan, the archive it inspected
and the one it hashed are of one build with clean proofs, whoever published what in
between; nothing is said of the archive it extracted and scanned afresh, because that is
opened again and a build may publish in between. When a run under which nothing moved
calls the candidate ready, all of these, and the archive extracted and imported, are
HEAD's; and a verification of the attestation nothing moved under accepts only what is. `RollbackIsTold` says of the cleanup what an authorisation
rests on while the stack has not drifted; once it has, nothing observes it again, and no
property can hold.

### Fairness

* `settles`: weak fairness of each call's own steps (the process that runs it keeps
  running, unless it may crash) and of EC2 finishing a stop it accepted. Nothing of
  the human, the operator, faults or lost invocations.
* `investigate`: weak fairness of each investigation's steps.
* `circuit`: weak fairness of acquiring, of the dependency answering somehow, and of
  recording: the client library has timeouts. Not of ticks, and not of cancellation.
* `local_settles`: weak fairness of the surviving workers' steps and of the server's
  loop and threads (operating system scheduling; the listen queue is first come, first
  served, and clients that fall silent run into the socket timeout); strong fairness
  of a surviving worker being asked to resume an approved run: somebody keeps asking,
  although each request may find the worker busy.
* `judge`: weak fairness of the clock and of each environment's steps; strong fairness
  of each client's poll, which finds all environments busy from time to time.

## Where documentation and code differ

`evidence_restart` is a run that must fail: `docs/architecture/day-11-recovery.md:9`
says *"verified results reconcile idempotently after restart"*, but
`verification/coordinator.py:219` stores the evidence and completes the claim in two
calls. After a crash between them each later attempt builds evidence with a new
identity, conflicts with the stored one, and recovery defers for ever.

The models follow the code in these places too, and their properties are stated so
that they hold of it:

* `remediation/lambda_client.py:57`: behind the Lambda a `FunctionError` hides whether
  the exception was an ambiguous stop; the claim becomes FAILED although the stop may
  have been accepted (`docs/architecture/day-14-p1-resilience.md:23` says ambiguous
  acknowledgements remain `RECOVERY_REQUIRED`). So `AmbiguousStopNotFailed` is checked,
  and proved, for the executor in process only.
* `recovery/coordinator.py:666`: recovery can close a run as success before the audit
  event that `day-10-verification.md:7` puts first.
* `safety/model_circuit.py:54`: a cancelled model stream that was the probe closes the
  circuit, as an answer would (day-14, line 22, speaks of successful probes).
* `agent/local_hitl.py:558`: two runs for one resource derive one idempotency key; the
  second finds a foreign receipt and stays in `EXECUTING`.
* `persistence/local_integrity.py:233`: a directory sync that fails after the
  replacement reports a dependency failure of a change that happened
  (`RELIABILITY_SECURITY.md:85`).
* `persistence/nz_dynamodb.py:445` and `:402`: completing a claim writes the receipt it
  read, so one acknowledged in between is dropped; and a claim can be registered after
  the run has left `APPROVED`. `TruthContract` allows both, because the coordinators do
  not depend on either.
* `portable_server.py:19`: the shutdown signal is an exception in whatever the main
  thread does; inside the handling of one connection `socketserver` swallows it, and
  the signal and the connection's slot are lost.
* `local_api/server.py:127`: the token file is created and then written; a crash in
  between leaves a file no server accepts.
* `src/scripts/day15/g10_operator_bootstrap.py:638`: the rollback truncates to the
  length read at the start, and so cuts what an editor appended since.
* `src/scripts/day15/g10_candidate.py:308`: HEAD is read once, before the files.
* `src/scripts/day15/alias_rollback.py:269`: BLOCKED can be reported after an alias was
  moved (`src/docs/operations/day15-deployment-gate.md:270`).
* `release/cleanup.py:617`: the authorisation envelope carries no expiry.
* `src/scripts/day15/build_lambda_artifact.py:231`: `validate_repository_inputs` says of
  itself that it binds the inputs "to one completely clean Git commit" (`:211`). It reads
  HEAD once and asks Git for status, index, tree, objects and source tree afterwards, so
  with a checkout in between it returns the name of one commit and the objects of another.
  A second such checkout in the validation at `:1389` makes both results equal, and the
  manifest names a commit its archive was not made of. `ManifestIsTrue` excepts exactly
  this history.
* `src/scripts/day15/build_lambda_artifact.py:1244`: `revalidate_artifact` records the hash
  of the archive it inspected and then opens the file again to extract it, and once more
  to import it. A build that publishes in between gives D15-G04 a scan of another archive.
* `src/scripts/day15/run_day15_gate.py:2019`: the template is read once; the other
  sources when their gate runs. A scan that was published as BLOCKED makes D15-G04 fail.
* `src/scripts/phase3/run_local_gate.py:243`: HEAD and the worktree are looked at once,
  before hours of proofs "against one clean commit" (`:241`).

## Proofs

The theorems hold for any sets of calls, clients, threads, runs and environments, any
bounds and settings, and both deployments. They assume only what the modules declare of
their constants: bounds are natural numbers, kinds of calls are disjoint
(`StopWorkflow`), nobody is a run or a session (`LocalTruth`), the store's methods and targets are those of the code (`DynamoStore`), settings are
positive where the code validates that they are (`Circuit`, `JudgeService`, `LocalServer`), `Absent` is no token (`LocalServer`), and of
the release tools that the operators are finitely many, that at least one run and one
version of the candidate is allowed, that resources are either expected or foreign, and
that a check of the day-15 gate ends PASS, FAIL or BLOCKED
(`MCReleaseTools`, whose theorems cover every cast it starts a tool with). TLC
evaluates these assumptions in the runs.

| Module | Theorems (property) |
|---|---|
| `StopWorkflowProofs` | `TypeCorrect` (`TypeOK`), `SenderIsUnique` (`OneSender`), `StopSentOnce` (`AtMostOneStop`), `NothingIsRaised` (`NoTransitionError`), `DecisionsAreFinal` (`DecidedStaysDecided`), `StopsAreAuthorised` (`StopIsAuthorised`), `DecisionIsObeyed` (`DecisionGoverns`), `OneOwnerPerLease` (`OneClaimPerLease`), `VetoIsHonoured` (`VetoHonoured`), `RunsEndProven` (`OutcomeIsProven`), `LostStopIsNotFailed` (`AmbiguousStopNotFailed`, without the Lambda) |
| `InvestigationProofs` | `InvestigationIsSound` (`ProposedRunIsSound`), `OvertakenInvestigation` (`ApprovalIsKept`) |
| `LocalProofs` | `ResourceChangedOnce` (`MutatedOnceAndApproved`), `StoredRunsSound` (`StoredRunsAreSound`), `DecisionsAreKept` (`DecisionIsKept`), `ServerStaysSound` and `ServiceStaysSound` (`ServerIsSound`) |
| `CircuitProofs` | `BreakerStaysValid` (`StateStaysValid`), `CooldownServed` (`CooldownHonoured`), `BreakerImplementsProbeGate` (`ImplementsProbeGate`) |
| `StoreProofs` | `StoreImplementsContract` (`ImplementsContract`), `AnswersAreKept` (`AnswersStayTrue`) |
| `JudgeProofs` | `ToldIsSo` (`AnswersAreBacked`), `SpendingIsBounded` (`BudgetsHold`) |
| `ReleaseProofs` | `PreflightIsEarned` (`PreflightPassIsEarned`), `ClosureIsSound` (`ClosurePassIsSound`), `RollbackIsTrue` (`RollbackIsTold`), `BootstrapStaysHonest` (`BootstrapIsHonest`), `ReadyIsTrue` (`ReadyIsOneBuild`), `VerdictOfEvidence` (`EvidenceVerdictIsExact`) |

**The stop workflow.** Every invariant and action property of `StopWorkflow` is proved.

* `TypeCorrect`: one lemma per repository method, then one per component with a step per
  action. The same lemmas give `RunMoves`: a step leaves the run alone or moves it along
  the transition table.
* `SenderIsUnique`: `AtMostOneStop` is not inductive, since a state with one request sent
  and another call about to send satisfies it. `OneSender` says who may still send
  (`MaySend`: between the claim and `StopInstances`, or a function left behind the
  Lambda), that there is one such call and then nothing has been sent, and that the run
  is no longer claimable once there is one or a request was sent. Only `ClaimExecution`
  makes a sender, and it needs a claimable run; no row of the table leads back to a
  claimable state (`NoWayBack`).
* `NothingIsRaised`: what each call holds. The copy of the run a call is about to move
  was read some steps ago; the invariant says which states it can name at each control
  point, and that the transition asked for from there is in the table. A stale copy then
  ends in a conflict, never in an exception.
* `DecisionsAreFinal`: every step that touches a record is one of the repository's
  writes, and each of them keeps what is decided.
* `StopsAreAuthorised`, `DecisionIsObeyed`: "past AWAITING_APPROVAL the run was approved"
  is not inductive, because recovery leads from `RECOVERY_REQUIRED` back to `VERIFYING`;
  the invariant adds that a run in `RECOVERY_REQUIRED` was approved as well, and that a
  call that may send already has its decision, claim and audit event.
* `OneOwnerPerLease`: a stored claim moves the checkpoint past the version every other
  reader of the snapshot holds. `VetoIsHonoured`: an action property, by cases.
* `RunsEndProven`: between "evidence stored" and "success" up to three calls pass through
  four writes. The invariant says of every call what it has seen and of the evidence that
  its maker saw the instance stopped and still has that observation (`Proven`); that an
  acknowledgement is stored, or about to be, only for a stop that was sent
  (`Acknowledged`); and that a claim exists only past the decision, a completed one names
  the stored evidence, and a successful run has both (`Concluded`).
* `LostStopIsNotFailed`: one call at most owns the execution (`Owned`); after an
  ambiguous stop no call stores an acknowledgement, and a call about to complete the
  claim does so as `RECOVERY_REQUIREMENT` (`NotFailed`).

**The investigation.** "A proposed run is backed" is not inductive: nothing in it says
that the call about to propose has audited anything. `IInv` in `InvestigationProofs`
says it of every control point, in the order of the calls, and rests on two facts.
`OneOwner`: one call at most is past the transition to `INVESTIGATING`, the agent was
invoked only if one was, and from then on the run's version is 2 or more, so that no
other call can win the run (`InvestigatorOwning`). `InPlace`: until its owner has
proposed, the run is in the state the owner believes it is in, because approval calls
move a run only from `REMEDIATION_PROPOSED` on (`ApproverMoves`). What the owner knows is
then kept by every other call (`HoldsElsewhere`, `HoldsApproved`): records are only
added. An owner that overspent is on its way to a failure (`Spent`), and the failure it
will store is one the table allows from where it stands (`Failing`). For the checkpoint,
`Depth` orders the states and every step moves the run to a deeper one or not at all;
`Saved` says that the checkpoint names no deeper state than the run's, and `Replaces`
that an approval call about to save an interrupt or a decision has moved the run there.
`OvertakenInvestigation` follows: the owner's versioned writes expect states that lie
before `AWAITING_APPROVAL`, and its checkpoints replace versions 0 and 1, while a
checkpoint with an interrupt has version 2 or more.

**The local workflow.** None of the three properties is inductive: a worker that holds
an old copy could change the resource, or save over a decision, in one step. The
invariant `IInv` says what a copy is worth. `Extends` is what every later version of a
checkpoint keeps of an earlier one: an equal version is the same record, and proposal,
decision, intent, receipt and verification stay. The stored checkpoint always extends
what a worker knows of it (`Known`), so a save that finds the version it expects
replaces the very record its copy was built from, and any other is refused
(`SaveKeeps`). `Checked`, `InState` and `Failing` say, control point by control point,
what a call has made sure of before it goes on: `execute` is reached with an intent and
no receipt, `d_save` with an answer that matches the open challenge, a failure with a
transition the table allows unless a proposal expired. `Backed` ties the two files
together: a receipt in the inventory has its intent in the checkpoint, a stored
verification is still true of the inventory, a waiting run has its proposal.
`OneReceipt`: the resource was changed once for the one run with a receipt, or not at
all. `Depth` bounds the run's version: each transition leads deeper, since no local call
asks for the table's way back from `RECOVERY_REQUIRED`. One lemma per action shows that it keeps all this and
that the stored checkpoints only grow (`Grows`), which is most of `DecisionsAreKept`; the
rest is that `SaveDecision` is the only step that adds a decision (`NextAnswers`).
No step needs that files do not fail; that no call raises needs only that no proposal
has expired.

**The local server.** `OneToken` compares two servers, so it says nothing of the one that
is still starting. The invariant compares each of them with the file instead
(`TokenIsTheFiles`): who writes it, or has read it, has the file's token, and the file is
made once because it is created exclusively and never removed. `SlotsAreConserved` is not
inductive either: a loop that let go of a connection twice, or a thread of a server that
has gone, would break it. `Waiting` says that the connections in a listen queue are
queued there once each and that the loop holds one of its own; `Attached`, that a
connection belongs to a server that serves; `Slots`, that the threads of a server are
finitely many and that each stands for one slot, until a signal is lost. A loop step
changes one server and its own connections (`LoopStep`), so the others keep theirs.

**The circuit.** The invariant adds to the valid record: permits never run ahead of the
breaker's generation; of the current generation none is left while it is open, exactly
one, half-open, while it is half-open, and no half-open one while it is closed
(`PermitsMatch`); no caller holds a clock reading from the future, and the deadline of an
open breaker counts from the failure that opened it (`ClockMatches`); and a closed one
has failures left before the threshold (`CountMatches`). The refinement maps `prober` to the holder of the half-open permit, whose uniqueness is
`PermitsMatch`; steps that change neither state nor holder are stutters.

**The store.** A method decides on items read one by one, so what counts is what an old
read says about the table now (`ReadsAreOld`): a version names one run record; a
decision, an evidence and a closed claim are never replaced; an open claim's receipt is
not exchanged. `Lawful` describes one conditional write by what it may do to the table;
each method's write is lawful given what its reads still say, a lawful write keeps every
old read true, and it is a step of `TruthContract`. For the answers the invariant adds
that each answer given still holds and that one client at most was told it moved the
run from a version.

**The judge.** `Control` is type correctness with what a request holds while it is
served, and `StepFollows` says which handler brings a request to which point. Answers:
a cached token expires within a lifetime of its fetch and of its retirement, a
remembered "ready" within a lifetime of a probe that began before the credential
expired, and every "ask again" is among the counted observations (`TokensAreLive`,
`ProbesAreRecent`, `PollsAreCounted`). Budgets: requests that have paid and not started
are counted with those that started (`DayIsPaid`), and the runs that exist or are about
to are no more than the slots started (`RunsArePaid`); the steps use the library's
facts on cardinalities of finite sets.

**The preflight.** The validator judges the whole ledger, a step sees one entry.
`PreflightInv` says what the ledger is at each step: calls in the order of the plan and
none twice (`InOrder`), none missing before the one being made (`NothingMissing`), the
paid probe only after good answers to all reads before it (`ProbePaid`), and what the
answers so far allow the receipt to say (`Made`). The validator's loop over the ledger is
a recursive function; what it returns is shown without induction, from the least entry
at which it could go wrong (`LeastNumber`).

**The closure.** A PASS relates two receipts and a contract written at different times
by processes that see only files. `ChainInv` says that a closure holds an observation
only under a contract for its candidate, that what is on disk was written by the closure
it names, and that a judge about to decide has evidence of the commit it built
(`JudgeHolds`). The receipts' ages then bound everything the PASS rests on.

**The alias rollback and the cleanup.** `RunHolds` says at each point of a run what its
operator reviewed and what the calls answered, so that the outcome it tells is the one
there is. For the cleanup, `FitsStack` and `EnvelopeHolds` tie plan, approval and envelope
to the stack they were made for: an authorised deletion was planned, and its nonce is used.

**The bootstrap.** Several operators append to one file under a lock that an editor does
not take, and each step may fail or be the last. `BootInv` says of a run which facts it
has established at each control point (`Stage`, and `Consistent` for a run that only has
to report); that it holds the lock of the file it opened while it compares and writes;
that the bytes it compares with hold no alias and none of its own, and that the file
begins with them while it writes (`Original`); that before it writes no file holds bytes
of it (`Unwritten`). So an alias is only added where there is none, and a truncation cuts
off the run's own bytes. `LeftoversTold`: whoever left bytes in the file was killed, has
said so, or is about to. `PassReceiptHolds`: a receipt that says PASS, of a run that did
not return it, will be replaced but for a second fault. With one operator the last PASS
is among the backups or still to be preserved (`OneAtATime`).

**The builds, the day-15 gate and the attestation.** `BuildHolds` speaks of a build in two
ways. Until it looks at HEAD again: if HEAD has not moved since its first look, what it
recorded and what it staged is HEAD's (`FirstLook`). From then on: if HEAD had not moved,
or nothing has moved since, what it recorded is the one tree it staged (`SecondLook`).
Either is what the manifest then says, and `doubtful` is the case in which neither holds.
The gate reads one by one files that are never removed (`Loaded`). While nothing changes,
what it has read and what Git told it is what is there (`Holds`, `Current`), and the gates
it has passed so far speak of HEAD and of a clean worktree (`Judged`). What D15-G04
compares before it passes needs no such assumption (`Alike`).
While nothing moves, the local gate judges the commit it began with (`GateStands`), which
is what a proof it writes means (`Tested`), and an attester has at each step established
part of what it will accept (`AttesterKnows`, `AttesterStands`).

**The reviewer evidence.** A validation that nothing disturbs is clean so far exactly
when each check behind it holds of the tree as it is (`Exact`, `Judgement`); the exact
verdict needs both directions, since a whole set must pass. Disturbed or not, a clean
validation has kept the manifest to what the validator's own code allows (`Upheld`), and
only the reviewed manifest is left once the rebuild agrees (`CleanIsReviewed`).

What stays with TLC. The liveness properties (`LostExecutionIsReconciled`,
`VerifyingSettles`, `FaultFreeRunLeavesInvestigation`, `ProbeIsDecided`,
`ApprovedRunSettles`, `ConnectionIsServed`, `PollerIsReleased`): liveness under fairness
and ENABLED are outside the prover. Every invariant and every action property of the
passing runs is stated by a theorem. That the assumptions made of EC2, DynamoDB and the file system hold is not checked by
anything here.

## Not modelled

Left out because it keeps no state that calls share: tool policy and schemas (literal
tables), parsing, rendering, logging and telemetry, the composition of flows from
configuration, single-document validators of the release library, and scripts that only
read files. Left out because nothing composes it any more: the day-1 persistence. Partly
modelled: field validation of the contracts, signatures and modes of local files, audit
pages and item size limits in DynamoDB, the judge's control-plane reads, the content of
claims in the reviewer evidence. `PROJECT.json` lists every component with its status.
