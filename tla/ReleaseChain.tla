---------------------------- MODULE ReleaseChain ----------------------------
(***************************************************************************)
(* The candidate-bound evidence of gate G10: run_g10_closure.py freezes a  *)
(* candidate, observes AWS under the operator's contract and writes a      *)
(* private and a public receipt; run_day15_gate.py and change_set_review.py*)
(* read the pair later and judge it against the candidate of their moment. *)
(* Everything is exchanged through files that closures, the operator and   *)
(* the developer write in between.                                         *)
(***************************************************************************)
EXTENDS Naturals, FiniteSets

CONSTANTS Closers,       \* processes that run the closure
          Judges,        \* processes that judge the pair
          Kinds,         \* what they run: "gate" (run_day15_gate), "review"
          MaxVersions,   \* bound: versions of the worktree
          MaxClosures,   \* bound: closures that observe AWS
          MaxTime,       \* bound: clock
          ReceiptAge,    \* MAX_G10_RECEIPT_AGE and the selection age
          CaptureAge,    \* MAX_CHANGE_SET_CAPTURE_AGE
          NoFile

VARIABLES head,      \* the commit of HEAD
          worktree,  \* the version in the worktree; clean when it is HEAD's
          build,     \* the commit artifact, manifest, scan and rendering were made of
          gates,     \* the version the stored P0 and P1 results were run on
          contract,  \* the operator's private contract
          private,   \* the private receipt
          public,    \* the sanitized receipt
          export,    \* the captured change set
          clock,
          cl,        \* each closure process
          jd,        \* each judging process
          closures   \* how many closures have observed AWS: the receipt nonce

vars == <<head, worktree, build, gates, contract, private, public, export, clock, cl, jd,
          closures>>
files == <<contract, private, public, export>>
repository == <<head, worktree, build, gates>>

Numbered == 1..MaxVersions
Candidate == [commit : Numbered, tracked : Numbered, build : Numbered, gates : Numbered]
Contract == [candidate : Candidate, selected_at : 0..MaxTime]
Private == [nonce : 1..MaxClosures, candidate : Candidate, contract : Contract,
            observed_at : 0..MaxTime, status : {"PASS", "BLOCKED"}]
\* private_receipt_sha256 is the private receipt itself; NoFile when there is none
Public == [private : Private \cup {NoFile}, candidate : Candidate, status : {"PASS", "BLOCKED"}]
Export == [candidate : Candidate, captured_at : 0..MaxTime, reviewable : BOOLEAN]

Start == [commit |-> 1, tracked |-> 1, build |-> 1, gates |-> 1]
IdleClosure == [pc |-> "idle", candidate |-> Start, contract |-> NoFile, observed |-> NoFile]
IdleJudge == [pc |-> "idle", kind |-> "gate", candidate |-> Start, private |-> NoFile,
              public |-> NoFile, export |-> NoFile, status |-> "none", at |-> 0]

TypeOK ==
    /\ head \in Numbered /\ worktree \in Numbered
    /\ build \in 0..MaxVersions /\ gates \in 0..MaxVersions
    /\ contract = NoFile \/ contract \in Contract
    /\ private = NoFile \/ private \in Private
    /\ public = NoFile \/ public \in Public
    /\ export = NoFile \/ export \in Export
    /\ clock \in 0..MaxTime /\ closures \in 0..MaxClosures
    /\ \A c \in Closers : cl[c].candidate \in Candidate
    /\ \A j \in Judges : jd[j].candidate \in Candidate

Init ==
    /\ head = 1 /\ worktree = 1 /\ build = 1 /\ gates = 1
    /\ contract = NoFile /\ private = NoFile /\ public = NoFile /\ export = NoFile
    /\ clock = 0 /\ closures = 0
    /\ cl = [c \in Closers |-> IdleClosure]
    /\ jd = [j \in Judges |-> IdleJudge]

-----------------------------------------------------------------------------
(* build_candidate_descriptor, in two steps: HEAD first, then the evidence files *)
clean_head == worktree = head
FullGateResult == gates # 0
EvidenceMatches(commit) == build = commit /\ FullGateResult
derive_candidate(commit) ==
    [commit |-> commit, tracked |-> worktree, build |-> build, gates |-> gates]

-----------------------------------------------------------------------------
(* run_g10_closure.py *)
Closure(c, pc) == cl' = [cl EXCEPT ![c].pc = pc]
Fail(c) == cl' = [cl EXCEPT ![c] = IdleClosure]

\* refresh_full_gate_results, unless --use-existing-gate-results; the gates run
\* whatever the worktree holds
Refresh(c) ==
    /\ cl[c].pc = "idle"
    /\ \/ gates' = worktree
       \/ UNCHANGED gates
    /\ Closure(c, "freeze")
    /\ UNCHANGED <<head, worktree, build, files, clock, jd, closures>>

Freeze(c) ==
    /\ cl[c].pc = "freeze"
    /\ IF clean_head
       THEN cl' = [cl EXCEPT ![c].pc = "evidence",
                             ![c].candidate = [@ EXCEPT !.commit = head]]
       ELSE Fail(c)
    /\ UNCHANGED <<repository, files, clock, jd, closures>>

ReadEvidence(c) ==
    /\ cl[c].pc = "evidence"
    /\ IF EvidenceMatches(cl[c].candidate.commit)
       THEN cl' = [cl EXCEPT ![c].pc = "contract",
                             ![c].candidate = derive_candidate(cl[c].candidate.commit)]
       ELSE Fail(c)
    /\ UNCHANGED <<repository, files, clock, jd, closures>>

\* load_private_contract: without one the closure ends with a BLOCKED receipt
ContractMissing(c) ==
    /\ cl[c].pc = "contract" /\ contract = NoFile
    /\ public' = [private |-> NoFile, candidate |-> cl[c].candidate, status |-> "BLOCKED"]
    /\ Fail(c)
    /\ UNCHANGED <<repository, contract, private, export, clock, jd, closures>>

\* one for another candidate is a failure that leaves no receipt
ContractForeign(c) ==
    /\ cl[c].pc = "contract" /\ contract # NoFile /\ contract.candidate # cl[c].candidate
    /\ Fail(c)
    /\ UNCHANGED <<repository, files, clock, jd, closures>>

ContractLoaded(c) ==
    /\ cl[c].pc = "contract" /\ contract # NoFile /\ contract.candidate = cl[c].candidate
    /\ cl' = [cl EXCEPT ![c].pc = "observe", ![c].contract = contract]
    /\ UNCHANGED <<repository, files, clock, jd, closures>>

\* _validate_contract at the observation time
SelectionFits(k) == clock - k.selected_at <= ReceiptAge

\* observe_aws_preflight (module AwsPreflight), and validate_contract_selection
Observe(c) ==
    /\ cl[c].pc = "observe"
    /\ \/ Fail(c) /\ UNCHANGED closures       \* the profile does not match, or no session
       \/ /\ ~SelectionFits(cl[c].contract)
          /\ Fail(c) /\ UNCHANGED closures
       \/ /\ SelectionFits(cl[c].contract)
          /\ closures < MaxClosures /\ closures' = closures + 1
          /\ \E status \in {"PASS", "BLOCKED"} :
                cl' = [cl EXCEPT ![c].pc = "private",
                                 ![c].observed = [nonce |-> closures + 1,
                                                  candidate |-> cl[c].candidate,
                                                  contract |-> cl[c].contract,
                                                  observed_at |-> clock, status |-> status]]
    /\ UNCHANGED <<repository, files, clock, jd>>

\* _atomic_write of the private receipt
WritePrivate(c) ==
    /\ cl[c].pc = "private"
    /\ private' = cl[c].observed
    /\ Closure(c, "public")
    /\ UNCHANGED <<repository, contract, public, export, clock, jd, closures>>

\* sanitized_receipt and the _atomic_write of it: bound to the bytes just written
WritePublic(c) ==
    /\ cl[c].pc = "public"
    /\ public' = [private |-> cl[c].observed, candidate |-> cl[c].candidate,
                  status |-> cl[c].observed.status]
    /\ Fail(c)
    /\ UNCHANGED <<repository, contract, private, export, clock, jd, closures>>

\* The process dies, or a write fails with RECEIPT_WRITE_FAILED
Interrupt(c) ==
    /\ cl[c].pc \notin {"idle", "freeze"}
    /\ Fail(c)
    /\ UNCHANGED <<repository, files, clock, jd, closures>>

-----------------------------------------------------------------------------
(* run_day15_gate.py (G10) and change_set_review.py *)
JudgeFails(j) == jd' = [jd EXCEPT ![j] = IdleJudge]
KeepForJudge == UNCHANGED <<repository, files, clock, cl, closures>>

\* The gate reads the public receipt first; the review reads the export and the
\* private receipt, then the public one
ReadFirst(j) ==
    /\ jd[j].pc = "idle"
    /\ \/ /\ "gate" \in Kinds /\ public # NoFile
          /\ jd' = [jd EXCEPT ![j] = [IdleJudge EXCEPT !.pc = "second", !.kind = "gate",
                                                       !.public = public]]
       \/ /\ "review" \in Kinds /\ private # NoFile /\ export # NoFile
          /\ jd' = [jd EXCEPT ![j] = [IdleJudge EXCEPT !.pc = "second", !.kind = "review",
                                                       !.private = private, !.export = export]]
    /\ KeepForJudge

ReadSecond(j) ==
    /\ jd[j].pc = "second"
    /\ \/ /\ jd[j].kind = "gate" /\ private # NoFile
          /\ jd' = [jd EXCEPT ![j].pc = "head", ![j].private = private]
       \/ /\ jd[j].kind = "review" /\ public # NoFile
          /\ jd' = [jd EXCEPT ![j].pc = "head", ![j].public = public]
       \/ /\ IF jd[j].kind = "gate" THEN private = NoFile ELSE public = NoFile
          /\ JudgeFails(j)
    /\ KeepForJudge

JudgeHead(j) ==
    /\ jd[j].pc = "head"
    /\ IF clean_head
       THEN jd' = [jd EXCEPT ![j].pc = "evidence",
                             ![j].candidate = [@ EXCEPT !.commit = head]]
       ELSE JudgeFails(j)
    /\ KeepForJudge

JudgeEvidence(j) ==
    /\ jd[j].pc = "evidence"
    /\ IF EvidenceMatches(jd[j].candidate.commit)
       THEN jd' = [jd EXCEPT ![j].pc = "decide",
                             ![j].candidate = derive_candidate(jd[j].candidate.commit)]
       ELSE JudgeFails(j)
    /\ KeepForJudge

\* validate_private_observation_receipt, without the time: of this candidate, and
\* under a contract for it that was young enough when AWS was observed
PrivateIsBound(r, candidate) ==
    /\ r.candidate = candidate
    /\ r.contract.candidate = candidate
    /\ r.observed_at - r.contract.selected_at <= ReceiptAge

\* Mutant: the public receipt need not name the private one
PairIsBound_loosely(pub, pri, candidate) ==
    /\ pub.candidate = candidate /\ pub.private # NoFile
    /\ PrivateIsBound(pri, candidate)
    /\ pub.status = pri.status
\* validate_sanitized_receipt of the pair
PairIsBound(pub, pri, candidate) ==
    /\ pub.candidate = candidate
    /\ PrivateIsBound(pri, candidate)
    /\ pub.private = pri
    /\ pub.status = pri.status

\* MAX_G10_RECEIPT_AGE of change_set_review, MAX_OPERATOR_SELECTION_AGE of the gate
PairIsYoung(pri) == clock - pri.observed_at <= ReceiptAge

\* the change set: of this candidate, captured recently, with none of the reasons
\* the template, diff, IAM, mutation, DynamoDB, region and parameter checks give
ExportIsReviewed(e, candidate) ==
    /\ e.candidate = candidate
    /\ clock - e.captured_at <= CaptureAge
    /\ e.reviewable

Accepts(j) ==
    /\ PairIsBound(jd[j].public, jd[j].private, jd[j].candidate)
    /\ PairIsYoung(jd[j].private)
    /\ jd[j].public.status = "PASS"
    /\ jd[j].kind = "review" => ExportIsReviewed(jd[j].export, jd[j].candidate)

Decide(j) ==
    /\ jd[j].pc = "decide"
    /\ IF Accepts(j)
       THEN jd' = [jd EXCEPT ![j].pc = "idle", ![j].at = clock, ![j].status = "PASS"]
       ELSE JudgeFails(j)
    /\ KeepForJudge

-----------------------------------------------------------------------------
(* The developer, the operator and time *)
\* A tracked file is edited, or the edit is committed
Edit ==
    /\ worktree = head /\ worktree < MaxVersions
    /\ worktree' = worktree + 1
    /\ UNCHANGED <<head, build, gates, files, clock, cl, jd, closures>>
Commit ==
    /\ worktree # head /\ head' = worktree
    /\ UNCHANGED <<worktree, build, gates, files, clock, cl, jd, closures>>
\* the artifact build and the rendering, which take only a clean HEAD
Build ==
    /\ clean_head /\ build # head /\ build' = head
    /\ UNCHANGED <<head, worktree, gates, files, clock, cl, jd, closures>>
\* the operator copies the displayed candidate into a contract, or takes it back
Select ==
    /\ \/ /\ public # NoFile
          /\ contract' = [candidate |-> public.candidate, selected_at |-> clock]
       \/ contract' = NoFile
    /\ UNCHANGED <<repository, private, public, export, clock, cl, jd, closures>>
\* the change set of the receipts' candidate is created and captured
Capture ==
    /\ "review" \in Kinds
    /\ public # NoFile /\ public.status = "PASS"
    /\ \E reviewable \in BOOLEAN :
        export' = [candidate |-> public.candidate, captured_at |-> clock,
                   reviewable |-> reviewable]
    /\ UNCHANGED <<repository, contract, private, public, clock, cl, jd, closures>>
Tick ==
    /\ clock < MaxTime /\ clock' = clock + 1
    /\ UNCHANGED <<repository, files, cl, jd, closures>>

run_closure(c) ==
    \/ Refresh(c) \/ Freeze(c) \/ ReadEvidence(c)
    \/ ContractMissing(c) \/ ContractForeign(c) \/ ContractLoaded(c)
    \/ Observe(c) \/ WritePrivate(c) \/ WritePublic(c) \/ Interrupt(c)
judge(j) == ReadFirst(j) \/ ReadSecond(j) \/ JudgeHead(j) \/ JudgeEvidence(j) \/ Decide(j)

Next ==
    \/ \E c \in Closers : run_closure(c)
    \/ \E j \in Judges : judge(j)
    \/ Edit \/ Commit \/ Build \/ Select \/ Capture \/ Tick

Spec == Init /\ [][Next]_vars

-----------------------------------------------------------------------------
Passed(j) == jd[j].pc = "idle" /\ jd[j].status = "PASS"

\* A PASS of the gate or of the review rests on two receipts of one closure, which
\* froze the very candidate the judge built: halves of two closures, a pair torn by
\* a crash and a pair of an earlier candidate never pass together.
PassIsOneClosure ==
    \A j \in Judges : Passed(j) =>
        /\ jd[j].public.private.nonce = jd[j].private.nonce
        /\ jd[j].candidate = jd[j].private.candidate
        /\ jd[j].candidate.build = jd[j].candidate.commit

\* Along the whole chain nothing is older than it may be: the selection when AWS was
\* observed, the observation and the capture when the PASS is given.
PassIsFresh ==
    \A j \in Judges : Passed(j) =>
        /\ jd[j].private.observed_at - jd[j].private.contract.selected_at <= ReceiptAge
        /\ jd[j].at - jd[j].private.observed_at <= ReceiptAge
        /\ jd[j].kind = "review" => jd[j].at - jd[j].export.captured_at <= CaptureAge

\* AWS is observed only for the candidate the operator's contract names.
ObservedAsSelected ==
    /\ private # NoFile => private.contract.candidate = private.candidate
    /\ \A c \in Closers : cl[c].observed # NoFile =>
          cl[c].observed.contract.candidate = cl[c].candidate
=============================================================================
