---------------------------- MODULE AwsPreflight ----------------------------
(***************************************************************************)
(* observe_aws_preflight: the fixed sequence of AWS reads behind gate G10, *)
(* every one of which may lack a client, fail, answer with something that  *)
(* is no mapping, answer with a wrong value, or answer well; the receipt   *)
(* made of them, and the validator that closure and review hold it to.     *)
(***************************************************************************)
EXTENDS Naturals, Sequences, SequencesExt, FiniteSetsExt

CONSTANTS MaxDefects   \* bound: calls of one preflight that do not answer well

\* PASS_OPERATION_SEQUENCE
Operations == <<
    "sts:GetCallerIdentity",
    "s3:GetBucketLocation", "s3:GetBucketEncryption", "s3:GetBucketPublicAccessBlock",
    "s3:GetBucketOwnershipControls", "s3:GetBucketVersioning",
    "s3:GetBucketLifecycleConfiguration", "s3:GetBucketPolicy",
    "iam:SimulatePrincipalPolicy", "iam:SimulatePrincipalPolicy",
    "ec2:DescribeInstances", "cloudwatch:GetMetricStatistics",
    "bedrock:GetInferenceProfile", "bedrock-runtime:Converse",
    "budgets:DescribeBudget", "budgets:DescribeNotificationsForBudget",
    "budgets:DescribeSubscribersForNotification",
    "budgets:DescribeSubscribersForNotification",
    "budgets:DescribeSubscribersForNotification" >>
Calls == 1..Len(Operations)
\* the calls of each observation
Sts == {1}      S3 == 2..8      Secret == {9}     ArtifactPath == {10}
Ec2 == {11}     CloudWatch == {12}
NovaProfile == 13                Converse == 14
Budget == 15    Notifications == 16               Subscribers == 17..19

Answers == {"good", "bad", "malformed", "failed", "no_client"}

VARIABLES at,        \* the next call, or the end
          ledger,    \* call_ledger: the calls made, in order
          answer,    \* call -> the answer kept in observations
          reasons,   \* context.reasons, as <<what, call>>
          synthetic, \* contract.synthetic_converse
          receipt    \* the receipt, once finished

vars == <<at, ledger, answer, reasons, synthetic, receipt>>

NoReceipt == [status |-> "none"]
End == Len(Operations) + 1

Init ==
    /\ at = 1
    /\ ledger = <<>>
    /\ answer = [c \in {} |-> "good"]
    /\ reasons = {}
    /\ synthetic \in BOOLEAN
    /\ receipt = NoReceipt

-----------------------------------------------------------------------------
\* _Context.call: without a client nothing is called or entered in the ledger
Called(c, a) == ledger' = IF a = "no_client" THEN ledger ELSE Append(ledger, c)

\* Mutant: a wrong value of a budget read is kept without a reason
Noted_leniently(c, a) ==
    reasons' = reasons \cup IF a = "good" \/ (a = "bad" /\ c >= Budget) THEN {} ELSE {<<a, c>>}
\* context.reason: the transport reasons of _Context.call, or the one the
\* observation gives a wrong value
Noted(c, a) == reasons' = reasons \cup IF a = "good" THEN {} ELSE {<<a, c>>}

Answered(c, a) ==
    answer' = [d \in DOMAIN answer \cup (IF a \in {"good", "bad"} THEN {c} ELSE {}) |->
                 IF d = c THEN a ELSE answer[d]]

\* where the observation functions go on after a call
After(c, a) ==
    IF a = "good" \/ c \notin Sts \cup {NovaProfile, Notifications} THEN c + 1
    ELSE IF c = NovaProfile THEN Budget ELSE End

Defects == Cardinality(reasons)

\* One read, and what its observation makes of the answer
Call(c) ==
    /\ at = c
    /\ c = Converse => synthetic /\ reasons = {}
    /\ \E a \in Answers :
        /\ a # "good" => Defects < MaxDefects
        /\ Called(c, a) /\ Noted(c, a) /\ Answered(c, a)
        /\ at' = After(c, a)
    /\ UNCHANGED <<synthetic, receipt>>

\* _observe_nova without the probe: not asked for, or after a blocker
SkipProbe ==
    /\ at = Converse
    /\ ~synthetic \/ reasons # {}
    /\ at' = Budget
    /\ reasons' = reasons \cup {<<"skipped", Converse>>}
    /\ UNCHANGED <<ledger, answer, synthetic, receipt>>

-----------------------------------------------------------------------------
Observed(cs) == cs \subseteq DOMAIN answer
Clean(cs) == \A r \in reasons : r[2] \notin cs
\* the checks of _finish_receipt: what was observed, and no reason of its kind
Ready == [
    authenticated_identity_match    |-> Observed(Sts) /\ Clean(Sts),
    packaging_bucket_ready          |-> Observed(S3 \cup ArtifactPath)
                                        /\ Clean(S3 \cup ArtifactPath)
                                        /\ Secret \cap {r[2] : r \in {x \in reasons : x[1] = "failed"}} = {},
    judge_secret_ready              |-> Observed(Secret) /\ Clean(Secret)
                                        /\ ArtifactPath \cap {r[2] : r \in {x \in reasons : x[1] \in {"failed", "no_client"}}} = {},
    sandbox_read_only_verified      |-> Observed(Ec2) /\ Clean(Ec2),
    cloudwatch_evidence_ready       |-> Observed(CloudWatch) /\ Clean(CloudWatch),
    nova2_profile_access            |-> Observed({NovaProfile, Converse})
                                        /\ Clean({NovaProfile, Converse}),
    budget_notification_owner_ready |-> Observed({Budget, Notifications} \cup Subscribers)
                                        /\ Clean({Budget, Notifications} \cup Subscribers)]

AllReady == \A k \in DOMAIN Ready : Ready[k]

\* _finish_receipt
Finish ==
    /\ at = End /\ receipt = NoReceipt
    /\ receipt' = [status |-> IF reasons = {} /\ AllReady THEN "PASS" ELSE "BLOCKED",
                   checks |-> AllReady, reasons |-> reasons, ledger |-> ledger,
                   observations |-> answer]
    /\ UNCHANGED <<at, ledger, answer, reasons, synthetic>>

Observe(cs) == \E c \in cs : Call(c)
get_caller_identity == Observe(Sts)
observe_s3 == Observe(S3)
observe_iam == Observe(Secret \cup ArtifactPath)
observe_ec2 == Observe(Ec2)
observe_cloudwatch == Observe(CloudWatch)
observe_nova == Observe({NovaProfile, Converse}) \/ SkipProbe
observe_budgets == Observe({Budget, Notifications} \cup Subscribers)

Next ==
    \/ get_caller_identity \/ observe_s3 \/ observe_iam \/ observe_ec2
    \/ observe_cloudwatch \/ observe_nova \/ observe_budgets \/ Finish
Spec == Init /\ [][Next]_vars

-----------------------------------------------------------------------------
\* _ledger_is_valid, by the names of the calls: the whole sequence for a PASS, else
\* each name found after the position of the one before; End when it is not
Position(pos, c) ==
    LET later == {k \in Calls : k > pos /\ Operations[k] = Operations[c]}
    IN IF later = {} THEN End ELSE Min(later)
Positions(l) ==
    LET position[n \in 0..Len(l)] == IF n = 0 THEN 0 ELSE Position(position[n - 1], l[n])
    IN position
LedgerIsValid(l, complete) ==
    IF complete THEN [i \in 1..Len(l) |-> Operations[l[i]]] = Operations
    ELSE Positions(l)[Len(l)] < End

\* validate_private_observation_receipt: a PASS must show every value again
Validates(r) ==
    /\ LedgerIsValid(r.ledger, r.status = "PASS")
    /\ \/ /\ r.status = "PASS" /\ r.reasons = {} /\ r.checks
          /\ DOMAIN r.observations = Calls
          /\ \A c \in Calls : r.observations[c] = "good"
       \/ r.status = "BLOCKED" /\ (r.reasons # {} \/ ~r.checks)

TypeOK ==
    /\ at \in 1..End
    /\ Range(ledger) \subseteq Calls
    /\ DOMAIN answer \subseteq Calls
    /\ synthetic \in BOOLEAN
    /\ receipt = NoReceipt \/ receipt.status \in {"PASS", "BLOCKED"}

\* Whatever the calls answer, the receipt is one its validator accepts: closure
\* writes it before validating, and would leave the pair of receipts torn.
ReceiptValidates == receipt # NoReceipt => Validates(receipt)

\* A PASS stands for nineteen calls that were all made and all answered well, also
\* when what is missing was never asked for.
PassIsComplete ==
    receipt.status = "PASS" =>
        ledger = [i \in 1..Len(Operations) |-> i] /\ \A c \in Calls : answer[c] = "good"

\* The paid model call is made at most once, and only after every read before it
\* found what the contract says.
ProbeIsEarned ==
    Contains(ledger, Converse) =>
        /\ Cardinality({i \in 1..Len(ledger) : ledger[i] = Converse}) = 1
        /\ \A c \in 1..NovaProfile : c \in DOMAIN answer /\ answer[c] = "good"
=============================================================================
