------------------------------ MODULE Cleanup ------------------------------
(***************************************************************************)
(* release/cleanup.py: from what was observed of a deployment, a plan;     *)
(* from a plan and an operator's approval, an authorization.  What is      *)
(* observed, the operator, the executor the authorization is meant for and *)
(* the stack itself are outside of the code.                               *)
(***************************************************************************)
EXTENDS Naturals

CONSTANTS Expected,      \* the logical IDs of the contract's rules
          Unexpected,    \* logical IDs it has no rule for
          Retained,      \* expected ones with RETAIN_EXPLICIT_DISPOSITION
          Nonces,
          MaxAge,        \* bound: clock
          Lifetime,      \* an approval's, fifteen minutes at most
          MaxDrifts,     \* bound: changes of the stack behind the tool's back
          Unmade         \* no plan, no approval, no authorization

VARIABLES stack,       \* each resource: there or not, ours or not, what was attempted
          observed,    \* the observations a plan is made of
          plan, approval, envelope,
          consumed,    \* nonces the executor has used
          age, drifts,
          stale        \* history: the stack is not what the plan in force was made of

cleanup == <<stack, observed, plan, approval, envelope, consumed, age, drifts, stale>>

IDs == Expected \cup Unexpected
DeploymentPartialState == {"DEPLOYMENT_STARTED_THEN_FAILED", "ROLLBACK_PARTIALLY_FAILED"}
CleanupAttemptState == {"NEVER_ATTEMPTED", "PREVIOUSLY_FAILED", "PREVIOUSLY_CONFIRMED_ABSENT"}
Resource == [there : BOOLEAN, owned : BOOLEAN, attempt : CleanupAttemptState]

CleanupInit ==
    /\ stack \in {s \in [IDs -> [there : BOOLEAN, owned : BOOLEAN, attempt : {"NEVER_ATTEMPTED"}]] :
                    \A i \in IDs : (~s[i].there => s[i].owned) /\ (i \in Unexpected => ~s[i].there)}
    /\ observed = Unmade /\ plan = Unmade /\ approval = Unmade /\ envelope = Unmade
    /\ consumed = {} /\ age = 0 /\ drifts = 0 /\ stale = FALSE

-----------------------------------------------------------------------------
(* The plan *)

\* An observation names a resource that is there, or one whose absence is recorded.
Named(obs, i) == obs[i].there \/ obs[i].attempt = "PREVIOUSLY_CONFIRMED_ABSENT"

\* Deployment, contract and stack match, membership is confirmed, tags are exact.
ownership_proven(obs, i) == i \in Expected /\ obs[i].owned

CleanupAction(obs, state, i) ==
    IF ~Named(obs, i) THEN "NO_OBSERVED_RESOURCE"
    ELSE IF ~ownership_proven(obs, i) THEN "DO_NOT_DELETE_OWNERSHIP_UNPROVEN"
    ELSE IF obs[i].attempt = "PREVIOUSLY_CONFIRMED_ABSENT" THEN "ALREADY_CONFIRMED_ABSENT"
    ELSE IF i \in Retained THEN "RETAIN_PENDING_EXPLICIT_DISPOSITION"
    ELSE IF state = "ROLLBACK_PARTIALLY_FAILED" \/ obs[i].attempt = "PREVIOUSLY_FAILED"
         THEN "RETRY_CLOUDFORMATION_STACK_DELETE"
    ELSE "DELETE_WITH_CLOUDFORMATION_STACK"

Destructive == {"DELETE_WITH_CLOUDFORMATION_STACK", "RETRY_CLOUDFORMATION_STACK_DELETE"}
Items(obs, state) == [i \in IDs |-> CleanupAction(obs, state, i)]
Actions(items) == {items[i] : i \in IDs}

CleanupPlanStatus(items) ==
    CASE "DO_NOT_DELETE_OWNERSHIP_UNPROVEN" \in Actions(items) -> "BLOCKED_OWNERSHIP"
      [] Actions(items) \cap Destructive # {}                  -> "READY_FOR_OPERATOR_REVIEW"
      [] OTHER                                                 -> "NO_ACTION_REQUIRED"

\* The plan's hash covers all of it, and nothing that tells one run from another.
plan_cleanup(state) ==
    /\ observed # Unmade
    /\ plan' = [items |-> Items(observed, state), state |-> state,
                status |-> CleanupPlanStatus(Items(observed, state))]
    /\ stale' = IF envelope = Unmade THEN observed # stack ELSE stale
    /\ UNCHANGED <<stack, observed, approval, envelope, consumed, age, drifts>>

-----------------------------------------------------------------------------
(* The authorization *)

\* A fresh operator's decision on the plan that is there; the model's validator
\* wants its one action.
Approve(nonce) ==
    /\ plan # Unmade /\ approval = Unmade
    /\ approval' = [plan |-> plan, nonce |-> nonce, issued |-> age, expires |-> age + Lifetime]
    /\ UNCHANGED <<stack, observed, plan, envelope, consumed, age, drifts, stale>>

Authorizable ==
    /\ plan.status = "READY_FOR_OPERATOR_REVIEW"
    /\ approval.plan = plan
    /\ approval.issued <= age /\ age < approval.expires
    /\ approval.nonce \notin consumed

authorize_cleanup_plan ==
    /\ plan # Unmade /\ approval # Unmade /\ envelope = Unmade /\ Authorizable
    /\ envelope' = [plan |-> plan, nonce |-> approval.nonce]
    /\ UNCHANGED <<stack, observed, plan, approval, consumed, age, drifts, stale>>

-----------------------------------------------------------------------------
(* Outside of the code *)

\* The operator collects the observations again.
Observe ==
    /\ observed' = stack
    /\ UNCHANGED <<stack, plan, approval, envelope, consumed, age, drifts, stale>>

\* What a deletion leaves of a resource: those the plan deletes go, or fail to.
Remains(i, gone) ==
    IF envelope.plan.items[i] \notin Destructive THEN stack[i]
    ELSE IF i \in gone
         THEN [stack[i] EXCEPT !.there = FALSE, !.attempt = "PREVIOUSLY_CONFIRMED_ABSENT"]
         ELSE [stack[i] EXCEPT !.attempt = "PREVIOUSLY_FAILED"]

\* The stack is deleted under the authorization, which is used up.
Delete ==
    /\ envelope # Unmade
    /\ \E gone \in SUBSET IDs : stack' = [i \in IDs |-> Remains(i, gone)]
    /\ consumed' = consumed \cup {envelope.nonce}
    /\ envelope' = Unmade /\ approval' = Unmade
    /\ stale' = TRUE
    /\ UNCHANGED <<observed, plan, age, drifts>>

\* A resource of another deployment appears, or takes a name over.
Drift ==
    /\ drifts < MaxDrifts /\ drifts' = drifts + 1
    /\ \E i \in IDs : stack' = [stack EXCEPT ![i] = [there |-> TRUE, owned |-> FALSE,
                                                     attempt |-> "NEVER_ATTEMPTED"]]
    /\ stale' = TRUE
    /\ UNCHANGED <<observed, plan, approval, envelope, consumed, age>>

Tick ==
    /\ age < MaxAge /\ age' = age + 1
    /\ UNCHANGED <<stack, observed, plan, approval, envelope, consumed, drifts, stale>>

CleanupNext ==
    \/ \E state \in DeploymentPartialState : plan_cleanup(state)
    \/ \E nonce \in Nonces : Approve(nonce)
    \/ authorize_cleanup_plan \/ Observe \/ Delete \/ Drift \/ Tick

-----------------------------------------------------------------------------
\* What is authorised is the whole of a plan an operator approved, in which every
\* resource observed is proven to be ours and nothing retained is deleted.
AuthorizedPlanIsOwned ==
    envelope # Unmade =>
        /\ envelope.plan.status = "READY_FOR_OPERATOR_REVIEW"
        /\ approval.plan = envelope.plan
        /\ \A i \in IDs : envelope.plan.items[i] \in Destructive => i \in Expected \ Retained

\* Until the stack has changed behind the observations, a deletion takes nothing
\* but resources of this deployment, and a nonce pays for one deletion.
DeletionIsOwned ==
    /\ \A i \in IDs : stack[i].there /\ ~stack'[i].there =>
         /\ stale \/ stack[i].owned
         /\ i \in Expected \ Retained
    /\ envelope # Unmade /\ envelope' = Unmade => envelope.nonce \notin consumed

\* Once everything that may be deleted is gone, a new plan deletes nothing.
CleanupEnds ==
    plan' # plan /\ (\A i \in Expected \ Retained : ~observed[i].there) =>
        Actions(plan'.items) \cap Destructive = {}
=============================================================================
