---------------------------- MODULE AliasRollback ----------------------------
(***************************************************************************)
(* alias_rollback.py: the `live` aliases of two Lambda functions are moved *)
(* back to captured versions, one call each, executor first.  A plan is    *)
(* read, reviewed, read again and compared, carried out and read once      *)
(* more.  Any call may fail, and an update that was carried out may fail   *)
(* to say so; other operators and deployments move the same aliases.       *)
(***************************************************************************)
EXTENDS Naturals

CONSTANTS Operators, Versions,
          MaxOutages,    \* bound: calls that fail
          MaxDeploys     \* bound: deployments

Roles == {"executor", "orchestrator"}
UpdatePc == [executor |-> "update_executor", orchestrator |-> "update_orchestrator"]
AliasPlan == [Roles -> [current : Versions, target : Versions]]

VARIABLES live,      \* the version each alias names
          rb,        \* each operator's process
          outages, deploys

vars == <<live, rb, outages, deploys>>

\* A run of the tool: what its operator reviewed, the plan it has read so far, the
\* aliases it asked to update, and (history) whether others moved one meanwhile.
Run == [pc : {"idle", "executor", "orchestrator", "confirm", "update_executor",
              "update_orchestrator", "verify_executor", "verify_orchestrator"},
        execute : BOOLEAN, target : [Roles -> Versions], plan : AliasPlan,
        reviewed : AliasPlan \cup {<<>>}, updated : SUBSET Roles,
        disturbed : BOOLEAN,
        status : {"none", "PASS", "FAIL", "PARTIAL", "BLOCKED"}]

Oldest == CHOOSE v \in Versions : \A w \in Versions : v <= w
NoPlan == [role \in Roles |-> [current |-> Oldest, target |-> Oldest]]
IdleRun(target, reviewed, status) ==
    [pc |-> "idle", execute |-> FALSE, target |-> target, plan |-> NoPlan,
     reviewed |-> reviewed, updated |-> {}, disturbed |-> FALSE, status |-> status]

TypeOK ==
    /\ live \in [Roles -> Versions]
    /\ outages \in 0..MaxOutages /\ deploys \in 0..MaxDeploys
    /\ \A o \in Operators : rb[o].pc # "idle" => rb[o].plan \in AliasPlan
    /\ \A o \in Operators : rb[o].updated \subseteq Roles

\* Each operator captured the versions to go back to before a deployment.
Init ==
    /\ live \in [Roles -> Versions]
    /\ \E t \in [Operators -> [Roles -> Versions]] :
         rb = [o \in Operators |-> IdleRun(t[o], <<>>, "none")]
    /\ outages = 0 /\ deploys = 0

-----------------------------------------------------------------------------
Outage == outages < MaxOutages /\ outages' = outages + 1
Answered == UNCHANGED outages
To(o, pc) == rb' = [rb EXCEPT ![o].pc = pc]

\* The run ends; after a read-only run the plan is with its operator.
End(o, status) ==
    rb' = [rb EXCEPT ![o] = IdleRun(rb[o].target,
             IF status = "PASS" /\ ~rb[o].execute THEN rb[o].plan ELSE <<>>, status)]

\* Somebody's write to an alias disturbs every other run.
Moved(o, role, version, own) ==
    /\ live' = [live EXCEPT ![role] = version]
    /\ rb' = [p \in Operators |->
                IF p = o THEN own
                ELSE [rb[p] EXCEPT !.disturbed = @ \/ (rb[p].pc # "idle" /\ live[role] # version)]]

-----------------------------------------------------------------------------
Start(o, execute) ==
    /\ rb[o].pc = "idle"
    /\ rb' = [rb EXCEPT ![o].pc = "executor", ![o].execute = execute, ![o].status = "none"]
    /\ UNCHANGED <<live, deploys>> /\ Answered

\* build_plan: the stack, then per function the alias and the target version
Target(role, o) == [current |-> live[role], target |-> rb[o].target[role]]

ReadAlias(o, role, next) ==
    /\ rb[o].pc = role
    /\ \/ /\ Answered
          /\ rb' = [rb EXCEPT ![o].plan = [@ EXCEPT ![role] = Target(role, o)], ![o].pc = next]
       \/ End(o, "BLOCKED") /\ Outage
    /\ UNCHANGED <<live, deploys>>

Pending(plan, role) == plan[role].current # plan[role].target

\* execute_plan refuses any plan but the reviewed one
Confirm(o) ==
    /\ rb[o].pc = "confirm"
    /\ \/ ~rb[o].execute /\ End(o, "PASS")
       \/ rb[o].execute /\ rb[o].plan # rb[o].reviewed /\ End(o, "BLOCKED")
       \/ rb[o].execute /\ rb[o].plan = rb[o].reviewed /\ To(o, "update_executor")
    /\ UNCHANGED <<live, deploys>> /\ Answered

\* Mutant: a failed update ends the run like a failed read.
UpdateAliasBlocked(o, role, next) ==
    /\ rb[o].pc = UpdatePc[role]
    /\ \/ ~Pending(rb[o].plan, role) /\ To(o, next) /\ Answered /\ UNCHANGED live
       \/ /\ Pending(rb[o].plan, role) /\ Answered
          /\ Moved(o, role, rb[o].target[role],
                   [rb[o] EXCEPT !.pc = next, !.updated = @ \cup {role}])
       \/ Pending(rb[o].plan, role) /\ End(o, "BLOCKED") /\ Outage /\ UNCHANGED live
    /\ UNCHANGED deploys

\* A failed call leaves the alias as it was or has moved it; the run cannot tell.
UpdateAlias(o, role, next) ==
    /\ rb[o].pc = UpdatePc[role]
    /\ \/ ~Pending(rb[o].plan, role) /\ To(o, next) /\ Answered /\ UNCHANGED live
       \/ /\ Pending(rb[o].plan, role) /\ Answered
          /\ Moved(o, role, rb[o].target[role],
                   [rb[o] EXCEPT !.pc = next, !.updated = @ \cup {role}])
       \/ Pending(rb[o].plan, role) /\ End(o, "PARTIAL") /\ Outage /\ UNCHANGED live
       \/ /\ Pending(rb[o].plan, role) /\ Outage
          /\ Moved(o, role, rb[o].target[role], IdleRun(rb[o].target, <<>>, "PARTIAL"))
    /\ UNCHANGED deploys

Verify(o, pc, role, next) ==
    /\ rb[o].pc = pc
    /\ \/ /\ Answered
          /\ LET plan == [rb[o].plan EXCEPT ![role] = Target(role, o)] IN
             IF next # "done" THEN rb' = [rb EXCEPT ![o].plan = plan, ![o].pc = next]
             ELSE End(o, IF \E r \in Roles : Pending(plan, r) THEN "PARTIAL" ELSE "PASS")
       \/ End(o, "BLOCKED") /\ Outage
    /\ UNCHANGED <<live, deploys>>

\* The process is killed.
Kill(o) ==
    /\ rb[o].pc # "idle" /\ Outage
    /\ rb' = [rb EXCEPT ![o] = IdleRun(rb[o].target, <<>>, "none")]
    /\ UNCHANGED <<live, deploys>>

Rollback(o) ==
    \/ \E execute \in BOOLEAN : Start(o, execute)
    \/ ReadAlias(o, "executor", "orchestrator")
    \/ ReadAlias(o, "orchestrator", "confirm")
    \/ Confirm(o)
    \/ UpdateAlias(o, "executor", "update_orchestrator")
    \/ UpdateAlias(o, "orchestrator", "verify_executor")
    \/ Verify(o, "verify_executor", "executor", "verify_orchestrator")
    \/ Verify(o, "verify_orchestrator", "orchestrator", "done")
    \/ Kill(o)

\* A deployment publishes a version and moves an alias to it.
Deploy ==
    /\ deploys < MaxDeploys /\ deploys' = deploys + 1
    /\ \E role \in Roles, v \in Versions :
         /\ v # live[role]
         /\ live' = [live EXCEPT ![role] = v]
         /\ rb' = [p \in Operators |-> [rb[p] EXCEPT !.disturbed = rb[p].pc # "idle"]]
    /\ UNCHANGED outages

Next == (\E o \in Operators : Rollback(o)) \/ Deploy

Spec == Init /\ [][Next]_vars

-----------------------------------------------------------------------------
Ends(o, status) == rb[o].pc # "idle" /\ rb'[o].pc = "idle" /\ rb'[o].status = status
AtTarget(role, o) == live'[role] = rb[o].target[role]

\* An alias only leaves its version in a run for the version its operator reviewed
\* and, undisturbed, from the version reviewed.
UpdatesAreReviewed ==
    \A o \in Operators, role \in Roles :
        live'[role] # live[role] /\ rb[o].pc = UpdatePc[role] /\ rb'[o].pc # rb[o].pc =>
            /\ live'[role] = rb[o].reviewed[role].target
            /\ rb[o].disturbed \/ live[role] = rb[o].reviewed[role].current

\* Nobody else moving an alias: PASS leaves both where they were captured, and a
\* run that leaves one moved and the other not says PARTIAL.
OutcomeIsTold ==
    \A o \in Operators :
        /\ Ends(o, "PASS") /\ rb[o].execute /\ ~rb[o].disturbed =>
               \A role \in Roles : AtTarget(role, o)
        /\ (Ends(o, "BLOCKED") \/ Ends(o, "FAIL")) /\ ~rb[o].disturbed /\ rb[o].updated # {} =>
               \A role \in Roles : AtTarget(role, o)
=============================================================================
