-------------------------- MODULE MCInvestigation --------------------------
(* Scenarios of Investigation in one run: a behaviour begins by choosing     *)
(* which calls are made, which may die and how many storage faults happen.   *)
EXTENDS Investigation

CONSTANTS i1, i2, a1, a2

VARIABLE cast

Cast(calls, dying, fault) == [calls |-> calls, dying |-> dying, faults |-> fault]

\* race: two executions and an approval call that may overtake the winner;
\* overtaken: one execution, a request() and a resume() of its run.
Casts == {Cast({i1, i2, a1}, {i1}, 0),
          Cast({i1, i2}, {i1, i2}, 1),
          Cast({i1, a1, a2}, {}, 0)}

CastStep(i) == i \in cast.calls /\ InvestigatorStep(i) /\ faults' <= cast.faults

ScenarioInit == InvestigationInit /\ cast \in Casts
ScenarioNext ==
    /\ \/ \E i \in Investigators :
            CastStep(i) \/ (i \in cast.dying /\ InvestigatorCrash(i))
       \/ \E a \in Approvers \cap cast.calls :
            ApproverStep(a) /\ faults' <= cast.faults /\ UNCHANGED investigation
    /\ UNCHANGED cast
ScenarioSpec ==
    /\ ScenarioInit /\ [][ScenarioNext]_<<invVars, cast>>
    /\ \A i \in Investigators : WF_<<invVars, cast>>(CastStep(i) /\ UNCHANGED cast)
=============================================================================
