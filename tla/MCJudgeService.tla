--------------------------- MODULE MCJudgeService ---------------------------
(* Scenarios of JudgeService in one run: a behaviour begins by choosing the  *)
(* routes that are called, about which runs, how often, and the time, the    *)
(* rotations and the faults it spans.                                        *)
EXTENDS JudgeService

CONSTANTS e1, e2, r1, r2

VARIABLE cast

Cast(envs, routes, runs, requests, time, rotations, fault) ==
    [envs |-> envs, routes |-> routes, runs |-> runs, requests |-> requests,
     time |-> time, rotations |-> rotations, faults |-> fault]

\* Two environments race for the day's last slot; the token is rotated between
\* three requests; a run's status is polled from both environments, or from one
\* that may die; readiness is probed past the expiry of the credential.
Casts == {Cast({e1, e2}, {"investigate"}, {r1, r2}, 3, 0, 0, 1),
          Cast({e1}, {"status"}, {r1}, 3, 3, 1, 0),
          Cast({e1, e2}, {"investigate", "status"}, {r1}, 2, 2, 0, 0),
          Cast({e1}, {"investigate", "status"}, {r1}, 2, 3, 0, 1),
          Cast({e1, e2}, {"ready"}, {}, 3, 4, 0, 1)}

ScenarioInit == Init /\ cast \in Casts
ScenarioNext ==
    /\ \/ \E e \in cast.envs :
            \/ Step(e) \/ Crash(e)
            \/ /\ done.requests < cast.requests
               /\ \/ \E route \in cast.routes \ {"ready"}, token \in Token, r \in cast.runs :
                       Handle(e, route, token, r)
                  \/ "ready" \in cast.routes /\ Handle(e, "ready", 0, None)
            \/ \E r \in Runs : Poll(e, r)
       \/ now < cast.time /\ Tick
       \/ secret <= cast.rotations /\ Rotate
    /\ faults' <= cast.faults
    /\ UNCHANGED cast

all == <<vars, cast>>
ScenarioSpec ==
    /\ ScenarioInit /\ [][ScenarioNext]_all
    /\ WF_all(now < cast.time /\ Tick /\ UNCHANGED cast)
    /\ \A e \in Envs : WF_all(Step(e) /\ faults' <= cast.faults /\ UNCHANGED cast)
    /\ \A r \in Runs : SF_all(\E e \in cast.envs : Poll(e, r) /\ UNCHANGED cast)
=============================================================================
