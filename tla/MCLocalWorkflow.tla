-------------------------- MODULE MCLocalWorkflow --------------------------
(* Scenarios of LocalWorkflow in one run: a behaviour begins by choosing     *)
(* which worker serves which runs and sessions, the faults, whether time     *)
(* passes and what the resource is.                                          *)
EXTENDS LocalWorkflow, TLC

CONSTANTS r1, r2, w1, w2, s1, s2

VARIABLE cast

Cast(serves, dying, sessions, challenges, fault, expiry) ==
    [serves |-> serves, dying |-> dying, sessions |-> sessions,
     challenges |-> challenges, faults |-> fault, expiry |-> expiry]

Both(rs) == [w \in Workers |-> rs]

\* Two workers and two sessions on one run; a failing file operation and passing
\* time; two runs that propose the same change to the same resource.
Race   == Cast(Both({r1}), {w1}, {s1, s2}, 2, 0, FALSE)
Faulty == Cast(Both({r1}), Workers, {s1}, 1, 1, TRUE)
Pair   == Cast([w \in Workers |-> {IF w = w1 THEN r1 ELSE r2}], {w1}, {s1}, 1, 0, FALSE)

ScenarioInit ==
    /\ Init
    /\ \/ cast = Race /\ resource # "group"
       \/ cast = Faulty /\ resource \in {"address", "ambiguous"}
       \/ cast = Pair /\ resource = "group"
ScenarioNext ==
    /\ \/ \E w \in Workers : handle(w, cast.serves[w], cast.sessions) \/ Step(w) \/ (w \in cast.dying /\ Crash(w))
       \/ cast.expiry /\ \E r \in Runs : Lapse(r) \/ Expire(r)
    /\ faults' <= cast.faults
    /\ \A r \in Runs : checkpoint'[r].request <= cast.challenges
    /\ UNCHANGED cast
ScenarioSpec == ScenarioInit /\ [][ScenarioNext]_<<vars, cast>>
=============================================================================
