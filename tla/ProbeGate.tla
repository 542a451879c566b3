----------------------------- MODULE ProbeGate -----------------------------
(***************************************************************************)
(* What the dependency circuit promises to the calls behind it: while it   *)
(* is open nobody calls the dependency; it is tried again by one prober at *)
(* a time; and only that prober's outcome decides what happens next.       *)
(***************************************************************************)
CONSTANTS Threads, Nobody

VARIABLES gate,   \* "CLOSED", "OPEN" or "HALF_OPEN"
          prober  \* the call that is trying the dependency, or Nobody

GateInit == gate = "CLOSED" /\ prober = Nobody

Trip == gate = "CLOSED" /\ gate' = "OPEN" /\ prober' = Nobody

Probe(t) == gate = "OPEN" /\ prober = Nobody /\ gate' = "HALF_OPEN" /\ prober' = t

Answer(t) == gate = "HALF_OPEN" /\ prober = t /\ gate' = "CLOSED" /\ prober' = Nobody

NoAnswer(t) == gate = "HALF_OPEN" /\ prober = t /\ gate' = "OPEN" /\ prober' = Nobody

GateNext == Trip \/ \E t \in Threads : Probe(t) \/ Answer(t) \/ NoAnswer(t)

GateSpec == GateInit /\ [][GateNext]_<<gate, prober>>
=============================================================================
