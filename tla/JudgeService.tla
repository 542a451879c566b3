---------------------------- MODULE JudgeService ----------------------------
(***************************************************************************)
(* The public judge: Lambda environments that each serve one request at a  *)
(* time (investigate, status, ready), with the token and readiness caches  *)
(* of their process, over the durable counters and runs they share.  An    *)
(* environment may be taken away between any two steps (Crash).            *)
(***************************************************************************)
EXTENDS NonZero, Integers

CONSTANTS Envs, Runs, Routes, None,
          MaxTime, MaxRotations, MaxFaults, MaxRequestsMade,   \* bounds of the model
          DayLength, NotAfter, MaxLifetime, TokenTTL, ReadyTTL, Window,
          MaxRequests, TokensPerRequest, MaxTokens,
          MaxStatusRequests, MaxProbes, MaxObservations

ASSUME JudgeAssumption ==
    /\ Routes \subseteq {"investigate", "status", "ready"}
    /\ {MaxTime, MaxRotations, MaxFaults, MaxRequestsMade, NotAfter} \subseteq Nat
    /\ {DayLength, MaxLifetime, TokenTTL, ReadyTTL, Window, MaxRequests, TokensPerRequest,
        MaxTokens, MaxStatusRequests, MaxProbes, MaxObservations} \subseteq Nat \ {0}
    /\ TokensPerRequest <= MaxTokens

VARIABLES now,          \* the clock all environments read
          secret,       \* version of the token in Secrets Manager
          retired,      \* when each earlier version was replaced
          quota,        \* JUDGE_QUOTA#day: requests and tokens reserved
          statusQuota,  \* JUDGE_STATUS_QUOTA#day
          probeQuota,   \* JUDGE_READINESS_QUOTA#day
          observations, \* JUDGE_STATUS#run
          run,          \* the durable runs: state and creation time
          req,          \* the request each environment serves, or the last it answered
          proc,         \* what its process keeps from one request to the next
          polling,      \* runs whose client was told to ask again
          faults,       \* calls to a dependency that went wrong so far
          done          \* history: what the requests made the service do

durable == <<quota, statusQuota, probeQuota, observations, run>>
vars == <<now, secret, retired, durable, req, proc, polling, faults, done>>

Time == 0 .. MaxTime
day_of(t) == t \div DayLength
Day == 0 .. day_of(MaxTime)
Token == 1 .. MaxRotations + 1
Never == MaxTime + 1

NoRun == [state |-> "NONE", born |-> 0]
NoRequest == [pc |-> "idle", route |-> "none", token |-> 0, run |-> None, clock |-> 0,
              reply |-> "none"]
Cold == [token |-> 0, tokenExpires |-> 0, ready |-> "none", readyExpires |-> 0, probed |-> -1]

Reply == {"none", "unauthorized", "exhausted", "unavailable", "proposed", "failed",
          "not_found", "terminal", "pending", "ready", "not_ready"}

TypeOK ==
    /\ now \in Time /\ secret \in Token
    /\ retired \in [Token -> Time \cup {Never}]
    /\ quota \in [Day -> [requests : Nat, tokens : Nat]]
    /\ statusQuota \in [Day -> Nat] /\ probeQuota \in [Day -> Nat]
    /\ observations \in [Runs -> Nat]
    /\ run \in [Runs -> [state : WorkflowState \cup {"NONE"}, born : Time]]
    /\ req \in [Envs -> [pc : {"idle", "services", "authorize", "get_token", "reserve", "charge",
                               "start", "flow", "get_run", "observe", "check",
                               "probe_charge", "probe_token", "probe_reads"},
                         route : Routes \cup {"none"}, token : Token \cup {0},
                         run : Runs \cup {None}, clock : Time, reply : Reply]]
    /\ proc \in [Envs -> [token : Token \cup {0}, tokenExpires : Nat,
                          ready : {"none", "ready", "not_ready"}, readyExpires : Nat,
                          probed : Time \cup {-1}]]
    /\ polling \subseteq Runs
    /\ faults \in 0 .. MaxFaults
    /\ done \in [requests : 0 .. MaxRequestsMade, started : [Day -> Nat], probes : [Day -> Nat],
                 pending : [Runs -> Nat], latePending : BOOLEAN]

Init ==
    /\ now = 0 /\ secret = 1 /\ faults = 0 /\ polling = {}
    /\ retired = [v \in Token |-> Never]
    /\ quota = [d \in Day |-> [requests |-> 0, tokens |-> 0]]
    /\ statusQuota = [d \in Day |-> 0]
    /\ probeQuota = [d \in Day |-> 0]
    /\ observations = [r \in Runs |-> 0]
    /\ run = [r \in Runs |-> NoRun]
    /\ req = [e \in Envs |-> NoRequest]
    /\ proc = [e \in Envs |-> Cold]
    /\ done = [requests |-> 0, started |-> [d \in Day |-> 0], probes |-> [d \in Day |-> 0],
               pending |-> [r \in Runs |-> 0], latePending |-> FALSE]

-----------------------------------------------------------------------------
Goto(e, next) == req' = [req EXCEPT ![e].pc = next] /\ UNCHANGED polling
ReadClock(e, next) ==
    req' = [req EXCEPT ![e].pc = next, ![e].clock = now] /\ UNCHANGED polling

\* The response is sent (what it says is kept).  A client polls a run until it is told that is over.
Answer(e, reply) ==
    /\ req' = [req EXCEPT ![e] = [req[e] EXCEPT
                  !.pc = "idle", !.reply = reply, !.token = 0,
                  !.run = IF reply = "proposed" THEN req[e].run ELSE None,
                  !.clock = IF reply = "ready" THEN req[e].clock ELSE 0]]
    /\ polling' =
         CASE req[e].route = "status" /\ reply = "pending" -> polling \cup {req[e].run}
           [] req[e].route = "status" /\ reply \in {"terminal", "not_found", "exhausted"} ->
                polling \ {req[e].run}
           [] OTHER -> polling

\* A call to a dependency raises; how often is bounded.
Fails == faults < MaxFaults /\ faults' = faults + 1
Works == UNCHANGED faults

world == <<now, secret, retired>>

-----------------------------------------------------------------------------
(* handle: a request that is refused before any service is built changes   *)
(* nothing, so only well-formed ones start.                                *)

Serve(e, route, token, r) ==
    req' = [req EXCEPT ![e] = [NoRequest EXCEPT
              !.pc = IF route = "ready" THEN "check" ELSE "services",
              !.route = route, !.token = token, !.run = r]]

\* run_id_factory gives an investigation an identity of its own.
Fresh(r) == run[r] = NoRun /\ \A e \in Envs : req[e].route = "investigate" => req[e].run # r

Handle(e, route, token, r) ==
    /\ req[e].pc = "idle"
    /\ route = "investigate" => Fresh(r)
    /\ done.requests < MaxRequestsMade
    /\ done' = [done EXCEPT !.requests = @ + 1]
    /\ Serve(e, route, token, r)
    /\ UNCHANGED <<world, durable, proc, polling, faults>>

\* The judge's own client polls with the token it was given.
Poll(e, r) ==
    /\ req[e].pc = "idle" /\ r \in polling
    /\ Serve(e, "status", secret, r)
    /\ UNCHANGED <<world, durable, proc, polling, faults, done>>

BuildServices(e) ==
    /\ req[e].pc = "services"
    /\ \/ Works /\ Goto(e, "authorize")
       \/ Fails /\ Answer(e, "unavailable")
    /\ UNCHANGED <<world, durable, proc, done>>

-----------------------------------------------------------------------------
(* JudgeTokenAuthorizer.authorize and SecretsManagerJudgeTokenProvider *)

Usable(clock) == clock < NotAfter /\ NotAfter - clock <= MaxLifetime
Cached(p, clock) == p.token # 0 /\ clock < p.tokenExpires

Authorize(e) ==
    /\ req[e].pc = "authorize"
    /\ IF Usable(now) THEN ReadClock(e, "get_token") ELSE Answer(e, "unauthorized")
    /\ UNCHANGED <<world, durable, proc, faults, done>>

Lower(a, b) == IF a < b THEN a ELSE b

\* What get_token leaves in the cache: only a fetch sets a new expiry.
KeepToken(e, token) ==
    IF Cached(proc[e], req[e].clock) THEN UNCHANGED proc
    ELSE proc' = [proc EXCEPT ![e].token = token,
                              ![e].tokenExpires = Lower(req[e].clock + TokenTTL, NotAfter)]

\* The token in the cache, or the one in Secrets Manager.
Expected(e) == IF Cached(proc[e], req[e].clock) THEN proc[e].token ELSE secret

GetToken(e) ==
    /\ req[e].pc = "get_token"
    /\ \/ /\ Works
          /\ KeepToken(e, Expected(e))
          /\ IF req[e].token = Expected(e) THEN Goto(e, "reserve") ELSE Answer(e, "unauthorized")
       \/ /\ ~Cached(proc[e], req[e].clock)
          /\ Fails
          /\ Answer(e, "unauthorized")
          /\ UNCHANGED proc
    /\ UNCHANGED <<world, durable, done>>

-----------------------------------------------------------------------------
(* _reserve_quota: read the day, then one conditional update.  The update  *)
(* may be applied although its response is lost or malformed.              *)

Reserve(e) ==
    /\ req[e].pc = "reserve"
    /\ ReadClock(e, "charge")
    /\ UNCHANGED <<world, durable, proc, faults, done>>

\* Mutant: the last request is admitted twice.
InvestigationFitsTwice(d) ==
    quota[d].requests <= MaxRequests /\ quota[d].tokens <= MaxTokens - TokensPerRequest

\* The cost ceiling works as the token ceiling does and is left out.
InvestigationFits(d) ==
    quota[d].requests < MaxRequests /\ quota[d].tokens <= MaxTokens - TokensPerRequest

StatusFits(d) == statusQuota[d] < MaxStatusRequests

ChargeInvestigation(e) ==
    LET d == day_of(req[e].clock) IN
    /\ req[e].pc = "charge" /\ req[e].route = "investigate"
    /\ \/ /\ InvestigationFits(d)
          /\ quota' = [quota EXCEPT ![d] = [requests |-> @.requests + 1,
                                            tokens |-> @.tokens + TokensPerRequest]]
          /\ \/ Works /\ Goto(e, "start")
             \/ Fails /\ Answer(e, "unavailable")
       \/ /\ ~InvestigationFits(d)
          /\ Works /\ Answer(e, "exhausted")
          /\ UNCHANGED quota
       \/ Fails /\ Answer(e, "unavailable") /\ UNCHANGED quota
    /\ UNCHANGED <<world, statusQuota, probeQuota, observations, run, proc, done>>

\* Mutant: the refused condition is taken for an unavailable table.
ChargeStatusConflated(e) ==
    LET d == day_of(req[e].clock) IN
    /\ req[e].pc = "charge" /\ req[e].route = "status"
    /\ IF StatusFits(d)
       THEN /\ statusQuota' = [statusQuota EXCEPT ![d] = @ + 1]
            /\ Goto(e, "get_run")
       ELSE Answer(e, "unavailable") /\ UNCHANGED statusQuota
    /\ Works
    /\ UNCHANGED <<world, quota, probeQuota, observations, run, proc, done>>

ChargeStatus(e) ==
    LET d == day_of(req[e].clock) IN
    /\ req[e].pc = "charge" /\ req[e].route = "status"
    /\ \/ /\ StatusFits(d)
          /\ statusQuota' = [statusQuota EXCEPT ![d] = @ + 1]
          /\ \/ Works /\ Goto(e, "get_run")
             \/ Fails /\ Answer(e, "unavailable")
       \/ /\ ~StatusFits(d)
          /\ Works /\ Answer(e, "exhausted")
          /\ UNCHANGED statusQuota
       \/ Fails /\ Answer(e, "unavailable") /\ UNCHANGED statusQuota
    /\ UNCHANGED <<world, quota, probeQuota, observations, run, proc, done>>

-----------------------------------------------------------------------------
(* JudgeInvestigationRuntime.investigate.  The flow is BoundedInvestigation- *)
(* Flow (module Investigation); here it is its legal transitions up to a     *)
(* proposal, and a result that reports success only for a proposed run.      *)

\* Run.new and the fresh agent; a factory that raises ends the request.
Start(e) ==
    /\ req[e].pc = "start"
    /\ \/ Works /\ Goto(e, "flow")
       \/ Fails /\ Answer(e, "unavailable")
    /\ done' = [done EXCEPT !.started[day_of(req[e].clock)] = @ + 1]
    /\ UNCHANGED <<world, durable, proc>>

FlowStates == {"RECEIVED", "INVESTIGATING", "EVIDENCE_READY"}

FlowStep(e) ==
    LET r == req[e].run IN
    /\ req[e].pc = "flow"
    /\ \/ /\ run[r] = NoRun
          /\ run' = [run EXCEPT ![r] = [state |-> "RECEIVED", born |-> now]]
       \/ /\ run[r].state \in FlowStates
          /\ \E s \in ALLOWED_WORKFLOW_TRANSITIONS[run[r].state] : run' = [run EXCEPT ![r].state = s]
    /\ UNCHANGED <<world, quota, statusQuota, probeQuota, observations, req, proc, polling,
                   faults, done>>

FlowSucceeded(r) == run[r].state = "REMEDIATION_PROPOSED"

\* A result, or an exception, which is reported as an unavailable dependency.
FlowReturn(e) ==
    /\ req[e].pc = "flow"
    /\ \/ FlowSucceeded(req[e].run) /\ Works /\ Answer(e, "proposed")
       \/ run[req[e].run].state \notin FlowStates \cup {"REMEDIATION_PROPOSED"}
          /\ Works /\ Answer(e, "failed")
       \/ Fails /\ Answer(e, "failed")
       \/ Fails /\ Answer(e, "unavailable")
    /\ UNCHANGED <<world, durable, proc, done>>

-----------------------------------------------------------------------------
(* ReadOnlyRunStatusService.get *)

\* Which answer the state alone decides; the rest is time and the cap.
Closed(state) ==
    state \in TERMINAL_WORKFLOW_STATES \cup {"REMEDIATION_PROPOSED", "AWAITING_APPROVAL"}

\* Mutant: the window is not looked at.
GetRunNoWindow(e) ==
    LET r == req[e].run IN
    /\ req[e].pc = "get_run"
    /\ \/ /\ Works
          /\ CASE run[r] = NoRun -> Answer(e, "not_found")
               [] run[r] # NoRun /\ Closed(run[r].state) -> Answer(e, "terminal")
               [] OTHER -> ReadClock(e, "observe")
       \/ Fails /\ Answer(e, "unavailable")
    /\ UNCHANGED <<world, durable, proc, done>>

GetRun(e) ==
    LET r == req[e].run IN
    /\ req[e].pc = "get_run"
    /\ \/ /\ Works
          /\ CASE run[r] = NoRun -> Answer(e, "not_found")
               [] run[r] # NoRun /\ Closed(run[r].state) -> Answer(e, "terminal")
               [] run[r] # NoRun /\ ~Closed(run[r].state) /\ now - run[r].born >= Window ->
                    Answer(e, "terminal")
               [] OTHER -> ReadClock(e, "observe")
       \/ Fails /\ Answer(e, "unavailable")
    /\ UNCHANGED <<world, durable, proc, done>>

\* DynamoDbStatusObservationLimiter.reserve, and the answer it allows.
Observe(e) ==
    LET r == req[e].run IN
    /\ req[e].pc = "observe"
    /\ \/ /\ observations[r] < MaxObservations
          /\ observations' = [observations EXCEPT ![r] = @ + 1]
          /\ \/ /\ Works /\ Answer(e, "pending")
                /\ done' = [done EXCEPT !.pending[r] = @ + 1,
                                        !.latePending = @ \/ req[e].clock >= run[r].born + Window]
             \/ Fails /\ Answer(e, "unavailable") /\ UNCHANGED done
       \/ /\ observations[r] >= MaxObservations
          /\ Works /\ Answer(e, "terminal")
          /\ UNCHANGED <<observations, done>>
       \/ Fails /\ Answer(e, "unavailable") /\ UNCHANGED <<observations, done>>
    /\ UNCHANGED <<world, quota, statusQuota, probeQuota, run, proc>>

-----------------------------------------------------------------------------
(* BoundedReadinessProbe.check and _probe_dependencies *)

\* The clock is read once, before the probe.
Check(e) ==
    /\ req[e].pc = "check"
    /\ \/ /\ Works
          /\ IF proc[e].ready # "none" /\ now < proc[e].readyExpires
             THEN /\ req' = [req EXCEPT ![e].pc = "idle", ![e].reply = proc[e].ready,
                                        ![e].clock = IF proc[e].ready = "ready" THEN now ELSE 0]
                  /\ UNCHANGED polling
             ELSE ReadClock(e, "probe_charge")
       \/ Fails /\ Answer(e, "not_ready")
    /\ UNCHANGED <<world, durable, proc, done>>

\* The result is cached from the time the probe began.
Conclude(e, reply) ==
    /\ proc' = [proc EXCEPT ![e].ready = reply, ![e].readyExpires = req[e].clock + ReadyTTL,
                            ![e].probed = IF reply = "ready" THEN req[e].clock ELSE @]
    /\ Answer(e, reply)

ProbeFits(d) == probeQuota[d] < MaxProbes

ProbeCharge(e) ==
    LET d == day_of(now) IN
    /\ req[e].pc = "probe_charge"
    /\ \/ /\ ProbeFits(d)
          /\ probeQuota' = [probeQuota EXCEPT ![d] = @ + 1]
          /\ \/ /\ Works /\ Goto(e, "probe_token")
                /\ done' = [done EXCEPT !.probes[d] = @ + 1]
                /\ UNCHANGED proc
             \/ Fails /\ Conclude(e, "not_ready") /\ UNCHANGED done
       \/ /\ ~ProbeFits(d)
          /\ Works /\ Conclude(e, "not_ready")
          /\ UNCHANGED <<probeQuota, done>>
       \/ Fails /\ Conclude(e, "not_ready") /\ UNCHANGED <<probeQuota, done>>
    /\ UNCHANGED <<world, quota, statusQuota, observations, run>>

\* get_token, with a clock reading of its own.
ProbeToken(e) ==
    LET expires == Lower(now + TokenTTL, NotAfter) IN
    /\ req[e].pc = "probe_token"
    /\ \/ /\ ~Usable(now)
          /\ Works /\ Conclude(e, "not_ready")
       \/ /\ Usable(now)
          /\ Works /\ Goto(e, "probe_reads")
          /\ proc' = IF Cached(proc[e], now) THEN proc
                     ELSE [proc EXCEPT ![e].token = secret, ![e].tokenExpires = expires]
       \/ /\ Usable(now) /\ ~Cached(proc[e], now)
          /\ Fails /\ Conclude(e, "not_ready")
    /\ UNCHANGED <<world, durable, done>>

\* The table, the instance and its metrics are read; any may be unfit.
ProbeReads(e) ==
    /\ req[e].pc = "probe_reads"
    /\ \/ Works /\ Conclude(e, "ready")
       \/ Fails /\ Conclude(e, "not_ready")
    /\ UNCHANGED <<world, durable, done>>

-----------------------------------------------------------------------------
(* The surroundings *)

Tick ==
    /\ now < MaxTime
    /\ now' = now + 1
    /\ UNCHANGED <<secret, retired, durable, req, proc, polling, faults, done>>

\* The operator replaces the token; its expiry is the configured one.
Rotate ==
    /\ secret <= MaxRotations
    /\ secret' = secret + 1
    /\ retired' = [retired EXCEPT ![secret] = now]
    /\ UNCHANGED <<now, durable, req, proc, polling, faults, done>>

\* Timeout or recycling: request and caches are gone, what is durable stays.
Crash(e) ==
    /\ req[e].pc # "idle"
    /\ Fails
    /\ req' = [req EXCEPT ![e] = NoRequest]
    /\ proc' = [proc EXCEPT ![e] = Cold]
    /\ UNCHANGED <<world, durable, polling, done>>

Step(e) ==
    \/ BuildServices(e) \/ Authorize(e) \/ GetToken(e) \/ Reserve(e)
    \/ ChargeInvestigation(e) \/ ChargeStatus(e) \/ Start(e) \/ FlowStep(e) \/ FlowReturn(e)
    \/ GetRun(e) \/ Observe(e)
    \/ Check(e) \/ ProbeCharge(e) \/ ProbeToken(e) \/ ProbeReads(e)

Next ==
    \/ \E e \in Envs :
         \/ Step(e) \/ Crash(e)
         \/ \E route \in Routes \ {"ready"}, token \in Token, r \in Runs : Handle(e, route, token, r)
         \/ "ready" \in Routes /\ Handle(e, "ready", 0, None)
         \/ \E r \in Runs : Poll(e, r)
    \/ Tick \/ Rotate

Spec == Init /\ [][Next]_vars

\* A request that is being served goes on, the clock runs and a client that
\* was told to ask again does.
FairSpec ==
    /\ Spec /\ WF_vars(Tick)
    /\ \A e \in Envs : WF_vars(Step(e))
    /\ \A r \in Runs : SF_vars(\E e \in Envs : Poll(e, r))

-----------------------------------------------------------------------------
(* Properties *)

\* Every investigation that starts was paid for on some day, no day is
\* overspent in requests or tokens, and there is no run nobody paid for:
\* whatever environments race for the last slot, crash or lose a response.
InvestigationsArePaid ==
    /\ \A d \in Day : /\ done.started[d] <= quota[d].requests
                      /\ quota[d].requests <= MaxRequests
                      /\ quota[d].tokens <= MaxTokens
                      /\ quota[d].tokens = quota[d].requests * TokensPerRequest
    /\ Cardinality({r \in Runs : run[r] # NoRun})
         <= Cardinality({s \in Day \X (1 .. MaxRequests) : s[2] <= done.started[s[1]]})

\* A request is let in with the secret's token, or with one replaced less than
\* the cache lifetime ago, and never once the credential has expired.
AuthorizedByLiveToken ==
    \A e \in Envs : req[e].pc = "reserve" =>
        /\ retired[req[e].token] + TokenTTL > req[e].clock
        /\ req[e].clock < NotAfter

\* "ready" is answered only if a complete probe of this process began less
\* than the cache lifetime before, so at most that long after the expiry of
\* the credential; and the dependencies are probed at most MaxProbes times a day.
ReadyIsRecent ==
    /\ \A e \in Envs : req[e].pc = "idle" /\ req[e].reply = "ready" =>
         /\ proc[e].probed >= 0 /\ req[e].clock < proc[e].probed + ReadyTTL
         /\ req[e].clock < NotAfter + ReadyTTL
    /\ \A d \in Day : done.probes[d] <= MaxProbes

\* A run's clients are told to poll again at most MaxObservations times in all,
\* and not once the observation window of the run is over.
PollingIsBounded ==
    (\A r \in Runs : done.pending[r] <= MaxObservations) /\ ~done.latePending

\* 200 is answered to an investigation only if its durable run holds a proposal.
SuccessIsProposed ==
    \A e \in Envs : req[e].reply = "proposed" => run[req[e].run].state = "REMEDIATION_PROPOSED"

\* A client that keeps asking is told to stop, even if the environment that
\* investigated its run died and left it in progress for ever; unless the
\* credential it asks with has expired.
PollerIsReleased == \A r \in Runs : r \in polling ~> r \notin polling \/ now >= NotAfter

\* The daily budgets hold in every environment together.
BudgetsHold == TypeOK /\ InvestigationsArePaid

\* What a client is told is so: success means a stored proposal, "ask again" is said
\* within the cap and the window only, and neither the token nor the readiness a
\* process remembers is used longer than its lifetime.
AnswersAreBacked ==
    /\ SuccessIsProposed /\ PollingIsBounded
    /\ AuthorizedByLiveToken /\ ReadyIsRecent
=============================================================================
