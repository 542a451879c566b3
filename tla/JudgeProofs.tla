---------------------------- MODULE JudgeProofs ----------------------------
(***************************************************************************)
(* The judge for any number of environments, runs, requests, rotations and *)
(* faults: budgets hold and answers are backed by what is stored.          *)
(***************************************************************************)
EXTENDS JudgeService, FiniteSetTheorems, TLAPS

AboutRun == {"services", "authorize", "get_token", "reserve", "charge", "start", "flow",
             "get_run", "observe"}
PC == AboutRun \cup {"idle", "check", "probe_charge", "probe_token", "probe_reads"}
Request == [pc : PC, route : Routes \cup {"none"}, token : Token \cup {0},
            run : Runs \cup {None}, clock : Time, reply : Reply]
Process == [token : Token \cup {0}, tokenExpires : Nat, ready : {"none", "ready", "not_ready"},
            readyExpires : Nat, probed : Time \cup {-1}]

\* A request that is served has no reply yet, and one about a run names it.
Served(e) ==
    /\ req[e].pc # "idle" => req[e].reply = "none"
    /\ req[e].pc \in AboutRun => req[e].run \in Runs /\ req[e].token \in Token
    /\ req[e].clock <= now
\* Only a status request makes its client poll.
PollsOK == polling # {} => "status" \in Routes
Control == TypeOK /\ PollsOK /\ \A e \in Envs : Served(e)

-----------------------------------------------------------------------------
(* Budgets *)
\* Environments that have paid for an investigation on day d and not started it.
Starting(d) == {e \in Envs : req[e].pc = "start" /\ day_of(req[e].clock) = d}
\* Runs that exist or are about to.
Known == {r \in Runs : run[r] # NoRun \/ \E e \in Envs : req[e].pc = "flow" /\ req[e].run = r}
Slots == {s \in Day \X (1 .. MaxRequests) : s[2] <= done.started[s[1]]}

DayIsPaid(d) ==
    /\ quota[d].requests <= MaxRequests /\ quota[d].tokens <= MaxTokens
    /\ quota[d].tokens = quota[d].requests * TokensPerRequest
    /\ IsFiniteSet(Starting(d))
    /\ done.started[d] + Cardinality(Starting(d)) <= quota[d].requests
Paid == \A d \in Day : DayIsPaid(d)
RunsArePaid == IsFiniteSet(Known) /\ Cardinality(Known) <= Cardinality(Slots)

BudgetInv == Control /\ Paid /\ RunsArePaid

-----------------------------------------------------------------------------
(* Answers *)
\* The current and future tokens are not retired; a cached one was fetched no later
\* than now and than it was retired.
TokensAreLive ==
    /\ \A v \in Token : v >= secret => retired[v] = Never
    /\ \A e \in Envs :
        /\ proc[e].token # 0 =>
              /\ proc[e].tokenExpires <= NotAfter /\ proc[e].tokenExpires <= now + TokenTTL
              /\ proc[e].tokenExpires <= retired[proc[e].token] + TokenTTL
        /\ req[e].pc \in {"get_token", "reserve"} => req[e].clock < NotAfter
        /\ req[e].pc = "reserve" => retired[req[e].token] + TokenTTL > req[e].clock

\* A remembered "ready" expires a lifetime after the probe it stems from began, which
\* was before the credential expired.
ProbesAreRecent ==
    /\ \A e \in Envs :
        /\ req[e].pc = "probe_reads" => req[e].clock < NotAfter
        /\ proc[e].ready = "ready" =>
              /\ proc[e].probed >= 0 /\ proc[e].probed < NotAfter
              /\ proc[e].readyExpires <= proc[e].probed + ReadyTTL
        /\ req[e].pc = "idle" /\ req[e].reply = "ready" =>
              /\ proc[e].probed >= 0 /\ proc[e].probed < NotAfter
              /\ req[e].clock < proc[e].probed + ReadyTTL
    /\ \A d \in Day : done.probes[d] <= probeQuota[d] /\ probeQuota[d] <= MaxProbes

\* "Ask again" was counted, and is said of a run within its window only.
PollsAreCounted ==
    /\ \A r \in Runs : done.pending[r] <= observations[r] /\ observations[r] <= MaxObservations
    /\ ~done.latePending
    /\ \A e \in Envs : req[e].pc = "observe" =>
          run[req[e].run] # NoRun /\ req[e].clock < run[req[e].run].born + Window

\* A run reported as proposed is one, and holds a proposal.
ProposalsAreKept ==
    \A e \in Envs : req[e].reply = "proposed" =>
        req[e].run \in Runs /\ run[req[e].run].state = "REMEDIATION_PROPOSED"

AnswerInv ==
    Control /\ TokensAreLive /\ ProbesAreRecent /\ PollsAreCounted /\ ProposalsAreKept


-----------------------------------------------------------------------------
(* What the moves of a request do *)
\* The request of e is now at pc, with this clock and reply, about the same run.
At(e, pc, clock, reply) ==
    /\ req' \in [Envs -> Request] /\ polling' \subseteq Runs /\ PollsOK'
    /\ \A d \in Envs : d # e => req'[d] = req[d]
    /\ req'[e].pc = pc /\ req'[e].clock = clock /\ req'[e].reply = reply

\* The requests and caches are typed.
LEMMA Types ==
  ASSUME TypeOK
  PROVE  req \in [Envs -> Request] /\ proc \in [Envs -> Process]
  BY DEF TypeOK, Request, Process, PC, AboutRun

\* Going on changes nothing but where the request is.
LEMMA GotoMoves ==
  ASSUME Control, NEW e \in Envs, NEW next \in PC, Goto(e, next)
  PROVE  /\ At(e, next, req[e].clock, req[e].reply)
         /\ req'[e].run = req[e].run /\ req'[e].token = req[e].token
  <1>1. req \in [Envs -> Request] /\ polling \subseteq Runs /\ PollsOK
    BY Types DEF Control, TypeOK
  <1> QED
    BY <1>1 DEF Goto, At, Request, PollsOK

\* Going on with a reading of the clock.
LEMMA ReadClockMoves ==
  ASSUME Control, NEW e \in Envs, NEW next \in PC, ReadClock(e, next)
  PROVE  /\ At(e, next, now, req[e].reply)
         /\ req'[e].run = req[e].run /\ req'[e].token = req[e].token
  <1>1. req \in [Envs -> Request] /\ polling \subseteq Runs /\ PollsOK /\ now \in Time
    BY Types DEF Control, TypeOK
  <1>2. req' = [req EXCEPT ![e] = [req[e] EXCEPT !.pc = next, !.clock = now]]
    BY <1>1 DEF ReadClock
  <1>3. [req[e] EXCEPT !.pc = next, !.clock = now] \in Request
    BY <1>1, Zenon DEF Request
  <1> QED
    BY <1>1, <1>2, <1>3 DEF ReadClock, At, Request, PollsOK

\* Answering ends the request; its client is told, and may poll, or stop.
LEMMA AnswerMoves ==
  ASSUME Control, NEW e \in Envs, NEW reply \in Reply, Answer(e, reply),
         reply = "pending" => req[e].run \in Runs
  PROVE  /\ At(e, "idle", IF reply = "ready" THEN req[e].clock ELSE 0, reply)
         /\ reply = "proposed" => req'[e].run = req[e].run
  <1> DEFINE clock == IF reply = "ready" THEN req[e].clock ELSE 0
             r == IF reply = "proposed" THEN req[e].run ELSE None
  <1>1. req \in [Envs -> Request] /\ polling \subseteq Runs /\ 0 \in Time /\ PollsOK
    BY Types, JudgeAssumption DEF Control, TypeOK, Time
  <1>2. req' = [req EXCEPT ![e] = [req[e] EXCEPT !.pc = "idle", !.reply = reply, !.token = 0,
                                                  !.run = r, !.clock = clock]]
    BY DEF Answer
  <1>3. clock \in Time /\ r \in Runs \cup {None} /\ "idle" \in PC
    BY <1>1 DEF Request, PC
  <1> DEFINE q == [req[e] EXCEPT !.pc = "idle", !.reply = reply, !.token = 0,
                                  !.run = r, !.clock = clock]
  <1>P. polling' \subseteq Runs /\ PollsOK'
    <2>0. req[e].route = "status" => "status" \in Routes
      BY <1>1 DEF Request
    <2>1. CASE req[e].route = "status" /\ reply = "pending"
      BY <1>1, <2>0, <2>1 DEF Answer, PollsOK
    <2>2. CASE req[e].route = "status" /\ reply \in {"terminal", "not_found", "exhausted"}
      BY <1>1, <2>2 DEF Answer, PollsOK
    <2>3. CASE /\ ~(req[e].route = "status" /\ reply = "pending")
               /\ ~(req[e].route = "status" /\ reply \in {"terminal", "not_found", "exhausted"})
      BY <1>1, <2>3 DEF Answer, PollsOK
    <2> QED
      BY <2>1, <2>2, <2>3
  <1> HIDE DEF clock, r
  <1>4. /\ q \in Request /\ q.pc = "idle" /\ q.reply = reply /\ q.run = r /\ q.clock = clock
    BY <1>1, <1>3, Zenon DEF Request
  <1> HIDE DEF q
  <1>5. req' = [req EXCEPT ![e] = q]
    BY <1>2 DEF q
  <1>6. req' \in [Envs -> Request] /\ req'[e] = q /\ \A d \in Envs : d # e => req'[d] = req[d]
    BY <1>1, <1>4, <1>5
  <1> QED
    BY <1>4, <1>6, <1>P DEF At, clock, r

\* A request arrives with nothing read or said yet.
LEMMA ServeMoves ==
  ASSUME Control, NEW e \in Envs, NEW route \in Routes, NEW token \in Token \cup {0},
         NEW r \in Runs \cup {None}, Serve(e, route, token, r), UNCHANGED polling
  PROVE  /\ At(e, IF route = "ready" THEN "check" ELSE "services", 0, "none")
         /\ req'[e].run = r /\ req'[e].token = token
  <1> DEFINE pc == IF route = "ready" THEN "check" ELSE "services"
             q == [NoRequest EXCEPT !.pc = pc, !.route = route, !.token = token, !.run = r]
  <1>1. /\ req \in [Envs -> Request] /\ polling \subseteq Runs /\ PollsOK
        /\ 0 \in Time /\ pc \in PC
    BY Types, JudgeAssumption DEF Control, TypeOK, Time, PC, AboutRun
  <1> HIDE DEF pc
  <1>2. /\ q.pc = pc /\ q.token = token /\ q.run = r /\ q.clock = 0 /\ q.reply = "none"
        /\ q.route = route
    BY DEF NoRequest
  <1>0. NoRequest \in Request
    BY <1>1 DEF NoRequest, Request, Reply, PC
  <1>3. q \in Request
    BY <1>0, <1>1, Zenon DEF Request
  <1>4. req' = [req EXCEPT ![e] = q]
    BY Zenon DEF Serve, pc
  <1> HIDE DEF q
  <1> QED
    BY <1>1, <1>2, <1>3, <1>4 DEF At, pc, PollsOK


-----------------------------------------------------------------------------
(* Control *)
StoredOK ==
    /\ now \in Time /\ secret \in Token
    /\ retired \in [Token -> Time \cup {Never}]
    /\ quota \in [Day -> [requests : Nat, tokens : Nat]]
    /\ statusQuota \in [Day -> Nat] /\ probeQuota \in [Day -> Nat]
    /\ observations \in [Runs -> Nat]
    /\ run \in [Runs -> [state : WorkflowState \cup {"NONE"}, born : Time]]
History ==
    [requests : 0 .. MaxRequestsMade, started : [Day -> Nat], probes : [Day -> Nat],
     pending : [Runs -> Nat], latePending : BOOLEAN]

\* The parts of the type invariant.
LEMMA TypeParts ==
  /\ TypeOK <=> /\ StoredOK /\ req \in [Envs -> Request] /\ proc \in [Envs -> Process]
                /\ polling \subseteq Runs /\ faults \in 0 .. MaxFaults /\ done \in History
  /\ TypeOK' <=> /\ StoredOK' /\ req' \in [Envs -> Request] /\ proc' \in [Envs -> Process]
                 /\ polling' \subseteq Runs /\ faults' \in 0 .. MaxFaults /\ done' \in History
  BY DEF TypeOK, StoredOK, History, Request, Process, PC, AboutRun

\* The day of any clock value is one of the days.
LEMMA DayOfTime ==
  ASSUME NEW t \in Time
  PROVE  day_of(t) \in Day
  <1>1. \A a, b \in Nat : a <= b => a \div DayLength <= b \div DayLength
    BY JudgeAssumption
  <1>2. \A a \in Nat : a \div DayLength \in Nat
    BY JudgeAssumption
  <1> QED
    BY <1>1, <1>2, JudgeAssumption DEF Time, Day, day_of

\* The transition table stays within the vocabulary.
LEMMA AllowedStates ==
  ASSUME NEW s \in WorkflowState
  PROVE  ALLOWED_WORKFLOW_TRANSITIONS[s] \subseteq WorkflowState
  BY DEF ALLOWED_WORKFLOW_TRANSITIONS, WorkflowState, TERMINAL_WORKFLOW_STATES, COMMON_FAILURES

\* A request that moves is served if its successor is.
LEMMA MovedIsServed ==
  ASSUME Control, NEW e \in Envs, NEW pc, NEW clock, NEW reply, At(e, pc, clock, reply),
         now' = now, clock <= now,
         pc # "idle" => reply = "none",
         pc \in AboutRun => req'[e].run \in Runs /\ req'[e].token \in Token
  PROVE  \A d \in Envs : Served(d)'
  BY DEF Control, At, Served

\* What a fault leaves behind.
LEMMA FaultsCounted ==
  ASSUME Control, Fails \/ Works
  PROVE  faults' \in 0 .. MaxFaults
  BY JudgeAssumption DEF Control, TypeOK, Fails, Works

\* The cached result of a probe.
LEMMA ConcludeKeeps ==
  ASSUME Control, NEW e \in Envs, NEW reply \in {"ready", "not_ready"}, Conclude(e, reply)
  PROVE  /\ proc' \in [Envs -> Process] /\ \A d \in Envs : d # e => proc'[d] = proc[d]
         /\ proc'[e].token = proc[e].token /\ proc'[e].tokenExpires = proc[e].tokenExpires
         /\ proc'[e].ready = reply /\ proc'[e].readyExpires = req[e].clock + ReadyTTL
         /\ proc'[e].probed = IF reply = "ready" THEN req[e].clock ELSE proc[e].probed
         /\ At(e, "idle", IF reply = "ready" THEN req[e].clock ELSE 0, reply)
  <1> DEFINE x == req[e].clock + ReadyTTL
             y == IF reply = "ready" THEN req[e].clock ELSE proc[e].probed
             p == [proc[e] EXCEPT !.ready = reply, !.readyExpires = x, !.probed = y]
  <1>1. proc \in [Envs -> Process] /\ req \in [Envs -> Request]
    BY Types DEF Control
  <1>2. x \in Nat /\ y \in Time \cup {-1}
    BY <1>1, JudgeAssumption DEF Process, Request, Time
  <1>3. proc' = [proc EXCEPT ![e] = p]
    BY <1>1 DEF Conclude
  <1> HIDE DEF x, y
  <1>4. /\ p \in Process /\ p.token = proc[e].token /\ p.tokenExpires = proc[e].tokenExpires
        /\ p.ready = reply /\ p.readyExpires = x /\ p.probed = y
    BY <1>1, <1>2, Zenon DEF Process
  <1>5. At(e, "idle", IF reply = "ready" THEN req[e].clock ELSE 0, reply)
    BY AnswerMoves DEF Conclude, Reply
  <1> HIDE DEF p
  <1>6. proc' \in [Envs -> Process] /\ proc'[e] = p /\ \A d \in Envs : d # e => proc'[d] = proc[d]
    BY <1>1, <1>3, <1>4
  <1> QED
    BY <1>4, <1>5, <1>6 DEF x, y

\* The token a fetch leaves in the cache.
LEMMA FetchKeeps ==
  ASSUME Control, NEW e \in Envs, NEW token \in Token, NEW clock \in Time,
         proc' = [proc EXCEPT ![e].token = token, ![e].tokenExpires = Lower(clock + TokenTTL, NotAfter)]
  PROVE  /\ proc' \in [Envs -> Process] /\ \A d \in Envs : d # e => proc'[d] = proc[d]
         /\ proc'[e].token = token
         /\ proc'[e].tokenExpires <= NotAfter /\ proc'[e].tokenExpires <= clock + TokenTTL
         /\ proc'[e].ready = proc[e].ready /\ proc'[e].readyExpires = proc[e].readyExpires
         /\ proc'[e].probed = proc[e].probed
  <1> DEFINE x == Lower(clock + TokenTTL, NotAfter)
             p == [proc[e] EXCEPT !.token = token, !.tokenExpires = x]
  <1>1. proc \in [Envs -> Process]
    BY Types DEF Control
  <1>2. x \in Nat /\ x <= NotAfter /\ x <= clock + TokenTTL
    BY JudgeAssumption DEF Lower, Time
  <1>3. proc' = [proc EXCEPT ![e] = p]
    BY <1>1
  <1> HIDE DEF x
  <1>4. /\ p \in Process /\ p.token = token /\ p.tokenExpires = x /\ p.ready = proc[e].ready
        /\ p.readyExpires = proc[e].readyExpires /\ p.probed = proc[e].probed
    BY <1>1, <1>2, Zenon DEF Process
  <1> HIDE DEF p
  <1>6. proc' \in [Envs -> Process] /\ proc'[e] = p /\ \A d \in Envs : d # e => proc'[d] = proc[d]
    BY <1>1, <1>3, <1>4
  <1> QED
    BY <1>2, <1>4, <1>6


\* A step that leaves what is stored and the caches alone.
LEMMA QuietControl ==
  ASSUME Control, NEW e \in Envs, NEW pc, NEW clock, NEW reply, At(e, pc, clock, reply),
         StoredOK', now' = now, clock <= now, proc' \in [Envs -> Process],
         faults' \in 0 .. MaxFaults, done' \in History,
         pc # "idle" => reply = "none",
         pc \in AboutRun => req'[e].run \in Runs /\ req'[e].token \in Token
  PROVE  Control'
  <1>1. TypeOK'
    BY TypeParts DEF At
  <1> QED
    BY <1>1, MovedIsServed DEF Control, At

\* What is known of a request before it moves.
LEMMA Moving ==
  ASSUME Control, NEW e \in Envs
  PROVE  /\ StoredOK /\ proc \in [Envs -> Process] /\ done \in History /\ req[e] \in Request
         /\ faults \in 0 .. MaxFaults /\ Served(e) /\ now <= now /\ 0 <= now /\ req[e].clock <= now
         /\ day_of(req[e].clock) \in Day /\ day_of(now) \in Day
  BY TypeParts, DayOfTime DEF Control, Served, StoredOK, Request, Time

\* Handlers that only move the request, or end it.
LEMMA PlainControl ==
  ASSUME Control, NEW e \in Envs,
         BuildServices(e) \/ Authorize(e) \/ Reserve(e) \/ FlowReturn(e) \/ GetRun(e)
  PROVE  Control'
  <1>0. /\ StoredOK' /\ now' = now /\ proc' \in [Envs -> Process] /\ done' \in History
        /\ req[e].pc \in AboutRun /\ req[e].run \in Runs /\ req[e].token \in Token
        /\ req[e].reply = "none" /\ req[e].clock <= now /\ now <= now /\ 0 <= now
    BY Moving DEF BuildServices, Authorize, Reserve, FlowReturn, GetRun, StoredOK, world, durable,
                  Served, AboutRun
  <1>1. faults' \in 0 .. MaxFaults
    BY FaultsCounted, Moving
    DEF BuildServices, Authorize, Reserve, FlowReturn, GetRun, Works, Fails
  <1>2. ASSUME NEW next \in PC, Goto(e, next), next # "idle" PROVE Control'
    BY <1>0, <1>1, <1>2, GotoMoves, QuietControl
  <1>3. ASSUME NEW next \in PC, ReadClock(e, next), next # "idle" PROVE Control'
    BY <1>0, <1>1, <1>3, ReadClockMoves, QuietControl
  <1>4. ASSUME NEW reply \in Reply \ {"ready"}, Answer(e, reply) PROVE Control'
    BY <1>0, <1>1, <1>4, AnswerMoves, QuietControl DEF AboutRun
  <1>5. CASE BuildServices(e)
    BY <1>5, <1>2, <1>4 DEF BuildServices, PC, AboutRun, Reply
  <1>6. CASE Authorize(e)
    BY <1>6, <1>3, <1>4 DEF Authorize, PC, AboutRun, Reply
  <1>7. CASE Reserve(e)
    BY <1>7, <1>3 DEF Reserve, PC, AboutRun
  <1>8. CASE FlowReturn(e)
    BY <1>8, <1>4 DEF FlowReturn, Reply
  <1>9. CASE GetRun(e)
    <2>1. Answer(e, "not_found") \/ Answer(e, "terminal") \/ Answer(e, "unavailable")
             \/ ReadClock(e, "observe")
      BY <1>9, Zenon DEF GetRun
    <2> QED
      BY <2>1, <1>3, <1>4 DEF PC, AboutRun, Reply
  <1> QED
    BY <1>5, <1>6, <1>7, <1>8, <1>9


\* The token is fetched or remembered.
LEMMA TokenControl ==
  ASSUME Control, NEW e \in Envs, GetToken(e)
  PROVE  Control'
  <1>0. /\ StoredOK' /\ now' = now /\ done' \in History
        /\ req[e].pc = "get_token" /\ req[e].run \in Runs /\ req[e].token \in Token
        /\ req[e].reply = "none" /\ req[e].clock <= now /\ 0 <= now /\ req[e].clock \in Time
    BY Moving DEF GetToken, StoredOK, world, durable, Served, AboutRun, Request
  <1>1. faults' \in 0 .. MaxFaults
    BY FaultsCounted DEF GetToken
  <1>2. proc' \in [Envs -> Process]
    <2>1. CASE UNCHANGED proc
      BY <2>1, Moving
    <2>2. CASE KeepToken(e, Expected(e)) /\ ~Cached(proc[e], req[e].clock)
      <3>1. Expected(e) = secret /\ secret \in Token
        BY <2>2, Moving DEF Expected, StoredOK
      <3> QED
        BY <1>0, <2>2, <3>1, FetchKeeps DEF KeepToken
    <2> QED
      BY <2>1, <2>2 DEF GetToken, KeepToken
  <1>3. CASE Goto(e, "reserve")
    BY <1>0, <1>1, <1>2, <1>3, GotoMoves, QuietControl DEF PC, AboutRun
  <1>4. CASE Answer(e, "unauthorized")
    BY <1>0, <1>1, <1>2, <1>4, AnswerMoves, QuietControl DEF Reply, AboutRun
  <1> QED
    BY <1>3, <1>4 DEF GetToken

\* A slot of the day is taken.
LEMMA ChargeControl ==
  ASSUME Control, NEW e \in Envs, ChargeInvestigation(e) \/ ChargeStatus(e)
  PROVE  Control'
  <1> DEFINE d == day_of(req[e].clock)
  <1>0. /\ now' = now /\ proc' \in [Envs -> Process] /\ done' \in History /\ d \in Day
        /\ req[e].pc = "charge" /\ req[e].run \in Runs /\ req[e].token \in Token
        /\ req[e].reply = "none" /\ req[e].clock <= now /\ 0 <= now
    BY Moving DEF ChargeInvestigation, ChargeStatus, world, Served, AboutRun
  <1> HIDE DEF d
  <1>1. faults' \in 0 .. MaxFaults
    BY FaultsCounted DEF ChargeInvestigation, ChargeStatus
  <1>2. StoredOK'
    <2>1. quota' \in [Day -> [requests : Nat, tokens : Nat]]
      <3>1. quota \in [Day -> [requests : Nat, tokens : Nat]]
        BY Moving DEF StoredOK
      <3>2. [requests |-> quota[d].requests + 1, tokens |-> quota[d].tokens + TokensPerRequest]
               \in [requests : Nat, tokens : Nat]
        BY <1>0, <3>1, JudgeAssumption
      <3>3. quota' \in {quota, [quota EXCEPT ![d] =
               [requests |-> quota[d].requests + 1, tokens |-> quota[d].tokens + TokensPerRequest]]}
        BY DEF ChargeInvestigation, ChargeStatus, d
      <3> QED
        BY <1>0, <3>1, <3>2, <3>3
    <2>2. statusQuota' \in [Day -> Nat]
      BY <1>0, Moving DEF ChargeInvestigation, ChargeStatus, StoredOK, d
    <2> QED
      BY <2>1, <2>2, Moving DEF ChargeInvestigation, ChargeStatus, StoredOK, world
  <1>3. ASSUME NEW next \in {"start", "get_run"}, Goto(e, next) PROVE Control'
    BY <1>0, <1>1, <1>2, <1>3, GotoMoves, QuietControl DEF PC, AboutRun
  <1>4. ASSUME NEW reply \in {"unavailable", "exhausted"}, Answer(e, reply) PROVE Control'
    BY <1>0, <1>1, <1>2, <1>4, AnswerMoves, QuietControl DEF Reply, AboutRun
  <1> QED
    BY <1>3, <1>4 DEF ChargeInvestigation, ChargeStatus

\* History entries.
LEMMA HistoryGrows ==
  ASSUME done \in History
  PROVE  /\ \A d \in Day : [done EXCEPT !.started[d] = @ + 1] \in History
         /\ \A d \in Day : [done EXCEPT !.probes[d] = @ + 1] \in History
         /\ \A r \in Runs, b \in BOOLEAN :
               [done EXCEPT !.pending[r] = @ + 1, !.latePending = b] \in History
         /\ done.requests < MaxRequestsMade => [done EXCEPT !.requests = @ + 1] \in History
  <1>1. \A d \in Day : [done.started EXCEPT ![d] = @ + 1] \in [Day -> Nat]
    BY DEF History
  <1>2. \A d \in Day : [done.probes EXCEPT ![d] = @ + 1] \in [Day -> Nat]
    BY DEF History
  <1>3. \A r \in Runs : [done.pending EXCEPT ![r] = @ + 1] \in [Runs -> Nat]
    BY DEF History
  <1>4. done.requests < MaxRequestsMade => done.requests + 1 \in 0 .. MaxRequestsMade
    BY JudgeAssumption DEF History
  <1> QED
    BY <1>1, <1>2, <1>3, <1>4, Zenon DEF History

\* The flow starts and moves its run; a poll is answered.
LEMMA RunControl ==
  ASSUME Control, NEW e \in Envs, Start(e) \/ FlowStep(e) \/ Observe(e)
  PROVE  Control'
  <1>0. /\ now' = now /\ proc' \in [Envs -> Process]
        /\ req[e].pc \in {"start", "flow", "observe"} /\ req[e].run \in Runs
        /\ req[e].token \in Token /\ req[e].pc \in AboutRun
        /\ req[e].reply = "none" /\ req[e].clock <= now /\ 0 <= now /\ now \in Time
        /\ polling \subseteq Runs /\ PollsOK
    BY Moving DEF Start, FlowStep, Observe, world, durable, Served, AboutRun, Control, TypeOK
  <1>1. faults' \in 0 .. MaxFaults
    BY FaultsCounted, Moving DEF Start, FlowStep, Observe
  <1>2. done' \in History
    <2>1. CASE Start(e)
      BY <2>1, Moving, HistoryGrows DEF Start
    <2>2. CASE FlowStep(e)
      BY <2>2, Moving DEF FlowStep
    <2>3. CASE Observe(e)
      <3>1. (done.latePending \/ req[e].clock >= run[req[e].run].born + Window) \in BOOLEAN
        BY Zenon
      <3>2. \A b \in BOOLEAN :
               [done EXCEPT !.pending[req[e].run] = @ + 1, !.latePending = b] \in History
        BY <1>0, Moving, HistoryGrows, Zenon
      <3>3. \/ UNCHANGED done
            \/ done' = [done EXCEPT !.pending[req[e].run] = @ + 1,
                    !.latePending = done.latePending \/ req[e].clock >= run[req[e].run].born + Window]
        BY <2>3, Zenon DEF Observe
      <3>4. done \in History
        BY Moving
      <3> QED
        BY <3>1, <3>2, <3>3, <3>4, Zenon
    <2> QED
      BY <2>1, <2>2, <2>3
  <1>3. StoredOK'
    <2>1. CASE Start(e)
      BY <2>1, Moving DEF Start, StoredOK, world, durable
    <2>2. CASE FlowStep(e)
      <3> DEFINE r == req[e].run
      <3>1. run \in [Runs -> [state : WorkflowState \cup {"NONE"}, born : Time]]
        BY Moving DEF StoredOK
      <3>2. run' \in [Runs -> [state : WorkflowState \cup {"NONE"}, born : Time]]
        <4>1. CASE run' = [run EXCEPT ![r] = [state |-> "RECEIVED", born |-> now]]
          BY <1>0, <3>1, <4>1 DEF WorkflowState
        <4>2. CASE /\ run[r].state \in FlowStates
                   /\ \E s \in ALLOWED_WORKFLOW_TRANSITIONS[run[r].state] :
                        run' = [run EXCEPT ![r].state = s]
          <5>1. run[r].state \in WorkflowState
            BY <4>2 DEF FlowStates, WorkflowState
          <5>2. PICK s \in WorkflowState : run' = [run EXCEPT ![r].state = s]
            BY <4>2, <5>1, AllowedStates
          <5> QED
            BY <1>0, <3>1, <5>2
        <4> QED
          BY <2>2, <4>1, <4>2 DEF FlowStep
      <3> QED
        BY <2>2, <3>2, Moving DEF FlowStep, StoredOK, world
    <2>3. CASE Observe(e)
      <3>1. observations' \in [Runs -> Nat]
        BY <1>0, <2>3, Moving DEF Observe, StoredOK
      <3> QED
        BY <2>3, <3>1, Moving DEF Observe, StoredOK, world
    <2> QED
      BY <2>1, <2>2, <2>3
  <1>4. CASE Goto(e, "flow")
    BY <1>0, <1>1, <1>2, <1>3, <1>4, GotoMoves, QuietControl DEF PC, AboutRun
  <1>5. ASSUME NEW reply \in {"unavailable", "pending", "terminal"}, Answer(e, reply)
        PROVE  Control'
    BY <1>0, <1>1, <1>2, <1>3, <1>5, AnswerMoves, QuietControl DEF Reply, AboutRun
  <1>6. CASE UNCHANGED <<req, polling>>
    <2>1. TypeOK'
      BY <1>0, <1>1, <1>2, <1>3, <1>6, Types, TypeParts DEF Control
    <2> QED
      BY <1>0, <1>6, <2>1 DEF Control, Served, PollsOK
  <1> QED
    BY <1>4, <1>5, <1>6 DEF Start, FlowStep, Observe


\* A readiness check and its probe.
LEMMA ProbeControl ==
  ASSUME Control, NEW e \in Envs, Check(e) \/ ProbeCharge(e) \/ ProbeToken(e) \/ ProbeReads(e)
  PROVE  Control'
  <1>0. /\ now' = now /\ req[e].pc \in {"check", "probe_charge", "probe_token", "probe_reads"}
        /\ req[e].reply = "none" /\ req[e].clock <= now /\ 0 <= now /\ now <= now
        /\ now \in Time /\ req[e] \in Request /\ polling \subseteq Runs /\ PollsOK
    BY Moving DEF Check, ProbeCharge, ProbeToken, ProbeReads, world, Served, Control, TypeOK
  <1>1. faults' \in 0 .. MaxFaults
    BY FaultsCounted DEF Check, ProbeCharge, ProbeToken, ProbeReads
  <1>2. StoredOK'
    <2>1. CASE Check(e) \/ ProbeToken(e) \/ ProbeReads(e)
      BY <2>1, Moving DEF Check, ProbeToken, ProbeReads, StoredOK, world, durable
    <2>2. CASE ProbeCharge(e)
      <3>1. probeQuota' \in [Day -> Nat]
        BY <2>2, Moving DEF ProbeCharge, StoredOK
      <3> QED
        BY <2>2, <3>1, Moving DEF ProbeCharge, StoredOK, world
    <2> QED
      BY <2>1, <2>2
  <1>3. done' \in History
    BY Moving, HistoryGrows DEF Check, ProbeCharge, ProbeToken, ProbeReads
  <1>4. ASSUME NEW reply \in {"ready", "not_ready"}, Conclude(e, reply) PROVE Control'
    <2>1. /\ proc' \in [Envs -> Process]
          /\ At(e, "idle", IF reply = "ready" THEN req[e].clock ELSE 0, reply)
      BY <1>4, ConcludeKeeps
    <2> QED
      BY <1>0, <1>1, <1>2, <1>3, <2>1, QuietControl DEF AboutRun
  <1>5. ASSUME NEW next \in {"probe_token", "probe_reads"}, Goto(e, next),
               proc' \in [Envs -> Process]
        PROVE  Control'
    BY <1>0, <1>1, <1>2, <1>3, <1>5, GotoMoves, QuietControl DEF PC, AboutRun
  <1>6. CASE Check(e)
    <2>1. proc' \in [Envs -> Process] /\ proc[e] \in Process
      BY <1>6, Moving DEF Check
    <2>2. CASE ReadClock(e, "probe_charge")
      BY <1>0, <1>1, <1>2, <1>3, <2>1, <2>2, ReadClockMoves, QuietControl DEF PC, AboutRun
    <2>3. CASE Answer(e, "not_ready")
      BY <1>0, <1>1, <1>2, <1>3, <2>1, <2>3, AnswerMoves, QuietControl DEF Reply, AboutRun
    <2>4. CASE /\ req' = [req EXCEPT ![e].pc = "idle", ![e].reply = proc[e].ready,
                                     ![e].clock = IF proc[e].ready = "ready" THEN now ELSE 0]
               /\ UNCHANGED polling
      <3> DEFINE clock == IF proc[e].ready = "ready" THEN now ELSE 0
                 q == [req[e] EXCEPT !.pc = "idle", !.reply = proc[e].ready, !.clock = clock]
      <3>1. clock \in Time /\ clock <= now
        BY <1>0, JudgeAssumption DEF Time
      <3>2. proc[e].ready \in Reply /\ "idle" \in PC
        BY <2>1 DEF Process, Reply, PC
      <3>3. req' = [req EXCEPT ![e] = q] /\ req \in [Envs -> Request]
        BY <2>4, Types DEF Control
      <3> HIDE DEF clock
      <3>4. q \in Request /\ q.pc = "idle" /\ q.clock = clock /\ q.reply = proc[e].ready
        BY <1>0, <3>1, <3>2, Zenon DEF Request
      <3> HIDE DEF q
      <3>5. At(e, "idle", clock, proc[e].ready)
        BY <1>0, <2>4, <3>3, <3>4 DEF At, PollsOK
      <3> QED
        BY <1>0, <1>1, <1>2, <1>3, <2>1, <3>1, <3>5, QuietControl DEF AboutRun
    <2> QED
      BY <1>6, <2>2, <2>3, <2>4 DEF Check
  <1>7. CASE ProbeCharge(e)
    BY <1>7, <1>4, <1>5, Moving DEF ProbeCharge
  <1>8. CASE ProbeToken(e)
    <2>1. secret \in Token /\ proc \in [Envs -> Process]
      BY Moving DEF StoredOK
    <2>2. CASE Goto(e, "probe_reads") /\ proc' = proc
      BY <1>5, <2>1, <2>2
    <2>3. CASE /\ Goto(e, "probe_reads")
               /\ proc' = [proc EXCEPT ![e].token = secret,
                                       ![e].tokenExpires = Lower(now + TokenTTL, NotAfter)]
      BY <1>0, <1>5, <2>1, <2>3, FetchKeeps
    <2>4. CASE Conclude(e, "not_ready")
      BY <1>4, <2>4
    <2> QED
      BY <1>8, <2>2, <2>3, <2>4 DEF ProbeToken
  <1>9. CASE ProbeReads(e)
    BY <1>9, <1>4 DEF ProbeReads
  <1> QED
    BY <1>6, <1>7, <1>8, <1>9

\* A request arrives.
LEMMA ArrivalControl ==
  ASSUME Control, NEW e \in Envs, NEW route \in Routes, NEW token \in Token \cup {0},
         NEW r \in Runs \cup {None}, route # "ready" => token \in Token /\ r \in Runs,
         Handle(e, route, token, r) \/ (Poll(e, r) /\ route = "status" /\ token = secret)
  PROVE  Control'
  <1>1. Serve(e, route, token, r) /\ UNCHANGED polling
    BY DEF Handle, Poll
  <1>2. /\ StoredOK' /\ now' = now /\ proc' \in [Envs -> Process] /\ faults' \in 0 .. MaxFaults
        /\ done' \in History /\ 0 <= now
    BY Moving, HistoryGrows DEF Handle, Poll, StoredOK, world, durable
  <1>3. /\ At(e, IF route = "ready" THEN "check" ELSE "services", 0, "none")
        /\ req'[e].run = r /\ req'[e].token = token
    BY <1>1, ServeMoves
  <1>4. CASE route = "ready"
    BY <1>2, <1>3, <1>4, QuietControl DEF AboutRun
  <1>5. CASE route # "ready"
    BY <1>2, <1>3, <1>5, QuietControl
  <1> QED
    BY <1>4, <1>5


\* The surroundings.
LEMMA WorldControl ==
  ASSUME Control, Tick \/ Rotate \/ (\E e \in Envs : Crash(e))
  PROVE  Control'
  <1>0. /\ StoredOK /\ proc \in [Envs -> Process] /\ done \in History /\ req \in [Envs -> Request]
        /\ faults \in 0 .. MaxFaults /\ polling \subseteq Runs /\ PollsOK
        /\ \A e \in Envs : Served(e)
    BY TypeParts DEF Control
  <1>1. CASE Tick
    <2>1. now' \in Time /\ now' = now + 1 /\ now \in Nat
      BY <1>0, <1>1, JudgeAssumption DEF Tick, Time, StoredOK
    <2>2. TypeOK'
      BY <1>0, <1>1, <2>1, TypeParts DEF Tick, StoredOK, durable, History
    <2>3. \A e \in Envs : Served(e)'
      <3>1. \A e \in Envs : req[e].clock \in Nat
        BY <1>0 DEF Request, Time
      <3> QED
        BY <1>0, <1>1, <2>1, <3>1 DEF Tick, Served
    <2> QED
      BY <1>0, <1>1, <2>2, <2>3 DEF Control, PollsOK, Tick
  <1>2. CASE Rotate
    <2>1. secret' \in Token
      <3>1. MaxRotations \in Nat
        BY JudgeAssumption
      <3>2. secret \in 1 .. MaxRotations + 1
        BY <1>0 DEF StoredOK, Token
      <3>3. secret <= MaxRotations /\ secret' = secret + 1
        BY <1>2 DEF Rotate
      <3> QED
        BY <3>1, <3>2, <3>3 DEF Token
    <2>2. retired' \in [Token -> Time \cup {Never}]
      BY <1>0, <1>2 DEF Rotate, StoredOK
    <2>3. TypeOK'
      BY <1>0, <1>2, <2>1, <2>2, TypeParts DEF Rotate, StoredOK, durable, History
    <2> QED
      BY <1>0, <1>2, <2>3 DEF Control, Rotate, Served, PollsOK
  <1>3. ASSUME NEW e \in Envs, Crash(e) PROVE Control'
    <2>1. NoRequest \in Request /\ Cold \in Process /\ 0 <= now
      BY <1>0, JudgeAssumption DEF NoRequest, Cold, Request, Process, PC, Reply, Time, StoredOK
    <2>2. At(e, "idle", 0, "none")
      BY <1>0, <1>3, <2>1 DEF Crash, At, NoRequest, PollsOK
    <2>3. /\ StoredOK' /\ now' = now /\ proc' \in [Envs -> Process] /\ done' \in History
      BY <1>0, <1>3, <2>1 DEF Crash, StoredOK, world, durable
    <2>4. faults' \in 0 .. MaxFaults
      BY <1>3, FaultsCounted DEF Crash
    <2> QED
      BY <2>1, <2>2, <2>3, <2>4, QuietControl DEF AboutRun
  <1> QED
    BY <1>1, <1>2, <1>3

\* No request is served at first.
LEMMA InitControl == Init => Control
  <1> SUFFICES ASSUME Init PROVE Control
    OBVIOUS
  <1>1. 0 \in Time /\ 1 \in Token /\ 0 \in 0 .. MaxFaults /\ 0 \in 0 .. MaxRequestsMade
    BY JudgeAssumption DEF Time, Token
  <1>2. StoredOK
    BY <1>1 DEF Init, StoredOK, NoRun
  <1>3. req \in [Envs -> Request] /\ proc \in [Envs -> Process]
    BY <1>1 DEF Init, NoRequest, Cold, Request, Process, PC, Reply
  <1>4. done \in History
    BY <1>1 DEF Init, History
  <1>5. TypeOK
    BY <1>1, <1>2, <1>3, <1>4, TypeParts DEF Init
  <1>6. \A e \in Envs : Served(e)
    BY DEF Init, Served, NoRequest, AboutRun
  <1> QED
    BY <1>5, <1>6 DEF Control, PollsOK, Init

\* Control is inductive.
LEMMA ControlStep == Control /\ [Next]_vars => Control'
  <1> SUFFICES ASSUME Control, [Next]_vars PROVE Control'
    OBVIOUS
  <1>1. CASE UNCHANGED vars
    BY <1>1, TypeParts DEF vars, durable, Control, StoredOK, Served, History, PollsOK
  <1>2. ASSUME NEW e \in Envs, Step(e) PROVE Control'
    BY <1>2, PlainControl, TokenControl, ChargeControl, RunControl, ProbeControl DEF Step
  <1>3. ASSUME NEW e \in Envs, NEW route \in Routes \ {"ready"}, NEW token \in Token, NEW r \in Runs,
               Handle(e, route, token, r)
        PROVE  Control'
    BY <1>3, ArrivalControl
  <1>4. ASSUME NEW e \in Envs, "ready" \in Routes, Handle(e, "ready", 0, None) PROVE Control'
    BY <1>4, ArrivalControl
  <1>5. ASSUME NEW e \in Envs, NEW r \in Runs, Poll(e, r) PROVE Control'
    <2>1. "status" \in Routes /\ secret \in Token
      BY <1>5, Moving DEF Poll, Control, PollsOK, StoredOK
    <2> QED
      BY <1>5, <2>1, ArrivalControl
  <1> QED
    BY <1>1, <1>2, <1>3, <1>4, <1>5, WorldControl DEF Next


-----------------------------------------------------------------------------
(* Which handler brings a request where *)
Follows(e) ==
    /\ \A d \in Envs : d # e => req'[d] = req[d]
    /\ req'[e].pc # "idle" => req'[e].run = req[e].run /\ req'[e].token = req[e].token
    /\ req'[e].pc = "get_token" => Authorize(e) /\ req'[e].clock = now
    /\ req'[e].pc = "reserve" => GetToken(e) /\ req'[e].clock = req[e].clock
    /\ req'[e].pc = "start" => ChargeInvestigation(e) /\ req'[e].clock = req[e].clock
    /\ req'[e].pc = "flow" => Start(e) \/ (FlowStep(e) /\ req[e].pc = "flow")
    /\ req'[e].pc = "observe" => GetRun(e) /\ req'[e].clock = now
    /\ req'[e].pc = "probe_reads" => ProbeToken(e) /\ req'[e].clock = req[e].clock
    /\ req'[e].reply = "ready" =>
          \/ Check(e) /\ proc[e].ready = "ready" /\ now < proc[e].readyExpires
                      /\ req'[e].clock = now
          \/ ProbeReads(e) /\ Conclude(e, "ready") /\ req'[e].clock = req[e].clock
    /\ req'[e].reply = "proposed" =>
          FlowReturn(e) /\ req'[e].run = req[e].run /\ FlowSucceeded(req[e].run)

\* Where a request is after a step of its own.
Goes(e, pc, clock, reply) ==
    /\ \A d \in Envs : d # e => req'[d] = req[d]
    /\ req'[e].pc = pc /\ req'[e].clock = clock /\ req'[e].reply = reply

\* Going on, answering and concluding.
LEMMA Going ==
  ASSUME Control, NEW e \in Envs, req[e].pc # "idle"
  PROVE  /\ \A next \in PC : Goto(e, next) =>
               /\ Goes(e, next, req[e].clock, "none")
               /\ req'[e].run = req[e].run /\ req'[e].token = req[e].token
         /\ \A next \in PC : ReadClock(e, next) =>
               /\ Goes(e, next, now, "none")
               /\ req'[e].run = req[e].run /\ req'[e].token = req[e].token
         /\ \A reply \in Reply \ {"ready"} :
               Answer(e, reply) /\ (reply = "pending" => req[e].run \in Runs) =>
               /\ Goes(e, "idle", 0, reply)
               /\ reply = "proposed" => req'[e].run = req[e].run
         /\ Conclude(e, "not_ready") => Goes(e, "idle", 0, "not_ready")
         /\ Conclude(e, "ready") => Goes(e, "idle", req[e].clock, "ready")
  <1>0. req[e].reply = "none"
    BY Moving DEF Served
  <1>1. ASSUME NEW next \in PC, Goto(e, next)
        PROVE  /\ Goes(e, next, req[e].clock, "none")
               /\ req'[e].run = req[e].run /\ req'[e].token = req[e].token
    BY <1>0, <1>1, GotoMoves DEF At, Goes
  <1>2. ASSUME NEW next \in PC, ReadClock(e, next)
        PROVE  /\ Goes(e, next, now, "none")
               /\ req'[e].run = req[e].run /\ req'[e].token = req[e].token
    BY <1>0, <1>2, ReadClockMoves DEF At, Goes
  <1>3. ASSUME NEW reply \in Reply \ {"ready"}, Answer(e, reply),
               reply = "pending" => req[e].run \in Runs
        PROVE  /\ Goes(e, "idle", 0, reply)
               /\ reply = "proposed" => req'[e].run = req[e].run
    BY <1>3, AnswerMoves DEF At, Goes
  <1>4. Conclude(e, "not_ready") => Goes(e, "idle", 0, "not_ready")
    BY ConcludeKeeps DEF At, Goes
  <1>5. Conclude(e, "ready") => Goes(e, "idle", req[e].clock, "ready")
    BY ConcludeKeeps DEF At, Goes
  <1> QED
    BY <1>1, <1>2, <1>3, <1>4, <1>5

\* A request does not move the clock or the secret.
LEMMA StepKeepsWorld ==
  ASSUME NEW e \in Envs, Step(e)
  PROVE  UNCHANGED <<now, secret, retired>>
  BY DEF Step, BuildServices, Authorize, GetToken, Reserve, ChargeInvestigation, ChargeStatus,
         Start, FlowStep, FlowReturn, GetRun, Observe, Check, ProbeCharge, ProbeToken,
         ProbeReads, world

\* Every handler brings its request only where it may.
LEMMA StepFollows ==
  ASSUME Control, NEW e \in Envs, Step(e)
  PROVE  Follows(e)
  <1>A. Served(e)
    BY DEF Control
  <1>1. CASE BuildServices(e)
    BY <1>1, Going DEF Follows, Goes, BuildServices, PC, AboutRun, Reply
  <1>2. CASE Authorize(e)
    BY <1>2, Going DEF Follows, Goes, Authorize, PC, AboutRun, Reply
  <1>3. CASE GetToken(e)
    <2>1. Goto(e, "reserve") \/ Answer(e, "unauthorized")
      BY <1>3 DEF GetToken
    <2>2. req[e].pc = "get_token"
      BY <1>3 DEF GetToken
    <2> QED
      BY <1>3, <2>1, <2>2, Going DEF Follows, Goes, PC, AboutRun, Reply
  <1>4. CASE Reserve(e)
    BY <1>4, Going DEF Follows, Goes, Reserve, PC, AboutRun
  <1>5. CASE ChargeInvestigation(e)
    <2>1. Goto(e, "start") \/ Answer(e, "unavailable") \/ Answer(e, "exhausted")
      BY <1>5 DEF ChargeInvestigation
    <2>2. req[e].pc = "charge"
      BY <1>5 DEF ChargeInvestigation
    <2> QED
      BY <1>5, <2>1, <2>2, Going DEF Follows, Goes, PC, AboutRun, Reply
  <1>6. CASE ChargeStatus(e)
    BY <1>6, Going DEF Follows, Goes, ChargeStatus, PC, AboutRun, Reply
  <1>7. CASE Start(e)
    <2>1. Goto(e, "flow") \/ Answer(e, "unavailable")
      BY <1>7 DEF Start
    <2>2. req[e].pc = "start"
      BY <1>7 DEF Start
    <2> QED
      BY <1>7, <2>1, <2>2, Going DEF Follows, Goes, PC, AboutRun, Reply
  <1>8. CASE FlowStep(e)
    <2>1. req' = req /\ req[e].pc = "flow"
      BY <1>8 DEF FlowStep
    <2> QED
      BY <1>A, <1>8, <2>1 DEF Follows, Served
  <1>9. CASE FlowReturn(e)
    <2>1. \/ Answer(e, "proposed") /\ FlowSucceeded(req[e].run)
          \/ Answer(e, "failed") \/ Answer(e, "unavailable")
      BY <1>9 DEF FlowReturn
    <2>2. req[e].pc = "flow"
      BY <1>9 DEF FlowReturn
    <2> QED
      BY <1>9, <2>1, <2>2, Going DEF Follows, Goes, Reply
  <1>10. CASE GetRun(e)
    <2>1. Answer(e, "not_found") \/ Answer(e, "terminal") \/ Answer(e, "unavailable")
             \/ ReadClock(e, "observe")
      BY <1>10, Zenon DEF GetRun
    <2>2. req[e].pc = "get_run"
      BY <1>10 DEF GetRun
    <2> QED
      BY <1>10, <2>1, <2>2, Going DEF Follows, Goes, PC, AboutRun, Reply
  <1>11. CASE Observe(e)
    <2>1. Answer(e, "pending") \/ Answer(e, "unavailable") \/ Answer(e, "terminal")
      BY <1>11 DEF Observe
    <2>2. req[e].run \in Runs /\ req[e].pc = "observe"
      BY <1>A, <1>11 DEF Observe, Served, AboutRun
    <2> QED
      BY <2>1, <2>2, Going DEF Follows, Goes, Reply
  <1>12. CASE Check(e)
    <2>1. CASE ReadClock(e, "probe_charge")
      BY <1>12, <2>1, Going DEF Follows, Goes, Check, PC, AboutRun
    <2>2. CASE Answer(e, "not_ready")
      BY <1>12, <2>2, Going DEF Check, Follows, Goes, Reply
    <2>3. CASE /\ req' = [req EXCEPT ![e].pc = "idle", ![e].reply = proc[e].ready,
                                     ![e].clock = IF proc[e].ready = "ready" THEN now ELSE 0]
               /\ now < proc[e].readyExpires
      <3>1. req \in [Envs -> Request] /\ proc \in [Envs -> Process]
        BY Types DEF Control
      <3>2. /\ \A d \in Envs : d # e => req'[d] = req[d]
            /\ req'[e].pc = "idle" /\ req'[e].reply = proc[e].ready
            /\ proc[e].ready = "ready" => req'[e].clock = now
        BY <2>3, <3>1 DEF Request
      <3> QED
        BY <1>12, <2>3, <3>1, <3>2 DEF Follows, Process
    <2> QED
      BY <1>12, <2>1, <2>2, <2>3 DEF Check
  <1>13. CASE ProbeCharge(e)
    <2>1. Goto(e, "probe_token") \/ Conclude(e, "not_ready")
      BY <1>13 DEF ProbeCharge
    <2>2. req[e].pc = "probe_charge"
      BY <1>13 DEF ProbeCharge
    <2> QED
      BY <2>1, <2>2, Going DEF Follows, Goes, PC, AboutRun
  <1>14. CASE ProbeToken(e)
    <2>1. Goto(e, "probe_reads") \/ Conclude(e, "not_ready")
      BY <1>14 DEF ProbeToken
    <2>2. req[e].pc = "probe_token"
      BY <1>14 DEF ProbeToken
    <2> QED
      BY <1>14, <2>1, <2>2, Going DEF Follows, Goes, PC, AboutRun
  <1>15. CASE ProbeReads(e)
    BY <1>15, Going DEF Follows, Goes, ProbeReads
  <1> QED
    BY <1>1, <1>2, <1>3, <1>4, <1>5, <1>6, <1>7, <1>8, <1>9, <1>10, <1>11, <1>12, <1>13,
       <1>14, <1>15 DEF Step

-----------------------------------------------------------------------------
(* Answers are backed *)

\* What a step leaves in the cache of its environment, and that others keep theirs.
Fetches(e) ==
    /\ \A d \in Envs : d # e => proc'[d] = proc[d]
    /\ \/ proc'[e].token = proc[e].token /\ proc'[e].tokenExpires = proc[e].tokenExpires
       \/ /\ proc'[e].token = secret /\ proc'[e].tokenExpires <= NotAfter
          /\ proc'[e].tokenExpires <= now + TokenTTL

\* What it leaves of the result of a probe.
Concludes(e) ==
    \/ /\ proc'[e].ready = proc[e].ready /\ proc'[e].readyExpires = proc[e].readyExpires
       /\ proc'[e].probed = proc[e].probed
    \/ /\ proc'[e].ready = "not_ready" /\ req'[e].reply = "not_ready"
    \/ /\ ProbeReads(e) /\ req'[e].clock = req[e].clock
       /\ proc'[e].probed = req[e].clock /\ proc'[e].readyExpires = req[e].clock + ReadyTTL

\* Tokens are fetched and probes concluded by the process itself, in these ways.
LEMMA StepCaches ==
  ASSUME Control, NEW e \in Envs, Step(e)
  PROVE  Fetches(e) /\ Concludes(e)
  <1>0. /\ proc \in [Envs -> Process] /\ now \in Time /\ secret \in Token
        /\ req[e].clock \in Time /\ req[e].clock <= now /\ TokenTTL \in Nat
    BY Moving, JudgeAssumption DEF StoredOK, Request
  <1>1. CASE UNCHANGED proc
    BY <1>1 DEF Fetches, Concludes
  <1>2. ASSUME NEW clock \in Time, clock <= now,
               proc' = [proc EXCEPT ![e].token = secret,
                                    ![e].tokenExpires = Lower(clock + TokenTTL, NotAfter)]
        PROVE  Fetches(e) /\ Concludes(e)
    <2>1. /\ proc' \in [Envs -> Process] /\ \A d \in Envs : d # e => proc'[d] = proc[d]
          /\ proc'[e].token = secret
          /\ proc'[e].tokenExpires <= NotAfter /\ proc'[e].tokenExpires <= clock + TokenTTL
          /\ proc'[e].ready = proc[e].ready /\ proc'[e].readyExpires = proc[e].readyExpires
          /\ proc'[e].probed = proc[e].probed
      BY <1>0, <1>2, FetchKeeps
    <2>2. proc'[e].tokenExpires <= now + TokenTTL
      BY <1>0, <1>2, <2>1 DEF Time, Process
    <2> QED
      BY <2>1, <2>2 DEF Fetches, Concludes
  <1>3. CASE Conclude(e, "not_ready")
    BY <1>3, ConcludeKeeps DEF Fetches, Concludes, At
  <1>4. CASE ProbeReads(e) /\ Conclude(e, "ready")
    BY <1>4, ConcludeKeeps DEF Fetches, Concludes, At
  <1>5. CASE GetToken(e)
    <2>1. CASE Cached(proc[e], req[e].clock)
      BY <1>1, <1>5, <2>1 DEF GetToken, KeepToken
    <2>2. CASE ~Cached(proc[e], req[e].clock)
      BY <1>0, <1>1, <1>2, <1>5, <2>2 DEF GetToken, KeepToken, Expected
    <2> QED
      BY <2>1, <2>2
  <1>6. CASE ProbeCharge(e)
    BY <1>1, <1>3, <1>6 DEF ProbeCharge
  <1>7. CASE ProbeToken(e)
    BY <1>0, <1>1, <1>2, <1>3, <1>7 DEF ProbeToken, Time
  <1>8. CASE ProbeReads(e)
    BY <1>3, <1>4, <1>8 DEF ProbeReads
  <1>9. CASE ~(GetToken(e) \/ ProbeCharge(e) \/ ProbeToken(e) \/ ProbeReads(e))
    BY <1>1, <1>9 DEF Step, BuildServices, Authorize, Reserve, ChargeInvestigation, ChargeStatus,
                      Start, FlowStep, FlowReturn, GetRun, Observe, Check
  <1> QED
    BY <1>5, <1>6, <1>7, <1>8, <1>9


\* A run keeps its creation time, and a proposal is not taken back.
RunsGoOn ==
    \A r \in Runs :
        /\ run[r] # NoRun => run'[r] # NoRun /\ run'[r].born = run[r].born
        /\ run[r].state = "REMEDIATION_PROPOSED" => run'[r].state = "REMEDIATION_PROPOSED"

\* Handlers treat the runs this way.
LEMMA StepRuns ==
  ASSUME Control, NEW e \in Envs, Step(e)
  PROVE  RunsGoOn
  <1>1. CASE run' = run
    BY <1>1 DEF RunsGoOn
  <1>2. CASE FlowStep(e)
    <2> DEFINE r == req[e].run
    <2>1. run \in [Runs -> [state : WorkflowState \cup {"NONE"}, born : Time]] /\ r \in Runs
      BY <1>2, Moving DEF StoredOK, Served, AboutRun, FlowStep
    <2>2. CASE run[r] = NoRun /\ run' = [run EXCEPT ![r] = [state |-> "RECEIVED", born |-> now]]
      BY <2>1, <2>2 DEF RunsGoOn, NoRun
    <2>3. CASE /\ run[r].state \in FlowStates
               /\ \E s \in ALLOWED_WORKFLOW_TRANSITIONS[run[r].state] :
                    run' = [run EXCEPT ![r].state = s]
      <3>1. run[r].state \in WorkflowState /\ run[r].state # "REMEDIATION_PROPOSED"
        BY <2>3 DEF FlowStates, WorkflowState
      <3>2. PICK s \in WorkflowState : run' = [run EXCEPT ![r].state = s]
        BY <2>3, <3>1, AllowedStates
      <3>3. /\ run'[r].state = s /\ run'[r].born = run[r].born
            /\ \A x \in Runs : x # r => run'[x] = run[x]
        BY <2>1, <3>2
      <3>4. s # "NONE" /\ NoRun.state = "NONE"
        BY DEF NoRun, WorkflowState, TERMINAL_WORKFLOW_STATES
      <3>5. run'[r] # NoRun
        BY <3>3, <3>4
      <3> QED
        BY <3>1, <3>3, <3>5 DEF RunsGoOn
    <2> QED
      BY <1>2, <2>2, <2>3 DEF FlowStep
  <1> QED
    BY <1>1, <1>2 DEF Step, BuildServices, Authorize, GetToken, Reserve, ChargeInvestigation,
                      ChargeStatus, Start, FlowReturn, GetRun, Observe, Check, ProbeCharge,
                      ProbeToken, ProbeReads, durable

\* Requests are let in by a live token.
LEMMA StepTokens ==
  ASSUME Control, TokensAreLive, NEW e \in Envs, Step(e)
  PROVE  TokensAreLive'
  <1>0. /\ secret \in Token /\ retired \in [Token -> Time \cup {Never}] /\ now \in Time
        /\ proc \in [Envs -> Process] /\ retired[secret] = Never /\ TokenTTL \in Nat \ {0}
        /\ req[e].clock \in Time /\ now' = now /\ secret' = secret /\ retired' = retired
    <2>1. /\ secret \in Token /\ retired \in [Token -> Time \cup {Never}] /\ now \in Time
          /\ proc \in [Envs -> Process] /\ req[e].clock \in Time
      BY Moving DEF StoredOK, Request
    <2>2. secret \in Nat
      BY <2>1, JudgeAssumption DEF Token
    <2>3. retired[secret] = Never
      BY <2>1, <2>2 DEF TokensAreLive
    <2> QED
      BY <2>1, <2>3, StepKeepsWorld, JudgeAssumption
  <1>1. Follows(e) /\ Fetches(e)
    BY StepFollows, StepCaches
  <1>2. ASSUME NEW d \in Envs, proc'[d].token # 0
        PROVE  /\ proc'[d].tokenExpires <= NotAfter /\ proc'[d].tokenExpires <= now + TokenTTL
               /\ proc'[d].tokenExpires <= retired[proc'[d].token] + TokenTTL
    <2>1. CASE proc'[d].token = proc[d].token /\ proc'[d].tokenExpires = proc[d].tokenExpires
      BY <1>2, <2>1 DEF TokensAreLive
    <2>2. CASE /\ proc'[d].token = secret /\ proc'[d].tokenExpires <= NotAfter
               /\ proc'[d].tokenExpires <= now + TokenTTL
      <3>1. proc'[d].tokenExpires \in Nat
        BY ControlStep, TypeParts DEF Next, Control, Process
      <3> QED
        BY <1>0, <2>2, <3>1, JudgeAssumption DEF Never, Time
    <2> QED
      BY <1>1, <2>1, <2>2 DEF Fetches
  <1>3. ASSUME req'[e].pc = "get_token" PROVE req'[e].clock < NotAfter
    <2>1. Authorize(e) /\ req'[e].clock = now
      BY <1>1, <1>3 DEF Follows
    <2>2. Usable(now)
      <3>1. CASE Answer(e, "unauthorized")
        BY <1>3, <2>1, <3>1, Going DEF Authorize, Goes, Reply
      <3> QED
        BY <2>1, <3>1 DEF Authorize
    <2> QED
      BY <2>1, <2>2 DEF Usable
  <1>4. ASSUME req'[e].pc = "reserve"
        PROVE  /\ req'[e].clock < NotAfter
               /\ retired[req'[e].token] + TokenTTL > req'[e].clock
    <2>1. /\ GetToken(e) /\ req[e].pc = "get_token" /\ req'[e].clock = req[e].clock
          /\ req'[e].token = req[e].token
      BY <1>1, <1>4 DEF Follows, GetToken
    <2>2. req[e].token = Expected(e)
      <3>1. CASE Answer(e, "unauthorized")
        BY <1>4, <2>1, <3>1, Going DEF Goes, Reply
      <3> QED
        BY <2>1, <3>1 DEF GetToken
    <2>3. CASE Cached(proc[e], req[e].clock)
      <3>1. proc[e].token \in Token /\ proc[e].tokenExpires \in Nat
        BY <1>0, <2>3 DEF Process, Cached
      <3> QED
        BY <1>0, <2>1, <2>2, <2>3, <3>1, JudgeAssumption
        DEF TokensAreLive, Cached, Expected, Time, Never
    <2>4. CASE ~Cached(proc[e], req[e].clock)
      BY <1>0, <2>1, <2>2, <2>4, JudgeAssumption DEF TokensAreLive, Expected, Time, Never
    <2> QED
      BY <2>3, <2>4
  <1> QED
    BY <1>0, <1>1, <1>2, <1>3, <1>4 DEF TokensAreLive, Follows


\* "ready" is remembered and answered for a lifetime.
LEMMA StepProbes ==
  ASSUME Control, ProbesAreRecent, NEW e \in Envs, Step(e)
  PROVE  ProbesAreRecent'
  <1>0. /\ now \in Time /\ proc \in [Envs -> Process] /\ req[e].clock \in Time
        /\ req[e].clock <= now /\ probeQuota \in [Day -> Nat] /\ done \in History
        /\ day_of(now) \in Day /\ ReadyTTL \in Nat \ {0} /\ MaxProbes \in Nat
    BY Moving, JudgeAssumption DEF StoredOK, Request
  <1>1. Follows(e) /\ Fetches(e) /\ Concludes(e)
    BY StepFollows, StepCaches
  <1>2. \A d \in Day : done'.probes[d] <= probeQuota'[d] /\ probeQuota'[d] <= MaxProbes
    <2>1. CASE ProbeCharge(e)
      <3>1. \A d \in Day : done.probes[d] \in Nat /\ probeQuota[d] \in Nat
        BY <1>0 DEF History
      <3>2. \/ probeQuota' = probeQuota /\ done' = done
            \/ /\ probeQuota[day_of(now)] < MaxProbes
               /\ probeQuota' = [probeQuota EXCEPT ![day_of(now)] = @ + 1]
               /\ \/ done' = done
                  \/ done' = [done EXCEPT !.probes[day_of(now)] = @ + 1]
        BY <2>1 DEF ProbeCharge, ProbeFits
      <3> QED
        BY <1>0, <3>1, <3>2 DEF ProbesAreRecent, History
    <2>2. CASE ~ProbeCharge(e)
      <3>1. probeQuota' = probeQuota /\ done'.probes = done.probes
        BY <1>0, <2>2 DEF Step, BuildServices, Authorize, GetToken, Reserve, ChargeInvestigation,
             ChargeStatus, Start, FlowStep, FlowReturn, GetRun, Observe, Check, ProbeToken,
             ProbeReads, durable, History
      <3> QED
        BY <3>1 DEF ProbesAreRecent
    <2> QED
      BY <2>1, <2>2
  <1>3. ASSUME req'[e].pc = "probe_reads" PROVE req'[e].clock < NotAfter
    <2>1. ProbeToken(e) /\ req'[e].clock = req[e].clock
      BY <1>1, <1>3 DEF Follows
    <2>2. Usable(now)
      <3>1. CASE Conclude(e, "not_ready")
        BY <1>3, <2>1, <3>1, Going DEF ProbeToken, Goes
      <3> QED
        BY <2>1, <3>1 DEF ProbeToken
    <2> QED
      BY <1>0, <2>1, <2>2, JudgeAssumption DEF Usable, Time
  <1>4. ASSUME proc'[e].ready = "ready"
        PROVE  /\ proc'[e].probed >= 0 /\ proc'[e].probed < NotAfter
               /\ proc'[e].readyExpires <= proc'[e].probed + ReadyTTL
    <2>1. CASE /\ proc'[e].ready = proc[e].ready /\ proc'[e].readyExpires = proc[e].readyExpires
               /\ proc'[e].probed = proc[e].probed
      BY <1>4, <2>1 DEF ProbesAreRecent
    <2>2. CASE ProbeReads(e) /\ proc'[e].probed = req[e].clock
               /\ proc'[e].readyExpires = req[e].clock + ReadyTTL
      BY <1>0, <2>2 DEF ProbesAreRecent, ProbeReads, Time
    <2> QED
      BY <1>1, <1>4, <2>1, <2>2 DEF Concludes
  <1>5. ASSUME req'[e].reply = "ready"
        PROVE  /\ proc'[e].probed >= 0 /\ proc'[e].probed < NotAfter
               /\ req'[e].clock < proc'[e].probed + ReadyTTL
    <2>1. CASE Check(e) /\ proc[e].ready = "ready" /\ now < proc[e].readyExpires
               /\ req'[e].clock = now
      <3>1. proc' = proc
        BY <2>1 DEF Check
      <3>2. proc[e].readyExpires \in Nat /\ proc[e].probed \in Time \cup {-1}
        BY <1>0 DEF Process
      <3> QED
        BY <1>0, <2>1, <3>1, <3>2 DEF ProbesAreRecent, Time
    <2>2. CASE ProbeReads(e) /\ Conclude(e, "ready") /\ req'[e].clock = req[e].clock
      <3>1. proc'[e].probed = req[e].clock
        BY <2>2, ConcludeKeeps
      <3> QED
        BY <1>0, <2>2, <3>1 DEF ProbesAreRecent, ProbeReads, Time
    <2> QED
      BY <1>1, <1>5, <2>1, <2>2 DEF Follows
  <1> QED
    BY <1>1, <1>2, <1>3, <1>4, <1>5 DEF ProbesAreRecent, Follows, Fetches

\* "Ask again" is counted.
LEMMA StepPolls ==
  ASSUME Control, PollsAreCounted, NEW e \in Envs, Step(e)
  PROVE  PollsAreCounted'
  <1>0. /\ now \in Time /\ observations \in [Runs -> Nat] /\ done \in History
        /\ MaxObservations \in Nat
    BY Moving, JudgeAssumption DEF StoredOK
  <1>1. Follows(e) /\ RunsGoOn /\ \A d \in Envs : Served(d)
    BY StepFollows, StepRuns DEF Control
  <1>2. /\ \A r \in Runs : done'.pending[r] <= observations'[r]
                           /\ observations'[r] <= MaxObservations
        /\ ~done'.latePending
    <2>1. CASE Observe(e)
      <3> DEFINE r == req[e].run
      <3>1. \A x \in Runs : done.pending[x] \in Nat /\ observations[x] \in Nat
        BY <1>0 DEF History
      <3>2. r \in Runs /\ ~(req[e].clock >= run[r].born + Window)
        <4>1. /\ r \in Runs /\ req[e].clock < run[r].born + Window
              /\ req[e].clock \in Nat /\ run[r].born \in Nat /\ Window \in Nat
          BY <1>1, <2>1, Moving, JudgeAssumption
          DEF PollsAreCounted, Observe, Served, AboutRun, Request, Time, StoredOK
        <4> QED
          BY <4>1
      <3>3. \/ observations' = observations /\ done' = done
            \/ /\ observations[r] < MaxObservations
               /\ observations' = [observations EXCEPT ![r] = @ + 1]
               /\ \/ done' = done
                  \/ done' = [done EXCEPT !.pending[r] = @ + 1,
                          !.latePending = done.latePending \/ req[e].clock >= run[r].born + Window]
        BY <2>1, Zenon DEF Observe
      <3>4. \/ done' = done
            \/ /\ done'.pending = [done.pending EXCEPT ![r] = @ + 1]
               /\ done'.latePending = (done.latePending \/ req[e].clock >= run[r].born + Window)
        BY <1>0, <3>3, Zenon DEF History
      <3>5. ~done'.latePending
        BY <3>2, <3>4, Zenon DEF PollsAreCounted
      <3>6. \/ observations' = observations /\ done'.pending = done.pending
            \/ /\ observations[r] < MaxObservations
               /\ observations' = [observations EXCEPT ![r] = @ + 1]
               /\ \/ done'.pending = done.pending
                  \/ done'.pending = [done.pending EXCEPT ![r] = @ + 1]
        BY <3>3, <3>4, Zenon
      <3>7. \A x \in Runs : done'.pending[x] <= observations'[x]
                            /\ observations'[x] <= MaxObservations
        BY <1>0, <3>1, <3>2, <3>6 DEF PollsAreCounted, History
      <3> QED
        BY <3>5, <3>7
    <2>2. CASE ~Observe(e)
      <3>1. /\ observations' = observations /\ done'.pending = done.pending
            /\ done'.latePending = done.latePending
        BY <1>0, <2>2 DEF Step, BuildServices, Authorize, GetToken, Reserve, ChargeInvestigation,
             ChargeStatus, Start, FlowStep, FlowReturn, GetRun, Check, ProbeCharge, ProbeToken,
             ProbeReads, durable, History
      <3> QED
        BY <3>1 DEF PollsAreCounted
    <2> QED
      BY <2>1, <2>2
  <1>3. ASSUME req'[e].pc = "observe"
        PROVE  run'[req'[e].run] # NoRun /\ req'[e].clock < run'[req'[e].run].born + Window
    <2> DEFINE r == req[e].run
    <2>1. /\ GetRun(e) /\ req'[e].run = r /\ req'[e].clock = now /\ run' = run
      BY <1>1, <1>3 DEF Follows, GetRun, durable
    <2>2. r \in Runs /\ run[r].born \in Nat /\ Window \in Nat /\ now \in Nat
      BY <1>1, <2>1, Moving, JudgeAssumption DEF GetRun, Served, AboutRun, StoredOK, Time
    <2>3. \A reply \in {"not_found", "terminal", "unavailable"} : ~Answer(e, reply)
      BY <1>3, <2>1, <2>2, Going DEF GetRun, Goes, Reply
    <2>4. run[r] # NoRun /\ ~(now - run[r].born >= Window)
      BY <2>1, <2>3 DEF GetRun
    <2> QED
      BY <2>1, <2>2, <2>4
  <1>4. ASSUME NEW d \in Envs, d # e, req'[d].pc = "observe"
        PROVE  run'[req'[d].run] # NoRun /\ req'[d].clock < run'[req'[d].run].born + Window
    <2>1. req'[d] = req[d] /\ req[d].run \in Runs
      BY <1>1, <1>4 DEF Follows, Served, AboutRun
    <2> QED
      BY <1>1, <1>4, <2>1 DEF PollsAreCounted, RunsGoOn
  <1> QED
    BY <1>2, <1>3, <1>4 DEF PollsAreCounted

\* Success is answered for a stored proposal.
LEMMA StepProposals ==
  ASSUME Control, ProposalsAreKept, NEW e \in Envs, Step(e)
  PROVE  ProposalsAreKept'
  <1>1. Follows(e) /\ RunsGoOn /\ Served(e)
    BY StepFollows, StepRuns DEF Control
  <1>2. ASSUME req'[e].reply = "proposed"
        PROVE  req'[e].run \in Runs /\ run'[req'[e].run].state = "REMEDIATION_PROPOSED"
    <2>1. /\ FlowReturn(e) /\ req'[e].run = req[e].run
          /\ run[req[e].run].state = "REMEDIATION_PROPOSED"
      BY <1>1, <1>2 DEF Follows, FlowSucceeded
    <2>2. req[e].run \in Runs
      BY <1>1, <2>1 DEF FlowReturn, Served, AboutRun
    <2> QED
      BY <1>1, <2>1, <2>2 DEF RunsGoOn
  <1> QED
    BY <1>1, <1>2 DEF ProposalsAreKept, Follows, RunsGoOn


\* A request that arrives or is lost says nothing new.
LEMMA QuietAnswers ==
  ASSUME AnswerInv, NEW e \in Envs, NEW next \in {"idle", "services", "check"},
         req'[e].pc = next, req'[e].reply = "none",
         \A d \in Envs : d # e => req'[d] = req[d] /\ proc'[d] = proc[d],
         proc' = proc \/ (proc'[e].token = 0 /\ proc'[e].ready = "none"),
         UNCHANGED <<now, secret, retired, probeQuota, observations, run>>,
         done'.probes = done.probes, done'.pending = done.pending,
         done'.latePending = done.latePending
  PROVE  /\ TokensAreLive' /\ ProbesAreRecent' /\ PollsAreCounted' /\ ProposalsAreKept'
  <1>1. TokensAreLive'
    BY DEF AnswerInv, TokensAreLive
  <1>2. ProbesAreRecent'
    BY DEF AnswerInv, ProbesAreRecent
  <1>3. PollsAreCounted' /\ ProposalsAreKept'
    BY DEF AnswerInv, PollsAreCounted, ProposalsAreKept
  <1> QED
    BY <1>1, <1>2, <1>3

\* A request arrives.
LEMMA HandleAnswers ==
  ASSUME AnswerInv, NEW e \in Envs, NEW route \in Routes, NEW token \in Token \cup {0},
         NEW r \in Runs \cup {None}, Handle(e, route, token, r) \/ Poll(e, r)
  PROVE  /\ TokensAreLive' /\ ProbesAreRecent' /\ PollsAreCounted' /\ ProposalsAreKept'
  <1>0. /\ req \in [Envs -> Request] /\ proc \in [Envs -> Process] /\ done \in History
    BY TypeParts DEF AnswerInv, Control
  <1>1. ASSUME NEW x, NEW t, Serve(e, x, t, r)
        PROVE  /\ req'[e].pc \in {"services", "check"} /\ req'[e].reply = "none"
               /\ \A d \in Envs : d # e => req'[d] = req[d]
    BY <1>0, <1>1 DEF Serve, NoRequest
  <1>2. CASE Handle(e, route, token, r)
    <2>1. done'.probes = done.probes /\ done'.pending = done.pending
          /\ done'.latePending = done.latePending
      BY <1>0, <1>2 DEF Handle, History
    <2> QED
      BY <1>1, <1>2, <2>1, QuietAnswers DEF Handle, world, durable
  <1>3. CASE Poll(e, r)
    BY <1>1, <1>3, QuietAnswers DEF Poll, world, durable
  <1> QED
    BY <1>2, <1>3

\* Time passes, or the token is replaced.
LEMMA WorldAnswers ==
  ASSUME AnswerInv, Tick \/ Rotate
  PROVE  /\ TokensAreLive' /\ ProbesAreRecent' /\ PollsAreCounted' /\ ProposalsAreKept'
  <1>0. /\ secret \in Nat /\ retired \in [Token -> Time \cup {Never}] /\ now \in Nat
        /\ proc \in [Envs -> Process] /\ secret \in Token /\ TokenTTL \in Nat \ {0}
        /\ Token \subseteq Nat /\ MaxTime \in Nat
        /\ \A e \in Envs : req[e] \in Request /\ req[e].clock \in Nat /\ Served(e)
    <2>1. StoredOK /\ proc \in [Envs -> Process] /\ req \in [Envs -> Request]
      BY TypeParts DEF AnswerInv, Control
    <2>2. Token \subseteq Nat /\ Time \subseteq Nat /\ TokenTTL \in Nat \ {0} /\ MaxTime \in Nat
      BY JudgeAssumption DEF Token, Time
    <2>3. \A e \in Envs : req[e] \in Request /\ req[e].clock \in Time /\ Served(e)
      BY <2>1 DEF Request, AnswerInv, Control
    <2>4. secret \in Token /\ retired \in [Token -> Time \cup {Never}] /\ now \in Time
      BY <2>1 DEF StoredOK
    <2> QED
      BY <2>1, <2>2, <2>3, <2>4
  <1>1. ProbesAreRecent' /\ PollsAreCounted' /\ ProposalsAreKept'
    BY DEF Tick, Rotate, durable, AnswerInv, ProbesAreRecent, PollsAreCounted, ProposalsAreKept
  <1>2. CASE Tick
    <2>1. \A e \in Envs : proc[e].tokenExpires \in Nat
      BY <1>0 DEF Process
    <2> QED
      BY <1>0, <1>1, <1>2, <2>1 DEF Tick, AnswerInv, TokensAreLive
  <1>3. CASE Rotate
    <2>1. /\ secret' = secret + 1 /\ retired'[secret] = now
          /\ \A v \in Token : v # secret => retired'[v] = retired[v]
          /\ UNCHANGED <<now, req, proc>>
      BY <1>0, <1>3 DEF Rotate
    <2>2. \A v \in Token : v >= secret' => retired'[v] = Never
      BY <1>0, <2>1 DEF AnswerInv, TokensAreLive
    <2>3. ASSUME NEW e \in Envs, proc[e].token # 0
          PROVE  proc[e].tokenExpires <= retired'[proc[e].token] + TokenTTL
      <3>1. proc[e].token \in Token /\ proc[e].tokenExpires \in Nat
        BY <1>0, <2>3 DEF Process
      <3> QED
        BY <1>0, <2>1, <2>3, <3>1 DEF AnswerInv, TokensAreLive
    <2>4. ASSUME NEW e \in Envs, req[e].pc = "reserve"
          PROVE  retired'[req[e].token] + TokenTTL > req[e].clock
      <3>1. req[e].token \in Token /\ req[e].clock <= now
        BY <1>0, <2>4 DEF Served, AboutRun
      <3>2. CASE req[e].token = secret
        BY <1>0, <2>1, <3>1, <3>2
      <3>3. CASE req[e].token # secret
        BY <2>1, <2>4, <3>1, <3>3 DEF AnswerInv, TokensAreLive
      <3> QED
        BY <3>2, <3>3
    <2>5. TokensAreLive'
      BY <2>1, <2>2, <2>3, <2>4 DEF AnswerInv, TokensAreLive
    <2> QED
      BY <1>1, <2>5
  <1> QED
    BY <1>2, <1>3

\* Nothing is said, remembered or counted at first.
LEMMA InitAnswers == Init => AnswerInv
  <1> SUFFICES ASSUME Init PROVE AnswerInv
    OBVIOUS
  <1>1. MaxObservations \in Nat /\ MaxProbes \in Nat
    BY JudgeAssumption
  <1>2. /\ \A e \in Envs : req[e].pc = "idle" /\ req[e].reply = "none"
                           /\ proc[e].token = 0 /\ proc[e].ready = "none"
        /\ \A v \in Token : retired[v] = Never
        /\ \A d \in Day : done.probes[d] = 0 /\ probeQuota[d] = 0
        /\ \A r \in Runs : done.pending[r] = 0 /\ observations[r] = 0
        /\ ~done.latePending
    BY DEF Init, NoRequest, Cold
  <1>3. TokensAreLive /\ ProbesAreRecent
    BY <1>1, <1>2 DEF TokensAreLive, ProbesAreRecent
  <1>4. PollsAreCounted /\ ProposalsAreKept
    BY <1>1, <1>2 DEF PollsAreCounted, ProposalsAreKept
  <1> QED
    BY <1>3, <1>4, InitControl DEF AnswerInv

\* AnswerInv is inductive.
LEMMA AnswerStep == AnswerInv /\ [Next]_vars => AnswerInv'
  <1> SUFFICES ASSUME AnswerInv, [Next]_vars PROVE AnswerInv'
    OBVIOUS
  <1>0. Control /\ Control' /\ PollsOK
    BY ControlStep DEF AnswerInv, Control
  <1>1. CASE UNCHANGED vars
    <2>1. TokensAreLive' /\ ProbesAreRecent' /\ PollsAreCounted' /\ ProposalsAreKept'
      BY <1>1 DEF vars, durable, AnswerInv, TokensAreLive, ProbesAreRecent, PollsAreCounted,
                  ProposalsAreKept
    <2> QED
      BY <1>0, <2>1 DEF AnswerInv
  <1>2. ASSUME NEW e \in Envs, Step(e) PROVE AnswerInv'
    BY <1>0, <1>2, StepTokens, StepProbes, StepPolls, StepProposals DEF AnswerInv
  <1>3. ASSUME NEW e \in Envs, Crash(e) PROVE AnswerInv'
    <2>1. UNCHANGED <<now, secret, retired, probeQuota, observations, run, done>>
      BY <1>3 DEF Crash, world, durable
    <2>2. /\ req'[e].pc = "idle" /\ req'[e].reply = "none"
          /\ proc'[e].token = 0 /\ proc'[e].ready = "none"
          /\ \A d \in Envs : d # e => req'[d] = req[d] /\ proc'[d] = proc[d]
      BY <1>0, <1>3, Types DEF Crash, NoRequest, Cold, Control
    <2> QED
      BY <1>0, <2>1, <2>2, QuietAnswers DEF AnswerInv
  <1>4. ASSUME NEW e \in Envs, NEW route \in Routes, NEW token \in Token \cup {0},
               NEW r \in Runs \cup {None}, Handle(e, route, token, r) \/ Poll(e, r)
        PROVE  AnswerInv'
    BY <1>0, <1>4, HandleAnswers DEF AnswerInv
  <1>5. CASE Tick \/ Rotate
    BY <1>0, <1>5, WorldAnswers DEF AnswerInv
  <1>6. ASSUME NEW e \in Envs, NEW r \in Runs, Poll(e, r) PROVE AnswerInv'
    <2>1. "status" \in Routes
      BY <1>0, <1>6 DEF Poll, PollsOK
    <2> QED
      BY <1>4, <1>6, <2>1
  <1> QED
    BY <1>1, <1>2, <1>3, <1>4, <1>5, <1>6 DEF Next

\* What a client of the judge is told is so (JudgeTokenAuthorizer, BoundedReadinessProbe,
\* ReadOnlyRunStatusService, JudgeInvestigationRuntime), for any number of environments,
\* runs, requests, rotations and faults.
THEOREM ToldIsSo == Spec => []AnswersAreBacked
  <1>1. AnswerInv => AnswersAreBacked
    <2> SUFFICES ASSUME AnswerInv PROVE AnswersAreBacked
      OBVIOUS
    <2>0. /\ \A e \in Envs : req[e].clock \in Nat /\ proc[e] \in Process
          /\ \A d \in Day : done.probes[d] \in Nat /\ probeQuota[d] \in Nat
          /\ \A r \in Runs : done.pending[r] \in Nat /\ observations[r] \in Nat
          /\ ReadyTTL \in Nat /\ MaxProbes \in Nat /\ MaxObservations \in Nat
          /\ Time \subseteq Nat /\ NotAfter \in Nat
      <3>1. StoredOK /\ proc \in [Envs -> Process] /\ req \in [Envs -> Request]
            /\ done \in History
        BY TypeParts DEF AnswerInv, Control
      <3> QED
        BY <3>1, JudgeAssumption DEF StoredOK, Time, Request, History
    <2>1. SuccessIsProposed
      BY DEF AnswerInv, ProposalsAreKept, SuccessIsProposed
    <2>2. PollingIsBounded
      BY <2>0 DEF AnswerInv, PollsAreCounted, PollingIsBounded
    <2>3. AuthorizedByLiveToken
      BY DEF AnswerInv, TokensAreLive, AuthorizedByLiveToken
    <2>4. ReadyIsRecent
      <3>1. \A d \in Day : done.probes[d] <= MaxProbes
        BY <2>0 DEF AnswerInv, ProbesAreRecent
      <3>2. ASSUME NEW e \in Envs, req[e].pc = "idle" /\ req[e].reply = "ready"
            PROVE  /\ proc[e].probed >= 0 /\ req[e].clock < proc[e].probed + ReadyTTL
                   /\ req[e].clock < NotAfter + ReadyTTL
        <4>1. /\ proc[e].probed >= 0 /\ proc[e].probed < NotAfter
              /\ req[e].clock < proc[e].probed + ReadyTTL
          BY <3>2 DEF AnswerInv, ProbesAreRecent
        <4>2. proc[e].probed \in Time \cup {-1}
          BY <2>0, Zenon DEF Process
        <4>3. proc[e].probed \in Int
          BY <4>2, JudgeAssumption DEF Time
        <4>4. ReadyTTL \in Nat /\ NotAfter \in Nat /\ req[e].clock \in Nat
          BY <2>0
        <4>5. \A c, p \in Int : c < p + ReadyTTL /\ p < NotAfter => c < NotAfter + ReadyTTL
          BY <4>4
        <4> QED
          BY <4>1, <4>3, <4>4, <4>5
      <3> QED
        BY <3>1, <3>2 DEF ReadyIsRecent
    <2> QED
      BY <2>1, <2>2, <2>3, <2>4 DEF AnswersAreBacked
  <1> QED
    BY <1>1, InitAnswers, AnswerStep, PTL DEF Spec


-----------------------------------------------------------------------------
(* Budgets hold *)

\* Finite sets that shrink, grow by one and shrink by one.
LEMMA SmallSets ==
  ASSUME NEW S, IsFiniteSet(S), NEW T, NEW x
  PROVE  /\ Cardinality(S) \in Nat
         /\ T \subseteq S => IsFiniteSet(T) /\ Cardinality(T) <= Cardinality(S)
                             /\ Cardinality(T) \in Nat
         /\ T \subseteq S \cup {x} => IsFiniteSet(T) /\ Cardinality(T) <= Cardinality(S) + 1
                                      /\ Cardinality(T) \in Nat
         /\ x \in S /\ T \subseteq S \ {x} =>
               IsFiniteSet(T) /\ Cardinality(T) + 1 <= Cardinality(S) /\ Cardinality(T) \in Nat
         /\ x \notin S /\ S \cup {x} \subseteq T /\ IsFiniteSet(T) =>
               Cardinality(S) + 1 <= Cardinality(T)
  <1>1. Cardinality(S) \in Nat
    BY FS_CardinalityType
  <1>2. ASSUME NEW U, NEW V, IsFiniteSet(V), U \subseteq V
        PROVE  IsFiniteSet(U) /\ Cardinality(U) <= Cardinality(V) /\ Cardinality(U) \in Nat
    BY <1>2, FS_Subset, FS_CardinalityType
  <1>3. IsFiniteSet(S \cup {x}) /\ Cardinality(S \cup {x}) =
           IF x \in S THEN Cardinality(S) ELSE Cardinality(S) + 1
    BY FS_AddElement
  <1>4. IsFiniteSet(S \ {x}) /\ Cardinality(S \ {x}) =
           IF x \in S THEN Cardinality(S) - 1 ELSE Cardinality(S)
    BY FS_RemoveElement
  <1>5. T \subseteq S => IsFiniteSet(T) /\ Cardinality(T) <= Cardinality(S)
                         /\ Cardinality(T) \in Nat
    BY <1>2
  <1>6. ASSUME T \subseteq S \cup {x}
        PROVE  IsFiniteSet(T) /\ Cardinality(T) <= Cardinality(S) + 1 /\ Cardinality(T) \in Nat
    <2>1. IsFiniteSet(T) /\ Cardinality(T) <= Cardinality(S \cup {x}) /\ Cardinality(T) \in Nat
      BY <1>2, <1>3, <1>6
    <2> QED
      BY <1>1, <1>3, <2>1
  <1>7. ASSUME x \in S, T \subseteq S \ {x}
        PROVE  IsFiniteSet(T) /\ Cardinality(T) + 1 <= Cardinality(S) /\ Cardinality(T) \in Nat
    <2>1. IsFiniteSet(T) /\ Cardinality(T) <= Cardinality(S \ {x}) /\ Cardinality(T) \in Nat
      BY <1>2, <1>4, <1>7
    <2> QED
      BY <1>1, <1>4, <1>7, <2>1
  <1>8. ASSUME x \notin S, S \cup {x} \subseteq T, IsFiniteSet(T)
        PROVE  Cardinality(S) + 1 <= Cardinality(T)
    <2>1. Cardinality(S \cup {x}) <= Cardinality(T)
      BY <1>2, <1>8
    <2> QED
      BY <1>3, <1>8, <2>1
  <1> QED
    BY <1>1, <1>5, <1>6, <1>7, <1>8

\* The slots of all days are finitely many.
LEMMA SlotsAreFinite == IsFiniteSet(Day \X (1 .. MaxRequests)) /\ IsFiniteSet(Slots)
  <1>1. day_of(MaxTime) \in Nat
    BY DayOfTime, JudgeAssumption DEF day_of
  <1>2. IsFiniteSet(Day) /\ IsFiniteSet(1 .. MaxRequests)
    BY <1>1, FS_Interval, JudgeAssumption DEF Day
  <1>3. IsFiniteSet(Day \X (1 .. MaxRequests))
    BY <1>2, FS_Product
  <1> QED
    BY <1>3, FS_Subset DEF Slots

\* What is known of the counters of a day.
LEMMA Counters ==
  ASSUME BudgetInv, NEW d \in Day
  PROVE  /\ quota[d].requests \in Nat /\ quota[d].tokens \in Nat /\ done.started[d] \in Nat
         /\ quota[d] \in [requests : Nat, tokens : Nat]
         /\ Cardinality(Starting(d)) \in Nat /\ IsFiniteSet(Starting(d)) /\ DayIsPaid(d)
         /\ quota \in [Day -> [requests : Nat, tokens : Nat]] /\ done.started \in [Day -> Nat]
  <1>1. StoredOK /\ done \in History /\ DayIsPaid(d)
    BY TypeParts DEF BudgetInv, Control, Paid
  <1>2. Cardinality(Starting(d)) \in Nat /\ IsFiniteSet(Starting(d))
    BY <1>1, FS_CardinalityType DEF DayIsPaid
  <1> QED
    BY <1>1, <1>2 DEF StoredOK, History

\* Nothing is spent or started, and no run appears.
LEMMA QuietBudget ==
  ASSUME BudgetInv, quota' = quota, done'.started = done.started,
         \A d \in Day : Starting(d)' \subseteq Starting(d), Known' \subseteq Known
  PROVE  Paid' /\ RunsArePaid'
  <1>1. ASSUME NEW d \in Day PROVE DayIsPaid(d)'
    <2>1. /\ IsFiniteSet(Starting(d)') /\ Cardinality(Starting(d)') <= Cardinality(Starting(d))
          /\ Cardinality(Starting(d)') \in Nat
      BY <1>1, Counters, SmallSets
    <2> QED
      BY <1>1, <2>1, Counters DEF DayIsPaid
  <1>2. IsFiniteSet(Known') /\ Cardinality(Known') <= Cardinality(Known)
        /\ Cardinality(Known) \in Nat /\ Cardinality(Known') \in Nat
    BY SmallSets DEF BudgetInv, RunsArePaid
  <1>3. Slots' = Slots /\ Cardinality(Slots) \in Nat
    BY SlotsAreFinite, FS_CardinalityType DEF Slots
  <1>4. RunsArePaid'
    BY <1>2, <1>3 DEF BudgetInv, RunsArePaid
  <1> QED
    BY <1>1, <1>4 DEF Paid


\* Adding one to a factor.
LEMMA OneMore ==
  ASSUME NEW a \in Nat, NEW b \in Nat
  PROVE  (a + 1) * b = a * b + b
  OBVIOUS

\* An investigation is charged: its slot of the day is taken before it may start.
LEMMA ChargedBudget ==
  ASSUME BudgetInv, NEW e \in Envs, ChargeInvestigation(e), Follows(e)
  PROVE  Paid' /\ RunsArePaid'
  <1>d. PICK d0 \in Day : d0 = day_of(req[e].clock)
    BY Moving DEF BudgetInv
  <1>0. /\ done' = done /\ run' = run /\ req[e].pc = "charge" /\ Control
        /\ TokensPerRequest \in Nat /\ MaxRequests \in Nat /\ MaxTokens \in Nat
    BY Moving, JudgeAssumption DEF BudgetInv, ChargeInvestigation
  <1>1. /\ \A d \in Envs : d # e => req'[d] = req[d]
        /\ req'[e].pc # "flow"
        /\ req'[e].pc = "start" => req'[e].clock = req[e].clock
    BY <1>0 DEF Follows, Start, FlowStep
  <1>2. Known' \subseteq Known
    BY <1>0, <1>1 DEF Known
  <1>3. /\ \A d \in Day : d # d0 => Starting(d)' \subseteq Starting(d)
        /\ Starting(d0)' \subseteq Starting(d0) \cup {e}
    BY <1>d, <1>1 DEF Starting
  <1>4. CASE UNCHANGED quota
    <2>1. CASE ~InvestigationFits(d0) \/ Answer(e, "unavailable")
      <3>1. req'[e].pc # "start"
        BY <1>d, <1>0, <2>1, Going DEF ChargeInvestigation, Goes, Reply
      <3>2. \A d \in Day : Starting(d)' \subseteq Starting(d)
        BY <1>1, <3>1 DEF Starting
      <3> QED
        BY <1>0, <1>2, <1>4, <3>2, QuietBudget
    <2>2. CASE /\ quota' = [quota EXCEPT ![d0] = [requests |-> quota[d0].requests + 1,
                                             tokens |-> quota[d0].tokens + TokensPerRequest]]
      <3>1. quota'[d0].requests = quota[d0].requests + 1 /\ quota[d0].requests \in Nat
        BY <1>0, <2>2, Counters
      <3> QED
        BY <1>4, <3>1
    <2> QED
      BY <1>d, <2>1, <2>2 DEF ChargeInvestigation
  <1>5. CASE /\ InvestigationFits(d0)
             /\ quota' = [quota EXCEPT ![d0] = [requests |-> quota[d0].requests + 1,
                                             tokens |-> quota[d0].tokens + TokensPerRequest]]
    <2> DEFINE n == quota[d0].requests
    <2>1. /\ quota'[d0].requests = n + 1
          /\ quota'[d0].tokens = quota[d0].tokens + TokensPerRequest
          /\ \A d \in Day : d # d0 => quota'[d] = quota[d]
      BY <1>0, <1>5, Counters
    <2>2. /\ n \in Nat /\ quota[d0].tokens \in Nat
          /\ done.started[d0] \in Nat /\ Cardinality(Starting(d0)) \in Nat
          /\ quota[d0].tokens = n * TokensPerRequest
          /\ done.started[d0] + Cardinality(Starting(d0)) <= n
      BY <1>0, Counters DEF DayIsPaid
    <2>3. DayIsPaid(d0)'
      <3>1. /\ IsFiniteSet(Starting(d0)') /\ Cardinality(Starting(d0)') \in Nat
            /\ Cardinality(Starting(d0)') <= Cardinality(Starting(d0)) + 1
        <4>1. IsFiniteSet(Starting(d0)) /\ Starting(d0)' \subseteq Starting(d0) \cup {e}
          BY <1>3, Counters
        <4> QED
          BY <4>1, SmallSets
      <3>2. n < MaxRequests /\ quota[d0].tokens <= MaxTokens - TokensPerRequest
        BY <1>5 DEF InvestigationFits
      <3>3. quota'[d0].tokens = quota'[d0].requests * TokensPerRequest
        <4>1. (n + 1) * TokensPerRequest = n * TokensPerRequest + TokensPerRequest
          BY <1>0, <2>2, OneMore
        <4> QED
          BY <2>1, <2>2, <4>1, Zenon
      <3> HIDE DEF n
      <3>4. quota'[d0].requests <= MaxRequests
        BY <1>0, <2>1, <2>2, <3>2
      <3>5. quota'[d0].tokens <= MaxTokens
        <4> DEFINE t == quota[d0].tokens
        <4>1. t \in Nat /\ t <= MaxTokens - TokensPerRequest /\ quota'[d0].tokens = t + TokensPerRequest
          BY <2>1, <2>2, <3>2
        <4> HIDE DEF t
        <4> QED
          BY <1>0, <4>1
      <3>6. done'.started[d0] + Cardinality(Starting(d0)') <= quota'[d0].requests
        <4>1. done'.started[d0] = done.started[d0]
          BY <1>0
        <4> QED
          BY <2>1, <2>2, <3>1, <4>1
      <3> QED
        BY <3>1, <3>3, <3>4, <3>5, <3>6 DEF DayIsPaid
    <2>4. ASSUME NEW d \in Day, d # d0 PROVE DayIsPaid(d)'
      <3>1. /\ IsFiniteSet(Starting(d)') /\ Cardinality(Starting(d)') <= Cardinality(Starting(d))
            /\ Cardinality(Starting(d)') \in Nat
        BY <1>3, <2>4, Counters, SmallSets
      <3>2. quota'[d] = quota[d] /\ done'.started[d] = done.started[d]
        BY <1>0, <2>1, <2>4
      <3> QED
        BY <3>1, <3>2, Counters DEF DayIsPaid
    <2>5. RunsArePaid'
      <3>1. /\ IsFiniteSet(Known') /\ Cardinality(Known') <= Cardinality(Known)
            /\ Cardinality(Known) \in Nat /\ Cardinality(Known') \in Nat
        BY <1>2, SmallSets DEF BudgetInv, RunsArePaid
      <3>2. Slots' = Slots /\ Cardinality(Slots) \in Nat
        BY <1>0, SlotsAreFinite, FS_CardinalityType DEF Slots
      <3> QED
        BY <3>1, <3>2 DEF BudgetInv, RunsArePaid
    <2>6. ASSUME NEW d \in Day PROVE DayIsPaid(d)'
      BY <2>3, <2>4
    <2> QED
      BY <2>5, <2>6 DEF Paid
  <1> QED
    BY <1>d, <1>4, <1>5 DEF ChargeInvestigation


\* An investigation starts: what was paid for becomes what was started.
LEMMA StartedBudget ==
  ASSUME BudgetInv, NEW e \in Envs, Start(e), Follows(e)
  PROVE  Paid' /\ RunsArePaid'
  <1>d. PICK d0 \in Day : d0 = day_of(req[e].clock)
    BY Moving DEF BudgetInv
  <1> DEFINE n == done.started[d0]
  <1>0. /\ quota' = quota /\ run' = run /\ req[e].pc = "start" /\ e \in Starting(d0)
    BY <1>d DEF Start, Starting, durable
  <1>1. /\ done'.started[d0] = n + 1 /\ n \in Nat
        /\ \A d \in Day : d # d0 => done'.started[d] = done.started[d]
    <2>1. done \in History
      BY TypeParts DEF BudgetInv, Control
    <2> QED
      BY <1>d, <2>1 DEF Start, History
  <1>2. /\ \A d \in Envs : d # e => req'[d] = req[d]
        /\ req'[e].pc # "start"
        /\ req'[e].run = req[e].run \/ req'[e].pc = "idle"
    BY <1>0 DEF Follows, ChargeInvestigation
  <1>3. /\ \A d \in Day : d # d0 => Starting(d)' \subseteq Starting(d)
        /\ Starting(d0)' \subseteq Starting(d0) \ {e}
    BY <1>2 DEF Starting
  <1>4. /\ Cardinality(Starting(d0)) \in Nat /\ quota[d0].requests \in Nat
        /\ n + Cardinality(Starting(d0)) <= quota[d0].requests
        /\ quota[d0].requests <= MaxRequests /\ IsFiniteSet(Starting(d0))
    BY Counters DEF DayIsPaid
  <1>5. /\ IsFiniteSet(Starting(d0)') /\ Cardinality(Starting(d0)') + 1 <= Cardinality(Starting(d0))
        /\ Cardinality(Starting(d0)') \in Nat
    BY <1>0, <1>3, <1>4, SmallSets
  <1>6. DayIsPaid(d0)'
    BY <1>0, <1>1, <1>4, <1>5, Counters DEF DayIsPaid
  <1>7. ASSUME NEW d \in Day, d # d0 PROVE DayIsPaid(d)'
    <2>1. /\ IsFiniteSet(Starting(d)') /\ Cardinality(Starting(d)') <= Cardinality(Starting(d))
          /\ Cardinality(Starting(d)') \in Nat
      BY <1>3, <1>7, Counters, SmallSets
    <2> QED
      BY <1>0, <1>1, <1>7, <2>1, Counters DEF DayIsPaid
  <1>8. RunsArePaid'
    <2> DEFINE slot == <<d0, n + 1>>
    <2>1. n + 1 \in 1 .. MaxRequests
      BY <1>1, <1>4, <1>5, JudgeAssumption
    <2>2. slot \notin Slots
      BY <1>1 DEF Slots
    <2>3. Slots \cup {slot} \subseteq Slots'
      <3>1. ASSUME NEW s \in Slots PROVE s \in Slots'
        <4>1. s[1] \in Day /\ s[2] \in Nat /\ s[2] <= done.started[s[1]]
              /\ s \in Day \X (1 .. MaxRequests)
          BY DEF Slots
        <4>2. s[2] <= done'.started[s[1]]
          BY <1>1, <4>1
        <4> QED
          BY <4>1, <4>2 DEF Slots
      <3>2. slot \in Slots'
        BY <1>1, <2>1 DEF Slots
      <3> QED
        BY <3>1, <3>2
    <2> HIDE DEF slot
    <2>4. IsFiniteSet(Slots')
      <3>1. Slots' \subseteq Day \X (1 .. MaxRequests)
        BY DEF Slots
      <3> QED
        BY <3>1, SlotsAreFinite, FS_Subset
    <2>5. Cardinality(Slots) + 1 <= Cardinality(Slots') /\ Cardinality(Slots) \in Nat
          /\ Cardinality(Slots') \in Nat
      BY <2>2, <2>3, <2>4, SlotsAreFinite, SmallSets, FS_CardinalityType
    <2>6. Known' \subseteq Known \cup {req[e].run}
      BY <1>0, <1>2 DEF Known
    <2>7. /\ IsFiniteSet(Known') /\ Cardinality(Known') <= Cardinality(Known) + 1
          /\ Cardinality(Known) \in Nat /\ Cardinality(Known') \in Nat
          /\ Cardinality(Known) <= Cardinality(Slots)
      <3>1. IsFiniteSet(Known) /\ Cardinality(Known) <= Cardinality(Slots)
        BY DEF BudgetInv, RunsArePaid
      <3>2. /\ IsFiniteSet(Known') /\ Cardinality(Known') <= Cardinality(Known) + 1
            /\ Cardinality(Known) \in Nat /\ Cardinality(Known') \in Nat
        <4>1. ASSUME NEW x, NEW T, T \subseteq Known \cup {x}
              PROVE  /\ IsFiniteSet(T) /\ Cardinality(T) <= Cardinality(Known) + 1
                     /\ Cardinality(Known) \in Nat /\ Cardinality(T) \in Nat
          BY <3>1, <4>1, SmallSets
        <4> QED
          BY <2>6, <4>1
      <3> QED
        BY <3>1, <3>2
    <2> QED
      BY <2>5, <2>7 DEF RunsArePaid
  <1> QED
    BY <1>6, <1>7, <1>8 DEF Paid


\* Every other handler spends and starts nothing, and moves its own run only.
LEMMA OtherBudget ==
  ASSUME BudgetInv, NEW e \in Envs, Step(e), ~ChargeInvestigation(e), ~Start(e), Follows(e)
  PROVE  Paid' /\ RunsArePaid'
  <1>0. done \in History /\ run \in [Runs -> [state : WorkflowState \cup {"NONE"}, born : Time]]
    BY TypeParts DEF BudgetInv, Control, StoredOK
  <1>1. quota' = quota /\ done'.started = done.started
    BY <1>0 DEF Step, BuildServices, Authorize, GetToken, Reserve, ChargeStatus, FlowStep,
         FlowReturn, GetRun, Observe, Check, ProbeCharge, ProbeToken, ProbeReads, durable, History
  <1>2. /\ \A d \in Envs : d # e => req'[d] = req[d]
        /\ req'[e].pc # "start"
        /\ req'[e].pc = "flow" => req[e].pc = "flow" /\ req'[e].run = req[e].run
    BY DEF Follows
  <1>3. ASSUME NEW r \in Runs, run'[r] # NoRun
        PROVE  run[r] # NoRun \/ (req[e].pc = "flow" /\ req[e].run = r)
    <2>1. CASE FlowStep(e)
      BY <1>0, <1>3, <2>1 DEF FlowStep
    <2>2. CASE ~FlowStep(e)
      BY <1>3, <2>2 DEF Step, BuildServices, Authorize, GetToken, Reserve, ChargeStatus,
         FlowReturn, GetRun, Observe, Check, ProbeCharge, ProbeToken, ProbeReads, durable
    <2> QED
      BY <2>1, <2>2
  <1>4. \A d \in Day : Starting(d)' \subseteq Starting(d)
    BY <1>2 DEF Starting
  <1>5. Known' \subseteq Known
    BY <1>2, <1>3 DEF Known
  <1> QED
    BY <1>1, <1>4, <1>5, QuietBudget

\* BudgetInv is inductive.
LEMMA BudgetStep == BudgetInv /\ [Next]_vars => BudgetInv'
  <1> SUFFICES ASSUME BudgetInv, [Next]_vars PROVE BudgetInv'
    OBVIOUS
  <1>0. Control /\ Control' /\ done \in History /\ req \in [Envs -> Request]
    BY ControlStep, TypeParts DEF BudgetInv, Control
  <1>1. CASE quota' = quota /\ done'.started = done.started /\ run' = run /\ req' = req
    <2>1. \A d \in Day : Starting(d)' \subseteq Starting(d)
      BY <1>1 DEF Starting
    <2>2. Known' \subseteq Known
      BY <1>1 DEF Known
    <2> QED
      BY <1>0, <1>1, <2>1, <2>2, QuietBudget DEF BudgetInv
  <1>2. ASSUME NEW e \in Envs, Step(e) PROVE BudgetInv'
    <2>1. Follows(e)
      BY <1>0, <1>2, StepFollows
    <2> QED
      BY <1>0, <1>2, <2>1, ChargedBudget, StartedBudget, OtherBudget DEF BudgetInv
  <1>3. ASSUME NEW e \in Envs, quota' = quota, done'.started = done.started, run' = run,
               \A d \in Envs : d # e => req'[d] = req[d],
               req'[e].pc \in {"idle", "services", "check"}
        PROVE  BudgetInv'
    <2>1. \A d \in Day : Starting(d)' \subseteq Starting(d)
      BY <1>3 DEF Starting
    <2>2. Known' \subseteq Known
      BY <1>3 DEF Known
    <2> QED
      BY <1>0, <1>3, <2>1, <2>2, QuietBudget DEF BudgetInv
  <1>4. ASSUME NEW e \in Envs, NEW x, NEW t, NEW r, Serve(e, x, t, r)
        PROVE  /\ req'[e].pc \in {"services", "check"}
               /\ \A d \in Envs : d # e => req'[d] = req[d]
    BY <1>0, <1>4 DEF Serve, NoRequest
  <1>5. ASSUME NEW e \in Envs, NEW x, NEW t, NEW r, Handle(e, x, t, r) PROVE BudgetInv'
    <2>1. quota' = quota /\ run' = run /\ done'.started = done.started /\ Serve(e, x, t, r)
      BY <1>0, <1>5 DEF Handle, durable, History
    <2> QED
      BY <1>3, <1>4, <2>1
  <1>6. ASSUME NEW e \in Envs, NEW r, Poll(e, r) PROVE BudgetInv'
    BY <1>3, <1>4, <1>6 DEF Poll, durable
  <1>7. ASSUME NEW e \in Envs, Crash(e) PROVE BudgetInv'
    <2>1. req'[e].pc = "idle" /\ \A d \in Envs : d # e => req'[d] = req[d]
      BY <1>0, <1>7 DEF Crash, NoRequest
    <2> QED
      BY <1>3, <1>7, <2>1 DEF Crash, durable
  <1>8. CASE Tick \/ Rotate \/ UNCHANGED vars
    BY <1>1, <1>8 DEF Tick, Rotate, vars, durable
  <1> QED
    BY <1>2, <1>5, <1>6, <1>7, <1>8 DEF Next

\* Nothing is paid for or started at first.
LEMMA InitBudget == Init => BudgetInv
  <1> SUFFICES ASSUME Init PROVE BudgetInv
    OBVIOUS
  <1>1. /\ \A d \in Day : Starting(d) = {}
        /\ Known = {}
    BY DEF Init, NoRequest, Starting, Known
  <1>2. IsFiniteSet({}) /\ Cardinality({}) = 0 /\ Cardinality(Slots) \in Nat
    BY FS_EmptySet, SlotsAreFinite, FS_CardinalityType
  <1>3. ASSUME NEW d \in Day PROVE DayIsPaid(d)
    <2>1. /\ quota[d].requests = 0 /\ quota[d].tokens = 0 /\ done.started[d] = 0
          /\ MaxRequests \in Nat /\ MaxTokens \in Nat /\ TokensPerRequest \in Nat
      BY <1>3, JudgeAssumption DEF Init
    <2> QED
      BY <1>1, <1>2, <1>3, <2>1 DEF DayIsPaid
  <1>4. RunsArePaid
    BY <1>1, <1>2 DEF RunsArePaid
  <1> QED
    BY <1>3, <1>4, InitControl DEF BudgetInv, Paid

\* Investigations are paid for before they start, no day is overspent and there is no run
\* nobody paid for (_reserve_quota, JudgeInvestigationRuntime), for any number of
\* environments that race, crash or lose a response.
THEOREM SpendingIsBounded == Spec => []BudgetsHold
  <1>1. BudgetInv => BudgetsHold
    <2> SUFFICES ASSUME BudgetInv PROVE BudgetsHold
      OBVIOUS
    <2>1. TypeOK
      BY DEF BudgetInv, Control
    <2>2. ASSUME NEW d \in Day
          PROVE  /\ done.started[d] <= quota[d].requests /\ quota[d].requests <= MaxRequests
                 /\ quota[d].tokens <= MaxTokens
                 /\ quota[d].tokens = quota[d].requests * TokensPerRequest
      <3>1. /\ done.started[d] \in Nat /\ quota[d].requests \in Nat
            /\ Cardinality(Starting(d)) \in Nat /\ DayIsPaid(d)
        BY <2>2, Counters
      <3>2. done.started[d] <= quota[d].requests
        BY <3>1 DEF DayIsPaid
      <3> QED
        BY <3>1, <3>2 DEF DayIsPaid
    <2>3. Cardinality({r \in Runs : run[r] # NoRun}) <= Cardinality(Slots)
      <3> DEFINE Stored == {r \in Runs : run[r] # NoRun}
      <3>1. Stored \subseteq Known /\ IsFiniteSet(Known)
        BY DEF Known, BudgetInv, RunsArePaid
      <3>2. /\ Cardinality(Stored) <= Cardinality(Known) /\ Cardinality(Stored) \in Nat
            /\ Cardinality(Known) \in Nat /\ Cardinality(Slots) \in Nat
            /\ Cardinality(Known) <= Cardinality(Slots)
        <4> HIDE DEF Stored
        <4> QED
          BY <3>1, SmallSets, SlotsAreFinite, FS_CardinalityType DEF BudgetInv, RunsArePaid
      <3> QED
        BY <3>2
    <2> QED
      BY <2>1, <2>2, <2>3 DEF BudgetsHold, InvestigationsArePaid, Slots
  <1> QED
    BY <1>1, InitBudget, BudgetStep, PTL DEF Spec
=============================================================================
