----------------------------- MODULE LocalServer -----------------------------
(***************************************************************************)
(* The local HTTP API as a process: the token file several servers may     *)
(* share, the accept loop with its bounded handler threads, and the        *)
(* shutdown signal.  The workflow calls a handler makes are those of       *)
(* LocalWorkflow; the session they carry is derived from the token.        *)
(***************************************************************************)
EXTENDS Naturals, FiniteSets, Sequences

CONSTANTS Servers, Conns,
          MaxConcurrent,   \* LOCAL_API_MAX_CONCURRENT_REQUESTS
          MaxStarts,       \* bound: server starts
          MaxCalls,        \* bound: requests on one connection
          MaxSignals,      \* bound: shutdown signals
          Absent

ASSUME ServerAssumption ==
    /\ {MaxConcurrent, MaxStarts, MaxCalls, MaxSignals} \subseteq Nat /\ MaxConcurrent > 0
    /\ Absent \notin [made : Nat, written : Nat]

VARIABLES tokenFile,   \* Absent, or a token and how much of it is written
          server,      \* each process
          conn,        \* each client's connection
          starts, signals

serverVars == <<tokenFile, server, conn, starts, signals>>

\* How much of the token a write has brought to the file.
Nothing == 0
Prefix == 2     \* long enough to pass for a token
Whole == 3

Token == [made : 0..MaxStarts, cut : BOOLEAN]
NoToken == [made |-> 0, cut |-> FALSE]
Off == [pc |-> "off", token |-> NoToken, slots |-> 0, queue |-> << >>, holds |-> Absent,
        lost |-> FALSE]
NoConn == [at |-> "none", to |-> Absent, calls |-> 0]

Booting == {"look", "load", "create", "write", "sync"}
Looping == {"select", "slot", "spawn", "spawned"}

ServerTypeOK ==
    /\ \A p \in Servers : /\ server[p].pc \in {"off"} \cup Booting \cup Looping
                          /\ server[p].token \in Token
                          /\ server[p].slots \in 0..MaxConcurrent
                          /\ server[p].holds \in Conns \cup {Absent}
    /\ \A c \in Conns : conn[c].at \in {"none", "queued", "held", "handling", "release"}
    /\ tokenFile = Absent \/ tokenFile.made \in 1..MaxStarts

ServerInit ==
    /\ tokenFile = Absent /\ starts = 0 /\ signals = 0
    /\ server = [p \in Servers |-> Off]
    /\ conn = [c \in Conns |-> NoConn]

At(p, pc) == server' = [server EXCEPT ![p].pc = pc]

-----------------------------------------------------------------------------
(* load_or_create_local_token; the portable server's main *)

Start(p) ==
    /\ server[p].pc = "off" /\ starts < MaxStarts
    /\ starts' = starts + 1
    /\ server' = [server EXCEPT ![p] = [Off EXCEPT !.pc = "look",
                                                !.token = [NoToken EXCEPT !.made = starts + 1]]]
    /\ UNCHANGED <<tokenFile, conn, signals>>

LookUp(p) ==
    /\ server[p].pc = "look"
    /\ At(p, IF tokenFile = Absent THEN "create" ELSE "load")
    /\ UNCHANGED <<tokenFile, conn, starts, signals>>

\* The runtime is built and the socket bound; the accept loop begins.
Serving(p, token) ==
    server' = [server EXCEPT ![p].pc = "select", ![p].token = token, ![p].slots = MaxConcurrent]

\* An invalid token ends the process; a prefix that is long enough does not.
Load(p) ==
    /\ server[p].pc = "load"
    /\ IF tokenFile = Absent \/ tokenFile.written < Prefix
       THEN server' = [server EXCEPT ![p] = Off]
       ELSE Serving(p, [made |-> tokenFile.made, cut |-> tokenFile.written < Whole])
    /\ UNCHANGED <<tokenFile, conn, starts, signals>>

\* Mutant: the file is opened without O_EXCL.
CreateShared(p) ==
    /\ server[p].pc = "create"
    /\ tokenFile' = [made |-> server[p].token.made, written |-> Nothing] /\ At(p, "write")
    /\ UNCHANGED <<conn, starts, signals>>

\* O_CREAT | O_EXCL: whoever comes second loads the file of the first
Create(p) ==
    /\ server[p].pc = "create"
    /\ IF tokenFile = Absent
       THEN tokenFile' = [made |-> server[p].token.made, written |-> Nothing] /\ At(p, "write")
       ELSE At(p, "load") /\ UNCHANGED tokenFile
    /\ UNCHANGED <<conn, starts, signals>>

\* os.write may write less than it was given; the loop goes on
Write(p) ==
    /\ server[p].pc = "write"
    /\ \E written \in tokenFile.written + 1 .. Whole :
         /\ tokenFile' = [tokenFile EXCEPT !.written = written]
         /\ At(p, IF written = Whole THEN "sync" ELSE "write")
    /\ UNCHANGED <<conn, starts, signals>>

Sync(p) ==
    /\ server[p].pc = "sync"
    /\ Serving(p, server[p].token)
    /\ UNCHANGED <<tokenFile, conn, starts, signals>>

\* Killed, or a system call failed: nothing is removed.
Die(p) ==
    /\ server[p].pc # "off"
    /\ server' = [server EXCEPT ![p] = Off]
    /\ conn' = [c \in Conns |-> IF conn[c].to = p THEN NoConn ELSE conn[c]]
    /\ UNCHANGED <<tokenFile, starts, signals>>

-----------------------------------------------------------------------------
(* _BoundedLocalHttpServer *)

Connect(c, p) ==
    /\ conn[c].at = "none" /\ server[p].pc \in Looping
    /\ conn' = [conn EXCEPT ![c] = [NoConn EXCEPT !.at = "queued", !.to = p]]
    /\ server' = [server EXCEPT ![p].queue = Append(@, c)]
    /\ UNCHANGED <<tokenFile, starts, signals>>

\* get_request, with a timeout on the socket; the listen queue is first come, first
\* served
Accept(p) ==
    /\ server[p].pc = "select" /\ server[p].queue # << >>
    /\ server' = [server EXCEPT ![p].pc = "slot", ![p].holds = Head(server[p].queue),
                                ![p].queue = Tail(@)]
    /\ conn' = [conn EXCEPT ![Head(server[p].queue)].at = "held"]
    /\ UNCHANGED <<tokenFile, starts, signals>>

\* the loop waits here while every handler is busy
Acquire(p) ==
    /\ server[p].pc = "slot" /\ server[p].slots > 0
    /\ server' = [server EXCEPT ![p].pc = "spawn", ![p].slots = @ - 1]
    /\ UNCHANGED <<tokenFile, conn, starts, signals>>

\* Back to select; handle_error and shutdown_request close the connection.
Dropped(p, slots) ==
    /\ server' = [server EXCEPT ![p].pc = "select", ![p].slots = slots, ![p].holds = Absent]
    /\ conn' = [conn EXCEPT ![server[p].holds] = NoConn]

\* BoundedSemaphore.release raises above its bound
Released(p) == IF server[p].slots < MaxConcurrent THEN server[p].slots + 1 ELSE server[p].slots

\* a thread for the connection, unless none can be started
Spawn(p) ==
    /\ server[p].pc = "spawn"
    /\ \/ At(p, "spawned") /\ conn' = [conn EXCEPT ![server[p].holds].at = "handling"]
       \/ Dropped(p, Released(p))
    /\ UNCHANGED <<tokenFile, starts, signals>>

Return(p) ==
    /\ server[p].pc = "spawned"
    /\ server' = [server EXCEPT ![p].pc = "select", ![p].holds = Absent]
    /\ UNCHANGED <<tokenFile, conn, starts, signals>>

\* SIGTERM raises _ShutdownRequested in the accept loop, wherever it is.  In select
\* it leaves serve_forever and the process ends with its daemon threads; in
\* process_request it is an exception like any other: the base server drops the
\* connection and goes on.  In the last two cases the slot is lost, the handler
\* having run on in the second.
Signal(p) ==
    /\ signals < MaxSignals /\ signals' = signals + 1
    /\ \/ server[p].pc = "select"
          /\ server' = [server EXCEPT ![p] = Off]
          /\ conn' = [c \in Conns |-> IF conn[c].to = p THEN NoConn ELSE conn[c]]
       \/ \E slots \in 0..MaxConcurrent :
            /\ \/ server[p].pc = "slot" /\ slots = server[p].slots
               \/ server[p].pc = "slot" /\ server[p].slots > 0 /\ slots = server[p].slots - 1
               \/ server[p].pc \in {"spawn", "spawned"} /\ slots = Released(p)
            /\ server' = [server EXCEPT ![p].pc = "select", ![p].slots = slots,
                                        ![p].holds = Absent, ![p].lost = TRUE]
            /\ conn' = IF server[p].pc = "spawned" THEN conn
                       ELSE [conn EXCEPT ![server[p].holds] = NoConn]
    /\ UNCHANGED <<tokenFile, starts>>

-----------------------------------------------------------------------------
(* A handler thread *)

\* _dispatch: one request of the connection is answered, rejected or not, and the
\* thread reads the next one.
Dispatch(c) ==
    /\ conn[c].at = "handling" /\ conn[c].calls < MaxCalls
    /\ conn' = [conn EXCEPT ![c].calls = @ + 1]
    /\ UNCHANGED <<tokenFile, server, starts, signals>>

\* Mutant: no timeout is set on the socket.
FinishUntimed(c) ==
    /\ conn[c].at = "handling" /\ conn[c].calls > 0
    /\ conn' = [conn EXCEPT ![c].at = "release"]
    /\ UNCHANGED <<tokenFile, server, starts, signals>>

\* The client is done or silent for ten seconds, or the request is malformed.
Finish(c) ==
    /\ conn[c].at = "handling"
    /\ conn' = [conn EXCEPT ![c].at = "release"]
    /\ UNCHANGED <<tokenFile, server, starts, signals>>

\* process_request_thread's finally
Release(c) ==
    /\ conn[c].at = "release"
    /\ server' = [server EXCEPT ![conn[c].to].slots = Released(conn[c].to)]
    /\ conn' = [conn EXCEPT ![c] = NoConn]
    /\ UNCHANGED <<tokenFile, starts, signals>>

Boot(p) == Start(p) \/ LookUp(p) \/ Load(p) \/ Create(p) \/ Write(p) \/ Sync(p) \/ Die(p)
Loop(p) == Accept(p) \/ Acquire(p) \/ Spawn(p) \/ Return(p)
Thread(c) == Finish(c) \/ Release(c)

ServerNext ==
    \/ \E p \in Servers : Boot(p) \/ Loop(p) \/ Signal(p) \/ \E c \in Conns : Connect(c, p)
    \/ \E c \in Conns : Dispatch(c) \/ Thread(c)

ServerSpec == ServerInit /\ [][ServerNext]_serverVars

-----------------------------------------------------------------------------
Serves(p) == server[p].pc \in Looping

\* However many servers start at once and die while one writes the file, those
\* that serve have the token one of them made; they differ only when one of them
\* read the file before it was written to the end.
OneToken ==
    \A p, q \in Servers : Serves(p) /\ Serves(q) =>
        /\ server[p].token.made = server[q].token.made
        /\ server[p].token = server[q].token \/ server[p].token.cut \/ server[q].token.cut

\* Until a shutdown signal was lost in it, a server has as many slots as handlers
\* that may still be started.
SlotsAreConserved ==
    \A p \in Servers : Serves(p) /\ ~server[p].lost =>
        server[p].slots + (IF server[p].pc = "spawn" THEN 1 ELSE 0)
            + Cardinality({c \in Conns : conn[c].to = p /\ conn[c].at \in {"handling", "release"}})
                = MaxConcurrent

\* local_api/server.py: servers that share a token file agree on the token, and the
\* bounded slots are conserved by handlers that fail to start, end or die.
ServerIsSound == ServerTypeOK /\ OneToken /\ SlotsAreConserved

\* A client that connects is accepted, unless the server ends or has lost a slot to
\* a signal.
ConnectionIsServed ==
    \A c \in Conns : conn[c].at \in {"queued", "held"}
        ~> \/ conn[c].at \notin {"queued", "held"}
           \/ \E p \in Servers : server[p].lost
=============================================================================
