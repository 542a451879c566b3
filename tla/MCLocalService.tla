--------------------------- MODULE MCLocalService ---------------------------
(* What must go on in the local service: the workflow with one worker that   *)
(* dies, or the server process by itself.  A behaviour begins by choosing    *)
(* which.                                                                    *)
EXTENDS LocalWorkflow, LocalServer

VARIABLE part

\* The workflow; servers sharing one token file; one server and its clients.
Flow    == [servers |-> {}, conns |-> {}]
Boots   == [servers |-> Servers, conns |-> {}]
Traffic == [servers |-> {CHOOSE p \in Servers : TRUE}, conns |-> Conns]

ServiceInit ==
    /\ Init /\ ServerInit
    /\ \/ part = Flow
       \/ part \in {Boots, Traffic} /\ resource = CHOOSE k \in Kinds : TRUE

Workflow(A) == part = Flow /\ A /\ UNCHANGED <<serverVars, part>>
Server(A) == part # Flow /\ A /\ UNCHANGED <<vars, part>>

ServiceNext ==
    \/ Workflow(Next)
    \/ Server(/\ ServerNext
              /\ \A p \in Servers \ part.servers : server'[p] = server[p]
              /\ \A c \in Conns \ part.conns : conn'[c] = conn[c])

\* The accept loop and the threads are scheduled; clients fall silent or hang up.
ServiceSpec ==
    /\ ServiceInit /\ [][ServiceNext]_<<vars, serverVars, part>>
    /\ \A w \in Workers \ Crashing : WF_vars(Workflow(Step(w)))
    /\ \A r \in Runs, s \in Sessions :
         SF_vars(Workflow(\E w \in Workers \ Crashing : Resume(w, r, s)))
    /\ \A p \in Servers : WF_serverVars(Server(Loop(p)))
    /\ \A c \in Conns : WF_serverVars(Server(Thread(c)))
=============================================================================
