--------------------------- MODULE GraphLifecycle ---------------------------
(***************************************************************************)
(* Starting, rolling back and stopping a whole media graph: Graph of       *)
(* include/mediaflow/core/graph.h with the executors of core/executor.h.   *)
(*                                                                         *)
(* Start opens dispatch queues and edges, initialises the nodes, starts    *)
(* the executors and then the nodes, sources last; a failure rolls the     *)
(* finished phases back.  Stop and GracefulStop tear everything down.      *)
(* Only the first and the last step of each call hold the graph's mutex,   *)
(* so calls of several threads interleave at every node and executor.      *)
(*                                                                         *)
(* The data plane is reduced to what stopping has to cope with: which      *)
(* edges have a sender blocked in Send (all edges have policy Block), and  *)
(* whether the thread that would drain them is still there.                *)
(***************************************************************************)
EXTENDS Integers, Sequences, SequencesExt, FiniteSets

CONSTANTS
  Callers,        \* threads that call Start, Stop and GracefulStop
  Starters,       \* those of them that call Start
  Order,          \* node_order_: the nodes, in registration order
  Priority,       \* INode::StartPriority: 100 for a source, 10 for a publisher
  ExecutorOf,     \* [nodes -> executors]
  ThreadCount,    \* [executors -> worker threads]
  Edges,          \* pairs of nodes
  MayFail,        \* nodes whose Init or Start may return false
  Shared,         \* executors that another pipeline uses, too
  MaxStarts       \* bound: calls of Start

Nodes == ToSet(Order)
Executors == {ExecutorOf[n] : n \in Nodes}
Sources == {n \in Nodes : Priority[n] = 100}

ASSUME GraphAssumption ==
  /\ Starters \subseteq Callers /\ MayFail \subseteq Nodes /\ Shared \subseteq Executors
  /\ Order \in Seq(Nodes) /\ Order # <<>> /\ IsInjective(Order)
  /\ Edges \subseteq Nodes \X (Nodes \ Sources)
  /\ \A x \in Executors : ThreadCount[x] \in Nat \ {0}
  /\ \A n \in Nodes : Priority[n] \in {0, 10, 100}
  /\ MaxStarts \in Nat

VARIABLES
  state,      \* state_
  opened,     \* the edges accept messages
  inits,      \* Inits of a node minus its Deinits
  up,         \* nodes started and not stopped
  asked,      \* sources asked to stop producing (stop_requested_)
  producing,  \* sources whose thread runs
  owner,      \* who runs an executor: "none", "graph", or "other"
  blocked,    \* edges whose upstream thread waits for room in Send
  pc,         \* which phase each caller is in
  todo,       \* what is left of a caller's loop over nodes or executors
  begun,      \* locals of Start: initialized, started_executors, started_nodes
  joining,    \* a caller that has halted an executor and joins its workers
  starts      \* bound: number of Starts so far

nodes == <<inits, up, asked, producing>>
callers == <<pc, todo, begun, joining>>
vars == <<state, opened, nodes, owner, blocked, callers, starts>>

\* What is in the vectors Rollback is given, nothing when Start begins.
NothingBegun == [inits |-> {}, executors |-> {}, nodes |-> {}]

\* The loops go through the nodes as registered ...
Place(n) == CHOOSE i \in DOMAIN Order : Order[i] = n
Before(m, n) == Place(m) < Place(n)

\* ... or after stable_sort by StartPriority, or by descending StartPriority ...
StartsBefore(m, n) == Priority[m] < Priority[n] \/ (Priority[m] = Priority[n] /\ Before(m, n))
StopsBefore(m, n) == Priority[m] > Priority[n] \/ (Priority[m] = Priority[n] /\ Before(m, n))

\* ... or, seen_executors, through every executor once, in the order of its first node.
NodesOf(x) == {n \in Nodes : ExecutorOf[n] = x}
UsedBefore(x, y) == \E m \in NodesOf(x) : \A n \in NodesOf(y) : Before(m, n)

\* The loop of a phase comes to m before n.
Comes(phase, m, n) ==
  CASE phase \in {"init", "stopProduction", "quiesce", "flush"} -> Before(m, n)
    [] phase \in {"deinit", "rollDeinit"} -> Before(n, m)
    [] phase = "nodes" -> StartsBefore(m, n)
    [] phase = "rollNodes" -> StartsBefore(n, m)
    [] phase = "stopNodes" -> StopsBefore(m, n)
    [] phase \in {"executors", "stopExecutors"} -> UsedBefore(m, n)
    [] phase = "rollExecutors" -> UsedBefore(n, m)

RollbackPhases == {"rollNodes", "rollExecutors", "rollDeinit", "rollEdges"}
StopPhases == {"stopProduction", "interrupt", "quiesce", "flush", "stopNodes",
               "closeEdges", "stopExecutors", "deinit"}
StartPhases == {"init", "executors", "nodes"}

\* A caller goes to the phase that loops over items.
Enter(c, phase, items) ==
  /\ pc' = [pc EXCEPT ![c] = phase]
  /\ todo' = [todo EXCEPT ![c] = items]

\* A caller is at item n of the loop of the phase; Done moves on to the next.
AtItem(c, phases, n) ==
  /\ pc[c] \in phases /\ n \in todo[c]
  /\ \A m \in todo[c] \ {n} : Comes(pc[c], n, m)
Done(c, n) == todo' = [todo EXCEPT ![c] = @ \ {n}] /\ UNCHANGED pc

\* The loop of the phase is over.
LoopOver(c, phase) == pc[c] = phase /\ todo[c] = {}

Init ==
  /\ state = "Created" /\ opened = TRUE
  /\ inits = [n \in Nodes |-> 0] /\ up = {} /\ asked = {} /\ producing = {}
  /\ owner = [x \in Executors |-> "none"] /\ blocked = {}
  /\ pc = [c \in Callers |-> "idle"] /\ todo = [c \in Callers |-> {}]
  /\ begun = [c \in Callers |-> NothingBegun] /\ joining = [c \in Callers |-> FALSE]
  /\ starts = 0

-----------------------------------------------------------------------------
(* Start                                                                   *)

\* A Start that finds the graph active is refused and changes nothing.
BeginStart(c) ==
  /\ pc[c] = "idle" /\ c \in Starters /\ starts < MaxStarts
  /\ state \notin {"Starting", "Running", "Stopping"}
  /\ state' = "Starting" /\ opened' = TRUE
  /\ Enter(c, "init", Nodes)
  /\ begun' = [begun EXCEPT ![c] = NothingBegun]
  /\ starts' = starts + 1
  /\ UNCHANGED <<nodes, owner, blocked, joining>>

\* Rollback(initialized, started_executors, started_nodes) begins.
Fail(c) == Enter(c, "rollNodes", begun[c].nodes)

InitNode(c) ==
  \E n \in Nodes :
    /\ AtItem(c, {"init"}, n)
    /\ \/ /\ inits' = [inits EXCEPT ![n] = @ + 1]
          /\ begun' = [begun EXCEPT ![c].inits = @ \cup {n}]
          /\ Done(c, n)
       \/ /\ n \in MayFail /\ Fail(c)
          /\ UNCHANGED <<inits, begun>>
    /\ UNCHANGED <<state, opened, up, asked, producing, owner, blocked, joining, starts>>

\* AsioExecutor::Start refuses to start a second time.
StartExecutor(c) ==
  \E x \in Executors :
    /\ AtItem(c, {"executors"}, x)
    /\ \/ /\ owner[x] = "none"
          /\ owner' = [owner EXCEPT ![x] = "graph"]
          /\ begun' = [begun EXCEPT ![c].executors = @ \cup {x}]
          /\ Done(c, x)
       \/ /\ owner[x] # "none" /\ Fail(c)
          /\ UNCHANGED <<owner, begun>>
    /\ UNCHANGED <<state, opened, nodes, blocked, joining, starts>>

\* A source whose Start succeeds has a reading thread and may send at once.
StartNode(c) ==
  \E n \in Nodes :
    /\ AtItem(c, {"nodes"}, n)
    /\ \/ /\ up' = up \cup {n}
          /\ asked' = asked \ {n}
          /\ producing' = IF n \in Sources THEN producing \cup {n} ELSE producing
          /\ begun' = [begun EXCEPT ![c].nodes = @ \cup {n}]
          /\ Done(c, n)
       \/ /\ n \in MayFail /\ Fail(c)
          /\ UNCHANGED <<up, asked, producing, begun>>
    /\ UNCHANGED <<state, opened, inits, owner, blocked, joining, starts>>

StartedAll(c) ==
  /\ LoopOver(c, "nodes")
  /\ state' = "Running"
  /\ Enter(c, "idle", {})
  /\ UNCHANGED <<opened, nodes, owner, blocked, begun, joining, starts>>

-----------------------------------------------------------------------------
(* Stop and GracefulStop                                                   *)

\* In any other state the call returns at once and changes nothing.
BeginStop(c) ==
  /\ pc[c] = "idle" /\ state \in {"Starting", "Running"}
  /\ state' = "Stopping"
  /\ Enter(c, "stopNodes", Nodes) \/ Enter(c, "stopProduction", Nodes)
  /\ UNCHANGED <<opened, nodes, owner, blocked, begun, joining, starts>>

StopProduction(c) ==
  \E n \in Nodes :
    /\ AtItem(c, {"stopProduction"}, n)
    /\ asked' = IF n \in Sources THEN asked \cup {n} ELSE asked
    /\ Done(c, n)
    /\ UNCHANGED <<state, opened, inits, up, producing, owner, blocked, begun, joining, starts>>

\* The senders that wait now leave; one that sends later may wait again.
InterruptBlockedSenders(c) ==
  /\ LoopOver(c, "interrupt")
  /\ blocked' = {}
  /\ Enter(c, "quiesce", Nodes)
  /\ UNCHANGED <<state, opened, nodes, owner, begun, joining, starts>>

\* WaitForQuiescence, before each Flush and after the last: it ends when the
\* sources have stopped and nothing is on its way, or at the deadline.
WaitForQuiescence(c) ==
  /\ pc[c] = "quiesce"
  /\ \/ producing = {} /\ blocked = {} /\ todo[c] # {} /\ Enter(c, "flush", todo[c])
     \/ producing = {} /\ blocked = {} /\ todo[c] = {} /\ Enter(c, "stopNodes", Nodes)
     \/ Enter(c, "stopNodes", Nodes)
  /\ UNCHANGED <<state, opened, nodes, owner, blocked, begun, joining, starts>>

FlushNode(c) ==
  /\ \/ \E n \in Nodes : AtItem(c, {"flush"}, n) /\ Enter(c, "quiesce", todo[c] \ {n})
     \/ pc[c] = "flush" /\ Enter(c, "stopNodes", Nodes)         \* Flush returned false
  /\ UNCHANGED <<state, opened, nodes, owner, blocked, begun, joining, starts>>

\* Defect: Node::Stop joins the source's thread without asking it to stop.
AskNodeForgotten(c) ==
  \E n \in Sources :
    /\ AtItem(c, {"stopNodes", "rollNodes"}, n) /\ n \notin asked
    /\ UNCHANGED vars

\* Node::Stop: a source is asked to stop, then its thread is joined.
AskNode(c) ==
  \E n \in Sources :
    /\ AtItem(c, {"stopNodes", "rollNodes"}, n) /\ n \notin asked
    /\ asked' = asked \cup {n}
    /\ UNCHANGED <<state, opened, inits, up, producing, owner, blocked, callers, starts>>

StopNode(c) ==
  \E n \in Nodes :
    /\ AtItem(c, {"stopNodes", "rollNodes"}, n)
    /\ n \in Sources => n \in asked /\ n \notin producing
    /\ up' = up \ {n}
    /\ Done(c, n)
    /\ UNCHANGED <<state, opened, inits, asked, producing, owner, blocked, begun, joining, starts>>

\* Edge::Close for every edge, then CloseDispatch for every node.
CloseEdges(c) ==
  /\ LoopOver(c, "closeEdges") \/ LoopOver(c, "rollEdges")
  /\ opened' = FALSE
  /\ IF pc[c] = "closeEdges"
     THEN Enter(c, "stopExecutors", Executors) /\ UNCHANGED state
     ELSE Enter(c, "idle", {}) /\ state' = "Stopped"
  /\ UNCHANGED <<nodes, owner, blocked, begun, joining, starts>>

\* AsioExecutor::Stop: halt the io_context, then join the workers.  An executor
\* that does not run is left alone.
HaltExecutor(c) ==
  \E x \in Executors :
    /\ AtItem(c, {"stopExecutors", "rollExecutors"}, x) /\ ~joining[c]
    /\ \/ /\ owner[x] # "none"
          /\ owner' = [owner EXCEPT ![x] = "none"]
          /\ joining' = [joining EXCEPT ![c] = TRUE]
          /\ UNCHANGED <<pc, todo>>
       \/ /\ owner[x] = "none"
          /\ Done(c, x)
          /\ UNCHANGED <<owner, joining>>
    /\ UNCHANGED <<state, opened, nodes, blocked, begun, starts>>

\* The workers of x that wait in Send.
Stuck(x) == {e \in blocked : e[1] \notin Sources /\ ExecutorOf[e[1]] = x}

\* Defect: AsioExecutor::Stop returns before its workers have.
JoinWorkersForgotten(c) ==
  \E x \in Executors :
    /\ AtItem(c, {"stopExecutors", "rollExecutors"}, x) /\ joining[c]
    /\ joining' = [joining EXCEPT ![c] = FALSE]
    /\ Done(c, x)
    /\ UNCHANGED <<state, opened, nodes, owner, blocked, begun, starts>>

JoinWorkers(c) ==
  \E x \in Executors :
    /\ AtItem(c, {"stopExecutors", "rollExecutors"}, x) /\ joining[c]
    /\ Stuck(x) = {}
    /\ joining' = [joining EXCEPT ![c] = FALSE]
    /\ Done(c, x)
    /\ UNCHANGED <<state, opened, nodes, owner, blocked, begun, starts>>

DeinitNode(c) ==
  \E n \in Nodes :
    /\ AtItem(c, {"deinit", "rollDeinit"}, n)
    /\ inits' = [inits EXCEPT ![n] = @ - 1]
    /\ Done(c, n)
    /\ UNCHANGED <<state, opened, up, asked, producing, owner, blocked, begun, joining, starts>>

Stopped(c) ==
  /\ LoopOver(c, "deinit")
  /\ state' = "Stopped"
  /\ Enter(c, "idle", {})
  /\ UNCHANGED <<opened, nodes, owner, blocked, begun, joining, starts>>

\* From the end of one loop to the next, within Start, Rollback and StopImpl.
NextLoop(c) ==
  /\ \/ LoopOver(c, "init") /\ Enter(c, "executors", Executors)
     \/ LoopOver(c, "executors") /\ Enter(c, "nodes", Nodes)
     \/ LoopOver(c, "rollNodes") /\ Enter(c, "rollExecutors", begun[c].executors)
     \/ LoopOver(c, "rollExecutors") /\ Enter(c, "rollDeinit", begun[c].inits)
     \/ LoopOver(c, "rollDeinit") /\ Enter(c, "rollEdges", {})
     \/ LoopOver(c, "stopProduction") /\ Enter(c, "interrupt", {})
     \/ LoopOver(c, "stopNodes") /\ Enter(c, "closeEdges", {})
     \/ LoopOver(c, "stopExecutors") /\ Enter(c, "deinit", Nodes)
  /\ UNCHANGED <<state, opened, nodes, owner, blocked, begun, joining, starts>>

-----------------------------------------------------------------------------
(* The data plane, the sources, and another pipeline's pool                *)

FreeWorker(x) == owner[x] # "none" /\ Cardinality(Stuck(x)) < ThreadCount[x]

\* Some source has been started, so that there is something to process.
Fed(n) == n \in Sources \/ \E s \in Sources : s \in up

\* The thread that runs node n is about to send.
Works(n) ==
  /\ n \in up /\ opened /\ Fed(n)
  /\ IF n \in Sources THEN n \in producing ELSE FreeWorker(ExecutorOf[n])
  /\ \A e \in blocked : e[1] # n

BlockOn(e) ==
  /\ Works(e[1])
  /\ blocked' = blocked \cup {e}
  /\ UNCHANGED <<state, opened, nodes, owner, callers, starts>>

\* The edge is closed, or a worker of the node behind it has made room.
Unblock(e) ==
  /\ e \in blocked
  /\ ~opened \/ FreeWorker(ExecutorOf[e[2]])
  /\ blocked' = blocked \ {e}
  /\ UNCHANGED <<state, opened, nodes, owner, callers, starts>>

\* A source's thread ends when it sees that it was asked to stop, or at the end
\* of its stream.
SourceEnds(n) ==
  /\ n \in producing /\ \A e \in blocked : e[1] # n
  /\ producing' = producing \ {n}
  /\ UNCHANGED <<state, opened, inits, up, asked, owner, blocked, callers, starts>>

\* The other pipeline that uses a shared executor starts and stops it (external:
\* it is assumed not to restart the io_context while this graph joins workers).
OtherPipeline(x) ==
  /\ x \in Shared
  /\ \/ owner[x] = "none" /\ (\A c \in Callers : ~joining[c])
        /\ owner' = [owner EXCEPT ![x] = "other"]
     \/ owner[x] = "other" /\ owner' = [owner EXCEPT ![x] = "none"]
  /\ UNCHANGED <<state, opened, nodes, blocked, callers, starts>>

-----------------------------------------------------------------------------
CallStep(c) ==
  \/ InitNode(c) \/ StartExecutor(c) \/ StartNode(c) \/ StartedAll(c)
  \/ StopProduction(c) \/ InterruptBlockedSenders(c) \/ WaitForQuiescence(c) \/ FlushNode(c)
  \/ AskNode(c) \/ StopNode(c) \/ CloseEdges(c) \/ HaltExecutor(c) \/ JoinWorkers(c)
  \/ DeinitNode(c) \/ Stopped(c) \/ NextLoop(c)

Next ==
  \/ \E c \in Callers : BeginStart(c) \/ BeginStop(c) \/ CallStep(c)
  \/ \E e \in Edges : BlockOn(e) \/ Unblock(e)
  \/ \E n \in Sources : SourceEnds(n)
  \/ \E x \in Executors : OtherPipeline(x)

Spec == Init /\ [][Next]_vars

\* A call runs on; a worker that is free again and again makes room; a source
\* looks at its stop flag between two packets.  Nobody need start or stop the
\* graph, or fill an edge.
Fairness ==
  /\ \A c \in Callers : WF_vars(CallStep(c))
  /\ \A e \in Edges : SF_vars(Unblock(e))
  /\ \A n \in Sources : SF_vars(SourceEnds(n) /\ n \in asked)

FairSpec == Spec /\ Fairness

-----------------------------------------------------------------------------
(* Properties                                                              *)

Phases == {"idle"} \cup StartPhases \cup RollbackPhases \cup StopPhases

\* Every variable holds a value of its kind.
TypeOK ==
  /\ state \in {"Created", "Starting", "Running", "Stopping", "Stopped"}
  /\ opened \in BOOLEAN /\ inits \in [Nodes -> Nat]
  /\ up \subseteq Nodes /\ asked \subseteq Sources /\ producing \subseteq Sources
  /\ owner \in [Executors -> {"none", "graph", "other"}] /\ blocked \subseteq Edges
  /\ pc \in [Callers -> Phases] /\ todo \in [Callers -> SUBSET (Nodes \cup Executors)]
  /\ begun \in [Callers -> [inits : SUBSET Nodes, executors : SUBSET Executors, nodes : SUBSET Nodes]]
  /\ joining \in [Callers -> BOOLEAN] /\ starts \in 0..MaxStarts

\* A source has a thread that may send only while every node behind it is
\* started, on open edges and running executors - while starting, when the start
\* of a later source is rolled back, and while stopping (node.h, StartPriority).
SourcesNeedTheGraph ==
  producing # {} =>
    /\ Nodes \ Sources \subseteq up
    /\ opened
    /\ \A x \in Executors : owner[x] = "graph"

\* No thread is inside a node that is not initialised: a node is deinitialised
\* only after every worker and source thread that may run it has been joined.
NoWorkWithoutInit ==
  /\ \A e \in blocked : inits[e[1]] = 1
  /\ \A n \in producing : inits[n] = 1

\* A running graph is complete, and a stopped one leaves nothing behind: no
\* source thread, no worker, no open edge, no initialised node - whether it was
\* stopped or a half-finished start was rolled back.  What another pipeline runs
\* is not the graph's.
StoppedIsClean ==
  /\ state = "Running" =>
       /\ up = Nodes /\ opened
       /\ \A n \in Nodes : inits[n] = 1
       /\ \A x \in Executors : owner[x] = "graph"
  /\ state = "Stopped" =>
       /\ up = {} /\ producing = {} /\ blocked = {} /\ ~opened
       /\ \A n \in Nodes : inits[n] = 0
       /\ \A x \in Executors : owner[x] # "graph"

\* Every phase of Start, Rollback and Stop finds and leaves what the others rely on.
PhasesAgree == TypeOK /\ SourcesNeedTheGraph /\ NoWorkWithoutInit /\ StoppedIsClean

\* A stop returns: every thread it joins gets out of Send although senders may
\* be blocked along the whole chain when it begins.
StopReturns == \A c \in Callers : (pc[c] \in StopPhases) ~> (pc[c] = "idle")

=============================================================================
