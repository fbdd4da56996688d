------------------------ MODULE GraphLifecycleProofs ------------------------
(***************************************************************************)
(* Machine-checked proofs about GraphLifecycle: for every graph, on any    *)
(* pools, whatever fails, as long as one thread starts and stops it.       *)
(***************************************************************************)
EXTENDS GraphLifecycle, TLAPS

-----------------------------------------------------------------------------
(* The inductive invariant: what there is of the graph in every phase      *)

NodePhases == {"init", "nodes", "rollNodes", "rollDeinit", "stopProduction", "quiesce", "flush",
               "stopNodes", "deinit"}
ExecutorPhases == {"executors", "rollExecutors", "stopExecutors"}
JoinPhases == {"rollExecutors", "stopExecutors"}

\* Before a stop takes the first thing away.
WholePhases == {"stopProduction", "interrupt", "quiesce", "flush"}

StateOfPhase(c) ==
  /\ pc[c] = "idle" => state \in {"Created", "Running", "Stopped"}
  /\ pc[c] \in StartPhases \cup RollbackPhases => state = "Starting"
  /\ pc[c] \in StopPhases => state = "Stopping"

\* What a loop has left to do.
Items(c) ==
  /\ pc[c] \in NodePhases => todo[c] \subseteq Nodes
  /\ pc[c] \in ExecutorPhases => todo[c] \subseteq Executors
  /\ pc[c] \notin NodePhases \cup ExecutorPhases => todo[c] = {}
  /\ joining[c] => pc[c] \in JoinPhases /\ todo[c] # {}

\* The locals of Start tell how far it has come: a phase begins when the one before it is done.
Locals(c) ==
  /\ pc[c] = "init" => begun[c] = [inits |-> Nodes \ todo[c], executors |-> {}, nodes |-> {}]
  /\ pc[c] = "executors" =>
       begun[c] = [inits |-> Nodes, executors |-> Executors \ todo[c], nodes |-> {}]
  /\ pc[c] = "nodes" => begun[c] = [inits |-> Nodes, executors |-> Executors, nodes |-> Nodes \ todo[c]]
  /\ pc[c] \in RollbackPhases =>
       /\ begun[c].executors # {} => begun[c].inits = Nodes
       /\ begun[c].nodes # {} => begun[c].executors = Executors
  /\ pc[c] = "rollNodes" => todo[c] \subseteq begun[c].nodes
  /\ pc[c] = "rollExecutors" => todo[c] \subseteq begun[c].executors

\* The nodes that are initialised, those that are started, ...
Initialised(c) ==
  CASE pc[c] = "idle" -> IF state = "Running" THEN Nodes ELSE {}
    [] pc[c] = "init" -> Nodes \ todo[c]
    [] pc[c] \in {"rollNodes", "rollExecutors"} -> begun[c].inits
    [] pc[c] \in {"rollDeinit", "deinit"} -> todo[c]
    [] pc[c] = "rollEdges" -> {}
    [] OTHER -> Nodes

Started(c) ==
  CASE pc[c] = "idle" -> IF state = "Running" THEN Nodes ELSE {}
    [] pc[c] = "nodes" -> Nodes \ todo[c]
    [] pc[c] \in {"rollNodes", "stopNodes"} -> todo[c]
    [] pc[c] \in WholePhases -> Nodes
    [] OTHER -> {}

\* ... the executors whose workers have not been joined, and those that the graph runs.
Unjoined(c) ==
  CASE pc[c] = "idle" -> IF state = "Running" THEN Executors ELSE {}
    [] pc[c] = "executors" -> Executors \ todo[c]
    [] pc[c] = "rollNodes" -> begun[c].executors
    [] pc[c] \in JoinPhases -> todo[c]
    [] pc[c] \in WholePhases \cup {"nodes", "stopNodes", "closeEdges"} -> Executors
    [] OTHER -> {}

Halted(c, x) == joining[c] /\ \A y \in todo[c] \ {x} : Comes(pc[c], x, y)

Inventory(c) ==
  /\ inits = [n \in Nodes |-> IF n \in Initialised(c) THEN 1 ELSE 0]
  /\ up = Started(c)
  /\ \A x \in Executors : owner[x] = "graph" <=> x \in Unjoined(c) /\ ~Halted(c, x)
  /\ opened <=> pc[c] \notin {"stopExecutors", "deinit"} /\ (pc[c] = "idle" => state # "Stopped")

\* Sources are started last and stopped first.
SourcesLast == up \cap Sources # {} => Nodes \ Sources \subseteq up

\* A thread inside a node is the thread of a started source or a worker still to be joined.
Threads(c) ==
  /\ producing \subseteq up
  /\ \A e \in blocked : IF e[1] \in Sources THEN e[1] \in producing ELSE ExecutorOf[e[1]] \in Unjoined(c)

IInv ==
  /\ TypeOK /\ SourcesLast
  /\ \A c \in Callers : StateOfPhase(c) /\ Items(c) /\ Locals(c) /\ Inventory(c) /\ Threads(c)

-----------------------------------------------------------------------------
(* The order of the loops                                                  *)

\* Of two executors one is stopped first.
LEMMA OneComesFirst ==
  ASSUME NEW phase \in JoinPhases, NEW x \in Executors, NEW y \in Executors,
         Comes(phase, x, y), Comes(phase, y, x)
  PROVE  FALSE
<1>1. \A n \in Nodes : Place(n) \in Nat
  <2>1. ASSUME NEW n \in Nodes PROVE \E i \in DOMAIN Order : Order[i] = n
    BY DEF Nodes, ToSet
  <2> QED BY <2>1, GraphAssumption DEF Place
<1>2. ASSUME UsedBefore(x, y), UsedBefore(y, x) PROVE FALSE
  <2>1. PICK m \in NodesOf(x) : \A n \in NodesOf(y) : Before(m, n)
    BY <1>2 DEF UsedBefore
  <2>2. PICK n \in NodesOf(y) : \A o \in NodesOf(x) : Before(n, o)
    BY <1>2 DEF UsedBefore
  <2>3. Place(m) < Place(n) /\ Place(n) < Place(m)
    BY <2>1, <2>2 DEF Before
  <2>4. m \in Nodes /\ n \in Nodes
    BY DEF NodesOf
  <2> QED BY <1>1, <2>3, <2>4
<1>3. CASE phase = "rollExecutors"
  <2>1. UsedBefore(x, y) /\ UsedBefore(y, x)
    BY <1>3 DEF Comes
  <2> QED BY <1>2, <2>1
<1>4. CASE phase = "stopExecutors"
  <2>1. UsedBefore(x, y) /\ UsedBefore(y, x)
    BY <1>4 DEF Comes
  <2> QED BY <1>2, <2>1
<1> QED BY <1>3, <1>4 DEF JoinPhases

\* No source comes before another node in a start, none after it in a stop or a rollback.
LEMMA SourcesComeLast ==
  ASSUME NEW s \in Sources, NEW n \in Nodes \ Sources
  PROVE  ~Comes("nodes", s, n) /\ ~Comes("rollNodes", n, s) /\ ~Comes("stopNodes", n, s)
<1>1. Priority[s] = 100 /\ Priority[n] \in {0, 10}
  BY GraphAssumption DEF Sources
<1>2. ~StartsBefore(s, n) /\ ~StopsBefore(n, s)
  BY <1>1 DEF StartsBefore, StopsBefore
<1> QED BY <1>2 DEF Comes

-----------------------------------------------------------------------------
(* Steps of a loop                                                         *)

LEMMA EnterStep ==
  ASSUME NEW c \in Callers, NEW phase \in Phases, NEW items \in SUBSET (Nodes \cup Executors),
         TypeOK, Enter(c, phase, items)
  PROVE  /\ pc' \in [Callers -> Phases] /\ todo' \in [Callers -> SUBSET (Nodes \cup Executors)]
         /\ pc'[c] = phase /\ todo'[c] = items
BY DEF TypeOK, Enter

LEMMA DoneStep ==
  ASSUME NEW c \in Callers, NEW n, TypeOK, Done(c, n)
  PROVE  /\ pc' \in [Callers -> Phases] /\ todo' \in [Callers -> SUBSET (Nodes \cup Executors)]
         /\ pc'[c] = pc[c] /\ todo'[c] = todo[c] \ {n}
BY DEF TypeOK, Done

-----------------------------------------------------------------------------
(* The invariant is inductive                                              *)

LEMMA InitOk == ASSUME NEW k, Callers = {k}, Init PROVE IInv
<1>1. TypeOK /\ SourcesLast
  BY GraphAssumption DEF Init, TypeOK, SourcesLast, NothingBegun, Phases
<1>2. pc[k] = "idle" /\ todo[k] = {} /\ ~joining[k]
  BY DEF Init
<1>3. StateOfPhase(k) /\ Items(k) /\ Locals(k)
  BY <1>2 DEF Init, StateOfPhase, Items, Locals, NodePhases, ExecutorPhases, StartPhases, RollbackPhases,
       StopPhases
<1>4. Initialised(k) = {} /\ Started(k) = {} /\ Unjoined(k) = {}
  BY <1>2 DEF Init, Initialised, Started, Unjoined, WholePhases, JoinPhases
<1>5. Inventory(k) /\ Threads(k)
  BY <1>2, <1>4 DEF Init, Inventory, Threads
<1> QED BY <1>1, <1>3, <1>5 DEF IInv

LEMMA BeginStartOk == ASSUME NEW k, Callers = {k}, IInv, BeginStart(k) PROVE IInv'
<1>1. TypeOK /\ Items(k) /\ Locals(k) /\ Inventory(k) /\ Threads(k) /\ StateOfPhase(k)
  BY DEF IInv
<1>2. /\ pc[k] = "idle" /\ state \in {"Created", "Stopped"} /\ state' = "Starting" /\ opened' = TRUE
      /\ ~joining[k]
  BY <1>1 DEF BeginStart, StateOfPhase, Items, JoinPhases
<1>3. /\ pc'[k] = "init" /\ todo'[k] = Nodes /\ begun'[k] = NothingBegun /\ joining'[k] = joining[k]
      /\ UNCHANGED <<inits, up, asked, producing, owner, blocked, joining>>
  BY <1>1, EnterStep DEF BeginStart, TypeOK, Phases, StartPhases, nodes
<1>4. TypeOK'
  <2>1. pc' \in [Callers -> Phases] /\ todo' \in [Callers -> SUBSET (Nodes \cup Executors)]
    BY <1>1, EnterStep DEF BeginStart, Phases, StartPhases
  <2>2. starts' \in 0 .. MaxStarts
    BY <1>1, GraphAssumption DEF BeginStart, TypeOK
  <2>3. begun' \in [Callers -> [inits : SUBSET Nodes, executors : SUBSET Executors, nodes : SUBSET Nodes]]
    BY <1>1 DEF BeginStart, TypeOK, NothingBegun
  <2> QED BY <1>1, <1>2, <1>3, <2>1, <2>2, <2>3 DEF TypeOK
<1>5. Initialised(k) = {} /\ Started(k) = {} /\ Unjoined(k) = {}
  BY <1>2 DEF Initialised, Started, Unjoined, WholePhases, JoinPhases
<1>6. Initialised(k)' = {} /\ Started(k)' = {} /\ Unjoined(k)' = {}
  BY <1>3 DEF Initialised, Started, Unjoined, JoinPhases, WholePhases
<1>7. StateOfPhase(k)' /\ Items(k)' /\ Locals(k)' /\ SourcesLast'
  BY <1>1, <1>2, <1>3, <1>5 DEF StateOfPhase, Items, Locals, NodePhases, ExecutorPhases, StartPhases,
       RollbackPhases, StopPhases, NothingBegun, Inventory, SourcesLast, JoinPhases
<1>8. Inventory(k)' /\ Threads(k)'
  BY <1>1, <1>2, <1>3, <1>5, <1>6 DEF Inventory, Threads, Halted
<1> QED BY <1>4, <1>7, <1>8 DEF IInv

\* A phase of Start that fails hands to Rollback what was done.
LEMMA FailOk ==
  ASSUME NEW k, Callers = {k}, IInv, pc[k] \in StartPhases, Fail(k),
         UNCHANGED <<state, opened, nodes, owner, blocked, begun, joining, starts>>
  PROVE  IInv'
<1>1. TypeOK /\ SourcesLast /\ Items(k) /\ Locals(k) /\ Inventory(k) /\ Threads(k) /\ StateOfPhase(k)
  BY DEF IInv
<1>2. begun[k].nodes \in SUBSET Nodes
  BY <1>1 DEF TypeOK
<1>3. /\ pc'[k] = "rollNodes" /\ todo'[k] = begun[k].nodes
      /\ UNCHANGED <<state, opened, inits, up, asked, producing, owner, blocked, begun, joining, starts>>
  BY <1>1, <1>2, EnterStep DEF Fail, Phases, RollbackPhases, nodes
<1>4. TypeOK'
  <2>1. pc' \in [Callers -> Phases] /\ todo' \in [Callers -> SUBSET (Nodes \cup Executors)]
    BY <1>1, <1>2, EnterStep DEF Fail, Phases, RollbackPhases
  <2> QED BY <1>1, <1>3, <2>1 DEF TypeOK
<1>5. state = "Starting" /\ opened = TRUE /\ ~joining[k] /\ todo[k] \subseteq Nodes \cup Executors
  BY <1>1 DEF StateOfPhase, Inventory, Items, StartPhases, JoinPhases, TypeOK
<1>6. /\ Initialised(k) = begun[k].inits /\ Started(k) = begun[k].nodes
      /\ Unjoined(k) = begun[k].executors
      /\ begun[k].executors # {} => begun[k].inits = Nodes
      /\ begun[k].nodes # {} => begun[k].executors = Executors
  <2>1. CASE pc[k] = "init"
    BY <1>1, <2>1 DEF Initialised, Started, Unjoined, WholePhases, JoinPhases, Locals
  <2>2. CASE pc[k] = "executors"
    BY <1>1, <2>2 DEF Initialised, Started, Unjoined, WholePhases, JoinPhases, Locals
  <2>3. CASE pc[k] = "nodes"
    BY <1>1, <2>3 DEF Initialised, Started, Unjoined, WholePhases, JoinPhases, Locals
  <2> QED BY <2>1, <2>2, <2>3 DEF StartPhases
<1>7. /\ Initialised(k)' = begun[k].inits /\ Started(k)' = begun[k].nodes
      /\ Unjoined(k)' = begun[k].executors
  BY <1>3 DEF Initialised, Started, Unjoined, WholePhases, JoinPhases
<1>8. StateOfPhase(k)' /\ Items(k)' /\ Locals(k)' /\ SourcesLast'
  BY <1>1, <1>2, <1>3, <1>5, <1>6 DEF StateOfPhase, Items, Locals, NodePhases, ExecutorPhases,
       StartPhases, RollbackPhases, StopPhases, SourcesLast, JoinPhases
<1>9. Inventory(k)' /\ Threads(k)'
  BY <1>1, <1>3, <1>5, <1>6, <1>7 DEF Inventory, Threads, Halted, StartPhases
<1> QED BY <1>4, <1>8, <1>9 DEF IInv

LEMMA InitNodeOk == ASSUME NEW k, Callers = {k}, IInv, InitNode(k) PROVE IInv'
<1>1. TypeOK /\ SourcesLast /\ Items(k) /\ Locals(k) /\ Inventory(k) /\ Threads(k) /\ StateOfPhase(k)
  BY DEF IInv
<1>2. PICK n \in Nodes :
        /\ AtItem(k, {"init"}, n)
        /\ \/ /\ inits' = [inits EXCEPT ![n] = @ + 1]
              /\ begun' = [begun EXCEPT ![k].inits = @ \cup {n}]
              /\ Done(k, n)
           \/ n \in MayFail /\ Fail(k) /\ UNCHANGED <<inits, begun>>
        /\ UNCHANGED <<state, opened, up, asked, producing, owner, blocked, joining, starts>>
  BY DEF InitNode
<1>3. pc[k] = "init" /\ n \in todo[k] /\ todo[k] \subseteq Nodes
  BY <1>1, <1>2 DEF AtItem, Items, NodePhases
<1>4. CASE Fail(k) /\ UNCHANGED <<inits, begun>>
  BY <1>2, <1>3, <1>4, FailOk DEF StartPhases, nodes
<1>5. CASE /\ inits' = [inits EXCEPT ![n] = @ + 1]
           /\ begun' = [begun EXCEPT ![k].inits = @ \cup {n}]
           /\ Done(k, n)
  <2>1. pc'[k] = "init" /\ todo'[k] = todo[k] \ {n}
    BY <1>1, <1>3, <1>5, DoneStep
  <2>2. begun[k] = [inits |-> Nodes \ todo[k], executors |-> {}, nodes |-> {}]
    BY <1>1, <1>3 DEF Locals
  <2>3. begun'[k] = [inits |-> Nodes \ todo'[k], executors |-> {}, nodes |-> {}]
    <3>1. begun'[k] = [begun[k] EXCEPT !.inits = @ \cup {n}]
      BY <1>1, <1>5 DEF TypeOK
    <3>2. (Nodes \ todo[k]) \cup {n} = Nodes \ todo'[k]
      BY <1>3, <2>1
    <3> QED BY <2>2, <3>1, <3>2
  <2>4. Initialised(k) = Nodes \ todo[k] /\ Started(k) = {} /\ Unjoined(k) = {}
    BY <1>3 DEF Initialised, Started, Unjoined, WholePhases, JoinPhases
  <2>5. Initialised(k)' = Nodes \ todo'[k] /\ Started(k)' = {} /\ Unjoined(k)' = {}
    BY <2>1 DEF Initialised, Started, Unjoined, WholePhases, JoinPhases
  <2>6. inits' = [m \in Nodes |-> IF m \in Initialised(k)' THEN 1 ELSE 0]
    BY <1>1, <1>3, <1>5, <2>1, <2>4, <2>5 DEF Inventory
  <2>7. TypeOK'
    <3>1. pc' \in [Callers -> Phases] /\ todo' \in [Callers -> SUBSET (Nodes \cup Executors)]
      BY <1>1, <1>5, DoneStep
    <3>2. begun' \in [Callers -> [inits : SUBSET Nodes, executors : SUBSET Executors, nodes : SUBSET Nodes]]
      BY <1>1, <1>5, <2>3 DEF TypeOK
    <3>3. inits' \in [Nodes -> Nat]
      BY <2>6
    <3> QED BY <1>1, <1>2, <3>1, <3>2, <3>3 DEF TypeOK
  <2>8. StateOfPhase(k)' /\ Items(k)' /\ Locals(k)' /\ SourcesLast'
    BY <1>1, <1>2, <1>3, <2>1, <2>3 DEF StateOfPhase, Items, Locals, NodePhases, ExecutorPhases,
         StartPhases, RollbackPhases, StopPhases, SourcesLast, JoinPhases
  <2>9. Inventory(k)' /\ Threads(k)'
    BY <1>1, <1>2, <1>3, <2>1, <2>4, <2>5, <2>6 DEF Inventory, Threads, Halted
  <2> QED BY <2>7, <2>8, <2>9 DEF IInv
<1> QED BY <1>2, <1>4, <1>5

LEMMA StartExecutorOk == ASSUME NEW k, Callers = {k}, IInv, StartExecutor(k) PROVE IInv'
<1>1. TypeOK /\ SourcesLast /\ Items(k) /\ Locals(k) /\ Inventory(k) /\ Threads(k) /\ StateOfPhase(k)
  BY DEF IInv
<1>2. PICK x \in Executors :
        /\ AtItem(k, {"executors"}, x)
        /\ \/ /\ owner' = [owner EXCEPT ![x] = "graph"]
              /\ begun' = [begun EXCEPT ![k].executors = @ \cup {x}]
              /\ Done(k, x)
           \/ Fail(k) /\ UNCHANGED <<owner, begun>>
        /\ UNCHANGED <<state, opened, nodes, blocked, joining, starts>>
  BY DEF StartExecutor
<1>3. pc[k] = "executors" /\ x \in todo[k] /\ todo[k] \subseteq Executors /\ ~joining[k]
  BY <1>1, <1>2 DEF AtItem, Items, ExecutorPhases, JoinPhases
<1>4. CASE Fail(k) /\ UNCHANGED <<owner, begun>>
  BY <1>2, <1>3, <1>4, FailOk DEF StartPhases
<1>5. CASE /\ owner' = [owner EXCEPT ![x] = "graph"]
           /\ begun' = [begun EXCEPT ![k].executors = @ \cup {x}]
           /\ Done(k, x)
  <2>1. pc'[k] = "executors" /\ todo'[k] = todo[k] \ {x}
    BY <1>1, <1>3, <1>5, DoneStep
  <2>2. begun[k] = [inits |-> Nodes, executors |-> Executors \ todo[k], nodes |-> {}]
    BY <1>1, <1>3 DEF Locals
  <2>3. begun'[k] = [inits |-> Nodes, executors |-> Executors \ todo'[k], nodes |-> {}]
    <3>1. begun'[k] = [begun[k] EXCEPT !.executors = @ \cup {x}]
      BY <1>1, <1>5 DEF TypeOK
    <3>2. (Executors \ todo[k]) \cup {x} = Executors \ todo'[k]
      BY <1>3, <2>1
    <3> QED BY <2>2, <3>1, <3>2
  <2>4. Initialised(k) = Nodes /\ Started(k) = {} /\ Unjoined(k) = Executors \ todo[k]
    BY <1>3 DEF Initialised, Started, Unjoined, WholePhases, JoinPhases
  <2>5. Initialised(k)' = Nodes /\ Started(k)' = {} /\ Unjoined(k)' = Executors \ todo'[k]
    BY <2>1 DEF Initialised, Started, Unjoined, WholePhases, JoinPhases
  <2>6. \A y \in Executors : owner'[y] = "graph" <=> y \in Unjoined(k)'
    BY <1>1, <1>3, <1>5, <2>1, <2>4, <2>5 DEF Inventory, Halted, TypeOK
  <2>7. TypeOK'
    <3>1. pc' \in [Callers -> Phases] /\ todo' \in [Callers -> SUBSET (Nodes \cup Executors)]
      BY <1>1, <1>5, DoneStep
    <3>2. begun' \in [Callers -> [inits : SUBSET Nodes, executors : SUBSET Executors, nodes : SUBSET Nodes]]
      BY <1>1, <1>5, <2>3 DEF TypeOK
    <3>3. owner' \in [Executors -> {"none", "graph", "other"}]
      BY <1>1, <1>5 DEF TypeOK
    <3> QED BY <1>1, <1>2, <3>1, <3>2, <3>3 DEF TypeOK, nodes
  <2>8. StateOfPhase(k)' /\ Items(k)' /\ Locals(k)' /\ SourcesLast'
    BY <1>1, <1>2, <1>3, <2>1, <2>3 DEF StateOfPhase, Items, Locals, NodePhases, ExecutorPhases,
         StartPhases, RollbackPhases, StopPhases, SourcesLast, JoinPhases, nodes
  <2>9. Inventory(k)' /\ Threads(k)'
    BY <1>1, <1>2, <1>3, <2>1, <2>4, <2>5, <2>6 DEF Inventory, Threads, Halted, nodes
  <2> QED BY <2>7, <2>8, <2>9 DEF IInv
<1> QED BY <1>2, <1>4, <1>5

LEMMA StartNodeOk == ASSUME NEW k, Callers = {k}, IInv, StartNode(k) PROVE IInv'
<1>1. TypeOK /\ SourcesLast /\ Items(k) /\ Locals(k) /\ Inventory(k) /\ Threads(k) /\ StateOfPhase(k)
  BY DEF IInv
<1>2. PICK n \in Nodes :
        /\ AtItem(k, {"nodes"}, n)
        /\ \/ /\ up' = up \cup {n}
              /\ asked' = asked \ {n}
              /\ producing' = IF n \in Sources THEN producing \cup {n} ELSE producing
              /\ begun' = [begun EXCEPT ![k].nodes = @ \cup {n}]
              /\ Done(k, n)
           \/ Fail(k) /\ UNCHANGED <<up, asked, producing, begun>>
        /\ UNCHANGED <<state, opened, inits, owner, blocked, joining, starts>>
  BY DEF StartNode
<1>3. pc[k] = "nodes" /\ n \in todo[k] /\ todo[k] \subseteq Nodes /\ ~joining[k]
  BY <1>1, <1>2 DEF AtItem, Items, NodePhases, JoinPhases
<1>4. CASE Fail(k) /\ UNCHANGED <<up, asked, producing, begun>>
  BY <1>2, <1>3, <1>4, FailOk DEF StartPhases, nodes
<1>5. CASE /\ up' = up \cup {n}
           /\ asked' = asked \ {n}
           /\ producing' = IF n \in Sources THEN producing \cup {n} ELSE producing
           /\ begun' = [begun EXCEPT ![k].nodes = @ \cup {n}]
           /\ Done(k, n)
  <2>1. pc'[k] = "nodes" /\ todo'[k] = todo[k] \ {n}
    BY <1>1, <1>3, <1>5, DoneStep
  <2>2. begun[k] = [inits |-> Nodes, executors |-> Executors, nodes |-> Nodes \ todo[k]]
    BY <1>1, <1>3 DEF Locals
  <2>3. begun'[k] = [inits |-> Nodes, executors |-> Executors, nodes |-> Nodes \ todo'[k]]
    <3>1. begun'[k] = [begun[k] EXCEPT !.nodes = @ \cup {n}]
      BY <1>1, <1>5 DEF TypeOK
    <3>2. (Nodes \ todo[k]) \cup {n} = Nodes \ todo'[k]
      BY <1>3, <2>1
    <3> QED BY <2>2, <3>1, <3>2
  <2>4. Initialised(k) = Nodes /\ Started(k) = Nodes \ todo[k] /\ Unjoined(k) = Executors
    BY <1>3 DEF Initialised, Started, Unjoined, WholePhases, JoinPhases
  <2>5. Initialised(k)' = Nodes /\ Started(k)' = Nodes \ todo'[k] /\ Unjoined(k)' = Executors
    BY <2>1 DEF Initialised, Started, Unjoined, WholePhases, JoinPhases
  <2>6. up' = Nodes \ todo'[k]
    BY <1>1, <1>3, <1>5, <2>1, <2>4 DEF Inventory
  <2>7. SourcesLast'
    <3>1. CASE n \in Sources
      <4>1. ASSUME NEW m \in Nodes \ Sources PROVE m \notin todo[k]
        BY <1>2, <1>3, <3>1, <4>1, SourcesComeLast DEF AtItem
      <4> QED BY <2>6, <2>1, <4>1 DEF SourcesLast
    <3>2. CASE n \notin Sources
      BY <1>1, <1>5, <3>2 DEF SourcesLast
    <3> QED BY <3>1, <3>2
  <2>8. TypeOK'
    <3>1. pc' \in [Callers -> Phases] /\ todo' \in [Callers -> SUBSET (Nodes \cup Executors)]
      BY <1>1, <1>5, DoneStep
    <3>2. begun' \in [Callers -> [inits : SUBSET Nodes, executors : SUBSET Executors, nodes : SUBSET Nodes]]
      BY <1>1, <1>5, <2>3 DEF TypeOK
    <3>3. up' \subseteq Nodes /\ asked' \subseteq Sources /\ producing' \subseteq Sources
      BY <1>1, <1>5 DEF TypeOK
    <3> QED BY <1>1, <1>2, <3>1, <3>2, <3>3 DEF TypeOK
  <2>9. StateOfPhase(k)' /\ Items(k)' /\ Locals(k)'
    BY <1>1, <1>2, <1>3, <2>1, <2>3 DEF StateOfPhase, Items, Locals, NodePhases, ExecutorPhases,
         StartPhases, RollbackPhases, StopPhases, JoinPhases
  <2>10. Inventory(k)'
    BY <1>1, <1>2, <1>3, <2>1, <2>4, <2>5, <2>6 DEF Inventory, Halted
  <2>11. Threads(k)'
    BY <1>1, <1>2, <1>5, <2>4, <2>5 DEF Threads
  <2> QED BY <2>7, <2>8, <2>9, <2>10, <2>11 DEF IInv
<1> QED BY <1>2, <1>4, <1>5

LEMMA StartedAllOk == ASSUME NEW k, Callers = {k}, IInv, StartedAll(k) PROVE IInv'
<1>1. TypeOK /\ SourcesLast /\ Items(k) /\ Locals(k) /\ Inventory(k) /\ Threads(k) /\ StateOfPhase(k)
  BY DEF IInv
<1>2. pc[k] = "nodes" /\ todo[k] = {} /\ state' = "Running" /\ ~joining[k] /\ opened = TRUE
  BY <1>1 DEF StartedAll, LoopOver, Items, JoinPhases, Inventory, TypeOK
<1>3. /\ pc'[k] = "idle" /\ todo'[k] = {}
      /\ UNCHANGED <<opened, inits, up, asked, producing, owner, blocked, begun, joining, starts>>
  BY <1>1, EnterStep DEF StartedAll, Phases, nodes
<1>4. TypeOK'
  <2>1. pc' \in [Callers -> Phases] /\ todo' \in [Callers -> SUBSET (Nodes \cup Executors)]
    BY <1>1, EnterStep DEF StartedAll, Phases
  <2> QED BY <1>1, <1>2, <1>3, <2>1 DEF TypeOK
<1>5. Initialised(k) = Nodes /\ Started(k) = Nodes /\ Unjoined(k) = Executors
  BY <1>2 DEF Initialised, Started, Unjoined, WholePhases, JoinPhases
<1>6. Initialised(k)' = Nodes /\ Started(k)' = Nodes /\ Unjoined(k)' = Executors
  BY <1>2, <1>3 DEF Initialised, Started, Unjoined, WholePhases, JoinPhases
<1>7. StateOfPhase(k)' /\ Items(k)' /\ Locals(k)' /\ SourcesLast'
  BY <1>1, <1>2, <1>3 DEF StateOfPhase, Items, Locals, NodePhases, ExecutorPhases, StartPhases,
       RollbackPhases, StopPhases, SourcesLast, JoinPhases
<1>8. Inventory(k)' /\ Threads(k)'
  BY <1>1, <1>2, <1>3, <1>5, <1>6 DEF Inventory, Threads, Halted
<1> QED BY <1>4, <1>7, <1>8 DEF IInv

-----------------------------------------------------------------------------
(* Stop                                                                    *)

LEMMA BeginStopOk == ASSUME NEW k, Callers = {k}, IInv, BeginStop(k) PROVE IInv'
<1>1. TypeOK /\ SourcesLast /\ Items(k) /\ Locals(k) /\ Inventory(k) /\ Threads(k) /\ StateOfPhase(k)
  BY DEF IInv
<1>2. pc[k] = "idle" /\ state = "Running" /\ state' = "Stopping" /\ ~joining[k] /\ opened = TRUE
  BY <1>1 DEF BeginStop, StateOfPhase, Items, JoinPhases, Inventory, TypeOK
<1>3. /\ pc'[k] \in {"stopNodes", "stopProduction"} /\ todo'[k] = Nodes
      /\ UNCHANGED <<opened, inits, up, asked, producing, owner, blocked, begun, joining, starts>>
  BY <1>1, EnterStep DEF BeginStop, Phases, StopPhases, nodes
<1>4. TypeOK'
  <2>1. pc' \in [Callers -> Phases] /\ todo' \in [Callers -> SUBSET (Nodes \cup Executors)]
    BY <1>1, EnterStep DEF BeginStop, Phases, StopPhases
  <2> QED BY <1>1, <1>2, <1>3, <2>1 DEF TypeOK
<1>5. Initialised(k) = Nodes /\ Started(k) = Nodes /\ Unjoined(k) = Executors
  BY <1>2 DEF Initialised, Started, Unjoined, WholePhases, JoinPhases
<1>6. Initialised(k)' = Nodes /\ Started(k)' = Nodes /\ Unjoined(k)' = Executors
  <2>1. CASE pc'[k] = "stopNodes"
    BY <1>3, <2>1 DEF Initialised, Started, Unjoined, WholePhases, JoinPhases
  <2>2. CASE pc'[k] = "stopProduction"
    BY <1>3, <2>2 DEF Initialised, Started, Unjoined, WholePhases, JoinPhases
  <2> QED BY <1>3, <2>1, <2>2
<1>7. StateOfPhase(k)' /\ Items(k)' /\ Locals(k)' /\ SourcesLast'
  BY <1>1, <1>2, <1>3 DEF StateOfPhase, Items, Locals, NodePhases, ExecutorPhases, StartPhases,
       RollbackPhases, StopPhases, SourcesLast, JoinPhases
<1>8. Inventory(k)' /\ Threads(k)'
  BY <1>1, <1>2, <1>3, <1>5, <1>6 DEF Inventory, Threads, Halted
<1> QED BY <1>4, <1>7, <1>8 DEF IInv

\* Until the first node stops a stop moves between phases in which the graph is whole.
LEMMA WholeStepOk ==
  ASSUME NEW k, Callers = {k}, IInv, pc[k] \in WholePhases,
         NEW items \in SUBSET Nodes,
         \/ pc'[k] \in {"stopProduction", "quiesce", "flush", "stopNodes"} /\ todo'[k] = items
         \/ pc'[k] = "interrupt" /\ todo'[k] = {},
         pc'[k] = "stopNodes" => items = Nodes,
         pc' \in [Callers -> Phases], todo' \in [Callers -> SUBSET (Nodes \cup Executors)],
         UNCHANGED <<state, opened, inits, up, producing, owner, begun, joining, starts>>,
         blocked' \subseteq blocked, asked' \subseteq Sources
  PROVE  IInv'
<1>1. TypeOK /\ SourcesLast /\ Items(k) /\ Locals(k) /\ Inventory(k) /\ Threads(k) /\ StateOfPhase(k)
  BY DEF IInv
<1>2. TypeOK'
  BY <1>1 DEF TypeOK
<1>3. state = "Stopping" /\ ~joining[k] /\ opened = TRUE
  BY <1>1 DEF StateOfPhase, StopPhases, Items, JoinPhases, Inventory, TypeOK, WholePhases
<1>4. Initialised(k) = Nodes /\ Started(k) = Nodes /\ Unjoined(k) = Executors
  <2>1. pc[k] \notin {"idle", "init", "rollNodes", "rollExecutors", "rollDeinit", "deinit", "rollEdges",
                      "nodes", "stopNodes", "executors", "stopExecutors"}
    BY DEF WholePhases
  <2> QED BY <2>1 DEF Initialised, Started, Unjoined, JoinPhases
<1>5. Initialised(k)' = Nodes /\ Started(k)' = Nodes /\ Unjoined(k)' = Executors
  <2>1. CASE pc'[k] = "stopNodes"
    BY <2>1 DEF Initialised, Started, Unjoined, WholePhases, JoinPhases
  <2>2. CASE pc'[k] \in WholePhases
    <3>1. pc'[k] \notin {"idle", "init", "rollNodes", "rollExecutors", "rollDeinit", "deinit", "rollEdges",
                         "nodes", "stopNodes", "executors", "stopExecutors"}
      BY <2>2 DEF WholePhases
    <3> QED BY <3>1, <2>2 DEF Initialised, Started, Unjoined, JoinPhases
  <2> QED BY <2>1, <2>2 DEF WholePhases
<1>6. StateOfPhase(k)' /\ Items(k)' /\ Locals(k)' /\ SourcesLast'
  BY <1>1, <1>3 DEF StateOfPhase, Items, Locals, NodePhases, ExecutorPhases, StartPhases, RollbackPhases,
       StopPhases, SourcesLast, JoinPhases, WholePhases
<1>7. Inventory(k)' /\ Threads(k)'
  BY <1>1, <1>3, <1>4, <1>5 DEF Inventory, Threads, Halted, WholePhases
<1> QED BY <1>2, <1>6, <1>7 DEF IInv

LEMMA StopProductionOk == ASSUME NEW k, Callers = {k}, IInv, StopProduction(k) PROVE IInv'
<1>1. TypeOK /\ Items(k)
  BY DEF IInv
<1>2. PICK n \in Nodes :
        /\ AtItem(k, {"stopProduction"}, n)
        /\ asked' = IF n \in Sources THEN asked \cup {n} ELSE asked
        /\ Done(k, n)
        /\ UNCHANGED <<state, opened, inits, up, producing, owner, blocked, begun, joining, starts>>
  BY DEF StopProduction
<1>3. pc[k] = "stopProduction" /\ todo[k] \subseteq Nodes
  BY <1>1, <1>2 DEF AtItem, Items, NodePhases
<1>4. /\ pc' \in [Callers -> Phases] /\ todo' \in [Callers -> SUBSET (Nodes \cup Executors)]
      /\ pc'[k] = "stopProduction" /\ todo'[k] = todo[k] \ {n}
  BY <1>1, <1>2, <1>3, DoneStep
<1>5. asked' \subseteq Sources /\ todo[k] \ {n} \in SUBSET Nodes
  BY <1>1, <1>2, <1>3 DEF TypeOK
<1> QED BY <1>2, <1>3, <1>4, <1>5, WholeStepOk DEF WholePhases

LEMMA InterruptOk == ASSUME NEW k, Callers = {k}, IInv, InterruptBlockedSenders(k) PROVE IInv'
<1>1. TypeOK
  BY DEF IInv
<1>2. pc[k] = "interrupt" /\ blocked' = {} /\ UNCHANGED <<state, opened, nodes, owner, begun, joining, starts>>
  BY DEF InterruptBlockedSenders, LoopOver
<1>3. /\ pc' \in [Callers -> Phases] /\ todo' \in [Callers -> SUBSET (Nodes \cup Executors)]
      /\ pc'[k] = "quiesce" /\ todo'[k] = Nodes
  BY <1>1, EnterStep DEF InterruptBlockedSenders, Phases, StopPhases
<1>4. asked' \subseteq Sources /\ UNCHANGED <<inits, up, producing>>
  BY <1>1, <1>2 DEF TypeOK, nodes
<1> QED BY <1>2, <1>3, <1>4, WholeStepOk DEF WholePhases

LEMMA WaitForQuiescenceOk == ASSUME NEW k, Callers = {k}, IInv, WaitForQuiescence(k) PROVE IInv'
<1>1. TypeOK /\ Items(k)
  BY DEF IInv
<1>2. /\ pc[k] = "quiesce" /\ todo[k] \in SUBSET Nodes
      /\ UNCHANGED <<state, opened, nodes, owner, blocked, begun, joining, starts>>
  BY <1>1 DEF WaitForQuiescence, Items, NodePhases
<1>3. \/ Enter(k, "flush", todo[k])
      \/ todo[k] = {} /\ Enter(k, "stopNodes", Nodes)
      \/ Enter(k, "stopNodes", Nodes)
  BY DEF WaitForQuiescence
<1>4. asked' \subseteq Sources /\ UNCHANGED <<inits, up, producing>>
  BY <1>1, <1>2 DEF TypeOK, nodes
<1>5. CASE Enter(k, "flush", todo[k])
  <2>1. /\ pc' \in [Callers -> Phases] /\ todo' \in [Callers -> SUBSET (Nodes \cup Executors)]
        /\ pc'[k] = "flush" /\ todo'[k] = todo[k]
    BY <1>1, <1>2, <1>5, EnterStep DEF Phases, StopPhases
  <2> QED BY <1>2, <1>4, <2>1, WholeStepOk DEF WholePhases
<1>6. CASE Enter(k, "stopNodes", Nodes)
  <2>1. /\ pc' \in [Callers -> Phases] /\ todo' \in [Callers -> SUBSET (Nodes \cup Executors)]
        /\ pc'[k] = "stopNodes" /\ todo'[k] = Nodes
    BY <1>1, <1>6, EnterStep DEF Phases, StopPhases
  <2> QED BY <1>2, <1>4, <2>1, WholeStepOk DEF WholePhases
<1> QED BY <1>3, <1>5, <1>6

LEMMA FlushNodeOk == ASSUME NEW k, Callers = {k}, IInv, FlushNode(k) PROVE IInv'
<1>1. TypeOK /\ Items(k)
  BY DEF IInv
<1>2. /\ pc[k] = "flush" /\ todo[k] \in SUBSET Nodes
      /\ UNCHANGED <<state, opened, nodes, owner, blocked, begun, joining, starts>>
  BY <1>1 DEF FlushNode, AtItem, Items, NodePhases
<1>3. (\E n \in Nodes : Enter(k, "quiesce", todo[k] \ {n})) \/ Enter(k, "stopNodes", Nodes)
  BY DEF FlushNode
<1>4. asked' \subseteq Sources /\ UNCHANGED <<inits, up, producing>>
  BY <1>1, <1>2 DEF TypeOK, nodes
<1>5. ASSUME NEW n \in Nodes, Enter(k, "quiesce", todo[k] \ {n}) PROVE IInv'
  <2>1. todo[k] \ {n} \in SUBSET Nodes
    BY <1>2
  <2>2. /\ pc' \in [Callers -> Phases] /\ todo' \in [Callers -> SUBSET (Nodes \cup Executors)]
        /\ pc'[k] = "quiesce" /\ todo'[k] = todo[k] \ {n}
    BY <1>1, <1>5, <2>1, EnterStep DEF Phases, StopPhases
  <2> QED BY <1>2, <1>4, <2>1, <2>2, WholeStepOk DEF WholePhases
<1>6. CASE Enter(k, "stopNodes", Nodes)
  <2>1. /\ pc' \in [Callers -> Phases] /\ todo' \in [Callers -> SUBSET (Nodes \cup Executors)]
        /\ pc'[k] = "stopNodes" /\ todo'[k] = Nodes
    BY <1>1, <1>6, EnterStep DEF Phases, StopPhases
  <2> QED BY <1>2, <1>4, <2>1, WholeStepOk DEF WholePhases
<1> QED BY <1>3, <1>5, <1>6

LEMMA AskNodeOk == ASSUME NEW k, Callers = {k}, IInv, AskNode(k) PROVE IInv'
<1>1. TypeOK /\ SourcesLast /\ Items(k) /\ Locals(k) /\ Inventory(k) /\ Threads(k) /\ StateOfPhase(k)
  BY DEF IInv
<1>2. /\ asked' \subseteq Sources
      /\ UNCHANGED <<state, opened, inits, up, producing, owner, blocked, pc, todo, begun, joining, starts>>
  BY <1>1 DEF AskNode, TypeOK, callers
<1>3. TypeOK' /\ SourcesLast'
  BY <1>1, <1>2 DEF TypeOK, SourcesLast
<1>4. StateOfPhase(k)' /\ Items(k)' /\ Locals(k)'
  BY <1>1, <1>2 DEF StateOfPhase, Items, Locals
<1>5. Initialised(k)' = Initialised(k) /\ Started(k)' = Started(k) /\ Unjoined(k)' = Unjoined(k)
  BY <1>2 DEF Initialised, Started, Unjoined
<1>6. Inventory(k)' /\ Threads(k)'
  BY <1>1, <1>2, <1>5 DEF Inventory, Threads, Halted
<1> QED BY <1>3, <1>4, <1>6 DEF IInv

LEMMA StopNodeOk == ASSUME NEW k, Callers = {k}, IInv, StopNode(k) PROVE IInv'
<1>1. TypeOK /\ SourcesLast /\ Items(k) /\ Locals(k) /\ Inventory(k) /\ Threads(k) /\ StateOfPhase(k)
  BY DEF IInv
<1>2. PICK n \in Nodes :
        /\ AtItem(k, {"stopNodes", "rollNodes"}, n)
        /\ n \in Sources => n \notin producing
        /\ up' = up \ {n}
        /\ Done(k, n)
        /\ UNCHANGED <<state, opened, inits, asked, producing, owner, blocked, begun, joining, starts>>
  BY DEF StopNode
<1>3. /\ pc[k] \in {"stopNodes", "rollNodes"} /\ n \in todo[k] /\ todo[k] \subseteq Nodes /\ ~joining[k]
      /\ up = todo[k]
  <2>1. pc[k] \in {"stopNodes", "rollNodes"} /\ n \in todo[k]
    BY <1>2 DEF AtItem
  <2>2. Started(k) = todo[k]
    BY <2>1 DEF Started, WholePhases
  <2> QED BY <1>1, <2>1, <2>2 DEF Items, NodePhases, JoinPhases, Inventory
<1>4. /\ pc' \in [Callers -> Phases] /\ todo' \in [Callers -> SUBSET (Nodes \cup Executors)]
      /\ pc'[k] = pc[k] /\ todo'[k] = todo[k] \ {n}
  BY <1>1, <1>2, DoneStep
<1>5. TypeOK'
  BY <1>1, <1>2, <1>4 DEF TypeOK
<1>6. SourcesLast'
  <2>1. CASE n \in Sources
    BY <1>1, <1>2, <2>1 DEF SourcesLast
  <2>2. CASE n \notin Sources
    <3>1. ASSUME NEW s \in Sources PROVE s \notin todo[k]
      <4>1. ~Comes(pc[k], n, s)
        BY <1>3, <2>2, SourcesComeLast
      <4> QED BY <1>2, <2>2, <4>1 DEF AtItem
    <3> QED BY <1>2, <1>3, <3>1 DEF SourcesLast
  <2> QED BY <2>1, <2>2
<1>7. StateOfPhase(k)' /\ Items(k)' /\ Locals(k)'
  BY <1>1, <1>2, <1>3, <1>4 DEF StateOfPhase, Items, Locals, NodePhases, ExecutorPhases, StartPhases,
       RollbackPhases, StopPhases, JoinPhases
<1>8. /\ Initialised(k)' = Initialised(k) /\ Started(k)' = todo[k] \ {n} /\ Unjoined(k)' = Unjoined(k)
      /\ pc'[k] \notin {"stopExecutors", "deinit", "idle"}
  <2>1. CASE pc[k] = "stopNodes"
    BY <1>2, <1>4, <2>1 DEF Initialised, Started, Unjoined, WholePhases, JoinPhases
  <2>2. CASE pc[k] = "rollNodes"
    BY <1>2, <1>4, <2>2 DEF Initialised, Started, Unjoined, WholePhases, JoinPhases
  <2> QED BY <1>3, <2>1, <2>2
<1>9. Inventory(k)'
  BY <1>1, <1>2, <1>3, <1>4, <1>8 DEF Inventory, Halted
<1>10. Threads(k)'
  BY <1>1, <1>2, <1>8 DEF Threads, TypeOK
<1> QED BY <1>5, <1>6, <1>7, <1>9, <1>10 DEF IInv

LEMMA CloseEdgesOk == ASSUME NEW k, Callers = {k}, IInv, CloseEdges(k) PROVE IInv'
<1>1. TypeOK /\ SourcesLast /\ Items(k) /\ Locals(k) /\ Inventory(k) /\ Threads(k) /\ StateOfPhase(k)
  BY DEF IInv
<1>2. /\ ~joining[k] /\ opened' = FALSE
      /\ UNCHANGED <<inits, up, asked, producing, owner, blocked, begun, joining, starts>>
  BY <1>1 DEF CloseEdges, LoopOver, Items, JoinPhases, nodes
<1>3. CASE pc[k] = "closeEdges"
  <2>1. Enter(k, "stopExecutors", Executors) /\ state' = state /\ state = "Stopping"
    BY <1>1, <1>3 DEF CloseEdges, StateOfPhase, StopPhases
  <2>2. /\ pc' \in [Callers -> Phases] /\ todo' \in [Callers -> SUBSET (Nodes \cup Executors)]
        /\ pc'[k] = "stopExecutors" /\ todo'[k] = Executors
    BY <1>1, <2>1, EnterStep DEF Phases, StopPhases
  <2>3. TypeOK'
    BY <1>1, <1>2, <2>1, <2>2 DEF TypeOK
  <2>4. Initialised(k) = Nodes /\ Started(k) = {} /\ Unjoined(k) = Executors
    BY <1>3 DEF Initialised, Started, Unjoined, WholePhases, JoinPhases
  <2>5. Initialised(k)' = Nodes /\ Started(k)' = {} /\ Unjoined(k)' = Executors
    BY <2>2 DEF Initialised, Started, Unjoined, WholePhases, JoinPhases
  <2>6. StateOfPhase(k)' /\ Items(k)' /\ Locals(k)' /\ SourcesLast'
    BY <1>1, <1>2, <2>1, <2>2 DEF StateOfPhase, Items, Locals, NodePhases, ExecutorPhases, StartPhases,
         RollbackPhases, StopPhases, SourcesLast, JoinPhases
  <2>7. Inventory(k)' /\ Threads(k)'
    BY <1>1, <1>2, <2>2, <2>4, <2>5 DEF Inventory, Threads, Halted
  <2> QED BY <2>3, <2>6, <2>7 DEF IInv
<1>4. CASE pc[k] = "rollEdges"
  <2>1. Enter(k, "idle", {}) /\ state' = "Stopped"
    BY <1>4 DEF CloseEdges
  <2>2. /\ pc' \in [Callers -> Phases] /\ todo' \in [Callers -> SUBSET (Nodes \cup Executors)]
        /\ pc'[k] = "idle" /\ todo'[k] = {}
    BY <1>1, <2>1, EnterStep DEF Phases
  <2>3. TypeOK'
    BY <1>1, <1>2, <2>1, <2>2 DEF TypeOK
  <2>4. Initialised(k) = {} /\ Started(k) = {} /\ Unjoined(k) = {}
    BY <1>4 DEF Initialised, Started, Unjoined, WholePhases, JoinPhases
  <2>5. Initialised(k)' = {} /\ Started(k)' = {} /\ Unjoined(k)' = {}
    BY <2>1, <2>2 DEF Initialised, Started, Unjoined, WholePhases, JoinPhases
  <2>6. StateOfPhase(k)' /\ Items(k)' /\ Locals(k)' /\ SourcesLast'
    BY <1>1, <1>2, <2>1, <2>2 DEF StateOfPhase, Items, Locals, NodePhases, ExecutorPhases, StartPhases,
         RollbackPhases, StopPhases, SourcesLast, JoinPhases
  <2>7. Inventory(k)' /\ Threads(k)'
    BY <1>1, <1>2, <2>1, <2>2, <2>4, <2>5 DEF Inventory, Threads, Halted
  <2> QED BY <2>3, <2>6, <2>7 DEF IInv
<1> QED BY <1>3, <1>4 DEF CloseEdges, LoopOver

\* Halting the io_context of x: the graph no longer runs x, but its workers are still to be joined.
LEMMA HaltExecutorOk == ASSUME NEW k, Callers = {k}, IInv, HaltExecutor(k) PROVE IInv'
<1>1. TypeOK /\ SourcesLast /\ Items(k) /\ Locals(k) /\ Inventory(k) /\ Threads(k) /\ StateOfPhase(k)
  BY DEF IInv
<1>2. PICK x \in Executors :
        /\ AtItem(k, {"stopExecutors", "rollExecutors"}, x) /\ ~joining[k]
        /\ \/ /\ owner[x] # "none"
              /\ owner' = [owner EXCEPT ![x] = "none"]
              /\ joining' = [joining EXCEPT ![k] = TRUE]
              /\ UNCHANGED <<pc, todo>>
           \/ owner[x] = "none"
        /\ UNCHANGED <<state, opened, nodes, blocked, begun, starts>>
  BY DEF HaltExecutor
<1>3. /\ pc[k] \in JoinPhases /\ x \in todo[k] /\ todo[k] \subseteq Executors
      /\ \A y \in todo[k] \ {x} : Comes(pc[k], x, y)
  BY <1>1, <1>2 DEF AtItem, Items, ExecutorPhases, JoinPhases
<1>4. Unjoined(k) = todo[k]
  <2>1. CASE pc[k] = "stopExecutors"
    BY <2>1 DEF Unjoined, JoinPhases, WholePhases
  <2>2. CASE pc[k] = "rollExecutors"
    BY <2>2 DEF Unjoined, JoinPhases, WholePhases
  <2> QED BY <1>3, <2>1, <2>2 DEF JoinPhases
<1>5. owner[x] = "graph"
  BY <1>1, <1>2, <1>3, <1>4 DEF Inventory, Halted
<1>6. /\ owner' = [owner EXCEPT ![x] = "none"] /\ joining'[k] = TRUE /\ joining' \in [Callers -> BOOLEAN]
      /\ UNCHANGED <<state, opened, inits, up, asked, producing, blocked, pc, todo, begun, starts>>
  BY <1>1, <1>2, <1>5 DEF TypeOK, nodes
<1>7. TypeOK' /\ SourcesLast'
  BY <1>1, <1>6 DEF TypeOK, SourcesLast
<1>8. StateOfPhase(k)' /\ Items(k)' /\ Locals(k)'
  BY <1>1, <1>3, <1>6 DEF StateOfPhase, Items, Locals
<1>9. Initialised(k)' = Initialised(k) /\ Started(k)' = Started(k) /\ Unjoined(k)' = Unjoined(k)
  BY <1>6 DEF Initialised, Started, Unjoined
<1>10. \A y \in Executors : owner'[y] = "graph" <=> y \in Unjoined(k)' /\ ~Halted(k, y)'
  <2>1. owner'[x] # "graph" /\ Halted(k, x)'
    BY <1>1, <1>3, <1>6 DEF Halted, TypeOK
  <2>2. ASSUME NEW y \in Executors, y # x
        PROVE  owner'[y] = "graph" <=> y \in Unjoined(k)' /\ ~Halted(k, y)'
    <3>1. owner'[y] = "graph" <=> y \in todo[k]
      BY <1>1, <1>2, <1>4, <1>6, <2>2 DEF Inventory, Halted, TypeOK
    <3>2. y \in todo[k] => ~Comes(pc[k], y, x)
      BY <1>3, <2>2, OneComesFirst
    <3>3. y \in todo[k] => ~Halted(k, y)'
      BY <1>3, <1>6, <2>2, <3>2 DEF Halted
    <3> QED BY <1>4, <1>9, <3>1, <3>3
  <2> QED BY <2>1, <2>2
<1>11. Inventory(k)' /\ Threads(k)'
  BY <1>1, <1>6, <1>9, <1>10 DEF Inventory, Threads
<1> QED BY <1>7, <1>8, <1>11 DEF IInv

\* Joining them: no worker of x is left inside a node.
LEMMA JoinWorkersOk == ASSUME NEW k, Callers = {k}, IInv, JoinWorkers(k) PROVE IInv'
<1>1. TypeOK /\ SourcesLast /\ Items(k) /\ Locals(k) /\ Inventory(k) /\ Threads(k) /\ StateOfPhase(k)
  BY DEF IInv
<1>2. PICK x \in Executors :
        /\ AtItem(k, {"stopExecutors", "rollExecutors"}, x) /\ joining[k]
        /\ Stuck(x) = {}
        /\ joining' = [joining EXCEPT ![k] = FALSE]
        /\ Done(k, x)
        /\ UNCHANGED <<state, opened, nodes, owner, blocked, begun, starts>>
  BY DEF JoinWorkers
<1>3. /\ pc[k] \in JoinPhases /\ x \in todo[k] /\ todo[k] \subseteq Executors
      /\ \A y \in todo[k] \ {x} : Comes(pc[k], x, y)
  BY <1>1, <1>2 DEF AtItem, Items, ExecutorPhases, JoinPhases
<1>4. /\ pc' \in [Callers -> Phases] /\ todo' \in [Callers -> SUBSET (Nodes \cup Executors)]
      /\ pc'[k] = pc[k] /\ todo'[k] = todo[k] \ {x}
      /\ joining' \in [Callers -> BOOLEAN] /\ ~joining'[k]
      /\ UNCHANGED <<state, opened, inits, up, asked, producing, owner, blocked, begun, starts>>
  BY <1>1, <1>2, DoneStep DEF TypeOK, nodes
<1>5. TypeOK' /\ SourcesLast'
  BY <1>1, <1>4 DEF TypeOK, SourcesLast
<1>6. StateOfPhase(k)' /\ Items(k)' /\ Locals(k)'
  BY <1>1, <1>3, <1>4 DEF StateOfPhase, Items, Locals, NodePhases, ExecutorPhases, StartPhases,
       RollbackPhases, StopPhases, JoinPhases
<1>7. /\ Unjoined(k) = todo[k] /\ Unjoined(k)' = todo[k] \ {x}
      /\ Initialised(k)' = Initialised(k) /\ Started(k)' = Started(k)
  <2>1. CASE pc[k] = "stopExecutors"
    BY <1>4, <2>1 DEF Initialised, Started, Unjoined, JoinPhases, WholePhases
  <2>2. CASE pc[k] = "rollExecutors"
    BY <1>4, <2>2 DEF Initialised, Started, Unjoined, JoinPhases, WholePhases
  <2> QED BY <1>3, <2>1, <2>2 DEF JoinPhases
<1>8. \A y \in Executors : owner'[y] = "graph" <=> y \in Unjoined(k)' /\ ~Halted(k, y)'
  <2>1. owner[x] # "graph"
    BY <1>1, <1>2, <1>3 DEF Inventory, Halted
  <2>2. ASSUME NEW y \in todo[k], y # x PROVE ~Halted(k, y)
    <3>1. ~Comes(pc[k], y, x)
      BY <1>3, <2>2, OneComesFirst
    <3> QED BY <1>3, <2>2, <3>1 DEF Halted
  <2>3. \A y \in Executors : owner[y] = "graph" <=> y \in todo[k] \ {x}
    BY <1>1, <1>3, <1>7, <2>1, <2>2 DEF Inventory
  <2> QED BY <1>4, <1>7, <2>3 DEF Halted
<1>9. Inventory(k)'
  BY <1>1, <1>4, <1>7, <1>8 DEF Inventory
<1>10. Threads(k)'
  <2>1. \A e \in blocked : e[1] \notin Sources => ExecutorOf[e[1]] # x
    BY <1>2 DEF Stuck
  <2> QED BY <1>1, <1>4, <1>7, <2>1 DEF Threads
<1> QED BY <1>5, <1>6, <1>9, <1>10 DEF IInv

LEMMA DeinitNodeOk == ASSUME NEW k, Callers = {k}, IInv, DeinitNode(k) PROVE IInv'
<1>1. TypeOK /\ SourcesLast /\ Items(k) /\ Locals(k) /\ Inventory(k) /\ Threads(k) /\ StateOfPhase(k)
  BY DEF IInv
<1>2. PICK n \in Nodes :
        /\ AtItem(k, {"deinit", "rollDeinit"}, n)
        /\ inits' = [inits EXCEPT ![n] = @ - 1]
        /\ Done(k, n)
        /\ UNCHANGED <<state, opened, up, asked, producing, owner, blocked, begun, joining, starts>>
  BY DEF DeinitNode
<1>3. pc[k] \in {"deinit", "rollDeinit"} /\ n \in todo[k] /\ todo[k] \subseteq Nodes /\ ~joining[k]
  BY <1>1, <1>2 DEF AtItem, Items, NodePhases, JoinPhases
<1>4. /\ pc' \in [Callers -> Phases] /\ todo' \in [Callers -> SUBSET (Nodes \cup Executors)]
      /\ pc'[k] = pc[k] /\ todo'[k] = todo[k] \ {n}
  BY <1>1, <1>2, DoneStep
<1>5. /\ Initialised(k) = todo[k] /\ Initialised(k)' = todo[k] \ {n}
      /\ Started(k)' = Started(k) /\ Unjoined(k)' = Unjoined(k)
  <2>1. CASE pc[k] = "deinit"
    BY <1>4, <2>1 DEF Initialised, Started, Unjoined, WholePhases, JoinPhases
  <2>2. CASE pc[k] = "rollDeinit"
    BY <1>4, <2>2 DEF Initialised, Started, Unjoined, WholePhases, JoinPhases
  <2> QED BY <1>3, <2>1, <2>2
<1>6. inits' = [m \in Nodes |-> IF m \in Initialised(k)' THEN 1 ELSE 0]
  <2>1. inits = [m \in Nodes |-> IF m \in todo[k] THEN 1 ELSE 0]
    BY <1>1, <1>5 DEF Inventory
  <2> QED BY <1>2, <1>3, <1>5, <2>1
<1>7. TypeOK' /\ SourcesLast'
  <2>1. inits' \in [Nodes -> Nat]
    BY <1>6
  <2> QED BY <1>1, <1>2, <1>4, <2>1 DEF TypeOK, SourcesLast
<1>8. StateOfPhase(k)' /\ Items(k)' /\ Locals(k)'
  BY <1>1, <1>2, <1>3, <1>4 DEF StateOfPhase, Items, Locals, NodePhases, ExecutorPhases, StartPhases,
       RollbackPhases, StopPhases, JoinPhases
<1>9. Inventory(k)' /\ Threads(k)'
  BY <1>1, <1>2, <1>3, <1>4, <1>5, <1>6 DEF Inventory, Threads, Halted
<1> QED BY <1>7, <1>8, <1>9 DEF IInv

LEMMA StoppedOk == ASSUME NEW k, Callers = {k}, IInv, Stopped(k) PROVE IInv'
<1>1. TypeOK /\ SourcesLast /\ Items(k) /\ Locals(k) /\ Inventory(k) /\ Threads(k) /\ StateOfPhase(k)
  BY DEF IInv
<1>2. pc[k] = "deinit" /\ todo[k] = {} /\ state' = "Stopped" /\ ~joining[k] /\ opened = FALSE
  BY <1>1 DEF Stopped, LoopOver, Items, JoinPhases, Inventory, TypeOK
<1>3. /\ pc' \in [Callers -> Phases] /\ todo' \in [Callers -> SUBSET (Nodes \cup Executors)]
      /\ pc'[k] = "idle" /\ todo'[k] = {}
      /\ UNCHANGED <<opened, inits, up, asked, producing, owner, blocked, begun, joining, starts>>
  BY <1>1, EnterStep DEF Stopped, Phases, nodes
<1>4. TypeOK'
  BY <1>1, <1>2, <1>3 DEF TypeOK
<1>5. Initialised(k) = {} /\ Started(k) = {} /\ Unjoined(k) = {}
  BY <1>2 DEF Initialised, Started, Unjoined, WholePhases, JoinPhases
<1>6. Initialised(k)' = {} /\ Started(k)' = {} /\ Unjoined(k)' = {}
  BY <1>2, <1>3 DEF Initialised, Started, Unjoined, WholePhases, JoinPhases
<1>7. StateOfPhase(k)' /\ Items(k)' /\ Locals(k)' /\ SourcesLast'
  BY <1>1, <1>2, <1>3 DEF StateOfPhase, Items, Locals, NodePhases, ExecutorPhases, StartPhases,
       RollbackPhases, StopPhases, SourcesLast, JoinPhases
<1>8. Inventory(k)' /\ Threads(k)'
  BY <1>1, <1>2, <1>3, <1>5, <1>6 DEF Inventory, Threads, Halted
<1> QED BY <1>4, <1>7, <1>8 DEF IInv

-----------------------------------------------------------------------------
(* From loop to loop                                                       *)

\* A loop ends, and the next begins, with the same things there: only the account changes.
LEMMA NextLoopStep ==
  ASSUME NEW k, Callers = {k}, IInv, NEW phase \in Phases \ {"idle", "init"},
         NEW items \in SUBSET (Nodes \cup Executors),
         Enter(k, phase, items), ~joining[k],
         UNCHANGED <<state, opened, nodes, owner, blocked, begun, joining, starts>>,
         StateOfPhase(k)', Items(k)', Locals(k)',
         Initialised(k)' = Initialised(k), Started(k)' = Started(k), Unjoined(k)' = Unjoined(k),
         pc[k] # "idle", phase \in {"stopExecutors", "deinit"} <=> pc[k] \in {"stopExecutors", "deinit"}
  PROVE  IInv'
<1>1. TypeOK /\ SourcesLast /\ Inventory(k) /\ Threads(k)
  BY DEF IInv
<1>2. /\ pc' \in [Callers -> Phases] /\ todo' \in [Callers -> SUBSET (Nodes \cup Executors)]
      /\ pc'[k] = phase /\ todo'[k] = items
      /\ UNCHANGED <<state, opened, inits, up, asked, producing, owner, blocked, begun, joining, starts>>
  BY <1>1, EnterStep DEF nodes
<1>3. TypeOK' /\ SourcesLast'
  BY <1>1, <1>2 DEF TypeOK, SourcesLast
<1>4. Inventory(k)' /\ Threads(k)'
  BY <1>1, <1>2 DEF Inventory, Threads, Halted
<1> QED BY <1>3, <1>4 DEF IInv

LEMMA NextLoopOk == ASSUME NEW k, Callers = {k}, IInv, NextLoop(k) PROVE IInv'
<1>1. TypeOK /\ SourcesLast /\ Items(k) /\ Locals(k) /\ Inventory(k) /\ Threads(k) /\ StateOfPhase(k)
  BY DEF IInv
<1>2. UNCHANGED <<state, opened, nodes, owner, blocked, begun, joining, starts>>
  BY DEF NextLoop
<1>3. begun[k].inits \in SUBSET Nodes /\ begun[k].executors \in SUBSET Executors
  BY <1>1 DEF TypeOK
<1>4. ASSUME NEW phase \in Phases \ {"idle", "init"}, NEW items \in SUBSET (Nodes \cup Executors),
             Enter(k, phase, items)
      PROVE  /\ pc'[k] = phase /\ todo'[k] = items /\ state' = state
             /\ begun'[k] = begun[k] /\ joining'[k] = joining[k]
  BY <1>1, <1>2, <1>4, EnterStep
<1>5. CASE LoopOver(k, "init") /\ Enter(k, "executors", Executors)
  <2>1. "executors" \in Phases \ {"idle", "init"} /\ Executors \in SUBSET (Nodes \cup Executors)
    BY DEF Phases, StartPhases
  <2>2. pc[k] = "init" /\ todo[k] = {} /\ ~joining[k]
    BY <1>1, <1>5 DEF LoopOver, Items, JoinPhases
  <2>3. /\ pc'[k] = "executors" /\ todo'[k] = Executors /\ state' = state
        /\ begun'[k] = begun[k] /\ joining'[k] = joining[k]
    BY <1>4, <1>5, <2>1
  <2>4. StateOfPhase(k)' /\ Items(k)' /\ Locals(k)'
    BY <1>1, <2>2, <2>3 DEF StateOfPhase, Items, Locals, NodePhases, ExecutorPhases, StartPhases,
         RollbackPhases, StopPhases, JoinPhases
  <2>5. Initialised(k)' = Initialised(k) /\ Started(k)' = Started(k) /\ Unjoined(k)' = Unjoined(k)
    BY <2>2, <2>3 DEF Initialised, Started, Unjoined, WholePhases, JoinPhases
  <2> QED BY <1>2, <1>5, <2>1, <2>2, <2>4, <2>5, NextLoopStep
<1>6. CASE LoopOver(k, "executors") /\ Enter(k, "nodes", Nodes)
  <2>1. "nodes" \in Phases \ {"idle", "init"} /\ Nodes \in SUBSET (Nodes \cup Executors)
    BY DEF Phases, StartPhases
  <2>2. pc[k] = "executors" /\ todo[k] = {} /\ ~joining[k]
    BY <1>1, <1>6 DEF LoopOver, Items, JoinPhases
  <2>3. /\ pc'[k] = "nodes" /\ todo'[k] = Nodes /\ state' = state
        /\ begun'[k] = begun[k] /\ joining'[k] = joining[k]
    BY <1>4, <1>6, <2>1
  <2>4. StateOfPhase(k)' /\ Items(k)' /\ Locals(k)'
    BY <1>1, <2>2, <2>3 DEF StateOfPhase, Items, Locals, NodePhases, ExecutorPhases, StartPhases,
         RollbackPhases, StopPhases, JoinPhases
  <2>5. Initialised(k)' = Initialised(k) /\ Started(k)' = Started(k) /\ Unjoined(k)' = Unjoined(k)
    BY <2>2, <2>3 DEF Initialised, Started, Unjoined, WholePhases, JoinPhases
  <2> QED BY <1>2, <1>6, <2>1, <2>2, <2>4, <2>5, NextLoopStep
<1>7. CASE LoopOver(k, "rollNodes") /\ Enter(k, "rollExecutors", begun[k].executors)
  <2>1. /\ "rollExecutors" \in Phases \ {"idle", "init"}
        /\ begun[k].executors \in SUBSET (Nodes \cup Executors)
    BY <1>3 DEF Phases, RollbackPhases
  <2>2. pc[k] = "rollNodes" /\ todo[k] = {} /\ ~joining[k]
    BY <1>1, <1>7 DEF LoopOver, Items, JoinPhases
  <2>3. /\ pc'[k] = "rollExecutors" /\ todo'[k] = begun[k].executors /\ state' = state
        /\ begun'[k] = begun[k] /\ joining'[k] = joining[k]
    BY <1>4, <1>7, <2>1
  <2>4. StateOfPhase(k)' /\ Items(k)' /\ Locals(k)'
    BY <1>1, <1>3, <2>2, <2>3 DEF StateOfPhase, Items, Locals, NodePhases, ExecutorPhases, StartPhases,
         RollbackPhases, StopPhases, JoinPhases
  <2>5. Initialised(k)' = Initialised(k) /\ Started(k)' = Started(k) /\ Unjoined(k)' = Unjoined(k)
    BY <2>2, <2>3 DEF Initialised, Started, Unjoined, WholePhases, JoinPhases
  <2> QED BY <1>2, <1>7, <2>1, <2>2, <2>4, <2>5, NextLoopStep
<1>8. CASE LoopOver(k, "rollExecutors") /\ Enter(k, "rollDeinit", begun[k].inits)
  <2>1. "rollDeinit" \in Phases \ {"idle", "init"} /\ begun[k].inits \in SUBSET (Nodes \cup Executors)
    BY <1>3 DEF Phases, RollbackPhases
  <2>2. pc[k] = "rollExecutors" /\ todo[k] = {} /\ ~joining[k]
    BY <1>1, <1>8 DEF LoopOver, Items
  <2>3. /\ pc'[k] = "rollDeinit" /\ todo'[k] = begun[k].inits /\ state' = state
        /\ begun'[k] = begun[k] /\ joining'[k] = joining[k]
    BY <1>4, <1>8, <2>1
  <2>4. StateOfPhase(k)' /\ Items(k)' /\ Locals(k)'
    BY <1>1, <1>3, <2>2, <2>3 DEF StateOfPhase, Items, Locals, NodePhases, ExecutorPhases, StartPhases,
         RollbackPhases, StopPhases, JoinPhases
  <2>5. Initialised(k)' = Initialised(k) /\ Started(k)' = Started(k) /\ Unjoined(k)' = Unjoined(k)
    BY <2>2, <2>3 DEF Initialised, Started, Unjoined, WholePhases, JoinPhases
  <2> QED BY <1>2, <1>8, <2>1, <2>2, <2>4, <2>5, NextLoopStep
<1>9. CASE LoopOver(k, "rollDeinit") /\ Enter(k, "rollEdges", {})
  <2>1. "rollEdges" \in Phases \ {"idle", "init"} /\ {} \in SUBSET (Nodes \cup Executors)
    BY DEF Phases, RollbackPhases
  <2>2. pc[k] = "rollDeinit" /\ todo[k] = {} /\ ~joining[k]
    BY <1>1, <1>9 DEF LoopOver, Items, JoinPhases
  <2>3. /\ pc'[k] = "rollEdges" /\ todo'[k] = {} /\ state' = state
        /\ begun'[k] = begun[k] /\ joining'[k] = joining[k]
    BY <1>4, <1>9, <2>1
  <2>4. StateOfPhase(k)' /\ Items(k)' /\ Locals(k)'
    BY <1>1, <2>2, <2>3 DEF StateOfPhase, Items, Locals, NodePhases, ExecutorPhases, StartPhases,
         RollbackPhases, StopPhases, JoinPhases
  <2>5. Initialised(k)' = Initialised(k) /\ Started(k)' = Started(k) /\ Unjoined(k)' = Unjoined(k)
    BY <2>2, <2>3 DEF Initialised, Started, Unjoined, WholePhases, JoinPhases
  <2> QED BY <1>2, <1>9, <2>1, <2>2, <2>4, <2>5, NextLoopStep
<1>10. CASE LoopOver(k, "stopProduction") /\ Enter(k, "interrupt", {})
  <2>1. pc[k] = "stopProduction"
    BY <1>10 DEF LoopOver
  <2>2. /\ pc' \in [Callers -> Phases] /\ todo' \in [Callers -> SUBSET (Nodes \cup Executors)]
        /\ pc'[k] = "interrupt" /\ todo'[k] = {}
    BY <1>1, <1>10, EnterStep DEF Phases, StopPhases
  <2>3. asked' \subseteq Sources /\ UNCHANGED <<inits, up, producing>>
    BY <1>1, <1>2 DEF TypeOK, nodes
  <2> QED BY <1>2, <2>1, <2>2, <2>3, WholeStepOk DEF WholePhases
<1>11. CASE LoopOver(k, "stopNodes") /\ Enter(k, "closeEdges", {})
  <2>1. "closeEdges" \in Phases \ {"idle", "init"} /\ {} \in SUBSET (Nodes \cup Executors)
    BY DEF Phases, StopPhases
  <2>2. pc[k] = "stopNodes" /\ todo[k] = {} /\ ~joining[k]
    BY <1>1, <1>11 DEF LoopOver, Items, JoinPhases
  <2>3. /\ pc'[k] = "closeEdges" /\ todo'[k] = {} /\ state' = state
        /\ begun'[k] = begun[k] /\ joining'[k] = joining[k]
    BY <1>4, <1>11, <2>1
  <2>4. StateOfPhase(k)' /\ Items(k)' /\ Locals(k)'
    BY <1>1, <2>2, <2>3 DEF StateOfPhase, Items, Locals, NodePhases, ExecutorPhases, StartPhases,
         RollbackPhases, StopPhases, JoinPhases
  <2>5. Initialised(k)' = Initialised(k) /\ Started(k)' = Started(k) /\ Unjoined(k)' = Unjoined(k)
    BY <2>2, <2>3 DEF Initialised, Started, Unjoined, WholePhases, JoinPhases
  <2> QED BY <1>2, <1>11, <2>1, <2>2, <2>4, <2>5, NextLoopStep
<1>12. CASE LoopOver(k, "stopExecutors") /\ Enter(k, "deinit", Nodes)
  <2>1. "deinit" \in Phases \ {"idle", "init"} /\ Nodes \in SUBSET (Nodes \cup Executors)
    BY DEF Phases, StopPhases
  <2>2. pc[k] = "stopExecutors" /\ todo[k] = {} /\ ~joining[k]
    BY <1>1, <1>12 DEF LoopOver, Items
  <2>3. /\ pc'[k] = "deinit" /\ todo'[k] = Nodes /\ state' = state
        /\ begun'[k] = begun[k] /\ joining'[k] = joining[k]
    BY <1>4, <1>12, <2>1
  <2>4. StateOfPhase(k)' /\ Items(k)' /\ Locals(k)'
    BY <1>1, <2>2, <2>3 DEF StateOfPhase, Items, Locals, NodePhases, ExecutorPhases, StartPhases,
         RollbackPhases, StopPhases, JoinPhases
  <2>5. Initialised(k)' = Initialised(k) /\ Started(k)' = Started(k) /\ Unjoined(k)' = Unjoined(k)
    BY <2>2, <2>3 DEF Initialised, Started, Unjoined, WholePhases, JoinPhases
  <2> QED BY <1>2, <1>12, <2>1, <2>2, <2>4, <2>5, NextLoopStep
<1> QED BY <1>5, <1>6, <1>7, <1>8, <1>9, <1>10, <1>11, <1>12 DEF NextLoop

-----------------------------------------------------------------------------
(* The threads, and the other pipeline                                     *)

\* While a node is started the graph is complete under it: its executor runs, and it is initialised.
LEMMA WholeUnderNodes ==
  ASSUME NEW k, Callers = {k}, IInv, up # {}
  PROVE  Unjoined(k) = Executors /\ Initialised(k) = Nodes /\ opened = TRUE /\ ~joining[k]
<1>1. TypeOK /\ Items(k) /\ Locals(k) /\ Inventory(k)
  BY DEF IInv
<1>2. Started(k) # {}
  BY <1>1 DEF Inventory
<1>3. \/ pc[k] = "idle" /\ state = "Running"
      \/ pc[k] = "nodes"
      \/ pc[k] = "rollNodes" /\ todo[k] # {}
      \/ pc[k] = "stopNodes"
      \/ pc[k] \in WholePhases
  BY <1>2 DEF Started
<1>4. Unjoined(k) = Executors /\ Initialised(k) = Nodes
  <2>1. CASE pc[k] = "idle" /\ state = "Running"
    BY <2>1 DEF Initialised, Unjoined, WholePhases, JoinPhases
  <2>2. CASE pc[k] = "nodes"
    BY <2>2 DEF Initialised, Unjoined, WholePhases, JoinPhases
  <2>3. CASE pc[k] = "rollNodes" /\ todo[k] # {}
    <3>1. begun[k].executors = Executors /\ begun[k].nodes \subseteq Nodes
      BY <1>1, <2>3 DEF Locals, RollbackPhases, TypeOK
    <3>2. begun[k].nodes # {}
      BY <1>1, <2>3 DEF Locals
    <3>3. Executors # {}
      BY <3>1, <3>2 DEF Executors
    <3>4. begun[k].inits = Nodes
      BY <1>1, <2>3, <3>1, <3>3 DEF Locals, RollbackPhases
    <3> QED BY <2>3, <3>1, <3>4 DEF Initialised, Unjoined, WholePhases, JoinPhases
  <2>4. CASE pc[k] = "stopNodes"
    BY <2>4 DEF Initialised, Unjoined, WholePhases, JoinPhases
  <2>5. CASE pc[k] \in WholePhases
    <3>1. pc[k] \notin {"idle", "init", "rollNodes", "rollExecutors", "rollDeinit", "deinit", "rollEdges",
                        "executors", "stopExecutors"}
      BY <2>5 DEF WholePhases
    <3> QED BY <2>5, <3>1 DEF Initialised, Unjoined, JoinPhases
  <2> QED BY <1>3, <2>1, <2>2, <2>3, <2>4, <2>5
<1>5. opened = TRUE /\ ~joining[k]
  BY <1>1, <1>3 DEF Inventory, Items, JoinPhases, WholePhases, TypeOK
<1> QED BY <1>4, <1>5

\* A step of the data plane or of the other pipeline leaves the calls alone.
LEMMA OtherStepOk ==
  ASSUME NEW k, Callers = {k}, IInv,
         UNCHANGED <<state, opened, inits, up, asked, pc, todo, begun, joining, starts>>,
         producing' \subseteq producing, blocked' \subseteq Edges,
         owner' \in [Executors -> {"none", "graph", "other"}],
         \A x \in Executors : owner'[x] = "graph" <=> owner[x] = "graph",
         \A e \in blocked' : IF e[1] \in Sources THEN e[1] \in producing' ELSE ExecutorOf[e[1]] \in Unjoined(k)
  PROVE  IInv'
<1>1. TypeOK /\ SourcesLast /\ Items(k) /\ Locals(k) /\ Inventory(k) /\ Threads(k) /\ StateOfPhase(k)
  BY DEF IInv
<1>2. TypeOK' /\ SourcesLast'
  BY <1>1 DEF TypeOK, SourcesLast
<1>3. StateOfPhase(k)' /\ Items(k)' /\ Locals(k)'
  BY <1>1 DEF StateOfPhase, Items, Locals
<1>4. Initialised(k)' = Initialised(k) /\ Started(k)' = Started(k) /\ Unjoined(k)' = Unjoined(k)
  BY DEF Initialised, Started, Unjoined
<1>5. Inventory(k)' /\ Threads(k)'
  BY <1>1, <1>4 DEF Inventory, Threads, Halted
<1> QED BY <1>2, <1>3, <1>5 DEF IInv

LEMMA DataPlaneOk ==
  ASSUME NEW k, Callers = {k}, IInv,
         \/ \E e \in Edges : BlockOn(e) \/ Unblock(e)
         \/ \E n \in Sources : SourceEnds(n)
         \/ \E x \in Executors : OtherPipeline(x)
  PROVE  IInv'
<1>1. TypeOK /\ Threads(k) /\ Inventory(k)
  BY DEF IInv
<1>2. ASSUME NEW e \in Edges, BlockOn(e) PROVE IInv'
  <2>1. /\ e[1] \in up /\ (e[1] \in Sources => e[1] \in producing) /\ blocked' = blocked \cup {e}
        /\ UNCHANGED <<state, opened, inits, up, asked, producing, pc, todo, begun, joining, starts, owner>>
    BY <1>2 DEF BlockOn, Works, nodes, callers
  <2>2. Unjoined(k) = Executors
    BY <2>1, WholeUnderNodes
  <2>3. ExecutorOf[e[1]] \in Executors
    BY <1>1, <2>1 DEF TypeOK, Executors
  <2>4. \A f \in blocked' :
          IF f[1] \in Sources THEN f[1] \in producing' ELSE ExecutorOf[f[1]] \in Unjoined(k)
    BY <1>1, <2>1, <2>2, <2>3 DEF Threads
  <2> QED BY <1>1, <2>1, <2>4, OtherStepOk DEF TypeOK
<1>3. ASSUME NEW e \in Edges, Unblock(e) PROVE IInv'
  <2>1. /\ blocked' = blocked \ {e}
        /\ UNCHANGED <<state, opened, inits, up, asked, producing, pc, todo, begun, joining, starts, owner>>
    BY <1>3 DEF Unblock, nodes, callers
  <2> QED BY <1>1, <2>1, OtherStepOk DEF TypeOK, Threads
<1>4. ASSUME NEW n \in Sources, SourceEnds(n) PROVE IInv'
  <2>1. /\ producing' = producing \ {n} /\ \A e \in blocked : e[1] # n
        /\ UNCHANGED <<state, opened, inits, up, asked, blocked, pc, todo, begun, joining, starts, owner>>
    BY <1>4 DEF SourceEnds, callers
  <2> QED BY <1>1, <2>1, OtherStepOk DEF TypeOK, Threads
<1>5. ASSUME NEW x \in Executors, OtherPipeline(x) PROVE IInv'
  <2>1. /\ \/ owner[x] = "none" /\ owner' = [owner EXCEPT ![x] = "other"]
           \/ owner[x] = "other" /\ owner' = [owner EXCEPT ![x] = "none"]
        /\ UNCHANGED <<state, opened, inits, up, asked, producing, blocked, pc, todo, begun, joining, starts>>
    BY <1>5 DEF OtherPipeline, nodes, callers
  <2>2. /\ owner' \in [Executors -> {"none", "graph", "other"}]
        /\ \A y \in Executors : owner'[y] = "graph" <=> owner[y] = "graph"
    BY <1>1, <2>1 DEF TypeOK
  <2> QED BY <1>1, <2>1, <2>2, OtherStepOk DEF TypeOK, Threads
<1> QED BY <1>2, <1>3, <1>4, <1>5

-----------------------------------------------------------------------------
(* What follows                                                            *)

LEMMA NextOk == ASSUME NEW k, Callers = {k}, IInv, [Next]_vars PROVE IInv'
<1>1. CASE BeginStart(k) \/ BeginStop(k)
  BY <1>1, BeginStartOk, BeginStopOk
<1>2. CASE CallStep(k)
  BY <1>2, InitNodeOk, StartExecutorOk, StartNodeOk, StartedAllOk, StopProductionOk, InterruptOk,
     WaitForQuiescenceOk, FlushNodeOk, AskNodeOk, StopNodeOk, CloseEdgesOk, HaltExecutorOk, JoinWorkersOk,
     DeinitNodeOk, StoppedOk, NextLoopOk DEF CallStep
<1>3. CASE \/ \E e \in Edges : BlockOn(e) \/ Unblock(e)
           \/ \E n \in Sources : SourceEnds(n)
           \/ \E x \in Executors : OtherPipeline(x)
  BY <1>3, DataPlaneOk
<1>4. CASE UNCHANGED vars
  <2>1. TypeOK /\ Threads(k)
    BY DEF IInv
  <2> QED BY <1>4, <2>1, OtherStepOk DEF vars, nodes, callers, TypeOK, Threads
<1> QED BY <1>1, <1>2, <1>3, <1>4 DEF Next

\* What the phases rely on follows from the inventory.
LEMMA InvariantAgrees == ASSUME NEW k, Callers = {k}, IInv PROVE PhasesAgree
<1>1. TypeOK /\ SourcesLast /\ Items(k) /\ Locals(k) /\ Inventory(k) /\ Threads(k) /\ StateOfPhase(k)
  BY DEF IInv
<1>2. SourcesNeedTheGraph
  <2>1. ASSUME producing # {} PROVE up # {} /\ Nodes \ Sources \subseteq up
    BY <1>1, <2>1 DEF Threads, SourcesLast, TypeOK
  <2>2. ASSUME producing # {} PROVE opened /\ \A x \in Executors : owner[x] = "graph"
    <3>1. Unjoined(k) = Executors /\ opened = TRUE /\ ~joining[k]
      BY <2>1, <2>2, WholeUnderNodes
    <3> QED BY <1>1, <3>1 DEF Inventory, Halted
  <2> QED BY <2>1, <2>2 DEF SourcesNeedTheGraph
<1>3. NoWorkWithoutInit
  <2>1. ASSUME NEW n \in producing PROVE inits[n] = 1
    <3>1. Initialised(k) = Nodes
      BY <1>1, <2>1, WholeUnderNodes DEF Threads
    <3> QED BY <1>1, <2>1, <3>1 DEF Inventory, TypeOK, Sources
  <2>2. ASSUME NEW e \in blocked, e[1] \notin Sources PROVE inits[e[1]] = 1
    <3>1. Unjoined(k) # {}
      BY <1>1, <2>2 DEF Threads
    <3>2. Initialised(k) = Nodes
      <4>1. \/ pc[k] = "idle" /\ state = "Running"
            \/ pc[k] = "executors"
            \/ pc[k] = "rollNodes" /\ begun[k].executors # {}
            \/ pc[k] \in JoinPhases /\ todo[k] # {}
            \/ pc[k] \in WholePhases \cup {"nodes", "stopNodes", "closeEdges"}
        BY <3>1 DEF Unjoined
      <4>2. CASE pc[k] = "idle" /\ state = "Running"
        BY <4>2 DEF Initialised
      <4>3. CASE pc[k] = "rollNodes" /\ begun[k].executors # {}
        BY <1>1, <4>3 DEF Initialised, Locals, RollbackPhases
      <4>4. CASE pc[k] = "rollExecutors" /\ todo[k] # {}
        BY <1>1, <4>4 DEF Initialised, Locals, RollbackPhases
      <4>5. CASE pc[k] \in WholePhases \cup {"executors", "nodes", "stopNodes", "closeEdges", "stopExecutors"}
        <5>1. pc[k] \notin {"idle", "init", "rollNodes", "rollExecutors", "rollDeinit", "deinit", "rollEdges"}
          BY <4>5 DEF WholePhases
        <5> QED BY <5>1 DEF Initialised
      <4> QED BY <4>1, <4>2, <4>3, <4>4, <4>5 DEF JoinPhases
    <3>3. e[1] \in Nodes
      BY <1>1, GraphAssumption DEF TypeOK
    <3> QED BY <1>1, <3>2, <3>3 DEF Inventory
  <2>3. ASSUME NEW e \in blocked, e[1] \in Sources PROVE inits[e[1]] = 1
    BY <1>1, <2>1, <2>3 DEF Threads
  <2> QED BY <2>1, <2>2, <2>3 DEF NoWorkWithoutInit
<1>4. StoppedIsClean
  <2>1. ASSUME state = "Running"
        PROVE  up = Nodes /\ opened /\ (\A n \in Nodes : inits[n] = 1) /\ \A x \in Executors : owner[x] = "graph"
    <3>1. pc[k] = "idle" /\ ~joining[k]
      BY <1>1, <2>1 DEF StateOfPhase, TypeOK, Phases, Items, JoinPhases
    <3>2. Initialised(k) = Nodes /\ Started(k) = Nodes /\ Unjoined(k) = Executors
      BY <2>1, <3>1 DEF Initialised, Started, Unjoined, WholePhases, JoinPhases
    <3> QED BY <1>1, <2>1, <3>1, <3>2 DEF Inventory, Halted
  <2>2. ASSUME state = "Stopped"
        PROVE  /\ up = {} /\ producing = {} /\ blocked = {} /\ ~opened
               /\ (\A n \in Nodes : inits[n] = 0) /\ \A x \in Executors : owner[x] # "graph"
    <3>1. pc[k] = "idle"
      BY <1>1, <2>2 DEF StateOfPhase, TypeOK, Phases
    <3>2. Initialised(k) = {} /\ Started(k) = {} /\ Unjoined(k) = {}
      BY <2>2, <3>1 DEF Initialised, Started, Unjoined, WholePhases, JoinPhases
    <3> QED BY <1>1, <2>2, <3>1, <3>2 DEF Inventory, Threads
  <2> QED BY <2>1, <2>2 DEF StoppedIsClean
<1> QED BY <1>1, <1>2, <1>3, <1>4 DEF PhasesAgree

\* For every graph, every mapping onto pools and every failure, as long as one thread starts and
\* stops the graph: the inventory of every phase is what the phase says.
THEOREM Invariant == ASSUME NEW k, Callers = {k} PROVE Spec => []IInv
<1>1. Init => IInv
  BY InitOk
<1>2. IInv /\ [Next]_vars => IInv'
  BY NextOk
<1> QED BY <1>1, <1>2, PTL DEF Spec

\* With one such thread no phase of Graph::Start, Rollback or StopImpl takes anything away from a
\* thread that still needs it, and a graph that is stopped has left nothing behind.
THEOREM PhasesHold == ASSUME NEW k, Callers = {k} PROVE Spec => []PhasesAgree
<1>1. IInv => PhasesAgree
  BY InvariantAgrees
<1> QED BY <1>1, Invariant, PTL

=============================================================================
