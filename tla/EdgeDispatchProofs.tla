------------------------- MODULE EdgeDispatchProofs -------------------------
(***************************************************************************)
(* Machine-checked proofs about EdgeDispatch: for every number of          *)
(* producers and workers, every set of messages of every rank, both        *)
(* execution modes, and all capacities and bounds.                         *)
(***************************************************************************)
EXTENDS EdgeDispatch, FiniteSetTheorems, SequenceTheorems, TLAPS

-----------------------------------------------------------------------------
(* Counting threads and handlers                                           *)

TasksRunning == Cardinality(At(Workers, {"run", "account", "postTask"}))
TasksPosted == Cardinality(PostedOf("task"))
PumpsRunning ==
  Cardinality(At(Workers, {"postPump", "pump", "run", "account", "next", "repost"}))
PumpsPosted == Cardinality(PostedOf("pump"))
DrainsRunning ==
  Cardinality(At(Workers, {"drain", "receive", "dispatch", "postPump", "postTask", "unlatch"}))
DrainsPosting == Cardinality(At(Threads, {"post"}))
DrainsPosted == Cardinality(PostedOf("drain"))

-----------------------------------------------------------------------------
(* The inductive invariant                                                 *)

\* Who is to hand a message over has one, and a drain takes no more than its batch.
Carried ==
  /\ \A w \in Workers : pc[w] \in {"dispatch", "postTask", "run"} => held[w] \in Messages
  /\ \A w \in Workers : pc[w] = "receive" => count[w] < BatchSize
  /\ \A i \in DOMAIN posted : posted[i].what = "task" => posted[i].msg \in Messages

\* Nothing happens before the first start, an edge starts empty, drains are cancelled first when it
\* closes, and a closed node keeps no task.
Phases ==
  /\ lifecycle = 0 => graph = "stopped"
  /\ lifecycle = 0 \/ (lifecycle = 1 /\ graph \in {"openEdge", "startExecutor"}) =>
       posted = <<>> /\ dispatchQueue = <<>> /\ \A t \in Threads : pc[t] = "idle"
  /\ graph = "startExecutor" => box = <<>>
  /\ graph \in {"clearEdge", "unlatchEdge"} => cancelled
  /\ dispatchClosed => dispatchQueue = <<>> /\ ~active

\* Between two lifecycles nobody is in the node, although handlers may be posted.
AtRest ==
  /\ graph \in {"join", "stopped", "openEdge", "startExecutor"} => ~running
  /\ graph \in {"stopped", "openEdge", "startExecutor"} => \A t \in Threads : pc[t] = "idle"

\* Somebody comes for what is in the transport, and not merely to post a drain that is posted.
Covered ==
  (box # <<>> /\ ~cancelled /\ running) =>
    scheduled \/ \E t \in Threads : pc[t] \in {"schedule", "latch", "recheck"}

\* The mode decides how tasks are posted.
TasksByMode ==
  ~Concurrent => /\ \A w \in Workers : pc[w] # "postTask"
                 /\ \A i \in DOMAIN posted : posted[i].what # "task"

\* Without dispatch_active_ there is no pump, unless the node has closed under it.
IdlePump == (~Concurrent /\ lifecycle <= 1) => active \/ dispatchClosed \/ Pumps = 0

\* The drains that are posted, about to be posted, or at work.
Drains == DrainsPosted + DrainsRunning + DrainsPosting

\* The latch admits one drain, and one thread takes messages off the edge even when a closing edge
\* has reset the latch under it.
OneDrain ==
  lifecycle <= 1 =>
    /\ ~cancelled => Drains <= 1 /\ (Drains = 1 => scheduled)
    /\ \A v, w \in At(Workers, {"receive", "dispatch"}) : v = w

\* The places a message passes on its way, from the last to the first.
Running == {held[w] : w \in At(Workers, {"run"})}
Moving == {held[w] : w \in At(Workers, {"dispatch"})}

Ahead(A, B, acc) == \A m \in A, n \in B : IsBefore(m, n, acc)
Ordered(q, acc) == \A i, j \in DOMAIN q : i < j => IsBefore(q[i], q[j], acc)

\* Each place is in order, and what is further on was accepted earlier.
Passage(done, run, queue, move, edge, acc) ==
  /\ Ordered(done, acc) /\ Ordered(queue, acc) /\ Ordered(edge, acc)
  /\ Ahead(Range(done), run \cup Range(queue) \cup move \cup Range(edge), acc)
  /\ Ahead(run, Range(queue) \cup move \cup Range(edge), acc)
  /\ Ahead(Range(queue), move \cup Range(edge), acc)
  /\ Ahead(move, Range(edge), acc)
  /\ Range(done) \cup run \cup Range(queue) \cup move \cup Range(edge) \subseteq Range(acc)

Flow ==
  (~Concurrent /\ lifecycle <= 1) =>
    Passage(handled, Running, dispatchQueue, Moving, box, accepted)

IInv ==
  /\ TypeOK /\ Carried /\ Phases /\ AtRest /\ Covered /\ PendingExact /\ TasksByMode
  /\ OnePump /\ IdlePump /\ OneDrain /\ Flow

-----------------------------------------------------------------------------
(* Types                                                                   *)

Handlers == [what : {"drain", "pump", "task"}, msg : Messages \cup {NoMessage}]

\* Where a thread can be.
Places == {"idle", "schedule", "latch", "post", "drain", "receive", "unlatch", "recheck",
           "dispatch", "postPump", "postTask", "pump", "run", "account", "next", "repost"}

\* Sequences apart from the rest: most steps change none.
SeqTypes ==
  /\ box \in Seq(Messages) /\ posted \in Seq(Handlers) /\ dispatchQueue \in Seq(Messages)
  /\ accepted \in Seq(Messages) /\ handled \in Seq(Messages)

PlainTypes ==
  /\ mode \in Modes
  /\ open \in BOOLEAN /\ scheduled \in BOOLEAN /\ cancelled \in BOOLEAN /\ running \in BOOLEAN
  /\ pending \in 0..(SizeModulus - 1)
  /\ active \in BOOLEAN /\ dispatchClosed \in BOOLEAN
  /\ pc \in [Threads -> Places]
  /\ held \in [Workers -> Messages \cup {NoMessage}] /\ count \in [Workers -> 0..BatchSize]
  /\ graph \in {"stopped", "openEdge", "startExecutor", "running", "waitNodes",
                "waitEdge", "quiet", "closeEdge", "clearEdge", "unlatchEdge",
                "closeDispatch", "stopExecutor", "join"}
  /\ producing \in BOOLEAN /\ lifecycle \in 0..MaxLifecycles
  /\ sentIn \in [Messages -> 0..MaxLifecycles]

LEMMA TypeParts == TypeOK <=> PlainTypes /\ SeqTypes /\ leftover \in Nat
  BY Zenon DEF TypeOK, PlainTypes, SeqTypes, Handlers, Places

LEMMA Initially == Init => IInv
<1> SUFFICES ASSUME Init PROVE IInv
  OBVIOUS
<1>1. SeqTypes
  BY EmptySeq DEF Init, SeqTypes
<1>2. PlainTypes
  <2>1. BatchSize \in Nat /\ MaxLifecycles \in Nat
    BY EdgeAssumption
  <2>2. /\ held \in [Workers -> Messages \cup {NoMessage}] /\ count \in [Workers -> 0..BatchSize]
        /\ sentIn \in [Messages -> 0..MaxLifecycles] /\ lifecycle \in 0..MaxLifecycles
    BY <2>1 DEF Init
  <2>3. pending \in 0..(SizeModulus - 1) /\ graph = "stopped"
    BY DEF Init, SizeModulus
  <2>4. pc \in [Threads -> {"idle"}]
    BY DEF Init
  <2> QED  BY <2>2, <2>3, <2>4 DEF Init, PlainTypes, Places
<1>3. Carried /\ Phases /\ Covered /\ TasksByMode
  BY DEF Init, Carried, Phases, Covered, TasksByMode, Threads
<1>4. PostedOf("drain") = {} /\ PostedOf("pump") = {} /\ PostedOf("task") = {}
  BY DEF Init, PostedOf
<1>5. \A L : \A S \in SUBSET Threads : "idle" \notin L => At(S, L) = {}
  BY DEF Init, At
<1>6. PendingExact /\ OnePump /\ IdlePump /\ OneDrain
  <2>1. \A L : "idle" \notin L => At(Workers, L) = {} /\ At(Threads, L) = {}
    BY <1>5 DEF Threads
  <2>2. Drains = 0 /\ Pumps = 0
    BY <1>4, <2>1, FS_EmptySet DEF Drains, Pumps, DrainsPosted, DrainsRunning, DrainsPosting
  <2>3. PendingExact
    <3>1. Len(dispatchQueue) = 0 /\ pending = 0
      BY EmptySeq DEF Init
    <3>2. At(Workers, {"run", "account", "postTask"}) = {}
      BY <2>1
    <3>3. Cardinality({}) = 0
      BY FS_EmptySet
    <3>4. Cardinality(At(Workers, {"run", "account", "postTask"})) = 0
      BY <3>2, <3>3
    <3>5. Cardinality(PostedOf("task")) = 0
      BY <1>4, <3>3
    <3>6. Tasks = 0
      BY <3>1, <3>4, <3>5 DEF Tasks
    <3> QED  BY <3>1, <3>6 DEF Init, PendingExact
  <2>4. \A v, w \in At(Workers, {"receive", "dispatch"}) : v = w
    BY <2>1
  <2> QED  BY <2>2, <2>3, <2>4 DEF Init, OnePump, IdlePump, OneDrain
<1>7. Flow
  BY <1>5 DEF Init, Flow, Passage, Ordered, Ahead, Running, Moving, Range, Threads
<1>8. AtRest /\ leftover \in Nat
  BY DEF Init, AtRest
<1> QED  BY <1>1, <1>2, <1>3, <1>6, <1>7, <1>8, TypeParts DEF IInv

-----------------------------------------------------------------------------
(* Types are kept                                                          *)

LEMMA SeqTypesKept ==
  ASSUME TypeOK, Carried, [Next]_vars
  PROVE  SeqTypes'
<1> USE TypeParts
<1>1. /\ SeqTypes /\ \A w \in Workers : pc[w] \in {"dispatch", "postTask", "run"} => held[w] \in Messages
      /\ held \in [Workers -> Messages \cup {NoMessage}]
  BY DEF Carried, PlainTypes
<1>2. \A h \in Messages \cup {NoMessage}, k \in {"drain", "pump", "task"} : Handler(k, h) \in Handlers
  BY DEF Handler, Handlers
<1>8. /\ \A q \in Seq(Messages), m \in Messages : Append(q, m) \in Seq(Messages)
      /\ \A q \in Seq(Handlers), h \in Handlers : Append(q, h) \in Seq(Handlers)
      /\ \A q \in Seq(Messages) : q # <<>> => Tail(q) \in Seq(Messages)
      /\ \A q \in Seq(Handlers) : q # <<>> => Tail(q) \in Seq(Handlers)
      /\ <<>> \in Seq(Messages)
  BY AppendProperties, HeadTailProperties, EmptySeq
<1>3. ASSUME NEW p \in Producers, Send(p) PROVE SeqTypes'
  BY <1>1, <1>3, <1>8 DEF SeqTypes, Send, executor, dispatch
<1>4. ASSUME NEW t \in Threads, ThreadStep(t) PROVE SeqTypes'
  <2>1. CASE SchedulePost(t)
    BY <1>1, <1>2, <2>1, <1>8 DEF SeqTypes, SchedulePost, transport, dispatch, history
  <2>2. CASE ScheduleCheck(t) \/ ScheduleLatch(t)
    BY <1>1, <2>2 DEF SeqTypes, ScheduleCheck, ScheduleLatch, transport, executor, dispatch, history
  <2> QED  BY <1>4, <2>1, <2>2 DEF ThreadStep
<1>5. ASSUME NEW w \in Workers, WorkerAction(w) PROVE SeqTypes'
  <2>1. CASE TakeHandler(w)
    BY <1>1, <2>1, <1>8 DEF SeqTypes, TakeHandler, transport, dispatch, history
  <2>2. CASE DrainReceive(w)
    BY <1>1, <2>2, <1>8 DEF SeqTypes, DrainReceive, executor, dispatch, history
  <2>3. CASE DispatchSerialized(w)
    <3>1. held[w] \in Messages
      BY <1>1, <2>3 DEF DispatchSerialized
    <3>2. \A i \in Victim(held[w]) : RemoveAt(dispatchQueue, i) \in Seq(Messages)
      <4>1. \A i \in Victim(held[w]) : i \in DOMAIN dispatchQueue
        BY DEF Victim, First
      <4> QED  BY <1>1, <4>1, LenProperties, SubSeqProperties, ConcatProperties DEF RemoveAt, SeqTypes
    <3>3. dispatchQueue' \in Seq(Messages)
      BY <1>1, <2>3, <3>1, <3>2, <1>8 DEF SeqTypes, DispatchSerialized
    <3> QED  BY <1>1, <2>3, <3>3 DEF SeqTypes, DispatchSerialized, transport, executor, history
  <2>4. CASE PostPump(w)
    BY <1>1, <1>2, <2>4, <1>8
       DEF SeqTypes, PostPump, CloseDispatch, transport, dispatch, history
  <2>5. CASE PostTask(w)
    BY <1>1, <1>2, <2>5, <1>8 DEF SeqTypes, PostTask, transport, history
  <2>6. CASE PumpTake(w)
    BY <1>1, <2>6, <1>8 DEF SeqTypes, PumpTake, transport, executor, history
  <2>7. CASE RunTask(w)
    BY <1>1, <2>7, <1>8 DEF SeqTypes, RunTask, transport, executor, dispatch
  <2>8. CASE DrainCheck(w) \/ DrainTimeUp(w) \/ DrainUnlatch(w) \/ DrainRecheck(w) \/ DispatchReject(w)
    BY <1>1, <2>8 DEF SeqTypes, DrainCheck, DrainTimeUp, DrainUnlatch, DrainRecheck, DispatchReject,
       transport, executor, dispatch, history
  <2>9. CASE DispatchConcurrent(w) \/ AccountTask(w) \/ PumpNext(w)
    BY <1>1, <2>9 DEF SeqTypes, DispatchConcurrent, AccountTask, PumpNext,
       transport, executor, history
  <2> QED  BY <1>5, <2>1, <2>2, <2>3, <2>4, <2>5, <2>6, <2>7, <2>8, <2>9 DEF WorkerAction
<1>6. CASE GraphAction
  <2>1. CASE OpenDispatch \/ OpenEdge \/ CloseTransport \/ CloseNode
    BY <1>1, <2>1, <1>8 DEF SeqTypes, OpenDispatch, OpenEdge, CloseTransport, CloseNode,
       CloseDispatch, transport, executor, dispatch, history
  <2>2. CASE StartExecutor \/ StopProduction \/ WaitNodes \/ WaitEdge \/ BeginStop
    BY <1>1, <2>2 DEF SeqTypes, StartExecutor, StopProduction, WaitNodes, WaitEdge, BeginStop,
       transport, executor, dispatch, history
  <2>3. CASE CancelDrain \/ UnlatchEdge \/ StopExecutor \/ Join
    BY <1>1, <2>3 DEF SeqTypes, CancelDrain, UnlatchEdge, StopExecutor, Join,
       transport, executor, dispatch, history
  <2> QED  BY <1>6, <2>1, <2>2, <2>3 DEF GraphAction
<1>7. CASE UNCHANGED vars
  BY <1>1, <1>7 DEF SeqTypes, vars, transport, executor, dispatch, history
<1> QED  BY <1>3, <1>4, <1>5, <1>6, <1>7 DEF Next, WorkerStep

LEMMA PlainTypesKept ==
  ASSUME TypeOK, Carried, SeqTypes', [Next]_vars
  PROVE  PlainTypes'
<1> USE DEF Places
<1> DEFINE Graphs == {"stopped", "openEdge", "startExecutor", "running", "waitNodes", "waitEdge",
                      "quiet", "closeEdge", "clearEdge", "unlatchEdge", "closeDispatch",
                      "stopExecutor", "join"}
<1>1. PlainTypes /\ SeqTypes
  BY TypeParts
<1>2. \A n \in Int, k \in Nat : Decrement(n, k) \in 0..(SizeModulus - 1)
  BY DEF Decrement, SizeModulus
<1>3. /\ MaxPending \in 1..(SizeModulus - 1) /\ BatchSize \in Nat \ {0} /\ MaxLifecycles \in Nat
      /\ pending \in Nat /\ Len(dispatchQueue) \in Nat
  <2>1. pending \in 0..(SizeModulus - 1) /\ dispatchQueue \in Seq(Messages)
    BY <1>1 DEF PlainTypes, SeqTypes
  <2>2. Len(dispatchQueue) \in Nat
    BY <2>1, LenProperties
  <2> QED  BY <2>1, <2>2, EdgeAssumption DEF SizeModulus
<1>4. pending < MaxPending => pending + 1 \in 0..(SizeModulus - 1)
  BY <1>1, <1>3 DEF SizeModulus
<1>5. \A t \in Threads, l \in Places : Goto(t, l) => pc' \in [Threads -> Places]
  BY <1>1 DEF PlainTypes, Goto
<1>6. pc' \in [Threads -> Places]
  <2> USE <1>1, <1>5
  <2>1. ASSUME NEW p \in Producers, Send(p) PROVE pc' \in [Threads -> Places]
    BY <2>1 DEF Send, Threads
  <2>2. ASSUME NEW t \in Threads, ThreadStep(t) PROVE pc' \in [Threads -> Places]
    BY <2>2 DEF ThreadStep, ScheduleCheck, ScheduleLatch, SchedulePost
  <2>3. ASSUME NEW w \in Workers, WorkerAction(w) PROVE pc' \in [Threads -> Places]
    <3>1. w \in Threads
      BY DEF Threads
    <3>2. CASE TakeHandler(w)
      <4>1. Head(posted) \in Handlers
        BY <1>1, <3>2, HeadTailProperties DEF SeqTypes, TakeHandler
      <4>2. Head(posted).what \in {"drain", "pump", "task"}
        BY <4>1 DEF Handlers
      <4> QED  BY <3>1, <3>2, <4>2 DEF TakeHandler
    <3>3. CASE DrainCheck(w) \/ DrainTimeUp(w) \/ DrainReceive(w) \/ DrainUnlatch(w) \/ DrainRecheck(w)
      BY <3>1, <3>3 DEF DrainCheck, DrainTimeUp, DrainReceive, DrainUnlatch, DrainRecheck
    <3>4. CASE DispatchReject(w) \/ DispatchSerialized(w) \/ DispatchConcurrent(w) \/ PostPump(w) \/ PostTask(w)
      BY <3>1, <3>4 DEF DispatchReject, DispatchSerialized, DispatchConcurrent, PostPump, PostTask
    <3>5. CASE PumpTake(w) \/ RunTask(w) \/ AccountTask(w) \/ PumpNext(w)
      BY <3>1, <3>5 DEF PumpTake, RunTask, AccountTask, PumpNext
    <3> QED  BY <2>3, <3>2, <3>3, <3>4, <3>5 DEF WorkerAction
  <2>4. CASE GraphAction
    BY <2>4 DEF GraphAction, OpenDispatch, OpenEdge, StartExecutor, StopProduction, WaitNodes,
       WaitEdge, BeginStop, CancelDrain, CloseTransport, UnlatchEdge, CloseNode, StopExecutor, Join,
       PlainTypes
  <2>5. CASE UNCHANGED vars
    BY <2>5 DEF vars, PlainTypes
  <2> QED  BY <2>1, <2>2, <2>3, <2>4, <2>5 DEF Next, WorkerStep
<1>7. pending' \in 0..(SizeModulus - 1)
  <2>1. ASSUME NEW w \in Workers, WorkerAction(w) PROVE pending' \in 0..(SizeModulus - 1)
    <3>1. CASE DispatchSerialized(w) \/ DispatchConcurrent(w)
      BY <1>1, <1>3, <1>4, <3>1 DEF DispatchSerialized, DispatchConcurrent, Full, Rejects, PlainTypes
    <3>2. CASE PostPump(w) \/ PostTask(w) \/ AccountTask(w)
      <4>1. /\ Decrement(pending, Len(dispatchQueue)) \in 0..(SizeModulus - 1)
            /\ Decrement(pending, 1) \in 0..(SizeModulus - 1) /\ pending \in 0..(SizeModulus - 1)
        BY <1>1, <1>2, <1>3 DEF PlainTypes
      <4> QED  BY <3>2, <4>1 DEF PostPump, CloseDispatch, PostTask, AccountTask, dispatch
    <3>3. CASE TakeHandler(w) \/ DrainCheck(w) \/ DrainTimeUp(w) \/ DrainReceive(w) \/ DrainUnlatch(w) \/ DrainRecheck(w)
      BY <1>1, <3>3 DEF TakeHandler, DrainCheck, DrainTimeUp, DrainReceive, DrainUnlatch, DrainRecheck,
         dispatch, PlainTypes
    <3>4. CASE DispatchReject(w) \/ PumpTake(w) \/ RunTask(w) \/ PumpNext(w)
      BY <1>1, <3>4 DEF DispatchReject, PumpTake, RunTask, PumpNext, dispatch, PlainTypes
    <3> QED  BY <2>1, <3>1, <3>2, <3>3, <3>4 DEF WorkerAction
  <2>2. CASE GraphAction
    <3>1. CASE CloseNode
      BY <1>2, <1>3, <3>1 DEF CloseNode, CloseDispatch
    <3>2. CASE ~CloseNode
      <4>1. pending' \in {0, pending}
        BY <2>2, <3>2 DEF GraphAction, OpenDispatch, OpenEdge, StartExecutor, StopProduction, WaitNodes,
           WaitEdge, BeginStop, CancelDrain, CloseTransport, UnlatchEdge, StopExecutor, Join, dispatch
      <4> QED  BY <1>1, <4>1 DEF PlainTypes, SizeModulus
    <3> QED  BY <3>1, <3>2
  <2>3. CASE UNCHANGED vars \/ (\E p \in Producers : Send(p)) \/ \E t \in Threads : ThreadStep(t)
    BY <1>1, <2>3 DEF vars, PlainTypes, Send, ThreadStep, ScheduleCheck, ScheduleLatch, SchedulePost, dispatch
  <2> QED  BY <2>1, <2>2, <2>3 DEF Next, WorkerStep
<1>8. /\ held' \in [Workers -> Messages \cup {NoMessage}] /\ count' \in [Workers -> 0..BatchSize]
  <2>1. ASSUME NEW w \in Workers, WorkerAction(w)
        PROVE  held' \in [Workers -> Messages \cup {NoMessage}] /\ count' \in [Workers -> 0..BatchSize]
    <3>1. CASE TakeHandler(w)
      <4>1. Head(posted) \in Handlers
        BY <1>1, <3>1, HeadTailProperties DEF SeqTypes, TakeHandler
      <4>2. Head(posted).msg \in Messages \cup {NoMessage}
        BY <4>1 DEF Handlers
      <4> QED  BY <1>1, <1>3, <3>1, <4>2 DEF TakeHandler, PlainTypes
    <3>2. CASE DrainReceive(w)
      <4>1. box # <<>> => Head(box) \in Messages
        BY <1>1, HeadTailProperties DEF SeqTypes
      <4>2. count[w] \in 0..BatchSize /\ count[w] < BatchSize
        BY <1>1, <3>2 DEF Carried, DrainReceive, PlainTypes
      <4>3. count[w] + 1 \in 0..BatchSize
        BY <1>3, <4>2
      <4> QED  BY <1>1, <3>2, <4>1, <4>3 DEF DrainReceive, PlainTypes, worker
    <3>3. CASE PumpTake(w)
      <4>1. dispatchQueue # <<>> => Head(dispatchQueue) \in Messages
        BY <1>1, HeadTailProperties DEF SeqTypes
      <4> QED  BY <1>1, <3>3, <4>1 DEF PumpTake, PlainTypes
    <3>4. CASE DrainCheck(w) \/ DrainTimeUp(w) \/ DrainUnlatch(w) \/ DrainRecheck(w) \/ DispatchReject(w)
      BY <1>1, <3>4 DEF DrainCheck, DrainTimeUp, DrainUnlatch, DrainRecheck, DispatchReject, worker, PlainTypes
    <3>5. CASE DispatchSerialized(w) \/ DispatchConcurrent(w) \/ PostPump(w) \/ PostTask(w)
      BY <1>1, <3>5 DEF DispatchSerialized, DispatchConcurrent, PostPump, PostTask, worker, PlainTypes
    <3>6. CASE RunTask(w) \/ AccountTask(w) \/ PumpNext(w)
      BY <1>1, <3>6 DEF RunTask, AccountTask, PumpNext, worker, PlainTypes
    <3> QED  BY <2>1, <3>1, <3>2, <3>3, <3>4, <3>5, <3>6 DEF WorkerAction
  <2>2. CASE GraphAction
    BY <1>1, <2>2 DEF GraphAction, OpenDispatch, OpenEdge, StartExecutor, StopProduction, WaitNodes,
       WaitEdge, BeginStop, CancelDrain, CloseTransport, UnlatchEdge, CloseNode, StopExecutor, Join,
       worker, PlainTypes
  <2>3. CASE UNCHANGED vars \/ (\E p \in Producers : Send(p)) \/ \E t \in Threads : ThreadStep(t)
    BY <1>1, <2>3 DEF vars, PlainTypes, Send, ThreadStep, ScheduleCheck, ScheduleLatch, SchedulePost, worker
  <2> QED  BY <2>1, <2>2, <2>3 DEF Next, WorkerStep
<1>9. /\ mode' \in Modes /\ open' \in BOOLEAN /\ scheduled' \in BOOLEAN /\ cancelled' \in BOOLEAN
      /\ running' \in BOOLEAN /\ active' \in BOOLEAN /\ dispatchClosed' \in BOOLEAN
  <2>1. ASSUME NEW w \in Workers, WorkerAction(w)
        PROVE  /\ open' \in BOOLEAN /\ scheduled' \in BOOLEAN /\ cancelled' \in BOOLEAN
               /\ running' \in BOOLEAN /\ active' \in BOOLEAN /\ dispatchClosed' \in BOOLEAN
    BY Zenon, <1>1, <2>1 DEF WorkerAction, TakeHandler, DrainCheck, DrainTimeUp, DrainReceive, DrainUnlatch,
       DrainRecheck, DispatchReject, DispatchSerialized, DispatchConcurrent, PostPump, CloseDispatch,
       PostTask, PumpTake, RunTask, AccountTask, PumpNext, transport, latch, executor, dispatch, PlainTypes
  <2>2. CASE GraphAction /\ UNCHANGED mode
    BY Zenon, <1>1, <2>2 DEF GraphAction, OpenDispatch, OpenEdge, StartExecutor, StopProduction, WaitNodes,
       WaitEdge, BeginStop, CancelDrain, CloseTransport, UnlatchEdge, CloseNode, CloseDispatch,
       StopExecutor, Join, transport, latch, executor, dispatch, PlainTypes
  <2>3. CASE UNCHANGED vars
    BY <1>1, <2>3 DEF vars, transport, latch, executor, dispatch, PlainTypes
  <2>4. ASSUME NEW p \in Producers, Send(p)
        PROVE  /\ open' \in BOOLEAN /\ scheduled' \in BOOLEAN /\ cancelled' \in BOOLEAN
               /\ running' \in BOOLEAN /\ active' \in BOOLEAN /\ dispatchClosed' \in BOOLEAN
    BY <1>1, <2>4 DEF PlainTypes, Send, transport, latch, executor, dispatch
  <2>5. ASSUME NEW t \in Threads, ThreadStep(t)
        PROVE  /\ open' \in BOOLEAN /\ scheduled' \in BOOLEAN /\ cancelled' \in BOOLEAN
               /\ running' \in BOOLEAN /\ active' \in BOOLEAN /\ dispatchClosed' \in BOOLEAN
    BY <1>1, <2>5 DEF PlainTypes, ThreadStep, ScheduleCheck, ScheduleLatch, SchedulePost,
       transport, latch, executor, dispatch
  <2>6. mode' = mode
    BY <2>2 DEF Next, WorkerStep, ThreadStep, vars
  <2> QED  BY <1>1, <2>1, <2>2, <2>3, <2>4, <2>5, <2>6 DEF Next, WorkerStep, PlainTypes
<1>10. graph' \in Graphs /\ producing' \in BOOLEAN /\ lifecycle' \in 0..MaxLifecycles
  <2>1. CASE GraphAction
    <3>1. lifecycle < MaxLifecycles => lifecycle + 1 \in 0..MaxLifecycles
      BY <1>1, <1>3 DEF PlainTypes
    <3> QED  BY <1>1, <2>1, <3>1 DEF GraphAction, GraphGoes, OpenDispatch, OpenEdge, StartExecutor, StopProduction, WaitNodes,
       WaitEdge, BeginStop, CancelDrain, CloseTransport, UnlatchEdge, CloseNode, StopExecutor, Join,
       PlainTypes
  <2>2. ASSUME NEW w \in Workers, WorkerAction(w)
        PROVE  UNCHANGED lifetime
    BY <2>2 DEF WorkerAction, TakeHandler, DrainCheck, DrainTimeUp, DrainReceive, DrainUnlatch,
       DrainRecheck, DispatchReject, DispatchSerialized, DispatchConcurrent, PostPump,
       PostTask, PumpTake, RunTask, AccountTask, PumpNext
  <2>3. CASE UNCHANGED vars \/ (\E p \in Producers : Send(p)) \/ \E t \in Threads : ThreadStep(t)
    <3>1. UNCHANGED lifetime
      BY <2>3 DEF vars, Send, ThreadStep, ScheduleCheck, ScheduleLatch, SchedulePost
    <3> QED  BY <1>1, <3>1 DEF lifetime, PlainTypes
  <2>4. UNCHANGED lifetime => graph' \in Graphs /\ producing' \in BOOLEAN /\ lifecycle' \in 0..MaxLifecycles
    BY <1>1 DEF lifetime, PlainTypes
  <2> QED  BY <2>1, <2>2, <2>3, <2>4 DEF Next, WorkerStep
<1>11. sentIn' \in [Messages -> 0..MaxLifecycles]
  <2>1. ASSUME NEW p \in Producers, Send(p) PROVE sentIn' \in [Messages -> 0..MaxLifecycles]
    BY <1>1, <2>1 DEF Send, PlainTypes
  <2>2. ASSUME NEW w \in Workers, WorkerAction(w)
        PROVE  sentIn' = sentIn
    BY <2>2 DEF WorkerAction, TakeHandler, DrainCheck, DrainTimeUp, DrainReceive, DrainUnlatch,
       DrainRecheck, DispatchReject, DispatchSerialized, DispatchConcurrent, PostPump,
       PostTask, PumpTake, RunTask, AccountTask, PumpNext, history
  <2>3. CASE GraphAction
    <3>1. sentIn' = sentIn
      BY <2>3 DEF GraphAction, OpenDispatch, OpenEdge, StartExecutor, StopProduction, WaitNodes,
         WaitEdge, BeginStop, CancelDrain, CloseTransport, UnlatchEdge, CloseNode, StopExecutor, Join, history
    <3> QED  BY <1>1, <3>1 DEF PlainTypes
  <2>4. CASE UNCHANGED vars \/ \E t \in Threads : ThreadStep(t)
    <3>1. UNCHANGED history
      BY <2>4 DEF vars, ThreadStep, ScheduleCheck, ScheduleLatch, SchedulePost
    <3> QED  BY <1>1, <3>1 DEF history, PlainTypes
  <2> QED  BY <1>1, <2>1, <2>2, <2>3, <2>4 DEF Next, WorkerStep, PlainTypes
<1> QED  BY <1>6, <1>7, <1>8, <1>9, <1>10, <1>11 DEF PlainTypes

LEMMA CarriedKept ==
  ASSUME TypeOK, Carried, [Next]_vars
  PROVE  Carried'
<1> USE DEF Places
<1> DEFINE Held == \A w \in Workers : pc[w] \in {"dispatch", "postTask", "run"} => held[w] \in Messages
           Batch == \A w \in Workers : pc[w] = "receive" => count[w] < BatchSize
           PostedTasks == \A i \in DOMAIN posted : posted[i].what = "task" => posted[i].msg \in Messages
<1>1. /\ pc \in [Threads -> Places] /\ held \in [Workers -> Messages \cup {NoMessage}]
      /\ count \in [Workers -> 0..BatchSize] /\ SeqTypes /\ BatchSize \in Nat
      /\ Producers \cap Workers = {} /\ Workers \subseteq Threads /\ Producers \subseteq Threads
  <2>1. PlainTypes /\ SeqTypes
    BY TypeParts
  <2> QED  BY <2>1, EdgeAssumption DEF PlainTypes, Threads
<1>2. Held /\ Batch /\ PostedTasks
  BY DEF Carried
<1>3. \A h \in Messages \cup {NoMessage}, k \in {"drain", "pump", "task"} :
        Handler(k, h) \in Handlers /\ Handler(k, h).what = k /\ Handler(k, h).msg = h
  BY DEF Handler, Handlers
<1>4. ASSUME NEW h \in Handlers, h.what = "task" => h.msg \in Messages, posted' = Append(posted, h)
      PROVE  PostedTasks'
  BY <1>1, <1>2, <1>4, AppendProperties, LenProperties DEF SeqTypes
<1>5. ASSUME NEW p \in Producers, Send(p) PROVE Carried'
  BY <1>1, <1>2, <1>5 DEF Send, Goto, executor, worker, Carried
<1>6. ASSUME NEW t \in Threads, ThreadStep(t) PROVE Carried'
  <2>1. (Held /\ Batch)'
    BY <1>1, <1>2, <1>6 DEF ThreadStep, ScheduleCheck, ScheduleLatch, SchedulePost, Goto, worker
  <2>2. PostedTasks'
    <3>1. posted' = posted \/ posted' = Append(posted, Handler("drain", NoMessage))
      BY <1>6 DEF ThreadStep, ScheduleCheck, ScheduleLatch, SchedulePost, executor
    <3> QED  BY <1>2, <1>3, <1>4, <3>1
  <2> QED  BY <2>1, <2>2 DEF Carried
<1>7. ASSUME NEW w \in Workers, WorkerAction(w) PROVE Carried'
  <2>1. CASE TakeHandler(w)
    <3>1. /\ Head(posted) = posted[1] /\ 1 \in DOMAIN posted
          /\ \A i \in DOMAIN Tail(posted) : i + 1 \in DOMAIN posted /\ Tail(posted)[i] = posted[i + 1]
      <4>1. posted # <<>> /\ posted \in Seq(Handlers)
        BY <1>1, <2>1 DEF TakeHandler, SeqTypes
      <4>2. Tail(posted) \in Seq(Handlers) /\ Len(Tail(posted)) = Len(posted) - 1
        BY <4>1, HeadTailProperties
      <4>3. DOMAIN posted = 1..Len(posted) /\ Len(posted) \in Nat \ {0} /\ DOMAIN Tail(posted) = 1..(Len(posted) - 1)
        BY <4>1, <4>2, LenProperties, EmptySeq
      <4>4. \A i \in 1..(Len(posted) - 1) : Tail(posted)[i] = posted[i + 1]
        BY <4>1, <4>2, HeadTailProperties
      <4>5. Head(posted) = posted[1]
        OBVIOUS
      <4> QED  BY <4>3, <4>4, <4>5
    <3>2. PostedTasks'
      BY <1>2, <2>1, <3>1 DEF TakeHandler
    <3>3. Head(posted).what = "task" => Head(posted).msg \in Messages
      BY <1>2, <3>1
    <3>4. /\ pc' = [pc EXCEPT ![w] = pc'[w]] /\ pc'[w] \notin {"dispatch", "postTask", "receive"}
          /\ pc'[w] = "run" => Head(posted).what = "task"
      <4>1. posted[1] \in Handlers
        BY <1>1, <3>1, ElementOfSeq, LenProperties DEF SeqTypes
      <4>2. Head(posted).what \in {"drain", "pump", "task"}
        BY <3>1, <4>1 DEF Handlers
      <4> QED  BY <1>1, <2>1, <4>2 DEF TakeHandler, Goto
    <3>5. held' = [held EXCEPT ![w] = Head(posted).msg] /\ count' = [count EXCEPT ![w] = 0]
      BY <2>1 DEF TakeHandler
    <3>6. (Held /\ Batch)'
      BY <1>1, <1>2, <3>3, <3>4, <3>5
    <3> QED  BY <3>2, <3>6 DEF Carried
  <2>2. CASE DrainReceive(w)
    <3>1. box # <<>> => Head(box) \in Messages
      BY <1>1, HeadTailProperties DEF SeqTypes
    <3> QED  BY <1>1, <1>2, <2>2, <3>1 DEF DrainReceive, Goto, executor, worker, Carried
  <2>3. CASE PumpTake(w)
    <3>1. dispatchQueue # <<>> => Head(dispatchQueue) \in Messages
      BY <1>1, HeadTailProperties DEF SeqTypes
    <3> QED  BY <1>1, <1>2, <2>3, <3>1 DEF PumpTake, Goto, executor, Carried
  <2>4. CASE PostPump(w) \/ PostTask(w)
    <3>1. \/ posted' = posted
          \/ posted' = Append(posted, Handler("pump", NoMessage))
          \/ posted' = Append(posted, Handler("task", held[w])) /\ held[w] \in Messages
      BY <1>2, <2>4 DEF PostPump, PostTask
    <3>2. PostedTasks'
      BY <1>2, <1>3, <1>4, <3>1
    <3>3. (Held /\ Batch)'
      BY <1>1, <1>2, <2>4 DEF PostPump, PostTask, Goto, worker
    <3> QED  BY <3>2, <3>3 DEF Carried
  <2>5. CASE DrainCheck(w)
    <3>1. count[w] # BatchSize => count[w] < BatchSize
      BY <1>1
    <3> QED  BY <1>1, <1>2, <2>5, <3>1 DEF DrainCheck, Goto, executor, worker, Carried
  <2>6. CASE DrainTimeUp(w) \/ DrainUnlatch(w) \/ DrainRecheck(w) \/ DispatchReject(w)
    BY <1>1, <1>2, <2>6 DEF DrainTimeUp, DrainUnlatch, DrainRecheck, DispatchReject, Goto, executor, worker, Carried
  <2>7. CASE DispatchSerialized(w) \/ DispatchConcurrent(w)
    BY <1>1, <1>2, <2>7 DEF DispatchSerialized, DispatchConcurrent, Goto, executor, worker, Carried
  <2>8. CASE RunTask(w) \/ AccountTask(w) \/ PumpNext(w)
    BY <1>1, <1>2, <2>8 DEF RunTask, AccountTask, PumpNext, Goto, executor, worker, Carried
  <2> QED  BY <1>7, <2>1, <2>2, <2>3, <2>4, <2>5, <2>6, <2>7, <2>8 DEF WorkerAction
<1>8. CASE GraphAction
  <2>1. UNCHANGED <<posted, pc, held, count>>
    BY <1>8 DEF GraphAction, OpenDispatch, OpenEdge, StartExecutor, StopProduction, WaitNodes,
       WaitEdge, BeginStop, CancelDrain, CloseTransport, UnlatchEdge, CloseNode, StopExecutor, Join,
       worker, executor
  <2> QED  BY <2>1 DEF Carried
<1>9. CASE UNCHANGED vars
  BY <1>9 DEF vars, worker, executor, Carried
<1> QED  BY <1>5, <1>6, <1>7, <1>8, <1>9 DEF Next, WorkerStep

\* Before a node has been started, and while it is for the first time, nothing is going on.
Fresh == posted = <<>> /\ dispatchQueue = <<>> /\ \A t \in Threads : pc[t] = "idle"

LEMMA PhasesKept ==
  ASSUME TypeOK, Phases, [Next]_vars
  PROVE  Phases'
<1>1. lifecycle \in Nat /\ (Workers \subseteq Threads /\ Producers \subseteq Threads)
  BY EdgeAssumption DEF TypeOK, Threads
<1>2. ASSUME NEW p \in Producers, Send(p) PROVE Phases'
  BY <1>1, <1>2 DEF Send, Live, Phases, lifetime, dispatch, latch, executor
<1>3. ASSUME NEW t \in Threads, ThreadStep(t) PROVE Phases'
  BY <1>3 DEF ThreadStep, ScheduleCheck, ScheduleLatch, SchedulePost, Phases, lifetime, dispatch, transport, latch
<1>4. ASSUME NEW w \in Workers, WorkerAction(w) PROVE Phases'
  <2>1. lifecycle = 0 \/ (lifecycle = 1 /\ graph \in {"openEdge", "startExecutor"}) => Fresh
    BY DEF Phases, Fresh
  <2>2. ~Fresh
    BY <1>1, <1>4 DEF Fresh, WorkerAction, TakeHandler, DrainCheck, DrainTimeUp, DrainReceive, DrainUnlatch,
       DrainRecheck, DispatchReject, DispatchSerialized, DispatchConcurrent, PostPump,
       PostTask, PumpTake, RunTask, AccountTask, PumpNext
  <2>3. UNCHANGED <<lifecycle, graph, cancelled>>
    BY <1>4 DEF WorkerAction, TakeHandler, DrainCheck, DrainTimeUp, DrainReceive, DrainUnlatch,
       DrainRecheck, DispatchReject, DispatchSerialized, DispatchConcurrent, PostPump,
       PostTask, PumpTake, RunTask, AccountTask, PumpNext, latch, lifetime
  <2>4. box = <<>> => box' = <<>>
    BY <1>4 DEF WorkerAction, TakeHandler, DrainCheck, DrainTimeUp, DrainReceive, DrainUnlatch,
       DrainRecheck, DispatchReject, DispatchSerialized, DispatchConcurrent, PostPump,
       PostTask, PumpTake, RunTask, AccountTask, PumpNext, transport
  <2>5. (dispatchClosed => dispatchQueue = <<>> /\ ~active)'
    <3>1. CASE DispatchSerialized(w)
      BY <3>1 DEF DispatchSerialized, Rejects
    <3>2. CASE PostPump(w)
      BY <3>2 DEF PostPump, CloseDispatch, dispatch, Phases
    <3>3. CASE PumpTake(w) \/ PumpNext(w)
      BY <3>3 DEF PumpTake, PumpNext, Phases
    <3>4. CASE ~(DispatchSerialized(w) \/ PostPump(w) \/ PumpTake(w) \/ PumpNext(w))
      BY <1>4, <3>4 DEF WorkerAction, TakeHandler, DrainCheck, DrainTimeUp, DrainReceive, DrainUnlatch,
         DrainRecheck, DispatchReject, DispatchConcurrent,
         PostTask, RunTask, AccountTask, dispatch, Phases
    <3> QED  BY <3>1, <3>2, <3>3, <3>4
  <2> QED  BY <2>1, <2>2, <2>3, <2>4, <2>5 DEF Phases
<1>5. CASE GraphAction
  <2>1. CASE OpenDispatch
    BY <1>1, <2>1 DEF OpenDispatch, GraphGoes, Phases, executor
  <2>2. CASE OpenEdge \/ StartExecutor \/ StopProduction \/ WaitNodes \/ WaitEdge \/ BeginStop
    BY <1>1, <2>2 DEF OpenEdge, StartExecutor, StopProduction, WaitNodes, WaitEdge, BeginStop, GraphGoes,
       transport, latch, executor, dispatch, Phases
  <2>3. CASE CancelDrain \/ CloseTransport \/ UnlatchEdge \/ CloseNode \/ StopExecutor \/ Join
    BY <1>1, <2>3 DEF CancelDrain, CloseTransport, UnlatchEdge, CloseNode, CloseDispatch, StopExecutor, Join, GraphGoes,
       transport, latch, executor, dispatch, Phases
  <2> QED  BY <1>5, <2>1, <2>2, <2>3 DEF GraphAction
<1>6. CASE UNCHANGED vars
  BY <1>6 DEF vars, transport, latch, executor, dispatch, lifetime, Phases
<1> QED  BY <1>2, <1>3, <1>4, <1>5, <1>6 DEF Next, WorkerStep

LEMMA AtRestKept ==
  ASSUME TypeOK, AtRest, [Next]_vars
  PROVE  AtRest'
<1>1. Workers \subseteq Threads /\ Producers \subseteq Threads
  BY DEF Threads
<1>2. ASSUME NEW p \in Producers, Send(p) PROVE AtRest'
  BY <1>2 DEF Send, Live, AtRest, lifetime, executor
<1>3. ASSUME NEW t \in Threads, ThreadStep(t) PROVE AtRest'
  <2>1. pc[t] # "idle"
    BY <1>3 DEF ThreadStep, ScheduleCheck, ScheduleLatch, SchedulePost
  <2>2. UNCHANGED <<graph, running>>
    BY <1>3 DEF ThreadStep, ScheduleCheck, ScheduleLatch, SchedulePost, lifetime, executor
  <2> QED  BY <2>1, <2>2 DEF AtRest
<1>4. ASSUME NEW w \in Workers, WorkerAction(w) PROVE AtRest'
  <2>1. pc[w] # "idle" \/ running
    BY <1>4 DEF WorkerAction, TakeHandler, DrainCheck, DrainTimeUp, DrainReceive, DrainUnlatch,
       DrainRecheck, DispatchReject, DispatchSerialized, DispatchConcurrent, PostPump,
       PostTask, PumpTake, RunTask, AccountTask, PumpNext
  <2>2. UNCHANGED <<graph, running>>
    BY <1>4 DEF WorkerAction, TakeHandler, DrainCheck, DrainTimeUp, DrainReceive, DrainUnlatch,
       DrainRecheck, DispatchReject, DispatchSerialized, DispatchConcurrent, PostPump,
       PostTask, PumpTake, RunTask, AccountTask, PumpNext, lifetime, executor
  <2> QED  BY <1>1, <2>1, <2>2 DEF AtRest
<1>5. CASE GraphAction
  BY <1>5 DEF GraphAction, GraphGoes, OpenDispatch, OpenEdge, StartExecutor, StopProduction, WaitNodes,
     WaitEdge, BeginStop, CancelDrain, CloseTransport, UnlatchEdge, CloseNode, StopExecutor, Join, executor, AtRest
<1>6. CASE UNCHANGED vars
  BY <1>6 DEF vars, executor, lifetime, AtRest
<1> QED  BY <1>2, <1>3, <1>4, <1>5, <1>6 DEF Next, WorkerStep

\* Covered holds after every lifecycle: the drain is only let go of by a thread that still looks.
LEMMA CoveredKept ==
  ASSUME TypeOK, Phases, Covered, [Next]_vars
  PROVE  Covered'
<1> USE DEF Places
<1> DEFINE Looks == {"schedule", "latch", "recheck"}
<1>1. pc \in [Threads -> Places] /\ Workers \subseteq Threads /\ Producers \subseteq Threads
  BY DEF TypeOK, Threads
<1>2. ASSUME NEW p \in Producers, Send(p) PROVE Covered'
  <2>1. p \in Threads /\ pc'[p] = "schedule"
    BY <1>1, <1>2 DEF Send, Goto
  <2> QED  BY <2>1 DEF Covered
<1>3. ASSUME NEW t \in Threads, ThreadStep(t) PROVE Covered'
  <2>1. UNCHANGED <<box, cancelled, running>>
    BY <1>3 DEF ThreadStep, ScheduleCheck, ScheduleLatch, SchedulePost, transport, latch, executor
  <2>2. CASE ScheduleCheck(t)
    <3>1. ~cancelled => scheduled' = scheduled /\ pc' = [pc EXCEPT ![t] = "latch"]
      BY <2>2 DEF ScheduleCheck, Goto
    <3> QED  BY <1>1, <2>1, <3>1 DEF Covered
  <2>3. CASE ScheduleLatch(t)
    BY <2>3 DEF ScheduleLatch, Covered
  <2>4. CASE SchedulePost(t)
    <3>1. running => scheduled' = scheduled
      BY <2>4 DEF SchedulePost, TypeOK
    <3>2. pc[t] = "post" /\ pc' = [pc EXCEPT ![t] = "idle"]
      BY <2>4 DEF SchedulePost, Goto
    <3> QED  BY <1>1, <2>1, <3>1, <3>2 DEF Covered
  <2> QED  BY <1>3, <2>2, <2>3, <2>4 DEF ThreadStep
<1>4. ASSUME NEW w \in Workers, WorkerAction(w) PROVE Covered'
  <2>1. w \in Threads
    BY <1>1
  <2>2. CASE DrainUnlatch(w)
    BY <1>1, <2>1, <2>2 DEF DrainUnlatch, Goto, Covered
  <2>3. CASE DrainRecheck(w)
    <3>1. UNCHANGED <<box, cancelled, running, scheduled>>
      BY <2>3 DEF DrainRecheck, transport, latch, executor
    <3>2. box # <<>> /\ ~cancelled => pc' = [pc EXCEPT ![w] = "schedule"]
      BY <2>3 DEF DrainRecheck, Goto
    <3> QED  BY <1>1, <2>1, <3>1, <3>2 DEF Covered
  <2>4. CASE ~(DrainUnlatch(w) \/ DrainRecheck(w))
    <3>1. UNCHANGED <<cancelled, running, scheduled>> /\ (box' # <<>> => box # <<>>)
      BY <1>4, <2>4 DEF WorkerAction, TakeHandler, DrainCheck, DrainTimeUp, DrainReceive,
         DispatchReject, DispatchSerialized, DispatchConcurrent, PostPump,
         PostTask, PumpTake, RunTask, AccountTask, PumpNext, transport, latch, executor
    <3>2. pc[w] \notin Looks
      BY <1>4, <2>4 DEF WorkerAction, TakeHandler, DrainCheck, DrainTimeUp, DrainReceive,
         DispatchReject, DispatchSerialized, DispatchConcurrent, PostPump,
         PostTask, PumpTake, RunTask, AccountTask, PumpNext
    <3>3. \A t \in Threads : t # w => pc'[t] = pc[t]
      BY <1>1, <1>4, <2>4 DEF WorkerAction, TakeHandler, DrainCheck, DrainTimeUp, DrainReceive,
         DispatchReject, DispatchSerialized, DispatchConcurrent, PostPump,
         PostTask, PumpTake, RunTask, AccountTask, PumpNext, Goto
    <3> QED  BY <3>1, <3>2, <3>3 DEF Covered
  <2> QED  BY <2>2, <2>3, <2>4
<1>5. CASE GraphAction
  <2>1. pc' = pc
    BY <1>5 DEF GraphAction, OpenDispatch, OpenEdge, StartExecutor, StopProduction, WaitNodes,
       WaitEdge, BeginStop, CancelDrain, CloseTransport, UnlatchEdge, CloseNode, StopExecutor, Join
  <2>2. CASE OpenEdge \/ CloseTransport \/ CancelDrain \/ StopExecutor
    BY <2>2 DEF OpenEdge, CloseTransport, CancelDrain, StopExecutor, Covered
  <2>3. CASE StartExecutor
    BY <2>3 DEF StartExecutor, GraphGoes, Phases, Covered, transport
  <2>4. CASE UnlatchEdge
    BY <2>4 DEF UnlatchEdge, GraphGoes, Phases, Covered, transport
  <2>5. CASE OpenDispatch \/ StopProduction \/ WaitNodes \/ WaitEdge \/ BeginStop \/ CloseNode \/ Join
    BY <2>1, <2>5 DEF OpenDispatch, StopProduction, WaitNodes, WaitEdge, BeginStop, CloseNode, Join,
       transport, latch, executor, Covered
  <2> QED  BY <1>5, <2>2, <2>3, <2>4, <2>5 DEF GraphAction
<1>6. CASE UNCHANGED vars
  BY <1>6 DEF vars, transport, latch, executor, Covered
<1> QED  BY <1>2, <1>3, <1>4, <1>5, <1>6 DEF Next, WorkerStep

LEMMA TasksByModeKept ==
  ASSUME TypeOK, TasksByMode, [Next]_vars
  PROVE  TasksByMode'
<1> USE DEF Places
<1> DEFINE NoTask(q) == \A i \in DOMAIN q : q[i].what # "task"
<1>1. /\ pc \in [Threads -> Places] /\ Workers \subseteq Threads /\ Producers \subseteq Threads
      /\ posted \in Seq(Handlers)
  BY DEF TypeOK, Threads, Handlers
<1>2. Concurrent' = Concurrent
  BY DEF Concurrent, Next, WorkerStep, ThreadStep, vars
<1> SUFFICES ASSUME ~Concurrent
             PROVE  (\A w \in Workers : pc'[w] # "postTask") /\ NoTask(posted')
  BY <1>2 DEF TasksByMode
<1>3. (\A w \in Workers : pc[w] # "postTask") /\ NoTask(posted)
  BY DEF TasksByMode
<1>4. NoTask(posted')
  <2>1. \/ posted' = posted \/ (posted # <<>> /\ posted' = Tail(posted))
        \/ posted' = Append(posted, Handler("drain", NoMessage))
        \/ posted' = Append(posted, Handler("pump", NoMessage))
    <3>1. CASE \E w \in Workers : WorkerAction(w)
      BY <1>3, <3>1 DEF WorkerAction, TakeHandler, DrainCheck, DrainTimeUp, DrainReceive, DrainUnlatch,
         DrainRecheck, DispatchReject, DispatchSerialized, DispatchConcurrent, PostPump,
         PostTask, PumpTake, RunTask, AccountTask, PumpNext, executor
    <3>2. CASE \E t \in Threads : ThreadStep(t)
      BY <3>2 DEF ThreadStep, ScheduleCheck, ScheduleLatch, SchedulePost, executor
    <3>3. CASE GraphAction
      BY <3>3 DEF GraphAction, OpenDispatch, OpenEdge, StartExecutor, StopProduction, WaitNodes,
         WaitEdge, BeginStop, CancelDrain, CloseTransport, UnlatchEdge, CloseNode, StopExecutor, Join, executor
    <3>4. CASE UNCHANGED vars \/ \E p \in Producers : Send(p)
      BY <3>4 DEF vars, Send, executor
    <3> QED  BY <3>1, <3>2, <3>3, <3>4 DEF Next, WorkerStep
  <2>2. \A h \in Handlers : h.what # "task" => NoTask(Append(posted, h))
    BY <1>1, <1>3, AppendProperties, LenProperties
  <2>3. posted # <<>> => NoTask(Tail(posted))
    <3> SUFFICES ASSUME posted # <<>> PROVE NoTask(Tail(posted))
      OBVIOUS
    <3>1. Tail(posted) \in Seq(Handlers) /\ Len(Tail(posted)) = Len(posted) - 1
      BY <1>1, HeadTailProperties
    <3>2. DOMAIN posted = 1..Len(posted) /\ Len(posted) \in Nat /\ DOMAIN Tail(posted) = 1..(Len(posted) - 1)
      BY <1>1, <3>1, LenProperties
    <3>3. \A i \in 1..(Len(posted) - 1) : Tail(posted)[i] = posted[i + 1]
      BY <1>1, <3>1, HeadTailProperties
    <3> QED  BY <1>3, <3>2, <3>3
  <2>4. \A k \in {"drain", "pump"} : Handler(k, NoMessage) \in Handlers /\ Handler(k, NoMessage).what = k
    BY DEF Handler, Handlers
  <2> QED  BY <1>3, <2>1, <2>2, <2>3, <2>4
<1>5. \A w \in Workers : pc'[w] # "postTask"
  <2>1. ASSUME NEW t \in Threads, NEW l \in Places \ {"postTask"}, Goto(t, l)
        PROVE  \A w \in Workers : pc'[w] # "postTask"
    BY <1>1, <1>3, <2>1 DEF Goto
  <2>2. ASSUME NEW w \in Workers, WorkerAction(w) PROVE \A v \in Workers : pc'[v] # "postTask"
    <3>1. w \in Threads
      BY <1>1
    <3>2. CASE TakeHandler(w)
      <4>1. posted # <<>>
        BY <3>2 DEF TakeHandler
      <4>2. Head(posted) \in Handlers
        BY <1>1, <4>1, HeadTailProperties
      <4>3. Head(posted).what \in {"drain", "pump", "task"}
        BY <4>2 DEF Handlers
      <4> QED  BY <2>1, <3>1, <3>2, <4>3 DEF TakeHandler
    <3>3. CASE DrainCheck(w) \/ DrainTimeUp(w) \/ DrainReceive(w) \/ DrainUnlatch(w) \/ DrainRecheck(w)
      BY <2>1, <3>1, <3>3 DEF DrainCheck, DrainTimeUp, DrainReceive, DrainUnlatch, DrainRecheck
    <3>4. CASE DispatchReject(w) \/ DispatchSerialized(w) \/ DispatchConcurrent(w) \/ PostPump(w) \/ PostTask(w)
      BY <2>1, <3>1, <3>4 DEF DispatchReject, DispatchSerialized, DispatchConcurrent, PostPump, PostTask
    <3>5. CASE PumpTake(w) \/ RunTask(w) \/ AccountTask(w) \/ PumpNext(w)
      BY <2>1, <3>1, <3>5 DEF PumpTake, RunTask, AccountTask, PumpNext
    <3> QED  BY <2>2, <3>2, <3>3, <3>4, <3>5 DEF WorkerAction
  <2>3. ASSUME NEW t \in Threads, ThreadStep(t) PROVE \A v \in Workers : pc'[v] # "postTask"
    BY <2>1, <2>3 DEF ThreadStep, ScheduleCheck, ScheduleLatch, SchedulePost
  <2>4. ASSUME NEW p \in Producers, Send(p) PROVE \A v \in Workers : pc'[v] # "postTask"
    BY <1>1, <2>1, <2>4 DEF Send
  <2>5. CASE GraphAction
    BY <1>3, <2>5 DEF GraphAction, OpenDispatch, OpenEdge, StartExecutor, StopProduction, WaitNodes,
       WaitEdge, BeginStop, CancelDrain, CloseTransport, UnlatchEdge, CloseNode, StopExecutor, Join
  <2>6. CASE UNCHANGED vars
    BY <1>3, <2>6 DEF vars
  <2> QED  BY <2>2, <2>3, <2>4, <2>5, <2>6 DEF Next, WorkerStep
<1> QED  BY <1>4, <1>5

-----------------------------------------------------------------------------
(* Counts across a step                                                    *)

\* A step of one thread moves that thread only.
LEMMA ThreadMoves ==
  ASSUME TypeOK, NEW t \in Threads, pc' = [pc EXCEPT ![t] = pc'[t]], NEW S \in SUBSET Threads, NEW L
  PROVE  /\ Cardinality(At(S, L)) \in Nat /\ Cardinality(At(S, L)') \in Nat
         /\ Cardinality(At(S, L)') =
              Cardinality(At(S, L)) + (IF t \in S /\ pc'[t] \in L THEN 1 ELSE 0)
                                    - (IF t \in S /\ pc[t] \in L THEN 1 ELSE 0)
<1> USE DEF Places
<1> DEFINE A == {u \in S : pc[u] \in L}
           B == {u \in S : pc'[u] \in L}
<1>1. pc \in [Threads -> Places] /\ IsFiniteSet(S)
  BY FS_Subset, EdgeAssumption DEF TypeOK
<1>2. IsFiniteSet(A) /\ Cardinality(A) \in Nat /\ IsFiniteSet(B) /\ Cardinality(B) \in Nat
  BY <1>1, FS_Subset, FS_CardinalityType
<1>3. \A u \in S : u # t => pc'[u] = pc[u]
  BY <1>1
<1>4. (t \in S /\ pc[t] \in L <=> t \in S /\ pc'[t] \in L) => B = A
  BY <1>3
<1>5. t \in S /\ pc[t] \in L /\ pc'[t] \notin L => B = A \ {t} /\ t \in A
  BY <1>3
<1>6. t \in S /\ pc[t] \notin L /\ pc'[t] \in L => B = A \cup {t} /\ t \notin A
  BY <1>3
<1>7. At(S, L) = A /\ At(S, L)' = B
  BY DEF At
<1> HIDE DEF A, B
<1>8. /\ t \in A => Cardinality(A \ {t}) = Cardinality(A) - 1
      /\ t \notin A => Cardinality(A \cup {t}) = Cardinality(A) + 1
  BY <1>2, FS_AddElement, FS_RemoveElement
<1>9. Cardinality(B) = Cardinality(A) + (IF t \in S /\ pc'[t] \in L THEN 1 ELSE 0)
                                      - (IF t \in S /\ pc[t] \in L THEN 1 ELSE 0)
  <2>1. CASE t \in S /\ pc[t] \in L /\ pc'[t] \notin L
    BY <1>2, <1>5, <1>8, <2>1
  <2>2. CASE t \in S /\ pc[t] \notin L /\ pc'[t] \in L
    <3>1. Cardinality(B) = Cardinality(A) + 1 /\ Cardinality(A) \in Nat
      BY <1>2, <1>6, <1>8, <2>2
    <3> QED  BY <2>2, <3>1
  <2>3. CASE (t \in S /\ pc[t] \in L) <=> (t \in S /\ pc'[t] \in L)
    <3>1. B = A
      BY <1>4, <2>3
    <3>2. Cardinality(B) = Cardinality(A) /\ Cardinality(A) \in Nat
      BY <1>2, <3>1
    <3> QED  BY <2>3, <3>2
  <2> QED  BY <2>1, <2>2, <2>3
<1> QED  BY <1>2, <1>7, <1>9

\* One handler is added to the executor's queue, or the first one is taken.
LEMMA HandlersMove ==
  ASSUME TypeOK, NEW k
  PROVE  /\ Cardinality(PostedOf(k)) \in Nat
         /\ \A h \in Handlers : posted' = Append(posted, h) =>
              Cardinality(PostedOf(k)') = Cardinality(PostedOf(k)) + (IF h.what = k THEN 1 ELSE 0)
         /\ posted # <<>> /\ posted' = Tail(posted) =>
              /\ Cardinality(PostedOf(k)') = Cardinality(PostedOf(k)) - (IF Head(posted).what = k THEN 1 ELSE 0)
              /\ Cardinality(PostedOf(k)') \in Nat
         /\ posted' = posted => Cardinality(PostedOf(k)') = Cardinality(PostedOf(k))
<1> DEFINE q == posted
           A == {i \in DOMAIN q : q[i].what = k}
           B == {i \in DOMAIN q' : q'[i].what = k}
           n == Len(q)
<1>1. q \in Seq(Handlers) /\ n \in Nat /\ DOMAIN q = 1..n
  <2>1. q \in Seq(Handlers)
    BY DEF TypeOK, Handlers
  <2> QED  BY <2>1, LenProperties
<1>2. PostedOf(k) = A /\ PostedOf(k)' = B
  BY DEF PostedOf
<1>3. IsFiniteSet(A) /\ Cardinality(A) \in Nat
  <2>1. IsFiniteSet(1..n) /\ A \in SUBSET (1..n)
    BY <1>1, FS_Interval
  <2> QED  BY <2>1, FS_Subset, FS_CardinalityType
<1>4. ASSUME NEW h \in Handlers, posted' = Append(posted, h)
      PROVE  Cardinality(B) = Cardinality(A) + (IF h.what = k THEN 1 ELSE 0)
  <2>1. /\ DOMAIN q' = 1..(n + 1) /\ q'[n + 1] = h /\ \A i \in 1..n : q'[i] = q[i]
    BY <1>1, <1>4, AppendProperties, LenProperties
  <2>2. n + 1 \notin A
    BY <1>1
  <2>3. B = IF h.what = k THEN A \cup {n + 1} ELSE A
    BY <1>1, <2>1
  <2> HIDE DEF A, B, n
  <2> QED  BY <1>3, <2>2, <2>3, FS_AddElement
<1>5. ASSUME posted # <<>>, posted' = Tail(posted)
      PROVE  /\ Cardinality(B) = Cardinality(A) - (IF Head(posted).what = k THEN 1 ELSE 0)
             /\ Cardinality(B) \in Nat
  <2> DEFINE C == A \ {1}
             f == [i \in C |-> i - 1]
  <2>1. q' \in Seq(Handlers) /\ Len(q') = n - 1 /\ n # 0
    BY <1>1, <1>5, HeadTailProperties, EmptySeq
  <2>2. DOMAIN q' = 1..(n - 1) /\ (\A i \in 1..(n - 1) : q'[i] = q[i + 1])
    BY <1>1, <1>5, <2>1, HeadTailProperties, LenProperties
  <2>3. Head(posted) = q[1]
    OBVIOUS
  <2>4. 1 \in A <=> Head(posted).what = k
    BY <1>1, <2>1, <2>3
  <2>5. IsFiniteSet(C) /\ Cardinality(C) = IF 1 \in A THEN Cardinality(A) - 1 ELSE Cardinality(A)
    BY <1>3, FS_RemoveElement
  <2>6. \A i \in C : i \in 2..n /\ i - 1 \in B
    BY <1>1, <2>2
  <2>7. \A j \in B : j + 1 \in C /\ (j + 1) - 1 = j
    BY <1>1, <2>2
  <2>8. f \in Bijection(C, B)
    <3>1. f \in [C -> B]
      BY <2>6
    <3>2. \A i, j \in C : i # j => f[i] # f[j]
      BY <2>6
    <3>3. \A j \in B : \E i \in C : f[i] = j
      BY <2>7
    <3> QED  BY <3>1, <3>2, <3>3 DEF Bijection, Injection, Surjection, IsInjective
  <2>9. ExistsBijection(C, B)
    BY <2>8 DEF ExistsBijection
  <2> HIDE DEF B, C
  <2>10. IsFiniteSet(B) /\ Cardinality(B) = Cardinality(C)
    BY <2>5, <2>9, FS_Bijection
  <2>11. Cardinality(B) \in Nat
    BY <2>10, FS_CardinalityType
  <2> HIDE DEF A
  <2> QED  BY <1>3, <2>4, <2>5, <2>10, <2>11
<1>6. posted' = posted => B = A
  OBVIOUS
<1> HIDE DEF A, B
<1> QED  BY <1>2, <1>3, <1>4, <1>5, <1>6

\* What each action does to the place of its thread.
LEMMA OneThread ==
  ASSUME TypeOK
  PROVE  /\ Workers \subseteq Threads /\ Producers \subseteq Threads /\ Producers \cap Workers = {}
         /\ \A t \in Threads : \A l : Goto(t, l) => pc' = [pc EXCEPT ![t] = pc'[t]] /\ pc'[t] = l
<1> USE DEF Places
<1>1. pc \in [Threads -> Places]
  BY DEF TypeOK
<1> QED  BY <1>1, EdgeAssumption DEF Threads, Goto

-----------------------------------------------------------------------------
(* The counters                                                            *)

\* Before the first start has finished there is nothing to count.
LEMMA NothingAtFirst ==
  ASSUME Fresh
  PROVE  /\ \A k : Cardinality(PostedOf(k)) = 0
         /\ \A L : \A S \in SUBSET Threads : "idle" \notin L => At(S, L) = {} /\ Cardinality(At(S, L)) = 0
<1>1. \A k : PostedOf(k) = {}
  BY DEF Fresh, PostedOf
<1>2. \A L : \A S \in SUBSET Threads : "idle" \notin L => At(S, L) = {}
  BY DEF Fresh, At
<1> QED  BY <1>1, <1>2, FS_EmptySet

\* Taking an element out of a sequence keeps the others in their order.
LEMMA RemoveAtFacts ==
  ASSUME NEW S, NEW q \in Seq(S), NEW i \in DOMAIN q
  PROVE  /\ RemoveAt(q, i) \in Seq(S) /\ Len(RemoveAt(q, i)) = Len(q) - 1
         /\ \A j \in 1..(Len(q) - 1) : RemoveAt(q, i)[j] = IF j < i THEN q[j] ELSE q[j + 1]
<1> DEFINE n == Len(q)
           a == SubSeq(q, 1, i - 1)
           b == SubSeq(q, i + 1, n)
<1>1. n \in Nat /\ DOMAIN q = 1..n /\ i \in 1..n /\ \A j \in 1..n : q[j] \in S
  BY LenProperties, ElementOfSeq
<1>2. a \in Seq(S) /\ Len(a) = i - 1 /\ \A j \in 1..(i - 1) : a[j] = q[j]
  BY <1>1, SubSeqProperties
<1>3. b \in Seq(S) /\ Len(b) = n - i /\ \A j \in 1..(n - i) : b[j] = q[i + j]
  BY <1>1, SubSeqProperties
<1>4. RemoveAt(q, i) = a \o b
  BY DEF RemoveAt
<1> HIDE DEF a, b, n
<1>5. /\ a \o b \in Seq(S) /\ Len(a \o b) = Len(a) + Len(b)
      /\ \A j \in 1..(Len(a) + Len(b)) : (a \o b)[j] = IF j <= Len(a) THEN a[j] ELSE b[j - Len(a)]
  BY <1>2, <1>3, ConcatProperties
<1>6. Len(a) + Len(b) = n - 1
  BY <1>1, <1>2, <1>3
<1>7. \A j \in 1..(n - 1) : (a \o b)[j] = IF j < i THEN q[j] ELSE q[j + 1]
  <2> SUFFICES ASSUME NEW j \in 1..(n - 1) PROVE (a \o b)[j] = IF j < i THEN q[j] ELSE q[j + 1]
    OBVIOUS
  <2>1. CASE j < i
    BY <1>1, <1>2, <1>5, <1>6, <2>1
  <2>2. CASE ~(j < i)
    <3>1. j - (i - 1) \in 1..(n - i) /\ i + (j - (i - 1)) = j + 1
      BY <1>1, <2>2
    <3>2. b[j - (i - 1)] = q[j + 1]
      BY <1>3, <3>1
    <3>3. (a \o b)[j] = b[j - (i - 1)]
      BY <1>1, <1>2, <1>5, <1>6, <2>2
    <3> QED  BY <2>2, <3>2, <3>3
  <2> QED  BY <2>1, <2>2
<1> QED  BY <1>4, <1>5, <1>6, <1>7 DEF n

LEMMA PostedFinite ==
  ASSUME NEW q \in Seq(Handlers), NEW k
  PROVE  Cardinality({i \in DOMAIN q : q[i].what = k}) \in Nat
<1> DEFINE A == {i \in DOMAIN q : q[i].what = k}
           n == Len(q)
<1>1. n \in Nat /\ DOMAIN q = 1..n
  BY LenProperties
<1>2. IsFiniteSet(1..n) /\ A \in SUBSET (1..n)
  BY <1>1, FS_Interval
<1> HIDE DEF A, n
<1>3. Cardinality(A) \in Nat
  BY <1>2, FS_Subset, FS_CardinalityType
<1> QED  BY <1>3 DEF A

\* A task enters pending_tasks_ when it is queued or about to be posted, and leaves it when it has
\* run: every step but the opening moves the count as it moves the tasks.
Up(k) == pending' = pending + k /\ Tasks' = Tasks + k
Down(k) == pending' = Decrement(pending, k) /\ Tasks' = Tasks - k

LEMMA InStep ==
  ASSUME TypeOK, Carried, SeqTypes', [Next]_vars, ~OpenDispatch
  PROVE  /\ Tasks \in Nat /\ Tasks' \in Nat
         /\ Up(0) \/ Up(1) \/ Down(1) \/ Down(Len(dispatchQueue))
<1> DEFINE Busy == {"run", "account", "postTask"}
<1> USE OneThread
<1>1. /\ dispatchQueue \in Seq(Messages) /\ posted \in Seq(Handlers) /\ pending \in 0..(SizeModulus - 1)
      /\ lifecycle \in Nat /\ Len(dispatchQueue) \in Nat /\ Workers \in SUBSET Threads
      /\ MaxPending \in 1..(SizeModulus - 1)
  <2>1. dispatchQueue \in Seq(Messages) /\ posted \in Seq(Handlers) /\ pending \in 0..(SizeModulus - 1) /\ lifecycle \in 0..MaxLifecycles
    BY DEF TypeOK, Handlers
  <2> QED  BY <2>1, LenProperties, EdgeAssumption DEF Threads
<1>2. /\ TasksRunning = Cardinality(At(Workers, Busy)) /\ TasksRunning' = Cardinality(At(Workers, Busy)')
      /\ TasksPosted = Cardinality(PostedOf("task")) /\ TasksPosted' = Cardinality(PostedOf("task")')
  BY DEF TasksRunning, TasksPosted
<1>3. TasksRunning \in Nat /\ TasksPosted \in Nat
  <2>1. At(Workers, Busy) \in SUBSET Workers /\ IsFiniteSet(Workers)
    BY <1>1, FS_Subset, EdgeAssumption DEF At
  <2> HIDE DEF Busy
  <2>2. Cardinality(At(Workers, Busy)) \in Nat
    BY <2>1, FS_Subset, FS_CardinalityType
  <2> QED  BY <1>2, <2>2, HandlersMove
<1>4. /\ Tasks = Len(dispatchQueue) + TasksRunning + TasksPosted
      /\ Tasks' = Len(dispatchQueue') + TasksRunning' + TasksPosted'
  BY DEF Tasks, TasksRunning, TasksPosted
<1>5. ASSUME NEW t \in Threads, pc' = [pc EXCEPT ![t] = pc'[t]]
      PROVE  TasksRunning' = TasksRunning + (IF t \in Workers /\ pc'[t] \in Busy THEN 1 ELSE 0)
                                          - (IF t \in Workers /\ pc[t] \in Busy THEN 1 ELSE 0)
  <2> HIDE DEF Busy
  <2> DEFINE a == Cardinality(At(Workers, Busy))
             b == Cardinality(At(Workers, Busy)')
  <2>1. b = a + (IF t \in Workers /\ pc'[t] \in Busy THEN 1 ELSE 0) - (IF t \in Workers /\ pc[t] \in Busy THEN 1 ELSE 0)
    BY <1>1, <1>5, ThreadMoves
  <2>2. TasksRunning = a /\ TasksRunning' = b
    BY <1>2
  <2> QED  BY <2>1, <2>2
<1>6. /\ \A k \in {"drain", "pump", "task"}, m \in Messages \cup {NoMessage} :
            posted' = Append(posted, Handler(k, m)) => TasksPosted' = TasksPosted + (IF k = "task" THEN 1 ELSE 0)
      /\ posted # <<>> /\ posted' = Tail(posted) =>
            TasksPosted' = TasksPosted - (IF Head(posted).what = "task" THEN 1 ELSE 0)
      /\ posted' = posted => TasksPosted' = TasksPosted
  <2>1. \A k \in {"drain", "pump", "task"}, m \in Messages \cup {NoMessage} : Handler(k, m) \in Handlers /\ Handler(k, m).what = k
    BY DEF Handler, Handlers
  <2> QED  BY <1>2, <2>1, HandlersMove
<1>7. \A m \in Messages : Len(Append(dispatchQueue, m)) = Len(dispatchQueue) + 1
  BY <1>1, AppendProperties
<1>8. dispatchQueue # <<>> => Len(Tail(dispatchQueue)) = Len(dispatchQueue) - 1
  BY <1>1, HeadTailProperties
<1> HIDE DEF Busy
<1> DEFINE Goal == Up(0) \/ Up(1) \/ Down(1) \/ Down(Len(dispatchQueue))
<1>9. Tasks \in Nat /\ Tasks' \in Nat
  <2>1. At(Workers, Busy)' \in SUBSET Workers /\ IsFiniteSet(Workers)
    BY <1>1, FS_Subset, EdgeAssumption DEF At
  <2>2. Cardinality(At(Workers, Busy)') \in Nat
    BY <2>1, FS_Subset, FS_CardinalityType
  <2>3. posted' \in Seq(Handlers) /\ dispatchQueue' \in Seq(Messages)
    BY DEF SeqTypes
  <2>4. TasksPosted' \in Nat
    <3>1. PostedOf("task")' = {i \in DOMAIN posted' : posted'[i].what = "task"}
      BY DEF PostedOf
    <3> QED  BY <1>2, <2>3, <3>1, PostedFinite
  <2>5. Len(dispatchQueue') \in Nat
    BY <2>3, LenProperties
  <2>6. TasksRunning' \in Nat
    BY <1>2, <2>2
  <2> QED  BY <1>1, <1>3, <1>4, <2>4, <2>5, <2>6
<1>10. /\ UNCHANGED <<pending, Tasks>> => Goal
       /\ pending' = pending + 1 /\ Tasks' = Tasks + 1 => Goal
       /\ pending' = Decrement(pending, 1) /\ Tasks' = Tasks - 1 => Goal
       /\ pending' = Decrement(pending, Len(dispatchQueue)) /\ Tasks' = Tasks - Len(dispatchQueue) => Goal
  BY <1>1, <1>9 DEF Up, Down
<1> HIDE DEF Goal
<1>11. ASSUME NEW p \in Producers, Send(p)
       PROVE  Goal
  <2>1. TasksRunning' = TasksRunning
    BY <1>3, <1>5, <1>11 DEF Send
  <2>2. UNCHANGED <<lifecycle, pending, dispatchQueue, posted>>
    BY <1>11 DEF Send, lifetime, dispatch, executor
  <2> QED  BY <1>4, <1>6, <1>10, <2>1, <2>2
<1>12. ASSUME NEW t \in Threads, ThreadStep(t)
       PROVE  Goal
  <2>1. pc[t] \notin Busy /\ pc'[t] \notin Busy /\ pc' = [pc EXCEPT ![t] = pc'[t]]
    BY <1>12 DEF ThreadStep, ScheduleCheck, ScheduleLatch, SchedulePost, Busy
  <2>2. TasksRunning' = TasksRunning
    BY <1>3, <1>5, <2>1
  <2>3. posted' = posted \/ posted' = Append(posted, Handler("drain", NoMessage))
    BY <1>12 DEF ThreadStep, ScheduleCheck, ScheduleLatch, SchedulePost, executor
  <2>4. TasksPosted' = TasksPosted
    BY <1>3, <1>6, <2>3
  <2>5. UNCHANGED <<lifecycle, pending, dispatchQueue>>
    BY <1>12 DEF ThreadStep, ScheduleCheck, ScheduleLatch, SchedulePost, lifetime, dispatch
  <2> QED  BY <1>4, <1>10, <2>2, <2>4, <2>5
<1>13. ASSUME NEW w \in Workers, WorkerAction(w)
       PROVE  Goal
  <2>1. w \in Threads /\ w \in Workers
    BY <1>1
  <2>2. pc' = [pc EXCEPT ![w] = pc'[w]] /\ lifecycle' = lifecycle
    BY <1>13, <2>1 DEF WorkerAction, TakeHandler, DrainCheck, DrainTimeUp, DrainReceive, DrainUnlatch,
       DrainRecheck, DispatchReject, DispatchSerialized, DispatchConcurrent, PostPump,
       PostTask, PumpTake, RunTask, AccountTask, PumpNext, lifetime
  <2>3. TasksRunning' = TasksRunning + (IF pc'[w] \in Busy THEN 1 ELSE 0) - (IF pc[w] \in Busy THEN 1 ELSE 0)
    BY <1>5, <2>1, <2>2
  <2>5. CASE TakeHandler(w)
    <3>1. Head(posted).what \in {"drain", "pump", "task"}
      <4>1. Head(posted) \in Handlers
        BY <1>1, <2>5, HeadTailProperties DEF TakeHandler
      <4> QED  BY <4>1 DEF Handlers
    <3>2. /\ pc[w] = "idle" /\ pc'[w] \in {"drain", "pump", "run"}
          /\ pc'[w] = "run" <=> Head(posted).what = "task"
      BY <2>1, <2>5, <3>1 DEF TakeHandler
    <3>3. TasksPosted' = TasksPosted - (IF Head(posted).what = "task" THEN 1 ELSE 0)
      BY <1>6, <2>5 DEF TakeHandler
    <3>4. TasksRunning' = TasksRunning + (IF Head(posted).what = "task" THEN 1 ELSE 0)
      BY <1>3, <2>3, <3>2 DEF Busy
    <3>5. UNCHANGED <<pending, dispatchQueue>>
      BY <2>5 DEF TakeHandler, dispatch
    <3>6. Tasks' = Tasks
      BY <1>1, <1>3, <1>4, <3>3, <3>4, <3>5
    <3> QED  BY <1>10, <3>5, <3>6
  <2>6. CASE DrainCheck(w) \/ DrainTimeUp(w) \/ DrainReceive(w) \/ DrainUnlatch(w) \/ DrainRecheck(w) \/ DispatchReject(w)
    <3>1. pc[w] \notin Busy /\ pc'[w] \notin Busy
      BY <2>1, <2>6 DEF DrainCheck, DrainTimeUp, DrainReceive, DrainUnlatch, DrainRecheck, DispatchReject, Busy
    <3>2. UNCHANGED <<pending, dispatchQueue, posted>>
      BY <2>6 DEF DrainCheck, DrainTimeUp, DrainReceive, DrainUnlatch, DrainRecheck, DispatchReject, dispatch, executor
    <3>3. Tasks' = Tasks
      BY <1>3, <1>4, <1>6, <2>3, <3>1, <3>2
    <3> QED  BY <1>10, <3>2, <3>3
  <2>7. CASE DispatchSerialized(w)
    <3>1. pc[w] \notin Busy /\ pc'[w] \notin Busy /\ posted' = posted /\ held[w] \in Messages
      BY <2>1, <2>7 DEF DispatchSerialized, Busy, executor, Carried
    <3>2. TasksRunning' = TasksRunning /\ TasksPosted' = TasksPosted
      BY <1>3, <1>6, <2>3, <3>1
    <3>3. CASE ~Full
      <4>1. pending' = pending + 1 /\ dispatchQueue' = Append(dispatchQueue, held[w])
        BY <2>7, <3>3 DEF DispatchSerialized
      <4>2. Len(dispatchQueue') = Len(dispatchQueue) + 1
        BY <1>7, <3>1, <4>1
      <4>3. Tasks' = Tasks + 1
        BY <1>1, <1>3, <1>4, <3>2, <4>2
      <4> QED  BY <1>10, <4>1, <4>3
    <3>4. CASE Full
      <4>1. PICK i \in Victim(held[w]) : dispatchQueue' = Append(RemoveAt(dispatchQueue, i), held[w])
        BY <2>7, <3>4 DEF DispatchSerialized
      <4>2. i \in DOMAIN dispatchQueue
        BY <4>1 DEF Victim, First
      <4>3. RemoveAt(dispatchQueue, i) \in Seq(Messages) /\ Len(RemoveAt(dispatchQueue, i)) = Len(dispatchQueue) - 1
        BY <1>1, <4>2, RemoveAtFacts
      <4>4. Len(Append(RemoveAt(dispatchQueue, i), held[w])) = Len(RemoveAt(dispatchQueue, i)) + 1
        BY <3>1, <4>3, AppendProperties
      <4>5. Len(dispatchQueue') = Len(dispatchQueue)
        BY <1>1, <4>1, <4>3, <4>4
      <4>6. pending' = pending
        BY <2>7, <3>4 DEF DispatchSerialized
      <4>7. Tasks' = Tasks
        BY <1>4, <3>2, <4>5
      <4> QED  BY <1>10, <4>6, <4>7
    <3> QED  BY <3>3, <3>4
  <2>8. CASE DispatchConcurrent(w)
    <3>1. pc[w] \notin Busy /\ pc'[w] \in Busy
      BY <2>1, <2>8 DEF DispatchConcurrent, Busy
    <3>2. pending' = pending + 1 /\ dispatchQueue' = dispatchQueue /\ posted' = posted
      BY <2>8 DEF DispatchConcurrent, executor
    <3>3. TasksRunning' = TasksRunning + 1 /\ TasksPosted' = TasksPosted
      BY <1>3, <1>6, <2>3, <3>1, <3>2
    <3>4. Tasks' = Tasks + 1
      BY <1>1, <1>3, <1>4, <3>2, <3>3
    <3> QED  BY <1>10, <3>2, <3>4
  <2>9. CASE PostPump(w)
    <3>1. pc[w] \notin Busy /\ pc'[w] \notin Busy
      BY <2>1, <2>9 DEF PostPump, Busy
    <3>2. posted' = posted \/ posted' = Append(posted, Handler("pump", NoMessage))
      BY <2>9 DEF PostPump
    <3>3. TasksRunning' = TasksRunning /\ TasksPosted' = TasksPosted
      BY <1>3, <1>6, <2>3, <3>1, <3>2
    <3>4. CASE UNCHANGED dispatch
      BY <1>4, <1>10, <3>3, <3>4 DEF dispatch
    <3>5. CASE CloseDispatch
      <4>1. pending' = Decrement(pending, Len(dispatchQueue)) /\ Len(dispatchQueue') = 0
        BY <3>5, EmptySeq DEF CloseDispatch
      <4>2. Tasks' = Tasks - Len(dispatchQueue)
        BY <1>1, <1>3, <1>4, <3>3, <4>1
      <4> QED  BY <1>10, <4>1, <4>2
    <3> QED  BY <2>9, <3>4, <3>5 DEF PostPump
  <2>10. CASE PostTask(w)
    <3>1. /\ pc[w] \in Busy /\ pc'[w] \notin Busy /\ dispatchQueue' = dispatchQueue /\ held[w] \in Messages
      BY <2>1, <2>10 DEF PostTask, Busy, Carried
    <3>2. TasksRunning' = TasksRunning - 1 /\ TasksRunning' + 1 = TasksRunning
      BY <1>3, <2>3, <3>1
    <3>4. CASE running
      <4>1. posted' = Append(posted, Handler("task", held[w])) /\ pending' = pending
        BY <2>10, <3>4 DEF PostTask
      <4>2. TasksPosted' = TasksPosted + 1
        BY <1>6, <3>1, <4>1
      <4>3. Tasks' = Tasks
        BY <1>1, <1>3, <1>4, <3>1, <3>2, <4>2
      <4> QED  BY <1>10, <4>1, <4>3
    <3>5. CASE ~running
      <4>1. posted' = posted /\ pending' = Decrement(pending, 1)
        BY <2>10, <3>5 DEF PostTask
      <4>2. Tasks' = Tasks - 1
        BY <1>1, <1>3, <1>4, <1>6, <3>1, <3>2, <4>1
      <4> QED  BY <1>10, <4>1, <4>2
    <3> QED  BY <3>4, <3>5
  <2>11. CASE PumpTake(w)
    <3>1. UNCHANGED <<pending, posted>> /\ pc[w] \notin Busy
      BY <2>11 DEF PumpTake, executor, Busy
    <3>2. CASE dispatchQueue = <<>>
      <4>1. dispatchQueue' = dispatchQueue /\ pc'[w] \notin Busy
        BY <2>1, <2>11, <3>2 DEF PumpTake, Busy
      <4>2. Tasks' = Tasks
        BY <1>3, <1>4, <1>6, <2>3, <3>1, <4>1
      <4> QED  BY <1>10, <3>1, <4>2
    <3>3. CASE dispatchQueue # <<>>
      <4>1. dispatchQueue' = Tail(dispatchQueue) /\ pc'[w] \in Busy
        BY <2>1, <2>11, <3>3 DEF PumpTake, Busy
      <4>2. TasksRunning' = TasksRunning + 1 /\ TasksPosted' = TasksPosted /\ Len(dispatchQueue') = Len(dispatchQueue) - 1
        BY <1>3, <1>6, <1>8, <2>3, <3>1, <3>3, <4>1
      <4>3. Tasks' = Tasks
        BY <1>1, <1>3, <1>4, <4>2
      <4> QED  BY <1>10, <3>1, <4>3
    <3> QED  BY <3>2, <3>3
  <2>12. CASE AccountTask(w)
    <3>1. /\ pc[w] \in Busy /\ pc'[w] \notin Busy /\ dispatchQueue' = dispatchQueue /\ posted' = posted
          /\ pending' = Decrement(pending, 1)
      BY <2>1, <2>12 DEF AccountTask, Busy, executor
    <3>2. TasksRunning' = TasksRunning - 1 /\ TasksRunning' + 1 = TasksRunning /\ TasksPosted' = TasksPosted
      BY <1>3, <1>6, <2>3, <3>1
    <3>3. Tasks' = Tasks - 1
      BY <1>1, <1>3, <1>4, <3>1, <3>2
    <3> QED  BY <1>10, <3>1, <3>3
  <2>13. CASE RunTask(w) \/ PumpNext(w)
    <3>1. /\ pc[w] \in Busy <=> pc'[w] \in Busy
          /\ UNCHANGED <<pending, dispatchQueue, posted>>
      BY <2>1, <2>13 DEF RunTask, PumpNext, Busy, dispatch, executor
    <3>2. TasksRunning' = TasksRunning
      BY <1>3, <2>3, <3>1
    <3>3. Tasks' = Tasks
      BY <1>3, <1>4, <1>6, <3>1, <3>2
    <3> QED  BY <1>10, <3>1, <3>3
  <2> QED  BY <1>13, <2>5, <2>6, <2>7, <2>8, <2>9, <2>10, <2>11, <2>12, <2>13 DEF WorkerAction
<1>14. ASSUME GraphAction PROVE Goal
  <2>1. UNCHANGED <<pc, posted>>
    BY <1>14 DEF GraphAction, OpenDispatch, OpenEdge, StartExecutor, StopProduction, WaitNodes,
       WaitEdge, BeginStop, CancelDrain, CloseTransport, UnlatchEdge, CloseNode, StopExecutor, Join, executor
  <2>2. TasksRunning' = TasksRunning /\ TasksPosted' = TasksPosted
    BY <1>6, <2>1 DEF TasksRunning, At
  <2>3. CASE CloseNode
    <3>1. pending' = Decrement(pending, Len(dispatchQueue)) /\ Len(dispatchQueue') = 0
      BY <2>3, EmptySeq DEF CloseNode, CloseDispatch
    <3>2. Tasks' = Tasks - Len(dispatchQueue)
      BY <1>1, <1>3, <1>4, <2>2, <3>1
    <3> QED  BY <1>10, <3>1, <3>2
  <2>4. CASE ~CloseNode
    <3>1. UNCHANGED <<pending, dispatchQueue>>
      BY <1>14, <2>4 DEF GraphAction, OpenEdge, StartExecutor, StopProduction, WaitNodes,
         WaitEdge, BeginStop, CancelDrain, CloseTransport, UnlatchEdge, StopExecutor, Join, dispatch
    <3> QED  BY <1>4, <1>10, <2>2, <3>1
  <2> QED  BY <2>3, <2>4
<1>15. ASSUME UNCHANGED vars PROVE Goal
  <2>1. UNCHANGED <<pc, posted, pending, dispatchQueue>>
    BY <1>15 DEF vars, executor, dispatch
  <2>2. TasksRunning' = TasksRunning /\ TasksPosted' = TasksPosted
    BY <1>6, <2>1 DEF TasksRunning, At
  <2> QED  BY <1>4, <1>10, <2>1, <2>2
<1>16. Goal
  BY <1>11, <1>12, <1>13, <1>14, <1>15 DEF Next, WorkerStep
<1> QED  BY <1>9, <1>16 DEF Goal

\* Counting modulo the size of the counter.
LEMMA Wraps ==
  ASSUME NEW n \in Nat, NEW k \in Nat, NEW m \in Nat
  PROVE  /\ Decrement(n, n) = 0
         /\ Decrement(Decrement(n, m), k) = Decrement(n - k, m)
         /\ Decrement(n, m) + k \in 0..(SizeModulus - 1) => Decrement(n, m) + k = Decrement(n + k, m)
<1> DEFINE r == (n - m) % 256
           d == (n - m) \div 256
<1>1. r \in 0..255 /\ d \in Int /\ n - m = 256 * d + r
  OBVIOUS
<1>2. \A a \in 0..255, e \in Int : (256 * e + a) % 256 = a
  OBVIOUS
<1> HIDE DEF r, d
<1>3. n - n = 0 /\ 0 % 256 = 0
  OBVIOUS
<1>4. (r - k) % 256 = ((n - k) - m) % 256
  <2> DEFINE b == (r - k) % 256
             e == (r - k) \div 256
  <2>1. b \in 0..255 /\ e \in Int /\ r - k = 256 * e + b
    BY <1>1
  <2> HIDE DEF b, e
  <2>2. (n - k) - m = 256 * (d + e) + b /\ d + e \in Int
    BY <1>1, <2>1
  <2>3. (256 * (d + e) + b) % 256 = b
    BY <1>2, <2>1, <2>2
  <2>4. ((n - k) - m) % 256 = b
    BY <2>2, <2>3
  <2> USE DEF b
  <2> QED  BY <2>4
<1>5. r + k \in 0..255 => r + k = ((n + k) - m) % 256
  <2>1. (n + k) - m = 256 * d + (r + k)
    BY <1>1
  <2> QED  BY <1>1, <1>2, <2>1
<1> QED  BY <1>3, <1>4, <1>5 DEF Decrement, SizeModulus, r

\* What is left over is fixed when the node is opened, while nothing runs.
LEMMA PendingKept ==
  ASSUME TypeOK, Carried, AtRest, PendingExact, TasksByMode, SeqTypes', PlainTypes', [Next]_vars
  PROVE  PendingExact' /\ leftover' \in Nat
<1>1. /\ leftover \in Nat /\ pending \in 0..(SizeModulus - 1) /\ pending' \in 0..(SizeModulus - 1)
  BY DEF TypeOK, PlainTypes
<1>2. Concurrent' = Concurrent
  BY DEF Concurrent, Next, WorkerStep, ThreadStep, vars
<1>3. CASE OpenDispatch
  <2>1. \A t \in Threads : pc[t] = "idle"
    BY <1>3 DEF OpenDispatch, GraphGoes, AtRest
  <2>2. At(Workers, {"run", "account", "postTask"})' = {}
    BY <1>3, <2>1 DEF OpenDispatch, At, Threads
  <2>3. PostedOf("task")' = PostedOf("task") /\ leftover' = Cardinality(PostedOf("task"))
    BY <1>3 DEF OpenDispatch, executor, PostedOf
  <2>4. leftover' \in Nat
    BY <2>3, HandlersMove
  <2>5. Cardinality(At(Workers, {"run", "account", "postTask"})') = 0
    BY <2>2, FS_EmptySet
  <2>6. Len(dispatchQueue') = 0 /\ pending' = 0
    BY <1>3, EmptySeq DEF OpenDispatch
  <2>7. Tasks' = leftover'
    BY <2>3, <2>4, <2>5, <2>6 DEF Tasks
  <2>8. Decrement(leftover', leftover') = 0
    BY <2>4, Wraps
  <2>9. leftover' > 0 => Concurrent
    <3>1. ~Concurrent => PostedOf("task") = {}
      BY DEF TasksByMode, PostedOf
    <3> QED  BY <2>3, <2>4, <3>1, FS_EmptySet
  <2>10. leftover' > 0 => Decrement(Tasks, leftover)' = 0
    BY <2>7, <2>8 DEF Decrement
  <2> QED  BY <1>2, <2>4, <2>6, <2>7, <2>9, <2>10 DEF PendingExact
<1>4. CASE ~OpenDispatch
  <2>1. leftover' = leftover
    <3>1. ASSUME NEW w \in Workers, WorkerAction(w) PROVE leftover' = leftover
      BY <3>1 DEF WorkerAction, TakeHandler, DrainCheck, DrainTimeUp, DrainReceive, DrainUnlatch,
         DrainRecheck, DispatchReject, DispatchSerialized, DispatchConcurrent, PostPump,
         PostTask, PumpTake, RunTask, AccountTask, PumpNext, history
    <3>2. CASE GraphAction
      BY <1>4, <3>2 DEF GraphAction, OpenEdge, StartExecutor, StopProduction, WaitNodes,
         WaitEdge, BeginStop, CancelDrain, CloseTransport, UnlatchEdge, CloseNode, StopExecutor, Join, history
    <3>3. CASE UNCHANGED vars \/ (\E p \in Producers : Send(p)) \/ \E t \in Threads : ThreadStep(t)
      BY <3>3 DEF vars, Send, ThreadStep, ScheduleCheck, ScheduleLatch, SchedulePost, history
    <3> QED  BY <3>1, <3>2, <3>3 DEF Next, WorkerStep
  <2>2. /\ Tasks \in Nat /\ Tasks' \in Nat
        /\ Up(0) \/ Up(1) \/ Down(1) \/ Down(Len(dispatchQueue))
    BY <1>4, InStep
  <2>3. Len(dispatchQueue) \in Nat
    BY LenProperties DEF TypeOK
  <2>4. PICK k \in Nat : Up(k) \/ Down(k)
    BY <2>2, <2>3
  <2>5. CASE leftover = 0
    <3>1. pending = Tasks
      BY <2>5 DEF PendingExact
    <3>2. pending' = Tasks'
      BY <1>1, <2>2, <2>4, <3>1 DEF Up, Down, Decrement, SizeModulus
    <3> QED  BY <2>1, <2>5, <3>2 DEF PendingExact
  <2>6. CASE leftover > 0
    <3>1. Concurrent /\ pending = Decrement(Tasks, leftover)
      BY <2>6 DEF PendingExact
    <3>2. pending' = Decrement(Tasks', leftover)
      <4>1. pending' \in Nat /\ leftover \in Nat
        BY <1>1
      <4>2. CASE Up(k)
        BY <1>1, <2>2, <3>1, <4>1, <4>2, Wraps DEF Up
      <4>3. CASE Down(k)
        <5>1. Decrement(Decrement(Tasks, leftover), k) = Decrement(Tasks - k, leftover)
          BY <2>2, <4>1, Wraps
        <5> QED  BY <3>1, <4>3, <5>1 DEF Down
      <4> QED  BY <2>4, <4>2, <4>3
    <3>3. Decrement(Tasks, leftover)' = Decrement(Tasks', leftover')
      BY DEF Decrement
    <3> QED  BY <1>1, <1>2, <2>1, <2>6, <3>1, <3>2, <3>3 DEF PendingExact
  <2> QED  BY <1>1, <2>5, <2>6
<1> QED  BY <1>3, <1>4

LEMMA PumpsKept ==
  ASSUME TypeOK, Phases, TasksByMode, OnePump, IdlePump, [Next]_vars
  PROVE  OnePump' /\ IdlePump'
<1> DEFINE Busy == {"postPump", "pump", "run", "account", "next", "repost"}
<1> USE OneThread
<1>1. /\ dispatchQueue \in Seq(Messages) /\ posted \in Seq(Handlers) /\ lifecycle \in Nat
      /\ Workers \in SUBSET Threads /\ active \in BOOLEAN /\ dispatchClosed \in BOOLEAN
  BY EdgeAssumption DEF TypeOK, Handlers, Threads
<1>2. /\ PumpsRunning = Cardinality(At(Workers, Busy)) /\ PumpsRunning' = Cardinality(At(Workers, Busy)')
      /\ PumpsPosted = Cardinality(PostedOf("pump")) /\ PumpsPosted' = Cardinality(PostedOf("pump")')
  BY DEF PumpsRunning, PumpsPosted
<1>3. PumpsRunning \in Nat /\ PumpsPosted \in Nat
  <2>1. At(Workers, Busy) \in SUBSET Workers /\ IsFiniteSet(Workers)
    BY <1>1, FS_Subset, EdgeAssumption DEF At
  <2> HIDE DEF Busy
  <2>2. Cardinality(At(Workers, Busy)) \in Nat
    BY <2>1, FS_Subset, FS_CardinalityType
  <2> QED  BY <1>2, <2>2, HandlersMove
<1>4. Pumps = PumpsPosted + PumpsRunning /\ Pumps' = PumpsPosted' + PumpsRunning'
  BY DEF Pumps, PumpsPosted, PumpsRunning
<1>5. ASSUME NEW t \in Threads, pc' = [pc EXCEPT ![t] = pc'[t]]
      PROVE  PumpsRunning' = PumpsRunning + (IF t \in Workers /\ pc'[t] \in Busy THEN 1 ELSE 0)
                                          - (IF t \in Workers /\ pc[t] \in Busy THEN 1 ELSE 0)
  <2> HIDE DEF Busy
  <2>1. CASE t \in Workers
    <3>1. Cardinality(At(Workers, Busy)) \in Nat /\ Cardinality(At(Workers, Busy)') \in Nat
      BY <1>1, <1>5, ThreadMoves
    <3>2. CASE pc'[t] \in Busy /\ pc[t] \in Busy
      BY <1>1, <1>2, <1>5, <2>1, <3>1, <3>2, ThreadMoves
    <3>3. CASE pc'[t] \notin Busy /\ pc[t] \in Busy
      BY <1>1, <1>2, <1>5, <2>1, <3>1, <3>3, ThreadMoves
    <3>4. CASE pc'[t] \in Busy /\ pc[t] \notin Busy
      BY <1>1, <1>2, <1>5, <2>1, <3>1, <3>4, ThreadMoves
    <3>5. CASE pc'[t] \notin Busy /\ pc[t] \notin Busy
      BY <1>1, <1>2, <1>5, <2>1, <3>1, <3>5, ThreadMoves
    <3> QED  BY <3>2, <3>3, <3>4, <3>5
  <2>2. CASE t \notin Workers
    BY <1>1, <1>2, <1>3, <1>5, <2>2, ThreadMoves
  <2> QED  BY <2>1, <2>2
<1>16. ASSUME NEW t \in Threads, pc' = [pc EXCEPT ![t] = pc'[t]]
       PROVE  PumpsRunning' \in Nat
  <2> HIDE DEF Busy
  <2> QED  BY <1>1, <1>2, <1>16, ThreadMoves
<1>6. /\ \A k \in {"drain", "pump", "task"}, m \in Messages \cup {NoMessage} :
            posted' = Append(posted, Handler(k, m)) => PumpsPosted' = PumpsPosted + (IF k = "pump" THEN 1 ELSE 0)
      /\ posted # <<>> /\ posted' = Tail(posted) =>
            PumpsPosted' = PumpsPosted - (IF Head(posted).what = "pump" THEN 1 ELSE 0)
      /\ posted' = posted => PumpsPosted' = PumpsPosted
  <2>1. \A k \in {"drain", "pump", "task"}, m \in Messages \cup {NoMessage} : Handler(k, m) \in Handlers /\ Handler(k, m).what = k
    BY DEF Handler, Handlers
  <2> QED  BY <1>2, <2>1, HandlersMove
<1> HIDE DEF Busy
<1>7. Concurrent' = Concurrent
  BY DEF Concurrent, Next, WorkerStep, ThreadStep, vars
<1> SUFFICES ASSUME ~Concurrent, lifecycle' <= 1
             PROVE  /\ Pumps' <= 1 /\ (active' => Pumps' = 1)
                    /\ (dispatchQueue' # <<>> => active')
                    /\ (active' \/ dispatchClosed' \/ Pumps' = 0)
  BY <1>7 DEF OnePump, IdlePump
<1> DEFINE Goal == /\ Pumps' <= 1 /\ (active' => Pumps' = 1)
                   /\ (dispatchQueue' # <<>> => active')
                   /\ (active' \/ dispatchClosed' \/ Pumps' = 0)
<1>8. lifecycle <= 1 => /\ Pumps <= 1 /\ (active => Pumps = 1)
                        /\ (dispatchQueue # <<>> => active)
                        /\ (active \/ dispatchClosed \/ Pumps = 0)
  BY DEF OnePump, IdlePump
<1>9. lifecycle' = lifecycle /\ UNCHANGED dispatch /\ Pumps' = Pumps => Goal
  BY <1>8 DEF dispatch
<1>10. Pumps \in Nat
  BY <1>3, <1>4
<1> HIDE DEF Goal
<1>11. ASSUME NEW p \in Producers, Send(p) PROVE Goal
  <2>1. PumpsRunning' = PumpsRunning
    BY <1>3, <1>5, <1>11 DEF Send
  <2>2. UNCHANGED <<lifecycle, dispatch, posted>>
    BY <1>11 DEF Send, lifetime, executor
  <2>3. Pumps' = Pumps
    BY <1>4, <1>6, <2>1, <2>2
  <2> QED  BY <1>9, <2>2, <2>3
<1>12. ASSUME NEW t \in Threads, ThreadStep(t) PROVE Goal
  <2>1. pc[t] \notin Busy /\ pc'[t] \notin Busy /\ pc' = [pc EXCEPT ![t] = pc'[t]]
    BY <1>12 DEF ThreadStep, ScheduleCheck, ScheduleLatch, SchedulePost, Busy
  <2>2. PumpsRunning' = PumpsRunning
    BY <1>3, <1>5, <2>1
  <2>3. posted' = posted \/ posted' = Append(posted, Handler("drain", NoMessage))
    BY <1>12 DEF ThreadStep, ScheduleCheck, ScheduleLatch, SchedulePost, executor
  <2>4. PumpsPosted' = PumpsPosted
    BY <1>3, <1>6, <2>3
  <2>5. UNCHANGED <<lifecycle, dispatch>>
    BY <1>12 DEF ThreadStep, ScheduleCheck, ScheduleLatch, SchedulePost, lifetime
  <2> QED  BY <1>4, <1>9, <2>2, <2>4, <2>5
<1>13. ASSUME NEW w \in Workers, WorkerAction(w) PROVE Goal
  <2>1. w \in Threads /\ w \in Workers
    BY <1>1
  <2>2. pc' = [pc EXCEPT ![w] = pc'[w]] /\ lifecycle' = lifecycle
    BY <1>13, <2>1 DEF WorkerAction, TakeHandler, DrainCheck, DrainTimeUp, DrainReceive, DrainUnlatch,
       DrainRecheck, DispatchReject, DispatchSerialized, DispatchConcurrent, PostPump,
       PostTask, PumpTake, RunTask, AccountTask, PumpNext, lifetime
  <2>3. /\ PumpsRunning' = PumpsRunning + (IF pc'[w] \in Busy THEN 1 ELSE 0) - (IF pc[w] \in Busy THEN 1 ELSE 0)
        /\ PumpsRunning' \in Nat
    BY <1>5, <1>16, <2>1, <2>2
  <2>4. /\ Pumps <= 1 /\ (active => Pumps = 1) /\ (dispatchQueue # <<>> => active)
        /\ (active \/ dispatchClosed \/ Pumps = 0)
        /\ (dispatchClosed => dispatchQueue = <<>> /\ ~active)
    BY <1>8, <2>2 DEF Phases
  <2>5. CASE TakeHandler(w)
    <3>1. Head(posted).what \in {"drain", "pump"}
      <4>1. posted # <<>> /\ Head(posted) \in Handlers /\ Head(posted) = posted[1]
        BY <1>1, <2>5, HeadTailProperties DEF TakeHandler
      <4>2. 1 \in DOMAIN posted
        BY <1>1, <4>1, LenProperties, EmptySeq
      <4>3. posted[1].what # "task"
        BY <4>2 DEF TasksByMode
      <4> QED  BY <4>1, <4>3 DEF Handlers
    <3>2. pc[w] = "idle" /\ pc'[w] = Head(posted).what
      BY <2>1, <2>5, <3>1 DEF TakeHandler
    <3>3. PumpsPosted' = PumpsPosted - (IF Head(posted).what = "pump" THEN 1 ELSE 0)
      BY <1>6, <2>5 DEF TakeHandler
    <3>4. PumpsRunning' = PumpsRunning + (IF Head(posted).what = "pump" THEN 1 ELSE 0)
      BY <1>3, <2>3, <3>1, <3>2 DEF Busy
    <3>5. Pumps' = Pumps
      BY <1>3, <1>4, <3>3, <3>4
    <3> QED  BY <1>9, <2>2, <2>5, <3>5 DEF TakeHandler
  <2>6. CASE DrainCheck(w) \/ DrainTimeUp(w) \/ DrainReceive(w) \/ DrainUnlatch(w) \/ DrainRecheck(w) \/ DispatchReject(w)
    <3>1. pc[w] \notin Busy /\ pc'[w] \notin Busy
      BY <2>1, <2>6 DEF DrainCheck, DrainTimeUp, DrainReceive, DrainUnlatch, DrainRecheck, DispatchReject, Busy
    <3>2. UNCHANGED <<dispatch, posted>>
      BY <2>6 DEF DrainCheck, DrainTimeUp, DrainReceive, DrainUnlatch, DrainRecheck, DispatchReject, executor
    <3>3. Pumps' = Pumps
      BY <1>3, <1>4, <1>6, <2>3, <3>1, <3>2
    <3> QED  BY <1>9, <2>2, <3>2, <3>3
  <2>7. CASE DispatchSerialized(w)
    <3>1. /\ pc[w] \notin Busy /\ (active => pc'[w] \notin Busy) /\ (~active => pc'[w] \in Busy)
          /\ posted' = posted /\ active' = TRUE /\ ~dispatchClosed
      BY <2>1, <2>7 DEF DispatchSerialized, Busy, executor, Rejects
    <3>2. PumpsPosted' = PumpsPosted
      BY <1>6, <3>1
    <3>3. Pumps' = IF active THEN Pumps ELSE Pumps + 1
      BY <1>1, <1>3, <1>4, <2>3, <3>1, <3>2
    <3>4. Pumps' = 1
      BY <1>10, <2>4, <3>1, <3>3
    <3> QED  BY <3>1, <3>4 DEF Goal
  <2>8. CASE PostPump(w)
    <3>1. pc[w] \in Busy /\ pc'[w] \notin Busy
      BY <2>1, <2>8 DEF PostPump, Busy
    <3>2. PumpsRunning' = PumpsRunning - 1 /\ PumpsRunning' + 1 = PumpsRunning
      BY <1>3, <2>3, <3>1
    <3>3. CASE running
      <4>1. posted' = Append(posted, Handler("pump", NoMessage)) /\ UNCHANGED dispatch
        BY <2>8, <3>3 DEF PostPump
      <4>2. PumpsPosted' = PumpsPosted + 1
        BY <1>6, <4>1
      <4>3. Pumps' = Pumps
        BY <1>3, <1>4, <3>2, <4>2
      <4> QED  BY <1>9, <2>2, <4>1, <4>3
    <3>4. CASE ~running
      <4>1. posted' = posted /\ CloseDispatch
        BY <2>8, <3>4 DEF PostPump
      <4>2. Pumps' = Pumps - 1 /\ Pumps' <= 1
        BY <1>3, <1>4, <1>6, <2>4, <3>2, <4>1
      <4> QED  BY <4>1, <4>2 DEF CloseDispatch, Goal
    <3> QED  BY <3>3, <3>4
  <2>9. CASE PumpTake(w)
    <3>1. /\ posted' = posted /\ pc[w] \in Busy /\ dispatchClosed' = dispatchClosed
      BY <2>9 DEF PumpTake, executor, Busy
    <3>2. PumpsPosted' = PumpsPosted
      BY <1>6, <3>1
    <3>3. CASE dispatchQueue = <<>>
      <4>1. dispatchQueue' = dispatchQueue /\ active' = FALSE /\ pc'[w] \notin Busy
        BY <2>1, <2>9, <3>3 DEF PumpTake, Busy
      <4>2. PumpsRunning' = PumpsRunning - 1 /\ PumpsRunning' + 1 = PumpsRunning
        BY <1>3, <2>3, <3>1, <4>1
      <4>3. Pumps' = 0
        BY <1>3, <1>4, <2>3, <2>4, <3>2, <4>2
      <4> QED  BY <3>3, <4>1, <4>3 DEF Goal
    <3>4. CASE dispatchQueue # <<>>
      <4>1. active' = active /\ pc'[w] \in Busy
        BY <2>1, <2>9, <3>4 DEF PumpTake, Busy
      <4>2. Pumps' = Pumps
        BY <1>3, <1>4, <2>3, <3>1, <3>2, <4>1
      <4> QED  BY <2>4, <3>1, <3>4, <4>1, <4>2 DEF Goal
    <3> QED  BY <3>3, <3>4
  <2>10. CASE PumpNext(w)
    <3>1. /\ UNCHANGED <<posted, dispatchQueue, dispatchClosed>> /\ pc[w] \in Busy
      BY <2>10 DEF PumpNext, executor, Busy
    <3>2. PumpsPosted' = PumpsPosted
      BY <1>6, <3>1
    <3>3. CASE dispatchQueue = <<>> \/ dispatchClosed
      <4>1. ~active' /\ pc'[w] \notin Busy
        <5>1. ~active' /\ Goto(w, "idle")
          BY Zenon, <2>10, <3>3 DEF PumpNext
        <5> QED  BY <2>1, <5>1 DEF Busy
      <4>2. PumpsRunning' = PumpsRunning - 1 /\ PumpsRunning' + 1 = PumpsRunning
        BY <1>3, <2>3, <3>1, <4>1
      <4>3. Pumps' = 0
        BY <1>3, <1>4, <2>3, <2>4, <3>2, <4>2
      <4> QED  BY <2>4, <3>1, <3>3, <4>1, <4>3 DEF Goal
    <3>4. CASE ~(dispatchQueue = <<>> \/ dispatchClosed)
      <4>1. active' = active /\ pc'[w] \in Busy
        BY <1>1, <2>1, <2>10, <3>4 DEF PumpNext, Busy
      <4>2. Pumps' = Pumps
        BY <1>3, <1>4, <2>3, <3>1, <3>2, <4>1
      <4> QED  BY <2>4, <3>1, <4>1, <4>2 DEF Goal
    <3> QED  BY <3>3, <3>4
  <2>11. CASE RunTask(w)
    <3>1. pc[w] \in Busy /\ pc'[w] \in Busy /\ UNCHANGED <<dispatch, posted>>
      BY <2>1, <2>11 DEF RunTask, Busy, executor
    <3>2. Pumps' = Pumps
      BY <1>3, <1>4, <1>6, <2>3, <3>1
    <3> QED  BY <1>9, <2>2, <3>1, <3>2
  <2>12. CASE AccountTask(w)
    <3>1. /\ pc[w] \in Busy /\ pc'[w] \in Busy /\ UNCHANGED <<posted, dispatchQueue, active, dispatchClosed>>
      BY <2>1, <2>12 DEF AccountTask, Busy, executor
    <3>2. Pumps' = Pumps
      BY <1>3, <1>4, <1>6, <2>3, <3>1
    <3> QED  BY <2>4, <3>1, <3>2 DEF Goal
  <2>13. CASE DispatchConcurrent(w) \/ PostTask(w)
    BY <2>13 DEF DispatchConcurrent, PostTask, TasksByMode
  <2> QED  BY <1>13, <2>5, <2>6, <2>7, <2>8, <2>9, <2>10, <2>11, <2>12, <2>13 DEF WorkerAction
<1>14. CASE GraphAction
  <2>1. UNCHANGED <<pc, posted>>
    BY <1>14 DEF GraphAction, OpenDispatch, OpenEdge, StartExecutor, StopProduction, WaitNodes,
       WaitEdge, BeginStop, CancelDrain, CloseTransport, UnlatchEdge, CloseNode, StopExecutor, Join, executor
  <2>2. Pumps' = Pumps
    BY <2>1 DEF Pumps, At, PostedOf
  <2>3. CASE OpenDispatch
    <3>1. lifecycle = 0
      BY <1>1, <2>3 DEF OpenDispatch
    <3>2. Fresh
      BY <3>1 DEF Phases, Fresh
    <3>3. PumpsRunning = 0 /\ PumpsPosted = 0
      BY <1>1, <1>2, <3>2, NothingAtFirst DEF Busy
    <3>4. Pumps' = 0
      BY <1>4, <2>2, <3>3
    <3> QED  BY <2>3, <3>4 DEF OpenDispatch, Goal
  <2>4. CASE CloseNode
    <3>1. lifecycle' = lifecycle /\ CloseDispatch
      BY <2>4 DEF CloseNode
    <3> QED  BY <1>8, <2>2, <3>1 DEF CloseDispatch, Goal
  <2>5. CASE ~(OpenDispatch \/ CloseNode)
    <3>1. UNCHANGED <<lifecycle, dispatch>>
      BY <1>14, <2>5 DEF GraphAction, OpenEdge, StartExecutor, StopProduction, WaitNodes,
         WaitEdge, BeginStop, CancelDrain, CloseTransport, UnlatchEdge, StopExecutor, Join
    <3> QED  BY <1>9, <2>2, <3>1 DEF Goal
  <2> QED  BY <2>3, <2>4, <2>5
<1>15. CASE UNCHANGED vars
  <2>1. UNCHANGED <<pc, posted, lifecycle, dispatch>>
    BY <1>15 DEF vars, executor, lifetime
  <2>2. Pumps' = Pumps
    BY <2>1 DEF Pumps, At, PostedOf
  <2> QED  BY <1>9, <2>1, <2>2 DEF Goal
<1> QED  BY <1>11, <1>12, <1>13, <1>14, <1>15 DEF Next, WorkerStep, Goal

LEMMA AtMostOne ==
  ASSUME NEW S, IsFiniteSet(S), Cardinality(S) <= 1, NEW v \in S, NEW w \in S
  PROVE  v = w
<1> SUFFICES ASSUME v # w PROVE FALSE
  OBVIOUS
<1>1. IsFiniteSet({w}) /\ Cardinality({w}) = 1
  BY FS_Singleton
<1>2. {v, w} = {w} \cup {v} /\ v \notin {w} /\ {v, w} \in SUBSET S
  OBVIOUS
<1>3. Cardinality({v, w}) = 2
  <2>1. Cardinality({w} \cup {v}) = Cardinality({w}) + 1
    BY <1>1, <1>2, FS_AddElement
  <2> QED  BY <1>1, <1>2, <2>1
<1>4. Cardinality({v, w}) <= Cardinality(S) /\ Cardinality(S) \in Nat
  BY <1>2, FS_Subset, FS_CardinalityType
<1> QED  BY <1>3, <1>4

LEMMA DrainsKept ==
  ASSUME TypeOK, Phases, OneDrain, [Next]_vars
  PROVE  OneDrain'
<1> DEFINE Busy == {"drain", "receive", "dispatch", "postPump", "postTask", "unlatch"}
           Hands == {"receive", "dispatch"}
           d(t) == IF t \in Workers /\ pc'[t] \in Busy THEN 1 ELSE 0
           e(t) == IF t \in Workers /\ pc[t] \in Busy THEN 1 ELSE 0
<1> USE OneThread
<1>1. /\ posted \in Seq(Handlers) /\ lifecycle \in Nat /\ Workers \in SUBSET Threads
      /\ Threads \in SUBSET Threads /\ scheduled \in BOOLEAN
  BY EdgeAssumption DEF TypeOK, Handlers, Threads
<1>2. /\ DrainsRunning = Cardinality(At(Workers, Busy)) /\ DrainsRunning' = Cardinality(At(Workers, Busy)')
      /\ DrainsPosting = Cardinality(At(Threads, {"post"})) /\ DrainsPosting' = Cardinality(At(Threads, {"post"})')
      /\ DrainsPosted = Cardinality(PostedOf("drain")) /\ DrainsPosted' = Cardinality(PostedOf("drain")')
  BY DEF DrainsRunning, DrainsPosting, DrainsPosted
<1>3. IsFiniteSet(At(Workers, Busy)) /\ DrainsRunning \in Nat /\ DrainsPosting \in Nat /\ DrainsPosted \in Nat
  <2>1. At(Workers, Busy) \in SUBSET Threads /\ At(Threads, {"post"}) \in SUBSET Threads /\ IsFiniteSet(Threads)
    BY <1>1, EdgeAssumption DEF At
  <2> HIDE DEF Busy
  <2>2. /\ IsFiniteSet(At(Workers, Busy)) /\ Cardinality(At(Workers, Busy)) \in Nat
        /\ Cardinality(At(Threads, {"post"})) \in Nat
    BY <2>1, FS_Subset, FS_CardinalityType
  <2> QED  BY <1>2, <2>2, HandlersMove
<1>4. Drains = DrainsPosted + DrainsRunning + DrainsPosting /\ Drains' = DrainsPosted' + DrainsRunning' + DrainsPosting'
  BY DEF Drains
<1> HIDE DEF Busy
<1>5. ASSUME NEW t \in Threads, pc' = [pc EXCEPT ![t] = pc'[t]]
      PROVE  DrainsRunning' = DrainsRunning + d(t) - e(t)
  <2>1. CASE t \in Workers
    <3>1. Cardinality(At(Workers, Busy)) \in Nat /\ Cardinality(At(Workers, Busy)') \in Nat
      BY <1>1, <1>5, ThreadMoves
    <3>2. CASE pc'[t] \in Busy /\ pc[t] \in Busy
      BY <1>1, <1>2, <1>5, <2>1, <3>1, <3>2, ThreadMoves
    <3>3. CASE pc'[t] \notin Busy /\ pc[t] \in Busy
      BY <1>1, <1>2, <1>5, <2>1, <3>1, <3>3, ThreadMoves
    <3>4. CASE pc'[t] \in Busy /\ pc[t] \notin Busy
      BY <1>1, <1>2, <1>5, <2>1, <3>1, <3>4, ThreadMoves
    <3>5. CASE pc'[t] \notin Busy /\ pc[t] \notin Busy
      BY <1>1, <1>2, <1>5, <2>1, <3>1, <3>5, ThreadMoves
    <3> QED  BY <3>2, <3>3, <3>4, <3>5
  <2>2. CASE t \notin Workers
    BY <1>1, <1>2, <1>3, <1>5, <2>2, ThreadMoves
  <2> QED  BY <2>1, <2>2
<1>6. ASSUME NEW t \in Threads, pc' = [pc EXCEPT ![t] = pc'[t]]
      PROVE  /\ (pc[t] = "post" <=> pc'[t] = "post") => DrainsPosting' = DrainsPosting
             /\ pc[t] = "post" /\ pc'[t] # "post" => DrainsPosting' = DrainsPosting - 1
             /\ pc[t] # "post" /\ pc'[t] = "post" => DrainsPosting' = DrainsPosting + 1
             /\ DrainsPosting' \in Nat
  <2> DEFINE L == {"post"}
  <2>1. \A l : l \in L <=> l = "post"
    OBVIOUS
  <2>2. Cardinality(At(Threads, L)) \in Nat /\ Cardinality(At(Threads, L)') \in Nat
    <3> HIDE DEF L
    <3> QED  BY <1>1, <1>6, ThreadMoves
  <2>3. Cardinality(At(Threads, L)') = Cardinality(At(Threads, L)) + (IF pc'[t] \in L THEN 1 ELSE 0)
                                                                   - (IF pc[t] \in L THEN 1 ELSE 0)
    <3> HIDE DEF L
    <3> QED  BY <1>1, <1>6, ThreadMoves
  <2> HIDE DEF L
  <2>4. DrainsPosting' = Cardinality(At(Threads, L)') /\ DrainsPosting = Cardinality(At(Threads, L))
    BY <1>2 DEF L
  <2>5. CASE pc'[t] \in L /\ pc[t] \in L
    BY <2>1, <2>2, <2>3, <2>4, <2>5
  <2>6. CASE pc'[t] \in L /\ pc[t] \notin L
    BY <2>1, <2>2, <2>3, <2>4, <2>6
  <2>7. CASE pc'[t] \notin L /\ pc[t] \in L
    BY <2>1, <2>2, <2>3, <2>4, <2>7
  <2>8. CASE pc'[t] \notin L /\ pc[t] \notin L
    BY <2>1, <2>2, <2>3, <2>4, <2>8
  <2> QED  BY <2>5, <2>6, <2>7, <2>8
<1>7. /\ \A k \in {"drain", "pump", "task"}, m \in Messages \cup {NoMessage} :
            posted' = Append(posted, Handler(k, m)) => DrainsPosted' = DrainsPosted + (IF k = "drain" THEN 1 ELSE 0)
      /\ posted # <<>> /\ posted' = Tail(posted) =>
            DrainsPosted' = DrainsPosted - (IF Head(posted).what = "drain" THEN 1 ELSE 0)
      /\ posted' = posted => DrainsPosted' = DrainsPosted
  <2>1. \A k \in {"drain", "pump", "task"}, m \in Messages \cup {NoMessage} : Handler(k, m) \in Handlers /\ Handler(k, m).what = k
    BY DEF Handler, Handlers
  <2> QED  BY <1>2, <2>1, HandlersMove
<1> SUFFICES ASSUME lifecycle' <= 1
             PROVE  /\ ~cancelled' => Drains' <= 1 /\ (Drains' = 1 => scheduled')
                    /\ \A v, w \in At(Workers, Hands)' : v = w
  BY DEF OneDrain
<1> DEFINE One == ~cancelled' => Drains' <= 1 /\ (Drains' = 1 => scheduled')
           Alone == \A v, w \in At(Workers, Hands)' : v = w
<1>8. lifecycle <= 1 => /\ ~cancelled => Drains <= 1 /\ (Drains = 1 => scheduled)
                        /\ \A v, w \in At(Workers, Hands) : v = w
  BY DEF OneDrain
<1>9. Drains \in Nat
  BY <1>3, <1>4
<1>10. ASSUME NEW t \in Threads, pc' = [pc EXCEPT ![t] = pc'[t]], lifecycle' = lifecycle,
              t \in Workers /\ pc'[t] \in Hands => pc[t] \in Hands
       PROVE  Alone
  <2>1. \A v \in Threads : v # t => pc'[v] = pc[v]
    BY <1>10 DEF TypeOK
  <2>2. At(Workers, Hands)' \subseteq At(Workers, Hands)
    BY <1>1, <1>10, <2>1 DEF At
  <2> QED  BY <1>8, <1>10, <2>2
<1>11. lifecycle' = lifecycle /\ UNCHANGED latch /\ Drains' = Drains => One
  BY <1>8 DEF latch
<1> HIDE DEF Hands, One, Alone
<1>12. ASSUME NEW p \in Producers, Send(p) PROVE One /\ Alone
  <2>1. p \in Threads /\ p \notin Workers /\ pc' = [pc EXCEPT ![p] = pc'[p]] /\ pc[p] = "idle" /\ pc'[p] = "schedule"
    BY <1>12 DEF Send
  <2>2. UNCHANGED <<lifecycle, latch, posted>>
    BY <1>12 DEF Send, lifetime, executor
  <2>3. Drains' = Drains
    <3>1. DrainsRunning' = DrainsRunning
      BY <1>1, <1>2, <1>3, <1>5, <2>1
    <3>2. DrainsPosting' = DrainsPosting
      BY <1>6, <2>1
    <3>3. DrainsPosted' = DrainsPosted
      BY <1>7, <2>2
    <3> QED  BY <1>4, <3>1, <3>2, <3>3
  <2> QED  BY <1>10, <1>11, <2>1, <2>2, <2>3
<1>13. ASSUME NEW t \in Threads, ThreadStep(t) PROVE One /\ Alone
  <2>1. /\ pc[t] \in {"schedule", "latch", "post"} /\ pc'[t] \in {"idle", "latch", "post"}
        /\ pc' = [pc EXCEPT ![t] = pc'[t]] /\ lifecycle' = lifecycle
    BY <1>13 DEF ThreadStep, ScheduleCheck, ScheduleLatch, SchedulePost, lifetime
  <2>2. Alone
    BY <1>10, <2>1 DEF Hands
  <2>3. DrainsRunning' = DrainsRunning
    <3>1. d(t) = 0 /\ e(t) = 0
      BY <2>1 DEF Busy
    <3> QED  BY <1>3, <1>5, <2>1, <3>1
  <2>4. CASE ScheduleCheck(t)
    <3>1. UNCHANGED <<posted, cancelled>> /\ (~cancelled => scheduled' = scheduled) /\ pc[t] = "schedule" /\ pc'[t] # "post"
      BY <2>1, <2>4 DEF ScheduleCheck, executor
    <3>2. Drains' = Drains
      BY <1>3, <1>4, <1>6, <1>7, <2>1, <2>3, <3>1
    <3> QED  BY <1>8, <2>1, <2>2, <3>1, <3>2 DEF One
  <2>5. CASE ScheduleLatch(t)
    <3>1. /\ UNCHANGED <<posted, cancelled>> /\ scheduled' = TRUE /\ pc[t] = "latch"
          /\ (scheduled => pc'[t] = "idle") /\ (~scheduled => pc'[t] = "post")
      BY <2>1, <2>5 DEF ScheduleLatch, executor
    <3>2. DrainsPosted' = DrainsPosted
      BY <1>7, <3>1
    <3>3. CASE scheduled
      <4>1. Drains' = Drains
        BY <1>3, <1>4, <1>6, <2>1, <2>3, <3>1, <3>2, <3>3
      <4> QED  BY <1>8, <2>1, <2>2, <3>1, <4>1 DEF One
    <3>4. CASE ~scheduled
      <4>1. Drains' = Drains + 1
        <5>1. DrainsPosting' = DrainsPosting + 1
          BY <1>6, <2>1, <3>1, <3>4
        <5> QED  BY <1>3, <1>4, <2>3, <3>2, <5>1
      <4>2. ~cancelled => Drains = 0
        BY <1>8, <1>9, <2>1, <3>4
      <4> QED  BY <2>2, <3>1, <4>1, <4>2 DEF One
    <3> QED  BY <3>3, <3>4
  <2>6. CASE SchedulePost(t)
    <3>1. /\ cancelled' = cancelled /\ pc[t] = "post" /\ pc'[t] = "idle"
          /\ (running => posted' = Append(posted, Handler("drain", NoMessage)))
          /\ (~running => posted' = posted)
      BY <2>1, <2>6 DEF SchedulePost
    <3>2. running => scheduled' = scheduled
      BY <1>1, <2>6 DEF SchedulePost
    <3>3. DrainsPosting' = DrainsPosting - 1 /\ DrainsPosting' \in Nat
      BY <1>6, <2>1, <3>1
    <3>4. CASE running
      <4>1. DrainsPosted' = DrainsPosted + 1
        BY <1>7, <3>1, <3>4
      <4>2. Drains' = Drains
        BY <1>3, <1>4, <2>3, <3>3, <4>1
      <4> QED  BY <1>8, <2>1, <2>2, <3>1, <3>2, <3>4, <4>2 DEF One
    <3>5. CASE ~running
      <4>1. Drains' = Drains - 1 /\ Drains' \in Nat
        BY <1>3, <1>4, <1>7, <2>3, <3>1, <3>3, <3>5
      <4>2. ~cancelled => Drains' = 0
        BY <1>8, <1>9, <2>1, <4>1
      <4> QED  BY <2>2, <3>1, <4>2 DEF One
    <3> QED  BY <3>4, <3>5
  <2> QED  BY <1>13, <2>2, <2>4, <2>5, <2>6 DEF ThreadStep
<1>14. ASSUME NEW w \in Workers, WorkerAction(w) PROVE One /\ Alone
  <2>1. w \in Threads /\ w \in Workers
    BY <1>1
  <2>2. /\ pc' = [pc EXCEPT ![w] = pc'[w]] /\ lifecycle' = lifecycle /\ cancelled' = cancelled
        /\ pc[w] # "post" /\ pc'[w] # "post"
    <3>1. CASE TakeHandler(w)
      <4>1. posted # <<>> /\ Head(posted) \in Handlers
        BY <1>1, <3>1, HeadTailProperties DEF TakeHandler
      <4>2. Head(posted).what \in {"drain", "pump", "task"}
        BY <4>1 DEF Handlers
      <4> QED  BY <2>1, <3>1, <4>2 DEF TakeHandler, lifetime, latch
    <3>2. CASE ~TakeHandler(w)
      BY <1>14, <2>1, <3>2 DEF WorkerAction, DrainCheck, DrainTimeUp, DrainReceive, DrainUnlatch,
       DrainRecheck, DispatchReject, DispatchSerialized, DispatchConcurrent, PostPump,
       PostTask, PumpTake, RunTask, AccountTask, PumpNext, lifetime, latch
    <3> QED  BY <3>1, <3>2
  <2>3. /\ DrainsRunning' = DrainsRunning + d(w) - e(w)
        /\ DrainsPosting' = DrainsPosting
    BY <1>5, <1>6, <2>1, <2>2
  <2>4. /\ ~cancelled => Drains <= 1 /\ (Drains = 1 => scheduled)
        /\ \A v, u \in At(Workers, Hands) : v = u
    BY <1>8, <2>2
  <2>5. CASE TakeHandler(w)
    <3>1. Head(posted).what \in {"drain", "pump", "task"}
      <4>1. posted # <<>> /\ Head(posted) \in Handlers
        BY <1>1, <2>5, HeadTailProperties DEF TakeHandler
      <4> QED  BY <4>1 DEF Handlers
    <3>2. pc[w] = "idle" /\ pc'[w] \in {"drain", "pump", "run"} /\ (pc'[w] = "drain" <=> Head(posted).what = "drain")
      BY <2>1, <2>5, <3>1 DEF TakeHandler
    <3>3. DrainsPosted' = DrainsPosted - (IF Head(posted).what = "drain" THEN 1 ELSE 0)
      BY <1>7, <2>5 DEF TakeHandler
    <3>4. DrainsRunning' = DrainsRunning + (IF Head(posted).what = "drain" THEN 1 ELSE 0)
      <4>1. d(w) = (IF Head(posted).what = "drain" THEN 1 ELSE 0) /\ e(w) = 0
        BY <2>1, <3>2 DEF Busy
      <4> QED  BY <1>3, <2>3, <4>1
    <3>5. Drains' = Drains
      BY <1>3, <1>4, <2>3, <3>3, <3>4
    <3>6. UNCHANGED latch
      BY <2>5 DEF TakeHandler
    <3> QED  BY <1>10, <1>11, <2>1, <2>2, <3>2, <3>5, <3>6 DEF Hands
  <2>6. CASE DrainCheck(w)
    <3>1. /\ UNCHANGED <<posted, latch>> /\ pc[w] = "drain" /\ pc'[w] \in {"receive", "unlatch"}
          /\ (pc'[w] = "receive" => ~cancelled)
      BY <2>1, <2>6 DEF DrainCheck, executor
    <3>2. d(w) = 1 /\ e(w) = 1
      BY <2>1, <3>1 DEF Busy
    <3>3. Drains' = Drains
      BY <1>3, <1>4, <1>7, <2>3, <3>1, <3>2
    <3>4. CASE pc'[w] = "unlatch"
      BY <1>10, <1>11, <2>1, <2>2, <3>1, <3>3, <3>4 DEF Hands
    <3>5. CASE pc'[w] = "receive"
      <4>1. DrainsRunning <= 1
        BY <1>3, <1>4, <2>4, <3>1, <3>5
      <4>2. \A v \in At(Workers, Busy) : v = w
        <5>1. w \in At(Workers, Busy)
          BY <2>1, <3>1 DEF At, Busy
        <5> QED  BY <1>2, <1>3, <4>1, <5>1, AtMostOne
      <4>3. \A v \in Threads : v # w => pc'[v] = pc[v]
        BY <2>2 DEF TypeOK
      <4>4. \A v \in At(Workers, Hands)' : v = w
        <5> SUFFICES ASSUME NEW v \in Workers, pc'[v] \in Hands, v # w PROVE FALSE
          BY DEF At
        <5>1. pc[v] \in Hands /\ v \in Threads
          BY <1>1, <4>3
        <5>2. v \in At(Workers, Busy)
          BY <5>1 DEF At, Busy, Hands
        <5> QED  BY <4>2, <5>2
      <4>5. Alone
        BY <4>4 DEF Alone
      <4> QED  BY <1>11, <2>2, <3>1, <3>3, <4>5
    <3> QED  BY <3>1, <3>4, <3>5
  <2>7. CASE DrainTimeUp(w) \/ DrainReceive(w) \/ DispatchReject(w)
    <3>1. /\ UNCHANGED <<posted, latch>> /\ pc[w] \in {"drain", "receive", "dispatch"}
          /\ pc'[w] \in {"unlatch", "dispatch", "drain"} /\ (pc'[w] = "dispatch" => pc[w] = "receive")
      BY <2>1, <2>7 DEF DrainTimeUp, DrainReceive, DispatchReject, executor
    <3>2. d(w) = 1 /\ e(w) = 1
      BY <2>1, <3>1 DEF Busy
    <3>3. Drains' = Drains
      BY <1>3, <1>4, <1>7, <2>3, <3>1, <3>2
    <3> QED  BY <1>10, <1>11, <2>1, <2>2, <3>1, <3>3 DEF Hands
  <2>8. CASE DrainUnlatch(w)
    <3>1. posted' = posted /\ pc[w] = "unlatch" /\ pc'[w] = "recheck"
      BY <2>1, <2>8 DEF DrainUnlatch, executor
    <3>2. d(w) = 0 /\ e(w) = 1
      BY <2>1, <3>1 DEF Busy
    <3>3. DrainsRunning' \in Nat
      BY <1>1, <1>2, <2>1, <2>2, ThreadMoves
    <3>4. Drains' = Drains - 1 /\ Drains' \in Nat
      BY <1>3, <1>4, <1>7, <2>3, <3>1, <3>2, <3>3
    <3>5. ~cancelled => Drains' = 0
      BY <1>9, <2>4, <3>4
    <3> QED  BY <1>10, <2>1, <2>2, <3>1, <3>5 DEF Hands, One
  <2>9. CASE DispatchSerialized(w) \/ DispatchConcurrent(w)
    <3>1. /\ UNCHANGED <<posted, latch>> /\ pc[w] = "dispatch"
          /\ pc'[w] \in {"drain", "postPump", "postTask"}
      BY <2>1, <2>9 DEF DispatchSerialized, DispatchConcurrent, executor
    <3>2. d(w) = 1 /\ e(w) = 1
      BY <2>1, <3>1 DEF Busy
    <3>3. Drains' = Drains
      BY <1>3, <1>4, <1>7, <2>3, <3>1, <3>2
    <3> QED  BY <1>10, <1>11, <2>1, <2>2, <3>1, <3>3 DEF Hands
  <2>10. CASE PostPump(w) \/ PostTask(w)
    <3>1. /\ UNCHANGED latch
          /\ \/ pc[w] \in {"postPump", "postTask"} /\ pc'[w] = "drain"
             \/ pc[w] = "repost" /\ pc'[w] = "idle"
      BY <2>1, <2>10 DEF PostPump, PostTask
    <3>2. d(w) = e(w) /\ d(w) \in Nat
      BY <2>1, <3>1 DEF Busy
    <3>3. \/ posted' = posted
          \/ posted' = Append(posted, Handler("pump", NoMessage))
          \/ posted' = Append(posted, Handler("task", held[w]))
      BY <2>10 DEF PostPump, PostTask
    <3>4. DrainsPosted' = DrainsPosted
      <4>1. held[w] \in Messages \cup {NoMessage} /\ NoMessage \in Messages \cup {NoMessage}
        BY DEF TypeOK
      <4> QED  BY <1>3, <1>7, <3>3, <4>1
    <3>5. Drains' = Drains
      BY <1>3, <1>4, <2>3, <3>2, <3>4
    <3> QED  BY <1>10, <1>11, <2>1, <2>2, <3>1, <3>5 DEF Hands
  <2>11. CASE DrainRecheck(w) \/ PumpTake(w) \/ RunTask(w) \/ AccountTask(w) \/ PumpNext(w)
    <3>1. /\ UNCHANGED <<posted, latch>> /\ pc[w] \notin Busy
          /\ pc'[w] \notin Busy
      BY <2>1, <2>11 DEF DrainRecheck, PumpTake, RunTask, AccountTask, PumpNext, executor, Busy
    <3>2. d(w) = 0 /\ e(w) = 0
      BY <3>1
    <3>3. Drains' = Drains
      BY <1>3, <1>4, <1>7, <2>3, <3>1, <3>2
    <3> QED  BY <1>10, <1>11, <2>1, <2>2, <3>1, <3>3 DEF Hands, Busy
  <2> QED  BY <1>14, <2>5, <2>6, <2>7, <2>8, <2>9, <2>10, <2>11 DEF WorkerAction
<1>15. CASE GraphAction \/ UNCHANGED vars
  <2>1. UNCHANGED <<pc, posted>>
    BY <1>15 DEF GraphAction, OpenDispatch, OpenEdge, StartExecutor, StopProduction, WaitNodes,
       WaitEdge, BeginStop, CancelDrain, CloseTransport, UnlatchEdge, CloseNode, StopExecutor, Join, executor, vars
  <2>2. Drains' = Drains
    BY <2>1 DEF Drains, DrainsPosted, DrainsRunning, DrainsPosting, At, PostedOf
  <2>3. lifecycle' = lifecycle => Alone
    BY <1>8, <2>1 DEF Alone, At
  <2>4. CASE OpenDispatch
    <3>1. lifecycle = 0 /\ UNCHANGED latch
      BY <1>1, <2>4 DEF OpenDispatch
    <3>2. Fresh
      BY <3>1 DEF Phases, Fresh
    <3>3. \A L : "idle" \notin L => At(Workers, L) = {} /\ At(Threads, L) = {}
      BY <1>1, <3>2, NothingAtFirst
    <3>4. One /\ Alone
      <4>1. At(Workers, Hands)' = {}
        BY <2>1, <3>3 DEF At, Hands
      <4>2. One
        BY <1>8, <2>2, <3>1 DEF One, latch
      <4> QED  BY <4>1, <4>2 DEF Alone
    <3> QED  BY <3>4 DEF One, Alone
  <2>5. CASE OpenEdge
    <3>1. graph = "openEdge" /\ lifecycle' = lifecycle
      BY <2>5 DEF OpenEdge, GraphGoes
    <3>2. Fresh
      BY <1>1, <3>1 DEF Phases, Fresh
    <3>3. /\ DrainsPosted = 0 /\ DrainsRunning = 0 /\ DrainsPosting = 0
      BY <1>1, <1>2, <3>2, NothingAtFirst DEF Busy
    <3>4. Drains' = 0
      BY <1>4, <2>2, <3>3
    <3> QED  BY <2>3, <3>1, <3>4 DEF One, Alone
  <2>6. CASE UnlatchEdge
    <3>1. cancelled' /\ lifecycle' = lifecycle
      BY <2>6 DEF UnlatchEdge, GraphGoes, Phases
    <3> QED  BY <2>3, <3>1 DEF One, Alone
  <2>7. CASE CancelDrain
    BY <2>3, <2>7 DEF CancelDrain, One, Alone
  <2>8. CASE ~(OpenDispatch \/ OpenEdge \/ UnlatchEdge \/ CancelDrain)
    <3>1. UNCHANGED <<latch, lifecycle>>
      BY <1>15, <2>8 DEF GraphAction, StartExecutor, StopProduction, WaitNodes,
         WaitEdge, BeginStop, CloseTransport, CloseNode, StopExecutor, Join, vars, lifetime
    <3> QED  BY <1>11, <2>2, <2>3, <3>1 DEF One, Alone
  <2> QED  BY <2>4, <2>5, <2>6, <2>7, <2>8
<1> QED  BY <1>12, <1>13, <1>14, <1>15 DEF Next, WorkerStep, One, Alone

-----------------------------------------------------------------------------
(* The order of messages                                                   *)

LEMMA RangeKept ==
  ASSUME NEW q \in Seq(Messages)
  PROVE  /\ \A m \in Messages : Range(Append(q, m)) = Range(q) \cup {m}
         /\ q # <<>> => /\ Head(q) \in Range(q) /\ Range(Tail(q)) \subseteq Range(q)
                        /\ Head(q) \in Messages /\ Tail(q) \in Seq(Messages)
<1>1. DOMAIN q = 1..Len(q) /\ Len(q) \in Nat /\ \A i \in 1..Len(q) : q[i] \in Messages
  BY LenProperties, ElementOfSeq
<1>3. ASSUME NEW m \in Messages PROVE Range(Append(q, m)) = Range(q) \cup {m}
  <2>1. /\ DOMAIN Append(q, m) = 1..(Len(q) + 1)
        /\ Append(q, m)[Len(q) + 1] = m /\ \A i \in 1..Len(q) : Append(q, m)[i] = q[i]
    BY <1>1, AppendProperties, LenProperties
  <2> QED  BY <1>1, <2>1 DEF Range
<1>4. ASSUME q # <<>>
      PROVE  /\ Head(q) \in Range(q) /\ Range(Tail(q)) \subseteq Range(q)
             /\ Head(q) \in Messages /\ Tail(q) \in Seq(Messages)
  <2>1. Tail(q) \in Seq(Messages) /\ Len(Tail(q)) = Len(q) - 1 /\ Len(q) # 0 /\ Head(q) \in Messages
    BY <1>4, HeadTailProperties, EmptySeq
  <2>2. Head(q) = q[1] /\ 1 \in DOMAIN q
    BY <1>1, <2>1
  <2>3. DOMAIN Tail(q) = 1..(Len(q) - 1) /\ \A i \in 1..(Len(q) - 1) : Tail(q)[i] = q[i + 1]
    BY <1>4, <2>1, HeadTailProperties, LenProperties
  <2>4. \A i \in 1..(Len(q) - 1) : i + 1 \in DOMAIN q
    BY <1>1
  <2> QED  BY <2>1, <2>2, <2>3, <2>4 DEF Range
<1> QED  BY <1>3, <1>4

\* What a sequence in order stays when it grows at the end or shrinks.
LEMMA OrderKept ==
  ASSUME NEW q \in Seq(Messages), NEW acc, Ordered(q, acc)
  PROVE  /\ \A m \in Messages : Ahead(Range(q), {m}, acc) => Ordered(Append(q, m), acc)
         /\ q # <<>> => Ordered(Tail(q), acc) /\ Ahead({Head(q)}, Range(Tail(q)), acc)
         /\ \A i \in DOMAIN q : /\ Ordered(RemoveAt(q, i), acc) /\ Range(RemoveAt(q, i)) \subseteq Range(q)
                                /\ RemoveAt(q, i) \in Seq(Messages)
<1>1. DOMAIN q = 1..Len(q) /\ Len(q) \in Nat
  BY LenProperties
<1>2. ASSUME NEW m \in Messages, Ahead(Range(q), {m}, acc) PROVE Ordered(Append(q, m), acc)
  <2>1. /\ DOMAIN Append(q, m) = 1..(Len(q) + 1)
        /\ Append(q, m)[Len(q) + 1] = m /\ \A i \in 1..Len(q) : Append(q, m)[i] = q[i]
    BY <1>1, AppendProperties, LenProperties
  <2> SUFFICES ASSUME NEW i \in 1..(Len(q) + 1), NEW j \in 1..(Len(q) + 1), i < j
               PROVE  IsBefore(Append(q, m)[i], Append(q, m)[j], acc)
    BY <2>1 DEF Ordered
  <2>2. i \in 1..Len(q) /\ Append(q, m)[i] = q[i] /\ q[i] \in Range(q)
    <3>1. i \in 1..Len(q)
      BY <1>1
    <3> QED  BY <1>1, <2>1, <3>1 DEF Range
  <2>3. CASE j = Len(q) + 1
    BY <1>2, <2>1, <2>2, <2>3 DEF Ahead
  <2>4. CASE j # Len(q) + 1
    <3>1. j \in 1..Len(q)
      BY <1>1, <2>4
    <3> QED  BY <1>1, <2>1, <2>2, <3>1 DEF Ordered
  <2> QED  BY <2>3, <2>4
<1>3. ASSUME q # <<>> PROVE Ordered(Tail(q), acc) /\ Ahead({Head(q)}, Range(Tail(q)), acc)
  <2>1. Tail(q) \in Seq(Messages) /\ Len(Tail(q)) = Len(q) - 1 /\ Len(q) # 0
    BY <1>3, HeadTailProperties, EmptySeq
  <2>2. Head(q) = q[1] /\ 1 \in DOMAIN q
    BY <1>1, <2>1
  <2>3. DOMAIN Tail(q) = 1..(Len(q) - 1) /\ \A i \in 1..(Len(q) - 1) : Tail(q)[i] = q[i + 1]
    BY <1>3, <2>1, HeadTailProperties, LenProperties
  <2>4. \A i \in 1..(Len(q) - 1) : i + 1 \in DOMAIN q /\ 1 < i + 1
    BY <1>1
  <2>5. \A i, j \in 1..(Len(q) - 1) : i < j => i + 1 < j + 1
    BY <1>1
  <2>6. Ordered(Tail(q), acc)
    BY <2>3, <2>4, <2>5 DEF Ordered
  <2>7. Ahead({Head(q)}, Range(Tail(q)), acc)
    BY <2>2, <2>3, <2>4 DEF Ordered, Ahead, Range
  <2> QED  BY <2>6, <2>7
<1>4. ASSUME NEW i \in DOMAIN q
      PROVE  /\ Ordered(RemoveAt(q, i), acc) /\ Range(RemoveAt(q, i)) \subseteq Range(q)
             /\ RemoveAt(q, i) \in Seq(Messages)
  <2> DEFINE r == RemoveAt(q, i)
             at(j) == IF j < i THEN j ELSE j + 1
  <2>1. r \in Seq(Messages) /\ Len(r) = Len(q) - 1 /\ \A j \in 1..(Len(q) - 1) : r[j] = IF j < i THEN q[j] ELSE q[j + 1]
    BY RemoveAtFacts
  <2>2. DOMAIN r = 1..(Len(q) - 1)
    BY <2>1, LenProperties
  <2>3. \A j \in 1..(Len(q) - 1) : r[j] = q[at(j)] /\ at(j) \in DOMAIN q
    BY <1>1, <2>1
  <2>4. \A j, k \in 1..(Len(q) - 1) : j < k => at(j) < at(k)
    BY <1>1
  <2> HIDE DEF r, at
  <2>5. Ordered(r, acc) /\ Range(r) \subseteq Range(q)
    BY <2>2, <2>3, <2>4 DEF Ordered, Range
  <2> QED  BY <2>1, <2>5 DEF r
<1> QED  BY <1>2, <1>3, <1>4

\* Accepting a message puts it behind all others.
LEMMA AcceptedLast ==
  ASSUME NEW acc \in Seq(Messages), NEW m \in Messages
  PROVE  /\ \A a, b : IsBefore(a, b, acc) => IsBefore(a, b, Append(acc, m))
         /\ Ahead(Range(acc), {m}, Append(acc, m))
<1>1. /\ DOMAIN acc = 1..Len(acc) /\ Len(acc) \in Nat
      /\ DOMAIN Append(acc, m) = 1..(Len(acc) + 1)
      /\ Append(acc, m)[Len(acc) + 1] = m /\ \A i \in 1..Len(acc) : Append(acc, m)[i] = acc[i]
  BY AppendProperties, LenProperties
<1>2. \A i \in 1..Len(acc) : i \in 1..(Len(acc) + 1) /\ i < Len(acc) + 1 /\ Len(acc) + 1 \in 1..(Len(acc) + 1)
  BY <1>1
<1>3. \A a, b : IsBefore(a, b, acc) => IsBefore(a, b, Append(acc, m))
  BY <1>1, <1>2 DEF IsBefore
<1>4. Ahead(Range(acc), {m}, Append(acc, m))
  BY <1>1, <1>2 DEF Ahead, Range, IsBefore
<1> QED  BY <1>3, <1>4

\* How a message passes from one place to the next.
LEMMA PassageKept ==
  ASSUME NEW done \in Seq(Messages), NEW run, NEW queue \in Seq(Messages), NEW move \in SUBSET Messages,
         NEW edge \in Seq(Messages), NEW acc \in Seq(Messages),
         Passage(done, run, queue, move, edge, acc)
  PROVE  /\ \A m \in Messages : Passage(done, run, queue, move, Append(edge, m), Append(acc, m))
         /\ edge # <<>> => Passage(done, run, queue, {Head(edge)}, Tail(edge), acc)
         /\ \A m \in move : Passage(done, run, Append(queue, m), {}, edge, acc)
         /\ \A i \in DOMAIN queue : Passage(done, run, RemoveAt(queue, i), move, edge, acc)
         /\ queue # <<>> => Passage(done, {Head(queue)}, Tail(queue), move, edge, acc)
         /\ \A m \in run : m \in Messages => Passage(Append(done, m), {}, queue, move, edge, acc)
<1>1. Ordered(done, acc) /\ Ordered(queue, acc) /\ Ordered(edge, acc)
  BY DEF Passage
<1>2. /\ Ahead(Range(done), run \cup Range(queue) \cup move \cup Range(edge), acc)
      /\ Ahead(run, Range(queue) \cup move \cup Range(edge), acc)
      /\ Ahead(Range(queue), move \cup Range(edge), acc)
      /\ Ahead(move, Range(edge), acc)
      /\ Range(done) \cup run \cup Range(queue) \cup move \cup Range(edge) \subseteq Range(acc)
  BY DEF Passage
<1>3. ASSUME NEW m \in Messages PROVE Passage(done, run, queue, move, Append(edge, m), Append(acc, m))
  <2> DEFINE acc2 == Append(acc, m)
             edge2 == Append(edge, m)
  <2>1. /\ \A a, b : IsBefore(a, b, acc) => IsBefore(a, b, acc2)
        /\ Ahead(Range(acc), {m}, acc2)
    BY AcceptedLast
  <2>2. Range(edge2) = Range(edge) \cup {m} /\ Range(acc2) = Range(acc) \cup {m}
    BY RangeKept
  <2> HIDE DEF acc2
  <2>3. Ordered(done, acc2) /\ Ordered(queue, acc2) /\ Ordered(edge, acc2)
    BY <1>1, <2>1 DEF Ordered
  <2>4. Ordered(edge2, acc2)
    <3>1. Ahead(Range(edge), {m}, acc2)
      BY <1>2, <2>1 DEF Ahead
    <3> QED  BY <2>3, <3>1, OrderKept
  <2> HIDE DEF edge2
  <2>5. /\ Ahead(Range(done), run \cup Range(queue) \cup move \cup Range(edge2), acc2)
        /\ Ahead(run, Range(queue) \cup move \cup Range(edge2), acc2)
        /\ Ahead(Range(queue), move \cup Range(edge2), acc2)
        /\ Ahead(move, Range(edge2), acc2)
    BY <1>2, <2>1, <2>2 DEF Ahead
  <2>6. Range(done) \cup run \cup Range(queue) \cup move \cup Range(edge2) \subseteq Range(acc2)
    BY <1>2, <2>2
  <2>7. Passage(done, run, queue, move, edge2, acc2)
    BY <2>3, <2>4, <2>5, <2>6 DEF Passage
  <2> QED  BY <2>7 DEF acc2, edge2
<1>4. ASSUME edge # <<>> PROVE Passage(done, run, queue, {Head(edge)}, Tail(edge), acc)
  <2>1. Head(edge) \in Range(edge) /\ Range(Tail(edge)) \subseteq Range(edge)
    BY <1>4, RangeKept
  <2>2. Ordered(Tail(edge), acc) /\ Ahead({Head(edge)}, Range(Tail(edge)), acc)
    BY <1>1, <1>4, OrderKept
  <2> QED  BY <1>1, <1>2, <2>1, <2>2 DEF Passage, Ahead
<1>5. ASSUME NEW m \in move PROVE Passage(done, run, Append(queue, m), {}, edge, acc)
  <2>1. Range(Append(queue, m)) = Range(queue) \cup {m}
    BY RangeKept
  <2>2. Ahead(Range(queue), {m}, acc)
    BY <1>2 DEF Ahead
  <2>3. Ordered(Append(queue, m), acc)
    BY <1>1, <2>2, OrderKept
  <2> QED  BY <1>1, <1>2, <2>1, <2>3 DEF Passage, Ahead
<1>6. ASSUME NEW i \in DOMAIN queue PROVE Passage(done, run, RemoveAt(queue, i), move, edge, acc)
  <2>1. Ordered(RemoveAt(queue, i), acc) /\ Range(RemoveAt(queue, i)) \subseteq Range(queue)
    BY <1>1, OrderKept
  <2> QED  BY <1>1, <1>2, <2>1 DEF Passage, Ahead
<1>7. ASSUME queue # <<>> PROVE Passage(done, {Head(queue)}, Tail(queue), move, edge, acc)
  <2>1. Head(queue) \in Range(queue) /\ Range(Tail(queue)) \subseteq Range(queue)
    BY <1>7, RangeKept
  <2>2. Ordered(Tail(queue), acc) /\ Ahead({Head(queue)}, Range(Tail(queue)), acc)
    BY <1>1, <1>7, OrderKept
  <2> QED  BY <1>1, <1>2, <2>1, <2>2 DEF Passage, Ahead
<1>8. ASSUME NEW m \in run, m \in Messages PROVE Passage(Append(done, m), {}, queue, move, edge, acc)
  <2>1. Range(Append(done, m)) = Range(done) \cup {m}
    BY <1>8, RangeKept
  <2>2. Ahead(Range(done), {m}, acc)
    BY <1>2 DEF Ahead
  <2>3. Ordered(Append(done, m), acc)
    BY <1>1, <1>8, <2>2, OrderKept
  <2> QED  BY <1>1, <1>2, <2>1, <2>3 DEF Passage, Ahead
<1> QED  BY <1>3, <1>4, <1>5, <1>6, <1>7, <1>8

LEMMA PassageShrinks ==
  ASSUME NEW done \in Seq(Messages), NEW run, NEW queue \in Seq(Messages), NEW move \in SUBSET Messages,
         NEW edge \in Seq(Messages), NEW acc \in Seq(Messages),
         Passage(done, run, queue, move, edge, acc),
         NEW r, r \subseteq run, NEW v, v \subseteq move
  PROVE  Passage(done, r, queue, v, edge, acc)
BY DEF Passage, Ahead

LEMMA PassageCleared ==
  ASSUME NEW done \in Seq(Messages), NEW run, NEW queue \in Seq(Messages), NEW move \in SUBSET Messages,
         NEW edge \in Seq(Messages), NEW acc \in Seq(Messages),
         Passage(done, run, queue, move, edge, acc),
         NEW q \in {queue, <<>>}, NEW e \in {edge, <<>>}
  PROVE  Passage(done, run, q, move, e, acc) /\ q \in Seq(Messages) /\ e \in Seq(Messages)
<1>1. q \in Seq(Messages) /\ e \in Seq(Messages)
  BY EmptySeq
<1>2. Range(<<>>) = {} /\ Ordered(<<>>, acc)
  BY DEF Range, Ordered
<1>3. Range(q) \subseteq Range(queue) /\ Range(e) \subseteq Range(edge) /\ Ordered(q, acc) /\ Ordered(e, acc)
  BY <1>2 DEF Passage
<1>4. Passage(done, run, q, move, e, acc)
  BY <1>3 DEF Passage, Ahead
<1> QED  BY <1>1, <1>4

LEMMA FlowKept ==
  ASSUME TypeOK, Carried, Phases, TasksByMode, OnePump, OneDrain, Flow, [Next]_vars
  PROVE  Flow'
<1> DEFINE Pumping == {"postPump", "pump", "run", "account", "next", "repost"}
           Hands == {"receive", "dispatch"}
<1> USE OneThread
<1>1. /\ handled \in Seq(Messages) /\ dispatchQueue \in Seq(Messages) /\ box \in Seq(Messages)
      /\ accepted \in Seq(Messages) /\ Workers \in SUBSET Threads /\ lifecycle \in Nat
      /\ held \in [Workers -> Messages \cup {NoMessage}]
  BY EdgeAssumption DEF TypeOK, Threads
<1>2. Running \in SUBSET Messages /\ Moving \in SUBSET Messages
  BY DEF Running, Moving, At, Carried
<1>3. Concurrent' = Concurrent
  BY DEF Concurrent, Next, WorkerStep, ThreadStep, vars
<1> SUFFICES ASSUME ~Concurrent, lifecycle' <= 1
             PROVE  Passage(handled', Running', dispatchQueue', Moving', box', accepted')
  BY <1>3 DEF Flow
<1>4. lifecycle <= 1 => Passage(handled, Running, dispatchQueue, Moving, box, accepted)
  BY DEF Flow
<1>5. ASSUME NEW t \in Threads, pc' = [pc EXCEPT ![t] = pc'[t]],
             t \in Workers => \A v \in Workers : v # t => held'[v] = held[v],
             t \notin Workers => held' = held
      PROVE  /\ t \in Workers /\ pc'[t] = "run" => Running' \subseteq Running \cup {held'[t]}
             /\ t \in Workers /\ pc'[t] = "dispatch" => Moving' \subseteq Moving \cup {held'[t]}
             /\ t \notin Workers \/ pc'[t] # "run" => Running' \subseteq Running
             /\ t \notin Workers \/ pc'[t] # "dispatch" => Moving' \subseteq Moving
  <2>1. \A v \in Threads : v # t => pc'[v] = pc[v]
    BY <1>5 DEF TypeOK
  <2>2. \A v \in Workers : v # t => held'[v] = held[v]
    BY <1>1, <1>5
  <2>3. Running' = {held'[v] : v \in {u \in Workers : pc'[u] \in {"run"}}}
    BY DEF Running, At
  <2>4. Moving' = {held'[v] : v \in {u \in Workers : pc'[u] \in {"dispatch"}}}
    BY DEF Moving, At
  <2>5. Running = {held[v] : v \in {u \in Workers : pc[u] \in {"run"}}}
    BY DEF Running, At
  <2>6. Moving = {held[v] : v \in {u \in Workers : pc[u] \in {"dispatch"}}}
    BY DEF Moving, At
  <2>7. \A v \in Workers : pc'[v] = "run" /\ v # t => held'[v] \in Running
    BY <1>1, <2>1, <2>2, <2>5
  <2>8. \A v \in Workers : pc'[v] = "dispatch" /\ v # t => held'[v] \in Moving
    BY <1>1, <2>1, <2>2, <2>6
  <2> QED  BY <2>3, <2>4, <2>7, <2>8
<1>6. Running' \subseteq Running /\ Moving' \subseteq Moving /\ lifecycle' = lifecycle
        /\ UNCHANGED <<handled, dispatchQueue, box, accepted>> =>
      Passage(handled', Running', dispatchQueue', Moving', box', accepted')
  <2> SUFFICES ASSUME Running' \subseteq Running, Moving' \subseteq Moving, lifecycle' = lifecycle,
                      UNCHANGED <<handled, dispatchQueue, box, accepted>>
               PROVE  Passage(handled, Running', dispatchQueue, Moving', box, accepted)
    OBVIOUS
  <2> QED  BY <1>1, <1>2, <1>4, PassageShrinks
<1>7. ASSUME NEW p \in Producers, Send(p)
      PROVE  Passage(handled', Running', dispatchQueue', Moving', box', accepted')
  <2>1. Running' \subseteq Running /\ Moving' \subseteq Moving
    <3>1. p \in Threads /\ p \notin Workers /\ held' = held /\ pc' = [pc EXCEPT ![p] = pc'[p]]
      BY <1>7 DEF Send, worker
    <3> QED  BY <1>5, <3>1
  <2>2. PICK m \in Messages : box' = Append(box, m) /\ accepted' = Append(accepted, m)
    BY <1>7 DEF Send
  <2>3. UNCHANGED <<handled, dispatchQueue, lifecycle>>
    BY <1>7 DEF Send, dispatch, lifetime
  <2>4. Passage(handled, Running, dispatchQueue, Moving, box', accepted')
    BY <1>1, <1>2, <1>4, <2>2, <2>3, PassageKept
  <2>5. box' \in Seq(Messages) /\ accepted' \in Seq(Messages)
    BY <1>1, <2>2, AppendProperties
  <2>6. Passage(handled, Running', dispatchQueue, Moving', box', accepted')
    BY <1>1, <1>2, <2>1, <2>4, <2>5, PassageShrinks
  <2> QED  BY <2>3, <2>6
<1>8. ASSUME NEW t \in Threads, ThreadStep(t)
      PROVE  Passage(handled', Running', dispatchQueue', Moving', box', accepted')
  <2>1. /\ pc' = [pc EXCEPT ![t] = pc'[t]] /\ pc'[t] \in {"idle", "latch", "post"}
        /\ UNCHANGED <<held, lifecycle, handled, dispatchQueue, box, accepted>>
    BY <1>8 DEF ThreadStep, ScheduleCheck, ScheduleLatch, SchedulePost, worker, lifetime, history,
       dispatch, transport
  <2>2. Running' \subseteq Running /\ Moving' \subseteq Moving
    BY <1>5, <2>1
  <2> QED  BY <1>6, <2>1, <2>2
<1>9. ASSUME NEW w \in Workers, WorkerAction(w)
      PROVE  Passage(handled', Running', dispatchQueue', Moving', box', accepted')
  <2>1. w \in Threads /\ w \in Workers
    BY <1>1
  <2>2. /\ pc' = [pc EXCEPT ![w] = pc'[w]] /\ lifecycle' = lifecycle /\ accepted' = accepted
        /\ \A v \in Workers : v # w => held'[v] = held[v]
    <3>1. held' = held \/ \E x : held' = [held EXCEPT ![w] = x]
      BY <1>9 DEF WorkerAction, TakeHandler, DrainCheck, DrainTimeUp, DrainReceive, DrainUnlatch,
       DrainRecheck, DispatchReject, DispatchSerialized, DispatchConcurrent, PostPump,
       PostTask, PumpTake, RunTask, AccountTask, PumpNext, worker
    <3>2. pc' = [pc EXCEPT ![w] = pc'[w]] /\ lifecycle' = lifecycle /\ accepted' = accepted
      BY <1>9, <2>1 DEF WorkerAction, TakeHandler, DrainCheck, DrainTimeUp, DrainReceive, DrainUnlatch,
       DrainRecheck, DispatchReject, DispatchSerialized, DispatchConcurrent, PostPump,
       PostTask, PumpTake, RunTask, AccountTask, PumpNext, lifetime, history
    <3> QED  BY <1>1, <3>1, <3>2
  <2>3. Passage(handled, Running, dispatchQueue, Moving, box, accepted)
    BY <1>4, <2>2
  <2>4. /\ pc'[w] = "run" => Running' \subseteq Running \cup {held'[w]}
        /\ pc'[w] = "dispatch" => Moving' \subseteq Moving \cup {held'[w]}
        /\ pc'[w] # "run" => Running' \subseteq Running
        /\ pc'[w] # "dispatch" => Moving' \subseteq Moving
    BY <1>5, <2>1, <2>2
  <2>5. pc[w] \in Hands => \A v \in Workers : v # w => pc[v] # "dispatch"
    BY <2>1, <2>2 DEF OneDrain, At
  <2>6. pc[w] \in Pumping => \A v \in Workers : v # w => pc[v] # "run"
    <3>1. Cardinality(At(Workers, Pumping)) <= 1
      <4>1. /\ PumpsRunning = Cardinality(At(Workers, Pumping)) /\ Pumps = PumpsPosted + PumpsRunning
        BY DEF PumpsRunning, Pumps, PumpsPosted
      <4>2. PumpsPosted \in Nat
        BY HandlersMove DEF PumpsPosted
      <4>3. PumpsRunning \in Nat
        <5>1. Cardinality(At(Workers, Pumping)) \in Nat
          <6> HIDE DEF Pumping
          <6> QED  BY <1>1, <2>1, <2>2, ThreadMoves
        <5> QED  BY <4>1, <5>1
      <4>4. Pumps <= 1
        BY <2>2 DEF OnePump
      <4> QED  BY <4>1, <4>2, <4>3, <4>4
    <3>2. IsFiniteSet(At(Workers, Pumping))
      <4>1. At(Workers, Pumping) \in SUBSET Threads
        BY <1>1 DEF At
      <4> QED  BY <4>1, FS_Subset, EdgeAssumption
    <3>3. \A v, u \in At(Workers, Pumping) : v = u
      BY <3>1, <3>2, AtMostOne
    <3> QED  BY <2>1, <3>3 DEF At
  <2>7. CASE TakeHandler(w)
    <3>1. Head(posted).what \in {"drain", "pump"}
      <4>1. posted # <<>> /\ posted \in Seq(Handlers)
        BY <2>7 DEF TakeHandler, TypeOK, Handlers
      <4>2. Head(posted) \in Handlers /\ Head(posted) = posted[1] /\ 1 \in DOMAIN posted
        BY <4>1, HeadTailProperties, LenProperties, EmptySeq
      <4>3. posted[1].what # "task"
        BY <4>2 DEF TasksByMode
      <4> QED  BY <4>2, <4>3 DEF Handlers
    <3>2. pc'[w] \in {"drain", "pump"}
      BY <2>1, <2>7, <3>1 DEF TakeHandler
    <3>3. UNCHANGED <<handled, dispatchQueue, box>>
      BY <2>7 DEF TakeHandler, transport, dispatch, history
    <3> QED  BY <1>6, <2>2, <2>4, <3>2, <3>3
  <2>8. CASE DrainReceive(w)
    <3>1. UNCHANGED <<handled, dispatchQueue>> /\ pc[w] = "receive" /\ pc'[w] # "run"
      BY <2>1, <2>8 DEF DrainReceive, dispatch, history
    <3>2. CASE box = <<>>
      <4>1. box' = box /\ pc'[w] = "unlatch"
        BY <2>1, <2>8, <3>2 DEF DrainReceive
      <4> QED  BY <1>6, <2>2, <2>4, <3>1, <4>1
    <3>3. CASE box # <<>>
      <4>1. box' = Tail(box) /\ held'[w] = Head(box)
        BY <1>1, <2>8, <3>3 DEF DrainReceive
      <4>2. Moving' \subseteq {Head(box)}
        <5>1. \A v \in Workers : v # w => pc'[v] = pc[v]
          BY <1>1, <2>2 DEF TypeOK
        <5>2. \A v \in Workers : pc'[v] = "dispatch" => v = w
          BY <2>5, <3>1, <5>1
        <5> QED  BY <4>1, <5>2 DEF Moving, At
      <4>3. Passage(handled, Running, dispatchQueue, {Head(box)}, Tail(box), accepted)
        BY <1>1, <1>2, <2>3, <3>3, PassageKept
      <4>4. Head(box) \in Messages /\ Tail(box) \in Seq(Messages)
        BY <1>1, <3>3, RangeKept
      <4>5. Passage(handled, Running', dispatchQueue, Moving', Tail(box), accepted)
        <5>1. Running' \subseteq Running /\ {Head(box)} \in SUBSET Messages
          BY <2>4, <3>1, <4>4
        <5> QED  BY <1>1, <4>2, <4>3, <4>4, <5>1, PassageShrinks
      <4> QED  BY <2>2, <3>1, <4>1, <4>5
    <3> QED  BY <3>2, <3>3
  <2>9. CASE DispatchSerialized(w)
    <3>1. /\ UNCHANGED <<handled, box>> /\ pc[w] = "dispatch" /\ pc'[w] \notin {"run", "dispatch"}
          /\ held[w] \in Messages
      BY <2>1, <2>9 DEF DispatchSerialized, transport, history, Carried
    <3>2. held[w] \in Moving
      BY <3>1 DEF Moving, At
    <3>3. Moving' = {}
      <4>1. \A v \in Workers : v # w => pc'[v] = pc[v]
        BY <1>1, <2>2 DEF TypeOK
      <4>2. \A v \in Workers : pc'[v] # "dispatch"
        BY <2>5, <3>1, <4>1
      <4> QED  BY <4>2 DEF Moving, At
    <3>4. PICK q \in Seq(Messages) : dispatchQueue' = Append(q, held[w])
                                     /\ Passage(handled, Running, q, Moving, box, accepted)
      <4>1. CASE ~Full
        <5>1. dispatchQueue' = Append(dispatchQueue, held[w])
          BY <2>9, <4>1 DEF DispatchSerialized
        <5> QED  BY <1>1, <2>3, <5>1
      <4>2. CASE Full
        <5>1. PICK i \in Victim(held[w]) : dispatchQueue' = Append(RemoveAt(dispatchQueue, i), held[w])
          BY <2>9, <4>2 DEF DispatchSerialized
        <5>2. i \in DOMAIN dispatchQueue
          BY <5>1 DEF Victim, First
        <5>3. Passage(handled, Running, RemoveAt(dispatchQueue, i), Moving, box, accepted)
          BY <1>1, <1>2, <2>3, <5>2, PassageKept
        <5>4. RemoveAt(dispatchQueue, i) \in Seq(Messages)
          BY <1>1, <5>2, RemoveAtFacts
        <5> QED  BY <5>1, <5>3, <5>4
      <4> QED  BY <4>1, <4>2
    <3>5. Passage(handled, Running, Append(q, held[w]), {}, box, accepted)
      BY <1>1, <1>2, <3>2, <3>4, PassageKept
    <3>6. Append(q, held[w]) \in Seq(Messages)
      BY <3>1, <3>4, AppendProperties
    <3>7. Passage(handled, Running', Append(q, held[w]), {}, box, accepted)
      BY <1>1, <1>2, <2>4, <3>1, <3>5, <3>6, PassageShrinks
    <3> QED  BY <2>2, <3>1, <3>3, <3>4, <3>7
  <2>10. CASE PumpTake(w)
    <3>1. UNCHANGED <<handled, box>> /\ pc[w] = "pump" /\ pc'[w] # "dispatch"
      BY <2>1, <2>10 DEF PumpTake, transport, history
    <3>2. CASE dispatchQueue = <<>>
      <4>1. dispatchQueue' = dispatchQueue /\ pc'[w] = "idle"
        BY <2>1, <2>10, <3>2 DEF PumpTake
      <4> QED  BY <1>6, <2>2, <2>4, <3>1, <4>1
    <3>3. CASE dispatchQueue # <<>>
      <4>1. dispatchQueue' = Tail(dispatchQueue) /\ held'[w] = Head(dispatchQueue)
        BY <1>1, <2>10, <3>3 DEF PumpTake
      <4>2. Running' \subseteq {Head(dispatchQueue)}
        <5>1. \A v \in Workers : v # w => pc'[v] = pc[v]
          BY <1>1, <2>2 DEF TypeOK
        <5>2. \A v \in Workers : pc'[v] = "run" => v = w
          BY <2>6, <3>1, <5>1
        <5> QED  BY <4>1, <5>2 DEF Running, At
      <4>3. Passage(handled, {Head(dispatchQueue)}, Tail(dispatchQueue), Moving, box, accepted)
        BY <1>1, <1>2, <2>3, <3>3, PassageKept
      <4>4. Head(dispatchQueue) \in Messages /\ Tail(dispatchQueue) \in Seq(Messages)
        BY <1>1, <3>3, RangeKept
      <4>5. Passage(handled, Running', Tail(dispatchQueue), Moving', box, accepted)
        BY <1>1, <1>2, <2>4, <3>1, <4>2, <4>3, <4>4, PassageShrinks
      <4> QED  BY <2>2, <3>1, <4>1, <4>5
    <3> QED  BY <3>2, <3>3
  <2>11. CASE RunTask(w)
    <3>1. /\ UNCHANGED <<box, dispatchQueue>> /\ pc[w] = "run" /\ pc'[w] = "account"
          /\ handled' = Append(handled, held[w]) /\ held[w] \in Messages
      BY <2>1, <2>11 DEF RunTask, transport, dispatch, Carried
    <3>2. held[w] \in Running
      BY <3>1 DEF Running, At
    <3>3. Running' = {}
      <4>1. \A v \in Workers : v # w => pc'[v] = pc[v]
        BY <1>1, <2>2 DEF TypeOK
      <4>2. \A v \in Workers : pc'[v] # "run"
        BY <2>6, <3>1, <4>1
      <4> QED  BY <4>2 DEF Running, At
    <3>4. Passage(handled', {}, dispatchQueue, Moving, box, accepted)
      BY <1>1, <1>2, <2>3, <3>1, <3>2, PassageKept
    <3>5. handled' \in Seq(Messages)
      BY <1>1, <3>1, AppendProperties
    <3>6. Passage(handled', {}, dispatchQueue, Moving', box, accepted)
      BY <1>1, <1>2, <2>4, <3>1, <3>4, <3>5, PassageShrinks
    <3> QED  BY <2>2, <3>1, <3>3, <3>6
  <2>12. CASE PostPump(w)
    <3>1. UNCHANGED <<box, handled>> /\ pc'[w] \notin {"run", "dispatch"}
          /\ dispatchQueue' \in {dispatchQueue, <<>>}
      BY <2>1, <2>12 DEF PostPump, transport, history, dispatch, CloseDispatch
    <3>2. dispatchQueue' \in Seq(Messages) /\ Passage(handled, Running, dispatchQueue', Moving, box, accepted)
      <4>1. box' \in {box, <<>>} /\ dispatchQueue' \in {dispatchQueue, <<>>} /\ box' = box
        BY <3>1
      <4>2. Passage(handled, Running, dispatchQueue', Moving, box', accepted)
        BY <1>1, <1>2, <2>3, <4>1, PassageCleared
      <4>3. dispatchQueue' \in Seq(Messages)
        BY <1>1, <4>1, EmptySeq
      <4> QED  BY <4>1, <4>2, <4>3
    <3>3. Passage(handled, Running', dispatchQueue', Moving', box, accepted)
      BY <1>1, <1>2, <2>4, <3>1, <3>2, PassageShrinks
    <3> QED  BY <2>2, <3>1, <3>3
  <2>13. CASE DrainCheck(w) \/ DrainTimeUp(w) \/ DrainUnlatch(w) \/ DrainRecheck(w) \/ DispatchReject(w)
    <3>1. UNCHANGED <<handled, dispatchQueue, box>> /\ pc'[w] \notin {"run", "dispatch"}
      BY <2>1, <2>13 DEF DrainCheck, DrainTimeUp, DrainUnlatch, DrainRecheck, DispatchReject,
         transport, dispatch, history
    <3> QED  BY <1>6, <2>2, <2>4, <3>1
  <2>14. CASE AccountTask(w) \/ PumpNext(w)
    <3>1. UNCHANGED <<handled, dispatchQueue, box>> /\ pc'[w] \notin {"run", "dispatch"}
      BY <2>1, <2>14 DEF AccountTask, PumpNext, transport, history
    <3> QED  BY <1>6, <2>2, <2>4, <3>1
  <2>15. CASE DispatchConcurrent(w) \/ PostTask(w)
    BY <2>15 DEF DispatchConcurrent, PostTask, TasksByMode
  <2> QED  BY <1>9, <2>7, <2>8, <2>9, <2>10, <2>11, <2>12, <2>13, <2>14, <2>15 DEF WorkerAction
<1>10. CASE GraphAction \/ UNCHANGED vars
  <2>1. /\ UNCHANGED <<pc, held, handled, accepted>>
        /\ dispatchQueue' \in {dispatchQueue, <<>>} /\ box' \in {box, <<>>}
    BY <1>10 DEF GraphAction, OpenDispatch, OpenEdge, StartExecutor, StopProduction, WaitNodes,
       WaitEdge, BeginStop, CancelDrain, CloseTransport, UnlatchEdge, CloseNode, CloseDispatch,
       StopExecutor, Join, worker, history, transport, dispatch, vars
  <2>2. Running' = Running /\ Moving' = Moving
    BY <2>1 DEF Running, Moving, At
  <2>3. lifecycle <= 1
    BY <1>1, <1>10 DEF GraphAction, OpenDispatch, OpenEdge, StartExecutor, StopProduction, WaitNodes,
       WaitEdge, BeginStop, CancelDrain, CloseTransport, UnlatchEdge, CloseNode, CloseDispatch,
       StopExecutor, Join, vars, lifetime
  <2>4. Passage(handled, Running, dispatchQueue', Moving, box', accepted)
    BY <1>1, <1>2, <1>4, <2>1, <2>3, PassageCleared
  <2> QED  BY <2>1, <2>2, <2>4
<1> QED  BY <1>7, <1>8, <1>9, <1>10 DEF Next, WorkerStep

-----------------------------------------------------------------------------
(* The theorems                                                            *)

LEMMA StepKeeps == IInv /\ [Next]_vars => IInv'
<1> SUFFICES ASSUME IInv, [Next]_vars PROVE IInv'
  OBVIOUS
<1>1. /\ TypeOK /\ Carried /\ Phases /\ AtRest /\ Covered /\ PendingExact /\ TasksByMode
      /\ OnePump /\ IdlePump /\ OneDrain /\ Flow
  BY DEF IInv
<1>2. SeqTypes'
  BY <1>1, SeqTypesKept
<1>3. PlainTypes'
  BY <1>1, <1>2, PlainTypesKept
<1>7. PendingExact' /\ leftover' \in Nat
  BY <1>1, <1>2, <1>3, PendingKept
<1>4. TypeOK'
  <2>1. (TypeOK <=> PlainTypes /\ SeqTypes /\ leftover \in Nat)'
    BY TypeParts, PTL
  <2> QED  BY <1>2, <1>3, <1>7, <2>1
<1>5. Carried' /\ Phases' /\ AtRest'
  BY <1>1, CarriedKept, PhasesKept, AtRestKept
<1>6. Covered' /\ TasksByMode'
  BY <1>1, CoveredKept, TasksByModeKept
<1>8. OnePump' /\ IdlePump'
  BY <1>1, PumpsKept
<1>9. OneDrain'
  BY <1>1, DrainsKept
<1>10. Flow'
  BY <1>1, FlowKept
<1> QED  BY <1>4, <1>5, <1>6, <1>7, <1>8, <1>9, <1>10 DEF IInv

\* In every state the parts of the inductive invariant hold.
THEOREM Invariant == Spec => []IInv
<1>1. Init => IInv
  BY Initially
<1>2. IInv /\ [Next]_vars => IInv'
  BY StepKeeps
<1> QED  BY <1>1, <1>2, PTL DEF Spec

\* Every variable of the edge, the node and the executor holds a value of its kind: pending_tasks_
\* never leaves the range in which it counts (graph.h NodeContext, Edge).
THEOREM TypeCorrect == Spec => []TypeOK
<1>1. IInv => TypeOK
  BY DEF IInv
<1> QED  BY <1>1, Invariant, PTL

\* No message is stranded on the edge between a drain that ends and a sender that saw it at work
\* (Edge::Schedule, Edge::Drain), and pending_tasks_ counts what is queued, posted or running, in
\* every lifecycle, less the tasks that were left in the executor when the node was opened
\* (OpenDispatch).
THEOREM WorkSeen == Spec => []WorkIsSeen
<1>1. IInv => WorkIsSeen
  <2> SUFFICES ASSUME IInv PROVE WorkIsSeen
    OBVIOUS
  <2>1. EdgeCovered
    BY DEF IInv, Covered, EdgeCovered, At
  <2> QED  BY <2>1 DEF IInv, WorkIsSeen
<1> QED  BY <1>1, Invariant, PTL

\* A Serialized node has one pump, is entered by one thread at a time, and handles the messages in
\* the order in which its edge accepted them (NodeContext::ScheduleSerialized, RunSerializedOne).
THEOREM WorkedOffInTurn == Spec => []InTurn
<1>1. IInv => InTurn
  <2> SUFFICES ASSUME IInv PROVE InTurn
    OBVIOUS
  <2>1. TypeOK /\ OnePump /\ Flow
    BY DEF IInv
  <2>2. SerializedOneAtATime
    <3> SUFFICES ASSUME ~Concurrent, lifecycle <= 1 PROVE Cardinality(At(Workers, {"run"})) <= 1
      BY DEF SerializedOneAtATime
    <3> DEFINE A == At(Workers, {"run"})
               B == At(Workers, {"postPump", "pump", "run", "account", "next", "repost"})
    <3>1. A \in SUBSET B /\ B \in SUBSET Threads
      BY DEF At, Threads
    <3>2. Pumps = PumpsPosted + Cardinality(B) /\ PumpsPosted \in Nat /\ Pumps <= 1
      BY <2>1, HandlersMove DEF Pumps, PumpsPosted, OnePump
    <3> HIDE DEF A, B
    <3>3. IsFiniteSet(B)
      BY <3>1, FS_Subset, EdgeAssumption
    <3>4. Cardinality(A) <= Cardinality(B) /\ Cardinality(A) \in Nat /\ Cardinality(B) \in Nat
      BY <3>1, <3>3, FS_Subset, FS_CardinalityType
    <3>5. Cardinality(A) <= 1
      BY <3>2, <3>4
    <3> QED  BY <3>5 DEF A
  <2>3. HandledInOrder
    <3> SUFFICES ASSUME ~Concurrent, lifecycle <= 1, NEW m, NEW n, IsBefore(m, n, handled)
                 PROVE  IsBefore(m, n, accepted)
      BY DEF HandledInOrder
    <3>1. Ordered(handled, accepted)
      BY <2>1 DEF Flow, Passage
    <3>2. PICK i, j \in DOMAIN handled : i < j /\ handled[i] = m /\ handled[j] = n
      BY DEF IsBefore
    <3>3. IsBefore(handled[i], handled[j], accepted)
      BY <3>1, <3>2 DEF Ordered
    <3> QED  BY <3>2, <3>3
  <2> QED  BY <2>1, <2>2, <2>3 DEF InTurn
<1> QED  BY <1>1, Invariant, PTL

=============================================================================
