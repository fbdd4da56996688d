---------------------------- MODULE EdgeDispatch ----------------------------
(***************************************************************************)
(* From a queued edge to the node behind it: Edge<T> and NodeContext of    *)
(* include/mediaflow/core/graph.h on an AsioExecutor of core/executor.h.   *)
(*                                                                         *)
(* A producer appends to the edge's transport and asks for a drain; the    *)
(* latch scheduled_ keeps one drain posted.  The drain, on a worker, moves *)
(* a batch into the node's dispatch queue; a pump handler runs one task    *)
(* and posts itself again while there are tasks (Serialized), or every     *)
(* task is posted by itself (Concurrent).  The graph stops and restarts    *)
(* edge, node and executor.  Atomic variables, locked sections and Post    *)
(* are each one step.                                                      *)
(*                                                                         *)
(* The transport is a bounded FIFO whose senders wait for room (policy     *)
(* Block); QueueTransport shows what the real one does under pressure.     *)
(*                                                                         *)
(* A definition marked "Defect" is a variant of the one after it, with a   *)
(* mistake that one of the properties is there to rule out.                *)
(***************************************************************************)
EXTENDS Integers, Sequences, SequencesExt, FiniteSets

CONSTANTS
  Producers,      \* threads that send on the edge: sources, upstream workers
  Workers,        \* threads of the node's executor
  Messages,       \* each is sent at most once
  Kind,           \* [Messages -> {"audio", "video", "keyframe", "control", "other"}]
  Modes,          \* NodeExecutionMode values a node may be built with
  PreferVideo,    \* NodeOptions::prefer_video_keyframes
  Capacity,       \* bound of the transport, in messages
  MaxPending,     \* NodeOptions::max_pending_tasks
  BatchSize,      \* EdgeOptions::max_batch_size
  MaxLifecycles,  \* bound: how often the graph starts
  MaxSent         \* bound: messages sent up to the end of each lifecycle

NoMessage == "none"
Threads == Producers \cup Workers
SizeModulus == 256      \* pending_tasks_ is unsigned: it wraps, here at 8 bits

ASSUME EdgeAssumption ==
  /\ Producers \cap Workers = {} /\ IsFiniteSet(Threads) /\ NoMessage \notin Messages
  /\ Kind \in [Messages -> {"audio", "video", "keyframe", "control", "other"}]
  /\ Modes \subseteq {"Serialized", "Concurrent"} /\ PreferVideo \in BOOLEAN
  /\ Capacity \in Nat \ {0} /\ BatchSize \in Nat \ {0}
  /\ MaxPending \in 1..(SizeModulus - 1)
  /\ MaxLifecycles \in Nat /\ MaxSent \in [1..MaxLifecycles -> Nat]

VARIABLES
  mode,                 \* NodeOptions::execution_mode, fixed at construction
  box, open,            \* the transport: its messages, and that it is not closed
  scheduled,            \* scheduled_: the latch on the drain
  cancelled,            \* drain_cancelled_
  running,              \* the executor accepts handlers and its workers run
  posted,               \* handlers in the io_context: [what, msg]
  dispatchQueue,        \* dispatch_queue_
  pending,              \* pending_tasks_
  active,               \* dispatch_active_: a pump is posted or running
  dispatchClosed,       \* dispatch_closed_
  pc,                   \* what each thread does next
  held,                 \* the message a worker carries
  count,                \* messages a worker's drain has moved
  graph,                \* where the thread that starts and stops the graph is
  producing,            \* production has not been stopped
  lifecycle,            \* history: number of the current lifecycle
  sentIn,               \* history: lifecycle in which a message was accepted, or 0
  accepted,             \* history: messages in the order the edge accepted them
  handled,              \* history: messages in the order the node finished them
  leftover              \* history: tasks that were posted when the node was opened

transport == <<box, open>>
latch == <<scheduled, cancelled>>
executor == <<running, posted>>
dispatch == <<dispatchQueue, pending, active, dispatchClosed>>
worker == <<held, count>>
lifetime == <<graph, producing, lifecycle>>
history == <<sentIn, accepted, handled, leftover>>
vars == <<mode, transport, latch, executor, dispatch, pc, worker, lifetime, history>>

Concurrent == mode = "Concurrent"

Handler(what, m) == [what |-> what, msg |-> m]
Goto(t, l) == pc' = [pc EXCEPT ![t] = l]

\* The graph has opened everything and has not yet joined the workers.
Live == graph \in {"running", "waitNodes", "waitEdge", "quiet", "closeEdge",
                   "clearEdge", "unlatchEdge", "closeDispatch", "stopExecutor", "join"}

Init ==
  /\ mode \in Modes
  /\ box = <<>> /\ open = TRUE /\ scheduled = FALSE /\ cancelled = FALSE
  /\ running = FALSE /\ posted = <<>>
  /\ dispatchQueue = <<>> /\ pending = 0 /\ active = FALSE /\ dispatchClosed = TRUE
  /\ pc = [t \in Threads |-> "idle"]
  /\ held = [w \in Workers |-> NoMessage] /\ count = [w \in Workers |-> 0]
  /\ graph = "stopped" /\ producing = FALSE /\ lifecycle = 0
  /\ sentIn = [m \in Messages |-> 0] /\ accepted = <<>> /\ handled = <<>>
  /\ leftover = 0

-----------------------------------------------------------------------------
(* Sending, and the latch on the drain                                     *)

\* Transport::Send succeeds and calls notify_callback_, which is Edge::Schedule.
Send(p) ==
  /\ pc[p] = "idle" /\ Live /\ producing
  /\ open /\ Len(box) < Capacity /\ Len(accepted) < MaxSent[lifecycle]
  /\ \E m \in Messages :
       /\ sentIn[m] = 0
       /\ box' = Append(box, m)
       /\ sentIn' = [sentIn EXCEPT ![m] = lifecycle]
       /\ accepted' = Append(accepted, m)
  /\ Goto(p, "schedule")
  /\ UNCHANGED <<open, latch, executor, dispatch, worker, lifetime, handled, leftover>>

\* Edge::Schedule, run by a producer or at the end of a drain.
ScheduleCheck(t) ==
  /\ pc[t] = "schedule"
  /\ IF cancelled THEN scheduled' = FALSE /\ Goto(t, "idle")
                  ELSE UNCHANGED scheduled /\ Goto(t, "latch")
  /\ UNCHANGED <<transport, cancelled, executor, dispatch, worker, lifetime, history>>

ScheduleLatch(t) ==
  /\ pc[t] = "latch"
  /\ scheduled' = TRUE
  /\ Goto(t, IF scheduled THEN "idle" ELSE "post")
  /\ UNCHANGED <<transport, cancelled, executor, dispatch, worker, lifetime, history>>

SchedulePost(t) ==
  /\ pc[t] = "post"
  /\ posted' = IF running THEN Append(posted, Handler("drain", NoMessage)) ELSE posted
  /\ scheduled' = (scheduled /\ running)
  /\ Goto(t, "idle")
  /\ UNCHANGED <<transport, cancelled, running, dispatch, worker, lifetime, history>>

-----------------------------------------------------------------------------
(* Edge::Drain on a worker                                                 *)

\* A worker of a running io_context takes the oldest handler.
TakeHandler(w) ==
  /\ pc[w] = "idle" /\ running /\ posted # <<>>
  /\ posted' = Tail(posted)
  /\ Goto(w, CASE Head(posted).what = "drain" -> "drain"
               [] Head(posted).what = "pump"  -> "pump"
               [] Head(posted).what = "task"  -> "run")
  /\ held' = [held EXCEPT ![w] = Head(posted).msg]
  /\ count' = [count EXCEPT ![w] = 0]
  /\ UNCHANGED <<transport, latch, running, dispatch, lifetime, history>>

DrainCheck(w) ==
  /\ pc[w] = "drain"
  /\ Goto(w, IF cancelled \/ count[w] = BatchSize THEN "unlatch" ELSE "receive")
  /\ UNCHANGED <<transport, latch, executor, dispatch, worker, lifetime, history>>

\* max_drain_time_us may also end the batch, after its first message.
DrainTimeUp(w) ==
  /\ pc[w] = "drain" /\ count[w] > 0
  /\ Goto(w, "unlatch")
  /\ UNCHANGED <<transport, latch, executor, dispatch, worker, lifetime, history>>

DrainReceive(w) ==
  /\ pc[w] = "receive"
  /\ \/ /\ box = <<>>
        /\ Goto(w, "unlatch")
        /\ UNCHANGED <<box, worker>>
     \/ /\ box # <<>>
        /\ box' = Tail(box)
        /\ held' = [held EXCEPT ![w] = Head(box)]
        /\ count' = [count EXCEPT ![w] = @ + 1]
        /\ Goto(w, "dispatch")
  /\ UNCHANGED <<open, latch, executor, dispatch, lifetime, history>>

\* Defect: a drain that ends keeps the latch.
DrainUnlatchForgotten(w) ==
  /\ pc[w] = "unlatch"
  /\ Goto(w, "recheck")
  /\ UNCHANGED <<transport, latch, executor, dispatch, worker, lifetime, history>>

DrainUnlatch(w) ==
  /\ pc[w] = "unlatch"
  /\ scheduled' = FALSE
  /\ Goto(w, "recheck")
  /\ UNCHANGED <<transport, cancelled, executor, dispatch, worker, lifetime, history>>

\* Defect: a drain does not look again once it has let go of the latch.
DrainRecheckForgotten(w) ==
  /\ pc[w] = "recheck"
  /\ Goto(w, "idle")
  /\ UNCHANGED <<transport, latch, executor, dispatch, worker, lifetime, history>>

DrainRecheck(w) ==
  /\ pc[w] = "recheck"
  /\ Goto(w, IF ~cancelled /\ box # <<>> THEN "schedule" ELSE "idle")
  /\ UNCHANGED <<transport, latch, executor, dispatch, worker, lifetime, history>>

-----------------------------------------------------------------------------
(* NodeContext::Dispatch                                                   *)

First(kinds) ==
  {i \in DOMAIN dispatchQueue :
     /\ Kind[dispatchQueue[i]] \in kinds
     /\ \A j \in 1..(i - 1) : Kind[dispatchQueue[j]] \notin kinds}

\* The queued task that gives way to m when max_pending_tasks is reached.
Victim(m) ==
  CASE Kind[m] = "control" -> First({"audio", "video", "keyframe", "other"})
    [] PreferVideo /\ Kind[m] \in {"video", "keyframe"} ->
         IF First({"audio"}) # {} THEN First({"audio"})
         ELSE IF Kind[m] = "keyframe" THEN First({"video"}) ELSE {}
    [] OTHER -> {}

Full == pending >= MaxPending

Decrement(n, k) == (n - k) % SizeModulus

Rejects(m) ==
  dispatchClosed \/ (Full /\ (Concurrent \/ Victim(m) = {}))

\* The message was taken off the edge already: rejected, it is gone.
DispatchReject(w) ==
  /\ pc[w] = "dispatch" /\ Rejects(held[w])
  /\ held' = [held EXCEPT ![w] = NoMessage]
  /\ Goto(w, "drain")
  /\ UNCHANGED <<transport, latch, executor, dispatch, count, lifetime, history>>

\* Defect: every dispatch posts a pump.
DispatchSerializedPostsAlways(w) ==
  /\ pc[w] = "dispatch" /\ ~Concurrent /\ ~Rejects(held[w]) /\ ~Full
  /\ dispatchQueue' = Append(dispatchQueue, held[w])
  /\ pending' = pending + 1
  /\ active' = TRUE
  /\ held' = [held EXCEPT ![w] = NoMessage]
  /\ Goto(w, "postPump")
  /\ UNCHANGED <<transport, latch, executor, dispatchClosed, count, lifetime, history>>

DispatchSerialized(w) ==
  /\ pc[w] = "dispatch" /\ ~Concurrent /\ ~Rejects(held[w])
  /\ \/ /\ ~Full
        /\ dispatchQueue' = Append(dispatchQueue, held[w])
        /\ pending' = pending + 1
     \/ /\ Full
        /\ \E i \in Victim(held[w]) :
             dispatchQueue' = Append(RemoveAt(dispatchQueue, i), held[w])
        /\ UNCHANGED pending
  /\ active' = TRUE
  /\ held' = [held EXCEPT ![w] = NoMessage]
  /\ Goto(w, IF active THEN "drain" ELSE "postPump")
  /\ UNCHANGED <<transport, latch, executor, dispatchClosed, count, lifetime, history>>

DispatchConcurrent(w) ==
  /\ pc[w] = "dispatch" /\ Concurrent /\ ~Rejects(held[w])
  /\ pending' = pending + 1
  /\ Goto(w, "postTask")
  /\ UNCHANGED <<transport, latch, executor, dispatchQueue, active, dispatchClosed,
                 worker, lifetime, history>>

\* NodeContext::CloseDispatch.  It lowers pending_tasks_ after letting go of the
\* mutex; a node whose dispatch is closed takes no task in between, and what others
\* subtract meanwhile commutes with it, so both halves are one step here.
CloseDispatch ==
  /\ dispatchClosed' = TRUE
  /\ dispatchQueue' = <<>>
  /\ active' = FALSE
  /\ pending' = Decrement(pending, Len(dispatchQueue))

\* ScheduleSerialized, after Dispatch (the drain goes on) or after a task.
PostPump(w) ==
  /\ pc[w] \in {"postPump", "repost"}
  /\ \/ running /\ posted' = Append(posted, Handler("pump", NoMessage)) /\ UNCHANGED dispatch
     \/ ~running /\ UNCHANGED posted /\ CloseDispatch
  /\ Goto(w, IF pc[w] = "postPump" THEN "drain" ELSE "idle")
  /\ UNCHANGED <<transport, latch, running, worker, lifetime, history>>

\* Dispatch in Concurrent mode: one handler per task, taken back if refused.
PostTask(w) ==
  /\ pc[w] = "postTask"
  /\ \/ running /\ posted' = Append(posted, Handler("task", held[w])) /\ UNCHANGED pending
     \/ ~running /\ UNCHANGED posted /\ pending' = Decrement(pending, 1)
  /\ held' = [held EXCEPT ![w] = NoMessage]
  /\ Goto(w, "drain")
  /\ UNCHANGED <<transport, latch, running, dispatchQueue, active, dispatchClosed,
                 count, lifetime, history>>

-----------------------------------------------------------------------------
(* NodeContext::RunSerializedOne and RunTask                               *)

PumpTake(w) ==
  /\ pc[w] = "pump"
  /\ \/ /\ dispatchQueue = <<>>
        /\ active' = FALSE
        /\ Goto(w, "idle")
        /\ UNCHANGED <<dispatchQueue, held>>
     \/ /\ dispatchQueue # <<>>
        /\ dispatchQueue' = Tail(dispatchQueue)
        /\ held' = [held EXCEPT ![w] = Head(dispatchQueue)]
        /\ Goto(w, "run")
        /\ UNCHANGED active
  /\ UNCHANGED <<transport, latch, executor, pending, dispatchClosed, count,
                 lifetime, history>>

\* The node's handler returns, or throws and is counted as an error.
RunTask(w) ==
  /\ pc[w] = "run"
  /\ handled' = Append(handled, held[w])
  /\ Goto(w, "account")
  /\ UNCHANGED <<transport, latch, executor, dispatch, worker, lifetime, sentIn, accepted,
                 leftover>>

AccountTask(w) ==
  /\ pc[w] = "account"
  /\ pending' = Decrement(pending, 1)
  /\ held' = [held EXCEPT ![w] = NoMessage]
  /\ Goto(w, IF Concurrent THEN "idle" ELSE "next")
  /\ UNCHANGED <<transport, latch, executor, dispatchQueue, active, dispatchClosed,
                 count, lifetime, history>>

PumpNext(w) ==
  /\ pc[w] = "next"
  /\ LET done == dispatchQueue = <<>> \/ dispatchClosed IN
       /\ active' = (active /\ ~done)
       /\ Goto(w, IF done THEN "idle" ELSE "repost")
  /\ UNCHANGED <<transport, latch, executor, dispatchQueue, pending, dispatchClosed,
                 worker, lifetime, history>>

-----------------------------------------------------------------------------
(* The graph: start, immediate and graceful stop, restart                  *)

GraphGoes(from, to) == graph = from /\ graph' = to
PostedOf(what) == {i \in DOMAIN posted : posted[i].what = what}

OpenDispatch ==
  /\ GraphGoes("stopped", "openEdge") /\ lifecycle < MaxLifecycles
  /\ Len(accepted) < MaxSent[lifecycle + 1]
  /\ dispatchQueue' = <<>> /\ pending' = 0 /\ active' = FALSE /\ dispatchClosed' = FALSE
  /\ lifecycle' = lifecycle + 1
  /\ leftover' = Cardinality(PostedOf("task"))
  /\ UNCHANGED <<transport, latch, executor, pc, worker, producing, sentIn, accepted, handled>>

OpenEdge ==
  /\ GraphGoes("openEdge", "startExecutor")
  /\ scheduled' = FALSE /\ cancelled' = FALSE /\ box' = <<>> /\ open' = TRUE
  /\ UNCHANGED <<executor, dispatch, pc, worker, producing, lifecycle, history>>

\* AsioExecutor::Start: io_context::restart() keeps the handlers posted before.
StartExecutor ==
  /\ GraphGoes("startExecutor", "running")
  /\ running' = TRUE /\ producing' = TRUE
  /\ UNCHANGED <<transport, latch, posted, dispatch, pc, worker, lifecycle, history>>

\* GracefulStop: StopProduction, then WaitForQuiescence polls the nodes' pending
\* tasks and, if there are none, the edges.
StopProduction ==
  /\ GraphGoes("running", "waitNodes")
  /\ producing' = FALSE
  /\ UNCHANGED <<transport, latch, executor, dispatch, pc, worker, lifecycle, history>>

WaitNodes ==
  /\ GraphGoes("waitNodes", "waitEdge")
  /\ \A p \in Producers : pc[p] = "idle"          \* IsProductionStopped
  /\ pending = 0
  /\ UNCHANGED <<transport, latch, executor, dispatch, pc, worker, producing,
                 lifecycle, history>>

WaitEdge ==
  /\ graph = "waitEdge"
  /\ graph' = IF box = <<>> /\ ~scheduled THEN "quiet" ELSE "waitNodes"
  /\ UNCHANGED <<transport, latch, executor, dispatch, pc, worker, producing,
                 lifecycle, history>>

\* An immediate stop, the end of a graceful one, or its deadline.
BeginStop ==
  /\ graph \in {"running", "waitNodes", "quiet"} /\ graph' = "closeEdge"
  /\ UNCHANGED <<transport, latch, executor, dispatch, pc, worker, producing,
                 lifecycle, history>>

\* Edge::Close in its three steps.
CancelDrain ==
  /\ GraphGoes("closeEdge", "clearEdge")
  /\ cancelled' = TRUE
  /\ UNCHANGED <<transport, scheduled, executor, dispatch, pc, worker, producing,
                 lifecycle, history>>

CloseTransport ==
  /\ GraphGoes("clearEdge", "unlatchEdge")
  /\ box' = <<>> /\ open' = FALSE
  /\ UNCHANGED <<latch, executor, dispatch, pc, worker, producing, lifecycle, history>>

UnlatchEdge ==
  /\ GraphGoes("unlatchEdge", "closeDispatch")
  /\ scheduled' = FALSE
  /\ UNCHANGED <<transport, cancelled, executor, dispatch, pc, worker, producing,
                 lifecycle, history>>

CloseNode ==
  /\ GraphGoes("closeDispatch", "stopExecutor")
  /\ CloseDispatch
  /\ UNCHANGED <<transport, latch, executor, pc, worker, producing, lifecycle, history>>

\* AsioExecutor::Stop: io_context::stop() leaves posted handlers where they are.
StopExecutor ==
  /\ GraphGoes("stopExecutor", "join")
  /\ running' = FALSE
  /\ UNCHANGED <<transport, latch, posted, dispatch, pc, worker, producing,
                 lifecycle, history>>

\* ... and joins: the workers have finished the handlers they were running.
Join ==
  /\ GraphGoes("join", "stopped")
  /\ \A t \in Threads : pc[t] = "idle"
  /\ producing' = FALSE
  /\ UNCHANGED <<transport, latch, executor, dispatch, pc, worker, lifecycle, history>>

-----------------------------------------------------------------------------
ThreadStep(t) ==
  /\ ScheduleCheck(t) \/ ScheduleLatch(t) \/ SchedulePost(t)
  /\ UNCHANGED mode

WorkerAction(w) ==
  \/ TakeHandler(w) \/ DrainCheck(w) \/ DrainTimeUp(w) \/ DrainReceive(w)
  \/ DrainUnlatch(w) \/ DrainRecheck(w)
  \/ DispatchReject(w) \/ DispatchSerialized(w) \/ DispatchConcurrent(w)
  \/ PostPump(w) \/ PostTask(w)
  \/ PumpTake(w) \/ RunTask(w) \/ AccountTask(w) \/ PumpNext(w)

WorkerStep(w) == WorkerAction(w) /\ UNCHANGED mode

GraphAction ==
  \/ OpenDispatch \/ OpenEdge \/ StartExecutor
  \/ StopProduction \/ WaitNodes \/ WaitEdge
  \/ BeginStop \/ CancelDrain \/ CloseTransport \/ UnlatchEdge
  \/ CloseNode \/ StopExecutor \/ Join

Next ==
  \/ \E p \in Producers : Send(p) /\ UNCHANGED mode
  \/ \E t \in Threads : ThreadStep(t)
  \/ \E w \in Workers : WorkerStep(w)
  \/ GraphAction /\ UNCHANGED mode

Spec == Init /\ [][Next]_vars

\* The operating system runs every thread that can run.  Producers need not
\* send, and nobody need start or stop the graph.
Fairness ==
  /\ \A t \in Threads : WF_vars(ThreadStep(t))
  /\ \A w \in Workers : WF_vars(WorkerStep(w))

FairSpec == Spec /\ Fairness

-----------------------------------------------------------------------------
(* Properties                                                              *)

\* Every variable holds a value of its kind.
TypeOK ==
  /\ mode \in Modes
  /\ box \in Seq(Messages) /\ open \in BOOLEAN
  /\ scheduled \in BOOLEAN /\ cancelled \in BOOLEAN /\ running \in BOOLEAN
  /\ posted \in Seq([what : {"drain", "pump", "task"}, msg : Messages \cup {NoMessage}])
  /\ dispatchQueue \in Seq(Messages) /\ pending \in 0..(SizeModulus - 1)
  /\ active \in BOOLEAN /\ dispatchClosed \in BOOLEAN
  /\ pc \in [Threads -> {"idle", "schedule", "latch", "post", "drain", "receive",
                         "unlatch", "recheck", "dispatch", "postPump", "postTask",
                         "pump", "run", "account", "next", "repost"}]
  /\ held \in [Workers -> Messages \cup {NoMessage}] /\ count \in [Workers -> 0..BatchSize]
  /\ graph \in {"stopped", "openEdge", "startExecutor", "running", "waitNodes",
                "waitEdge", "quiet", "closeEdge", "clearEdge", "unlatchEdge",
                "closeDispatch", "stopExecutor", "join"}
  /\ producing \in BOOLEAN /\ lifecycle \in 0..MaxLifecycles
  /\ sentIn \in [Messages -> 0..MaxLifecycles]
  /\ accepted \in Seq(Messages) /\ handled \in Seq(Messages) /\ leftover \in Nat

At(S, l) == {t \in S : pc[t] \in l}

\* No message is stranded on the edge: while it is open, somebody is going to
\* drain it - the latch is held, or a thread that appended or drained has yet to
\* look at it - although senders stop at a held latch and a drain lets go of it
\* before it looks for the last time.
EdgeCovered ==
  (box # <<>> /\ ~cancelled /\ running) =>
    \/ scheduled
    \/ At(Threads, {"schedule", "latch", "post", "recheck"}) # {}

\* The pumps that are posted, about to be posted, or at work.
Pumps ==
  Cardinality(PostedOf("pump"))
    + Cardinality(At(Workers, {"postPump", "pump", "run", "account", "next", "repost"}))

\* dispatch_active_ stands for exactly one pump, there is one whenever a task is
\* queued, and never a second - also while the node closes under a running task.
OnePump ==
  (~Concurrent /\ lifecycle <= 1) =>
    /\ Pumps <= 1
    /\ active => Pumps = 1
    /\ dispatchQueue # <<>> => active

Tasks ==
  Len(dispatchQueue) + Cardinality(At(Workers, {"run", "account", "postTask"}))
    + Cardinality(PostedOf("task"))

\* pending_tasks_ counts the tasks that are queued, posted or running, through every stop and
\* restart; those that OpenDispatch found in the executor when it cleared the count are missing
\* from it until the next start, and it wraps below zero when they have run.
PendingExact ==
  /\ leftover = 0 => pending = Tasks
  /\ leftover > 0 => Concurrent /\ pending = Decrement(Tasks, leftover)

\* A Serialized node is never entered by two threads (media-flow-design.md:714).
SerializedOneAtATime ==
  (~Concurrent /\ lifecycle <= 1) => Cardinality(At(Workers, {"run"})) <= 1

\* A message on the edge has somebody who will come for it, and the node knows how many tasks it
\* has, but for those that are left over from before.
WorkIsSeen == TypeOK /\ EdgeCovered /\ PendingExact

IsBefore(m, n, s) == \E i, j \in DOMAIN s : i < j /\ s[i] = m /\ s[j] = n

\* A Serialized node handles messages in the order in which its edge accepted them.
HandledInOrder ==
  (~Concurrent /\ lifecycle <= 1) =>
    \A m, n \in Messages : IsBefore(m, n, handled) => IsBefore(m, n, accepted)

\* Whatever the number of workers, one thread at a time works for a Serialized node, and it works
\* the messages off in turn, as long as no handler of an earlier lifecycle is left in the executor.
InTurn == OnePump /\ SerializedOneAtATime /\ HandledInOrder

\* What the edge accepts is run, unless the graph stops: the drain's batches, its latch and the pump
\* leave nothing behind.
NothingStranded ==
  (box # <<>> \/ dispatchQueue # <<>>) /\ running
    ~> (box = <<>> /\ dispatchQueue = <<>>) \/ cancelled \/ ~running

==================================================================================
