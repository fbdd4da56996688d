------------------------------ MODULE InferEngine ------------------------------
(***************************************************************************)
(* OpenVinoCpuEngine and OpenVinoInferRequestPool (src/inference/engine):  *)
(* threads that infer synchronously or asynchronously, the pool of         *)
(* requests they share, the OpenVINO runtime that completes a request and  *)
(* runs its callback, and an owner that loads and releases models.         *)
(*                                                                         *)
(* A load is a number; the pool and the compiled model of a load carry it. *)
(* A job is one call of Infer or InferAsync and, at the same time, the     *)
(* content of the caller's input.  initialized_, request_pool_ and         *)
(* compiled_model_ are plain members: reading or writing one is one step.  *)
(* The documented rules are kept: one owner loads and releases, and a      *)
(* callback calls neither Release nor InferAsync of its own engine.        *)
(***************************************************************************)
EXTENDS Integers, SequencesExt

CONSTANTS
  Callers,        \* threads that infer
  NoCaller,       \* none of them
  RequestCount,   \* config.request_count: requests of a pool
  MaxLoads,       \* bound: calls of LoadModel
  MaxJobs         \* bound: calls of Infer and InferAsync

ASSUME EngineAssumption ==
  /\ NoCaller \notin Callers
  /\ RequestCount \in Nat \ {0}
  /\ {MaxLoads, MaxJobs} \subseteq Nat

VARIABLES
  engine,   \* request_pool_ and compiled_model_ (a load, 0 for none), initialized_,
            \* accepting_async_
  owner,    \* what the owner still has to do, the pool it tears down, loads so far
  pool,     \* per load: whether Initialize has run, shutdown_, idle_requests_, and how many threads are between the
            \* unlock and the notify_one of Release
  request,  \* per load and index: what the request is bound to and what it does
  caller,   \* per caller: its place in the call, the job, and its copies of pool and model
  buffer,   \* per caller: what its input buffer holds
  jobs,     \* calls so far
  outcome   \* per job, history: what its call returned, and the answers it was given

vars == <<engine, owner, pool, request, caller, buffer, jobs, outcome>>

Loads == 1 .. MaxLoads
Indices == 1 .. RequestCount
Jobs == 1 .. MaxJobs
Unbound == [data |-> 0, model |-> 0, copied |-> TRUE, by |-> NoCaller, mode |-> "none", job |-> 0, state |-> "idle"]
AtRest == [at |-> "idle", mode |-> "none", job |-> 0, pool |-> 0, model |-> 0, index |-> 0]

Init ==
  /\ engine = [pool |-> 0, model |-> 0, initialized |-> FALSE, accepting |-> FALSE]
  /\ owner = [todo |-> <<>>, pool |-> 0, loads |-> 0]
  /\ pool = [n \in Loads |-> [filled |-> FALSE, shutdown |-> FALSE, idle |-> <<>>, notifying |-> 0]]
  /\ request = [n \in Loads |-> [i \in Indices |-> Unbound]]
  /\ caller = [c \in Callers |-> AtRest]
  /\ buffer = [c \in Callers |-> 0]
  /\ jobs = 0
  /\ outcome = [j \in Jobs |-> [returned |-> "none", answers |-> <<>>]]

Go(c, at) == caller' = [caller EXCEPT ![c].at = at]
\* The call returns; what it returned is kept for its job.
Return(c, value) ==
  /\ caller' = [caller EXCEPT ![c] = AtRest]
  /\ outcome' = [outcome EXCEPT ![caller[c].job].returned = value]

-----------------------------------------------------------------------------
(* OpenVinoInferRequestPool.                                               *)

\* cv_.wait(lock, predicate) and the critical section of Acquire: nullptr after Shutdown.
Acquire(c) ==
  LET n == caller[c].pool
  IN  /\ caller[c].at = "acquire"
      /\ \/ /\ pool[n].shutdown
            /\ Return(c, "refused")
            /\ UNCHANGED pool
         \/ /\ ~pool[n].shutdown /\ pool[n].idle # <<>>
            /\ caller' = [caller EXCEPT ![c].at = "bind", ![c].index = Head(pool[n].idle)]
            /\ pool' = [pool EXCEPT ![n].idle = Tail(@)]
            /\ UNCHANGED outcome
         \/ /\ ~pool[n].shutdown /\ pool[n].idle = <<>>
            /\ Go(c, "waiting")
            /\ UNCHANGED <<pool, outcome>>
      /\ UNCHANGED <<engine, owner, request, buffer, jobs>>

\* The request goes back to the queue; its notify_one is still to come.
GiveBack(n, i) == pool' = [pool EXCEPT ![n].idle = Append(@, i), ![n].notifying = @ + 1]

\* The threads that sleep on cv_: callers in Acquire and the owner in WaitAll.
Asleep(n) == {c \in Callers : caller[c].at = "waiting" /\ caller[c].pool = n}
OwnerAsleep(n) == owner.pool = n /\ owner.todo # <<>> /\ Head(owner.todo) = "asleep"

\* notify_one: one thread that sleeps, if any, looks at its predicate again.
NotifyOne(n) ==
  /\ pool[n].notifying > 0
  /\ pool' = [pool EXCEPT ![n].notifying = @ - 1]
  /\ \/ \E c \in Asleep(n) : Go(c, "acquire") /\ UNCHANGED owner
     \/ OwnerAsleep(n) /\ owner' = [owner EXCEPT !.todo = <<"wait_all">> \o Tail(@)] /\ UNCHANGED caller
     \/ Asleep(n) = {} /\ ~OwnerAsleep(n) /\ UNCHANGED <<caller, owner>>
  /\ UNCHANGED <<engine, request, buffer, jobs, outcome>>

-----------------------------------------------------------------------------
(* Infer and InferAsync.                                                   *)

\* A caller fills its buffer with a new input and calls.
Call(c) ==
  /\ caller[c].at = "idle" /\ jobs < MaxJobs
  /\ jobs' = jobs + 1
  /\ buffer' = [buffer EXCEPT ![c] = jobs + 1]
  /\ \E mode \in {"sync", "async"} :
       caller' = [caller EXCEPT ![c] = [AtRest EXCEPT !.at = "read_pool", !.mode = mode, !.job = jobs + 1]]
  /\ UNCHANGED <<engine, owner, pool, request, outcome>>

ReadPool(c) ==
  /\ caller[c].at = "read_pool"
  /\ caller' = [caller EXCEPT ![c].at = "read_model", ![c].pool = engine.pool]
  /\ UNCHANGED <<engine, owner, pool, request, buffer, jobs, outcome>>

ReadModel(c) ==
  /\ caller[c].at = "read_model"
  /\ caller' = [caller EXCEPT ![c].at = "check", ![c].model = engine.model]
  /\ UNCHANGED <<engine, owner, pool, request, buffer, jobs, outcome>>

Check(c) ==
  /\ caller[c].at = "check"
  /\ \/ /\ engine.initialized /\ caller[c].pool # 0
        /\ Go(c, IF caller[c].mode = "async" THEN "check_accepting" ELSE "acquire")
        /\ UNCHANGED outcome
     \/ /\ ~engine.initialized \/ caller[c].pool = 0
        /\ Return(c, "refused")
  /\ UNCHANGED <<engine, owner, pool, request, buffer, jobs>>

CheckAccepting(c) ==
  /\ caller[c].at = "check_accepting"
  /\ IF engine.accepting THEN Go(c, "acquire") /\ UNCHANGED outcome ELSE Return(c, "refused")
  /\ UNCHANGED <<engine, owner, pool, request, buffer, jobs>>

\* Mutation: the input of an asynchronous run is not copied.
BoundToCaller(c) ==
  [data |-> buffer[c], model |-> caller[c].model, copied |-> FALSE, by |-> c,
   mode |-> caller[c].mode, job |-> caller[c].job, state |-> "idle"]

\* What the request reads when it runs: the buffer of its caller, or, if it is to run
\* asynchronously, a copy of it.
Bound(c) ==
  [data |-> buffer[c], model |-> caller[c].model, copied |-> caller[c].mode = "async", by |-> c,
   mode |-> caller[c].mode, job |-> caller[c].job, state |-> "idle"]

\* BindInputs.
Bind(c) ==
  LET n == caller[c].pool i == caller[c].index
  IN  /\ caller[c].at = "bind"
      /\ request' = [request EXCEPT ![n][i] = Bound(c)]
      /\ Go(c, "start")
      /\ UNCHANGED <<engine, owner, pool, buffer, jobs, outcome>>

\* BindInputs throws (an input is missing or too small), or start_async does: the request is
\* given back by the handler or by the lease.
BindFails(c) ==
  /\ \/ caller[c].at = "bind"
     \/ caller[c].at = "start" /\ caller[c].mode = "async"
  /\ GiveBack(caller[c].pool, caller[c].index)
  /\ Return(c, "failed")
  /\ UNCHANGED <<engine, owner, request, buffer, jobs>>

\* start_async and the return of InferAsync, whose caller may now reuse its input; infer
\* waits for the runtime.
Launch(c) ==
  LET n == caller[c].pool i == caller[c].index
  IN  /\ caller[c].at = "start"
      /\ request' = [request EXCEPT ![n][i].state = "running"]
      /\ \/ caller[c].mode = "async" /\ Return(c, "started")
         \/ caller[c].mode = "sync" /\ Go(c, "infer") /\ UNCHANGED outcome
      /\ UNCHANGED <<engine, owner, pool, buffer, jobs>>

\* What a run makes of its input: the bound content, or the caller's buffer as it is now.
Answer(n, r) ==
  [data |-> IF r.copied THEN r.data ELSE buffer[r.by], model |-> r.model, pool |-> n]
NoAnswer == [data |-> 0, model |-> 0, pool |-> 0]
Told(j, answer) == [outcome EXCEPT ![j].answers = Append(@, answer)]

\* infer() has run: the outputs are copied, and the lease gives the request back.
Inferred(c) ==
  LET n == caller[c].pool i == caller[c].index r == request[n][i]
  IN  /\ caller[c].at = "infer" /\ r.state = "ran"
      /\ caller' = [caller EXCEPT ![c] = AtRest]
      /\ \E ok \in BOOLEAN :
           outcome' = IF ok THEN [Told(r.job, Answer(n, r)) EXCEPT ![r.job].returned = "answered"]
                            ELSE [outcome EXCEPT ![r.job].returned = "failed"]
      /\ request' = [request EXCEPT ![n][i] = Unbound]
      /\ GiveBack(n, i)
      /\ UNCHANGED <<engine, owner, buffer, jobs>>

-----------------------------------------------------------------------------
(* The OpenVINO runtime: a started request runs and, if it was started     *)
(* asynchronously, its callback is called.                                 *)

Run(n, i) ==
  /\ request[n][i].state = "running"
  /\ request' = [request EXCEPT ![n][i].state = "ran"]
  /\ UNCHANGED <<engine, owner, pool, caller, buffer, jobs, outcome>>

\* Mutation: the request goes back before the user's callback is called.
CallBackGivesBackFirst(n, i) ==
  LET r == request[n][i]
  IN  /\ r.state = "ran" /\ r.mode = "async"
      /\ outcome' = Told(r.job, Answer(n, r))
      /\ request' = [request EXCEPT ![n][i].state = "calling"]
      /\ GiveBack(n, i)
      /\ UNCHANGED <<engine, owner, caller, buffer, jobs>>

\* The callback copies the outputs, or finds an exception, and calls the user's callback.
CallBack(n, i) ==
  LET r == request[n][i]
  IN  /\ r.state = "ran" /\ r.mode = "async"
      /\ \E ok \in BOOLEAN :
           outcome' = Told(r.job, IF ok THEN Answer(n, r) ELSE NoAnswer)
      /\ request' = [request EXCEPT ![n][i].state = "calling"]
      /\ UNCHANGED <<engine, owner, pool, caller, buffer, jobs>>

\* The user's callback has returned or thrown: the request goes back to its pool.
CalledBack(n, i) ==
  /\ request[n][i].state = "calling"
  /\ request' = [request EXCEPT ![n][i] = Unbound]
  /\ GiveBack(n, i)
  /\ UNCHANGED <<engine, owner, caller, buffer, jobs, outcome>>

-----------------------------------------------------------------------------
(* The owner: LoadModel and Release.                                       *)

Releasing == <<"stop_accepting", "uninitialize", "move_pool", "shutdown", "notify_all",
               "wait_all", "clear_model">>
Loading == <<"compile", "make_pool", "fill_pool", "initialize", "accept">>

LoadModel ==
  /\ owner.todo = <<>> /\ owner.loads < MaxLoads
  /\ owner' = [todo |-> Releasing \o Loading, pool |-> 0, loads |-> owner.loads + 1]
  /\ UNCHANGED <<engine, pool, request, caller, buffer, jobs, outcome>>

Release ==
  /\ owner.todo = <<>> /\ engine.initialized
  /\ owner' = [owner EXCEPT !.todo = Releasing]
  /\ UNCHANGED <<engine, pool, request, caller, buffer, jobs, outcome>>

OwnerAt(step) == owner.todo # <<>> /\ Head(owner.todo) = step
Done == owner' = [owner EXCEPT !.todo = Tail(@)]

\* accepting_async_, initialized_ and the two halves of a load, one assignment at a time.
OwnerAssigns ==
  /\ \/ OwnerAt("stop_accepting") /\ engine' = [engine EXCEPT !.accepting = FALSE]
     \/ OwnerAt("uninitialize") /\ engine' = [engine EXCEPT !.initialized = FALSE]
     \/ OwnerAt("clear_model") /\ engine' = [engine EXCEPT !.model = 0]
     \/ OwnerAt("compile") /\ engine' = [engine EXCEPT !.model = owner.loads]
     \/ OwnerAt("initialize") /\ engine' = [engine EXCEPT !.initialized = TRUE]
     \/ OwnerAt("accept") /\ engine' = [engine EXCEPT !.accepting = TRUE]
  /\ Done
  /\ UNCHANGED <<pool, request, caller, buffer, jobs, outcome>>

\* auto pool = std::move(request_pool_): without a pool there is nothing to wait for.
MovePool ==
  /\ OwnerAt("move_pool")
  /\ engine' = [engine EXCEPT !.pool = 0]
  /\ owner' = [owner EXCEPT !.pool = engine.pool,
                            !.todo = IF engine.pool = 0 THEN SubSeq(@, 5, Len(@)) ELSE Tail(@)]
  /\ UNCHANGED <<pool, request, caller, buffer, jobs, outcome>>

Shutdown ==
  /\ OwnerAt("shutdown")
  /\ pool' = [pool EXCEPT ![owner.pool].shutdown = TRUE]
  /\ Done
  /\ UNCHANGED <<engine, request, caller, buffer, jobs, outcome>>

\* Mutation: Shutdown wakes nobody.
NotifyAllForgotten ==
  /\ OwnerAt("notify_all") /\ Done
  /\ UNCHANGED <<engine, pool, request, caller, buffer, jobs, outcome>>

NotifyAll ==
  /\ OwnerAt("notify_all")
  /\ caller' = [c \in Callers |-> IF c \in Asleep(owner.pool) THEN [caller[c] EXCEPT !.at = "acquire"]
                                                              ELSE caller[c]]
  /\ Done
  /\ UNCHANGED <<engine, pool, request, buffer, jobs, outcome>>

\* The predicate of WaitAll: all requests are idle.
AllBack(n) == Len(pool[n].idle) >= RequestCount

WaitAll ==
  /\ OwnerAt("wait_all")
  /\ owner' = [owner EXCEPT !.todo = IF AllBack(owner.pool) THEN Tail(@) ELSE <<"asleep">> \o Tail(@)]
  /\ UNCHANGED <<engine, pool, request, caller, buffer, jobs, outcome>>

\* A path that does not exist, a model that does not compile, a request that cannot be made:
\* the pool is dropped as it is, without a Shutdown.
LoadFails ==
  /\ OwnerAt("compile") \/ OwnerAt("fill_pool")
  /\ engine' = [pool |-> 0, model |-> 0, initialized |-> FALSE, accepting |-> FALSE]
  /\ owner' = [owner EXCEPT !.todo = <<>>]
  /\ UNCHANGED <<pool, request, caller, buffer, jobs, outcome>>

\* request_pool_ names the new pool before Initialize makes its requests.
MakePool ==
  /\ OwnerAt("make_pool")
  /\ engine' = [engine EXCEPT !.pool = owner.loads]
  /\ Done
  /\ UNCHANGED <<pool, request, caller, buffer, jobs, outcome>>

FillPool ==
  /\ OwnerAt("fill_pool")
  /\ pool' = [pool EXCEPT ![owner.loads].idle = [i \in Indices |-> i], ![owner.loads].filled = TRUE]
  /\ Done
  /\ UNCHANGED <<engine, request, caller, buffer, jobs, outcome>>

-----------------------------------------------------------------------------
CallerStep(c) ==
  \/ ReadPool(c) \/ ReadModel(c) \/ Check(c) \/ CheckAccepting(c) \/ Acquire(c)
  \/ Bind(c) \/ BindFails(c) \/ Launch(c) \/ Inferred(c)
RuntimeStep(n, i) == Run(n, i) \/ CallBack(n, i) \/ CalledBack(n, i)
OwnerStep ==
  \/ OwnerAssigns \/ MovePool \/ Shutdown \/ NotifyAll \/ WaitAll \/ LoadFails \/ MakePool \/ FillPool

Next ==
  \/ \E c \in Callers : Call(c) \/ CallerStep(c)
  \/ \E n \in Loads : NotifyOne(n) \/ \E i \in Indices : RuntimeStep(n, i)
  \/ LoadModel \/ Release \/ OwnerStep

\* Threads that can run do run, and a user's callback returns.
Fairness ==
  /\ \A c \in Callers : WF_vars(CallerStep(c))
  /\ \A n \in Loads : WF_vars(NotifyOne(n)) /\ \A i \in Indices : WF_vars(RuntimeStep(n, i))
  /\ WF_vars(OwnerStep)

Spec == Init /\ [][Next]_vars /\ Fairness

-----------------------------------------------------------------------------
(* Properties.                                                             *)

Held(n, i) == \E c \in Callers : caller[c].at \in {"bind", "start", "infer"} /\ caller[c].pool = n /\ caller[c].index = i
AtWork(n, i) == request[n][i].mode = "async" /\ request[n][i].state # "idle"

\* Everything is of its type, and every request of a pool is in one place: idle, held by one
\* caller, or on its way through the runtime and its callback (openvino_request_pool.cpp:41-70).
TypeOK ==
  /\ engine \in [pool : 0 .. MaxLoads, model : 0 .. MaxLoads, initialized : BOOLEAN, accepting : BOOLEAN]
  /\ owner.loads \in 0 .. MaxLoads /\ owner.pool \in 0 .. MaxLoads
  /\ jobs \in 0 .. MaxJobs
  /\ \A n \in Loads : pool[n].filled =>
       /\ IsInjective(pool[n].idle)
       /\ \A i \in Indices :
            /\ (i \in Range(pool[n].idle)) = ~(Held(n, i) \/ AtWork(n, i))
            /\ Held(n, i) => ~AtWork(n, i)
            /\ \A c, d \in Callers :
                 caller[c].at \in {"bind", "start", "infer"} /\ caller[d].at \in {"bind", "start", "infer"}
                 /\ caller[c].pool = caller[d].pool /\ caller[c].index = caller[d].index => c = d

\* A job gets at most one answer, made from the input it was called with and by the model whose
\* pool lent the request, whatever the caller has done with its buffer and the owner with the
\* engine since; a call that was refused or failed gets none (openvino_engine.cpp:525-615).
OwnAnswer ==
  \A j \in Jobs :
    LET o == outcome[j]
    IN  /\ Len(o.answers) <= 1
        /\ o.returned \in {"refused", "failed"} => o.answers = <<>>
        /\ \A a \in Range(o.answers) : a = NoAnswer \/ (a.data = j /\ a.model = a.pool)

\* Once Release has waited for a pool, no request of it runs, no callback of it is being called
\* or will be, although InferAsync, the runtime and Release interleave (openvino_engine.cpp:617-629).
TornDown(n) ==
  pool[n].shutdown /\ ~(owner.pool = n /\ Range(owner.todo) \cap {"notify_all", "wait_all", "asleep"} # {})
QuietAfterRelease ==
  /\ TypeOK
  /\ \A n \in Loads : TornDown(n) => \A i \in Indices : ~Held(n, i) /\ ~AtWork(n, i)

\* Every call comes back, every started job is answered, and the owner gets through Release:
\* one notify_one per request given back is enough for callers and owner on one condition
\* variable.  The exception is a caller that holds the pool of a load whose requests could not
\* be made (openvino_request_pool.cpp:24-33) and finds the engine initialized by a later load.
Orphaned(c) == caller[c].at = "waiting" /\ ~pool[caller[c].pool].filled
CallsReturn ==
  /\ \A c \in Callers : caller[c].at # "idle" ~> caller[c].at = "idle" \/ Orphaned(c)
  /\ \A j \in Jobs : outcome[j].returned = "started" ~> outcome[j].answers # <<>>
  /\ owner.todo # <<>> ~> owner.todo = <<>>

=============================================================================
