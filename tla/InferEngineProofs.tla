------------------------- MODULE InferEngineProofs -------------------------
(***************************************************************************)
(* Machine-checked proofs about InferEngine: for every number of callers,  *)
(* requests of a pool, loads and jobs.                                     *)
(***************************************************************************)
EXTENDS InferEngine, FiniteSetTheorems, SequenceTheorems, TLAPS

-----------------------------------------------------------------------------
(* What the owner does next                                                *)

Steps == {"stop_accepting", "uninitialize", "move_pool", "shutdown", "notify_all", "wait_all",
          "asleep", "clear_model", "compile", "make_pool", "fill_pool", "initialize", "accept"}
LoadSteps == {"compile", "make_pool", "fill_pool", "initialize", "accept"}

Follows(s, t) ==
  \/ s = "stop_accepting" /\ t = "uninitialize"
  \/ s = "uninitialize" /\ t = "move_pool"
  \/ s = "move_pool" /\ t = "shutdown"
  \/ s = "shutdown" /\ t = "notify_all"
  \/ s = "notify_all" /\ t = "wait_all"
  \/ s \in {"wait_all", "asleep"} /\ t = "clear_model"
  \/ s = "clear_model" /\ t = "compile"
  \/ s = "compile" /\ t = "make_pool"
  \/ s = "make_pool" /\ t = "fill_pool"
  \/ s = "fill_pool" /\ t = "initialize"
  \/ s = "initialize" /\ t = "accept"

\* What is left of Releasing, or of Releasing and Loading.
InPlan(todo) ==
  /\ todo \in Seq(Steps)
  /\ todo # <<>> => Last(todo) \in {"clear_model", "accept"}
  /\ \A i \in 1 .. Len(todo) - 1 : Follows(todo[i], todo[i + 1])
  /\ \A i \in 1 .. Len(todo) : todo[i] \in LoadSteps => Last(todo) = "accept"

Now == IF owner.todo = <<>> THEN "none" ELSE Head(owner.todo)
WillLoad == owner.todo # <<>> /\ Last(owner.todo) = "accept"

\* A new pool is still to be made, or to be filled.
Unmade == WillLoad /\ Now \notin {"fill_pool", "initialize", "accept"}
Unfilled == WillLoad /\ Now \notin {"initialize", "accept"}
Made(n) == n <= owner.loads /\ (Unmade => n < owner.loads)

-----------------------------------------------------------------------------
(* The inductive invariant                                                 *)

Holding == {"bind", "start", "infer"}
Holds(c, n, i) == caller[c].at \in Holding /\ caller[c].pool = n /\ caller[c].index = i
Fresh == [returned |-> "none", answers |-> <<>>]

Request ==
  [data : 0 .. MaxJobs, model : 0 .. MaxLoads, copied : BOOLEAN, by : Callers \cup {NoCaller},
   mode : {"none", "sync", "async"}, job : 0 .. MaxJobs, state : {"idle", "running", "ran", "calling"}]
Positions == {"idle", "read_pool", "read_model", "check", "check_accepting", "acquire", "waiting"} \cup Holding
Place == [at : Positions, mode : {"none", "sync", "async"}, job : 0 .. MaxJobs, pool : 0 .. MaxLoads,
          model : 0 .. MaxLoads, index : 0 .. RequestCount]
Pool == [filled : BOOLEAN, shutdown : BOOLEAN, idle : Seq(Indices), notifying : Nat]
Answers == [data : 0 .. MaxJobs, model : 0 .. MaxLoads, pool : 0 .. MaxLoads]
Outcome == [returned : {"none", "refused", "failed", "started", "answered"},
            answers : Seq(Answers)]

Types ==
  /\ engine \in [pool : 0 .. MaxLoads, model : 0 .. MaxLoads, initialized : BOOLEAN, accepting : BOOLEAN]
  /\ owner \in [todo : Seq(Steps), pool : 0 .. MaxLoads, loads : 0 .. MaxLoads]
  /\ pool \in [Loads -> Pool]
  /\ request \in [Loads -> [Indices -> Request]]
  /\ caller \in [Callers -> Place]
  /\ buffer \in [Callers -> 0 .. MaxJobs]
  /\ jobs \in 0 .. MaxJobs
  /\ outcome \in [Jobs -> Outcome]

\* The engine names a pool only while the model of the same load is compiled, and not while the
\* owner takes it down or makes the next.
EngineOfOneLoad ==
  /\ engine.pool # 0 => engine.model = engine.pool /\ Made(engine.pool)
  /\ Now \in {"shutdown", "notify_all", "wait_all", "asleep", "clear_model", "compile", "make_pool"} =>
       engine.pool = 0
  /\ Now \in {"shutdown", "notify_all", "wait_all", "asleep"} => owner.pool # 0
  /\ Now = "shutdown" => engine.model = owner.pool
  /\ Now = "make_pool" => engine.model = owner.loads
  /\ Now = "fill_pool" => engine.pool = owner.loads

\* A pool is filled once, by the load it is of, and lends requests only while the engine names it or
\* until the owner that has taken it shuts it down.
PoolsInTurn ==
  \A n \in Loads :
    /\ pool[n].filled => n <= owner.loads /\ (Unfilled => n < owner.loads)
    /\ pool[n].filled /\ ~pool[n].shutdown => engine.pool = n \/ (owner.pool = n /\ Now = "shutdown")

\* A request of a pool is idle, held by one caller, or at work; before the pool is filled it is
\* none of them.
Queue(n) == IsInjective(pool[n].idle) /\ (~pool[n].filled => pool[n].idle = <<>>)
IsIdle(n, i) == i \in Range(pool[n].idle)
Whereabouts(n, i) ==
  /\ AtWork(n, i) \/ Held(n, i) => pool[n].filled /\ ~IsIdle(n, i)
  /\ pool[n].filled => IsIdle(n, i) \/ AtWork(n, i) \/ Held(n, i)
  /\ ~(AtWork(n, i) /\ Held(n, i))
  /\ \A c, d \in Callers : Holds(c, n, i) /\ Holds(d, n, i) => c = d
Conserved(n) == Queue(n) /\ \A i \in Indices : Whereabouts(n, i)

\* A caller that has read the pool of one load and the model of another finds that pool shut down,
\* or without requests for ever.
ModelOfPool ==
  \A c \in Callers :
    LET n == caller[c].pool
    IN  /\ n # 0 => Made(n)
        /\ caller[c].at \in {"check", "check_accepting", "acquire", "waiting"} /\ n # 0 /\ ~pool[n].shutdown =>
             caller[c].model = n \/ (~pool[n].filled /\ engine.pool # n)
        /\ caller[c].at \in {"check_accepting", "acquire", "waiting"} \cup Holding => n # 0
        /\ caller[c].at \in Holding => caller[c].model = n /\ caller[c].index # 0
        /\ caller[c].at \in {"start", "infer"} =>
             LET r == request[n][caller[c].index]
             IN  r.by = c /\ r.mode = caller[c].mode /\ r.job = caller[c].job /\ r.data = r.job
                 /\ r.model = n /\ r.copied = (r.mode = "async")
        /\ caller[c].at = "infer" => caller[c].mode = "sync"

\* The job of a call in progress: its input is still in the buffer, and nothing has come of it.
JobOfCall ==
  /\ \A c \in Callers : caller[c].at # "idle" =>
       LET j == caller[c].job
       IN  j \in 1 .. jobs /\ buffer[c] = j /\ outcome[j] = Fresh /\ caller[c].mode # "none"
  /\ \A c, d \in Callers :
       caller[c].at # "idle" /\ caller[d].at # "idle" /\ caller[c].job = caller[d].job => c = d
  /\ \A j \in Jobs : j > jobs => outcome[j] = Fresh

\* The job of a request at work: started, of its own content, and not answered before its callback.
Unanswered(n, i) == AtWork(n, i) /\ request[n][i].state # "calling"
JobAtWork ==
  /\ \A n \in Loads, i \in Indices :
       LET r == request[n][i]
       IN  /\ AtWork(n, i) => r.copied /\ r.data = r.job /\ r.model = n /\ r.job \in 1 .. jobs
           /\ r.state = "calling" => r.mode = "async"
           /\ Unanswered(n, i) => outcome[r.job] = [returned |-> "started", answers |-> <<>>]
  /\ \A m, n \in Loads : \A i, k \in Indices :
       Unanswered(m, i) /\ Unanswered(n, k) /\ request[m][i].job = request[n][k].job => m = n /\ i = k

Quiet(n) == \A i \in Indices : ~Held(n, i) /\ ~AtWork(n, i)
QuietOnceWaited ==
  \A n \in Loads :
    pool[n].shutdown /\ ~(owner.pool = n /\ Now \in {"notify_all", "wait_all", "asleep"}) => Quiet(n)

IInv ==
  /\ Types /\ InPlan(owner.todo) /\ EngineOfOneLoad /\ PoolsInTurn /\ \A n \in Loads : Conserved(n)
  /\ ModelOfPool /\ JobOfCall /\ JobAtWork /\ QuietOnceWaited /\ OwnAnswer

-----------------------------------------------------------------------------
(* The plan of the owner                                                   *)

\* What follows the head of a plan.
LEMMA Onward ==
  ASSUME NEW t, InPlan(t), t # <<>>
  PROVE  /\ InPlan(Tail(t)) /\ Head(t) \in Steps
         /\ Tail(t) = <<>> => Head(t) \in {"clear_model", "accept"} /\ Last(t) = Head(t)
         /\ Tail(t) # <<>> => Follows(Head(t), Head(Tail(t))) /\ Last(Tail(t)) = Last(t)
         /\ Head(t) \in LoadSteps => Last(t) = "accept"
<1>1. /\ t \in Seq(Steps) /\ Len(t) \in Nat \ {0} /\ Tail(t) \in Seq(Steps) /\ Head(t) = t[1]
      /\ Len(Tail(t)) = Len(t) - 1 /\ \A i \in 1 .. Len(Tail(t)) : Tail(t)[i] = t[i + 1]
      /\ Head(t) \in Steps
  BY HeadTailProperties, EmptySeq DEF InPlan
<1>2. Tail(t) # <<>> => Len(Tail(t)) \in Nat \ {0}
  BY <1>1, EmptySeq
<1>3. Tail(t) = <<>> => Len(t) = 1
  BY <1>1, EmptySeq
<1>4. Tail(t) # <<>> => Last(Tail(t)) = Last(t)
  BY <1>1, <1>2 DEF Last
<1>5. Tail(t) # <<>> => Head(Tail(t)) = t[2] /\ Len(t) >= 2
  BY <1>1, <1>2
<1>6. Head(t) \in LoadSteps => Last(t) = "accept"
  BY <1>1 DEF InPlan
<1>7. Tail(t) # <<>> => Follows(Head(t), Head(Tail(t)))
  <2> SUFFICES ASSUME Tail(t) # <<>> PROVE Follows(t[1], t[2])
    BY <1>1, <1>5
  <2>1. 1 \in 1 .. Len(t) - 1 /\ 1 + 1 = 2
    BY <1>1, <1>5
  <2> QED  BY <2>1 DEF InPlan
<1>8. Tail(t) = <<>> => Head(t) \in {"clear_model", "accept"} /\ Last(t) = Head(t)
  BY <1>1, <1>3 DEF InPlan, Last
<1>9. InPlan(Tail(t))
  <2>1. Tail(t) # <<>> => Last(Tail(t)) \in {"clear_model", "accept"}
    BY <1>4 DEF InPlan
  <2>2. ASSUME NEW i \in 1 .. Len(Tail(t)) - 1 PROVE Follows(Tail(t)[i], Tail(t)[i + 1])
    <3>1. i + 1 \in 1 .. Len(t) - 1 /\ Tail(t)[i] = t[i + 1] /\ Tail(t)[i + 1] = t[(i + 1) + 1]
      BY <1>1
    <3> QED  BY <3>1 DEF InPlan
  <2>3. ASSUME NEW i \in 1 .. Len(Tail(t)), Tail(t)[i] \in LoadSteps PROVE Last(Tail(t)) = "accept"
    <3>1. i + 1 \in 1 .. Len(t) /\ Tail(t)[i] = t[i + 1]
      BY <1>1
    <3>2. Tail(t) # <<>>
      <4> DEFINE v == Tail(t)
      <4>1. i \in 1 .. Len(v) /\ v \in Seq(Steps)
        BY <1>1, <2>3
      <4> HIDE DEF v
      <4>2. v # <<>>
        BY <4>1, EmptySeq
      <4> QED  BY <4>2 DEF v
    <3> QED  BY <1>4, <2>3, <3>1, <3>2 DEF InPlan
  <2> QED  BY <1>1, <2>1, <2>2, <2>3 DEF InPlan
<1> QED  BY <1>1, <1>4, <1>6, <1>7, <1>8, <1>9

\* WaitAll waits again, or sleeps.
LEMMA Again ==
  ASSUME NEW t, InPlan(t), t # <<>>, Head(t) \in {"wait_all", "asleep"}, NEW s \in {"wait_all", "asleep"}
  PROVE  LET u == <<s>> \o Tail(t)
         IN  InPlan(u) /\ u # <<>> /\ Head(u) = s /\ Last(u) = Last(t)
<1> DEFINE u == <<s>> \o Tail(t)
<1>1. /\ t \in Seq(Steps) /\ Len(t) \in Nat \ {0} /\ Tail(t) \in Seq(Steps) /\ Head(t) = t[1]
      /\ Len(Tail(t)) = Len(t) - 1 /\ \A i \in 1 .. Len(Tail(t)) : Tail(t)[i] = t[i + 1]
  BY HeadTailProperties, EmptySeq DEF InPlan
<1>2. <<s>> \in Seq(Steps) /\ Len(<<s>>) = 1 /\ <<s>>[1] = s
  BY DEF Steps
<1>3. /\ u \in Seq(Steps) /\ Len(u) = Len(t)
      /\ \A i \in 1 .. Len(u) : u[i] = IF i = 1 THEN s ELSE t[i]
  <2>1. u \in Seq(Steps) /\ Len(u) = 1 + Len(Tail(t))
        /\ \A i \in 1 .. 1 + Len(Tail(t)) : u[i] = IF i <= 1 THEN <<s>>[i] ELSE Tail(t)[i - 1]
    BY <1>1, <1>2, ConcatProperties
  <2>2. ASSUME NEW i \in 1 .. Len(u) PROVE u[i] = IF i = 1 THEN s ELSE t[i]
    <3>1. CASE i = 1
      BY <1>2, <2>1, <3>1
    <3>2. CASE i # 1
      <4>1. i - 1 \in 1 .. Len(Tail(t)) /\ ~(i <= 1) /\ (i - 1) + 1 = i /\ i \in 1 .. 1 + Len(Tail(t))
        BY <1>1, <2>1, <3>2
      <4>2. Tail(t)[i - 1] = t[i]
        BY <1>1, <4>1
      <4> HIDE DEF u
      <4> QED  BY <2>1, <3>2, <4>1, <4>2
    <3> QED  BY <3>1, <3>2
  <2> QED  BY <1>1, <2>1, <2>2
<1> HIDE DEF u
<1>4. u # <<>> /\ Head(u) = s
  BY <1>1, <1>3, EmptySeq
<1>5. Len(t) = 1 => FALSE
  BY <1>1 DEF InPlan, Last
<1>6. Last(u) = Last(t)
  BY <1>1, <1>3, <1>5 DEF Last
<1>7. ASSUME NEW i \in 1 .. Len(u) - 1 PROVE Follows(u[i], u[i + 1])
  <2>1. /\ i \in 1 .. Len(t) - 1 /\ i \in 1 .. Len(u) /\ i + 1 \in 1 .. Len(u) /\ i + 1 # 1
        /\ u[i + 1] = t[i + 1] /\ u[i] = IF i = 1 THEN s ELSE t[i]
    BY <1>1, <1>3
  <2>2. Follows(t[i], t[i + 1])
    BY <2>1 DEF InPlan
  <2> QED  BY <1>1, <2>1, <2>2 DEF Follows
<1>8. ASSUME NEW i \in 1 .. Len(u), u[i] \in LoadSteps PROVE Last(u) = "accept"
  <2>1. i # 1 /\ u[i] = t[i] /\ i \in 1 .. Len(t)
    BY <1>1, <1>3, <1>8 DEF LoadSteps
  <2> QED  BY <1>6, <1>8, <2>1 DEF InPlan
<1> QED  BY <1>3, <1>4, <1>6, <1>7, <1>8 DEF InPlan, u

\* Without a pool the owner goes on with clear_model.
LEMMA Skipped ==
  ASSUME NEW t, InPlan(t), t # <<>>, Head(t) = "move_pool"
  PROVE  LET u == SubSeq(t, 5, Len(t))
         IN  InPlan(u) /\ u # <<>> /\ Head(u) = "clear_model" /\ Last(u) = Last(t)
<1> DEFINE T1 == Tail(t) T2 == Tail(T1) T3 == Tail(T2) T4 == Tail(T3)
<1>1. InPlan(T1) /\ T1 # <<>> /\ Head(T1) = "shutdown" /\ Last(T1) = Last(t)
  BY Onward DEF Follows
<1>2. InPlan(T2) /\ T2 # <<>> /\ Head(T2) = "notify_all" /\ Last(T2) = Last(t)
  BY <1>1, Onward DEF Follows
<1>3. InPlan(T3) /\ T3 # <<>> /\ Head(T3) = "wait_all" /\ Last(T3) = Last(t)
  BY <1>2, Onward DEF Follows
<1>4. InPlan(T4) /\ T4 # <<>> /\ Head(T4) = "clear_model" /\ Last(T4) = Last(t)
  BY <1>3, Onward DEF Follows
<1>5. \A v : InPlan(v) /\ v # <<>> =>
        /\ v \in Seq(Steps) /\ Len(v) \in Nat \ {0} /\ Len(Tail(v)) = Len(v) - 1
        /\ \A i \in 1 .. Len(v) - 1 : Tail(v)[i] = v[i + 1]
  BY HeadTailProperties, EmptySeq DEF InPlan
<1>6. /\ Len(T1) = Len(t) - 1 /\ Len(T2) = Len(t) - 2 /\ Len(T3) = Len(t) - 3 /\ Len(T4) = Len(t) - 4
      /\ Len(t) \in Nat /\ Len(t) > 4
  <2>1. Len(t) \in Nat /\ Len(T1) = Len(t) - 1
    BY <1>5
  <2>2. Len(T2) = Len(T1) - 1
    BY <1>1, <1>5
  <2>3. Len(T3) = Len(T2) - 1
    BY <1>2, <1>5
  <2>4. Len(T4) = Len(T3) - 1
    BY <1>3, <1>5
  <2>5. Len(T4) \in Nat \ {0}
    BY <1>4, <1>5
  <2> HIDE DEF T1, T2, T3, T4
  <2> QED  BY <2>1, <2>2, <2>3, <2>4, <2>5
<1>7. ASSUME NEW i \in 1 .. Len(t) - 4 PROVE T4[i] = t[i + 4]
  <2>1. i + 1 \in 1 .. Len(t) - 3 /\ i + 2 \in 1 .. Len(t) - 2 /\ i + 3 \in 1 .. Len(t) - 1
    BY <1>6
  <2>2. T4[i] = T3[i + 1]
    BY <1>3, <1>5, <1>6
  <2>3. T3[i + 1] = T2[(i + 1) + 1]
    BY <1>2, <1>5, <1>6, <2>1
  <2>4. T2[i + 2] = T1[(i + 2) + 1]
    BY <1>1, <1>5, <1>6, <2>1
  <2>5. T1[i + 3] = t[(i + 3) + 1]
    BY <1>5, <1>6, <2>1
  <2>6. (i + 1) + 1 = i + 2 /\ (i + 2) + 1 = i + 3 /\ (i + 3) + 1 = i + 4
    BY <1>6
  <2> QED  BY <2>2, <2>3, <2>4, <2>5, <2>6
<1> DEFINE u == SubSeq(t, 5, Len(t))
<1>8. \A i \in 5 .. Len(t) : t[i] \in Steps
  BY <1>5, <1>6, ElementOfSeq
<1>9. u \in Seq(Steps) /\ Len(u) = Len(t) - 4 /\ \A i \in 1 .. Len(t) - 4 : u[i] = t[i + 4]
  <2>1. u \in Seq(Steps) /\ Len(u) = Len(t) - 5 + 1 /\ \A i \in 1 .. Len(t) - 5 + 1 : u[i] = t[5 + i - 1]
    BY <1>6, <1>8, SubSeqProperties
  <2>2. Len(t) - 5 + 1 = Len(t) - 4
    BY <1>6
  <2>3. \A i \in 1 .. Len(t) - 4 : 5 + i - 1 = i + 4
    OBVIOUS
  <2> QED  BY <2>1, <2>2, <2>3
<1>10. T4 \in Seq(Steps)
  BY <1>4, <1>5
<1> HIDE DEF u, T4
<1>11. u = T4
  BY <1>6, <1>7, <1>9, <1>10, SeqEqual
<1> QED  BY <1>4, <1>11 DEF u, T4

\* The two plans of the owner are plans.
LEMMA Plans ==
  /\ InPlan(Releasing) /\ Releasing # <<>> /\ Head(Releasing) = "stop_accepting"
  /\ InPlan(Releasing \o Loading) /\ Releasing \o Loading # <<>>
  /\ Head(Releasing \o Loading) = "stop_accepting" /\ InPlan(<<>>)
<1>1. InPlan(Releasing) /\ Releasing # <<>> /\ Head(Releasing) = "stop_accepting"
  BY DEF Releasing, InPlan, Follows, Steps, LoadSteps, Last
<1>2. /\ Releasing \in Seq(Steps) /\ Len(Releasing) = 7 /\ Loading \in Seq(Steps) /\ Len(Loading) = 5
  BY DEF Releasing, Loading, Steps
<1>3. InPlan(Releasing \o Loading) /\ Releasing \o Loading # <<>> /\ Head(Releasing \o Loading) = "stop_accepting"
  <2> DEFINE t == Releasing \o Loading
  <2>1. /\ t \in Seq(Steps) /\ Len(t) = 12
        /\ \A i \in 1 .. 12 : t[i] = IF i <= 7 THEN Releasing[i] ELSE Loading[i - 7]
    <3>1. t \in Seq(Steps) /\ Len(t) = Len(Releasing) + Len(Loading)
      BY <1>2, ConcatProperties
    <3>2. \A i \in 1 .. Len(Releasing) + Len(Loading) :
            t[i] = IF i <= Len(Releasing) THEN Releasing[i] ELSE Loading[i - Len(Releasing)]
      BY <1>2, ConcatProperties
    <3> HIDE DEF t
    <3> QED  BY <1>2, <3>1, <3>2
  <2> HIDE DEF t
  <2>2. /\ t[1] = "stop_accepting" /\ t[2] = "uninitialize" /\ t[3] = "move_pool" /\ t[4] = "shutdown"
        /\ t[5] = "notify_all" /\ t[6] = "wait_all" /\ t[7] = "clear_model"
    BY <2>1 DEF Releasing
  <2>3. /\ t[8] = "compile" /\ t[9] = "make_pool" /\ t[10] = "fill_pool" /\ t[11] = "initialize"
        /\ t[12] = "accept"
    BY <2>1 DEF Loading
  <2>4. t # <<>> /\ Head(t) = "stop_accepting" /\ Last(t) = "accept"
    <3>1. ASSUME t = <<>> PROVE FALSE
      <4>1. Len(t) = 0
        BY <3>1, EmptySeq
      <4> QED  BY <2>1, <4>1
    <3>2. Last(t) = "accept"
      BY <2>1, <2>3 DEF Last
    <3> QED  BY <2>2, <3>1, <3>2
  <2>5. \A i \in 1 .. 11 : Follows(t[i], t[i + 1])
    BY <2>2, <2>3 DEF Follows
  <2>6. \A i \in 1 .. Len(t) - 1 : Follows(t[i], t[i + 1])
    BY <2>1, <2>5
  <2>7. InPlan(t)
    BY <2>1, <2>4, <2>6 DEF InPlan
  <2> QED  BY <2>4, <2>7 DEF t
<1>4. InPlan(<<>>)
  BY EmptySeq DEF InPlan
<1> QED  BY <1>1, <1>3, <1>4

-----------------------------------------------------------------------------
(* Types                                                                   *)

\* Before the first load nothing is made, called or at work.
LEMMA Initially == Init => IInv
<1> SUFFICES ASSUME Init PROVE IInv
  OBVIOUS
<1>1. MaxLoads \in Nat /\ MaxJobs \in Nat /\ RequestCount \in Nat \ {0}
  BY EngineAssumption
<1>2. Types
  <2>1. /\ engine \in [pool : 0 .. MaxLoads, model : 0 .. MaxLoads, initialized : BOOLEAN, accepting : BOOLEAN]
        /\ jobs \in 0 .. MaxJobs /\ buffer \in [Callers -> 0 .. MaxJobs]
    BY <1>1 DEF Init
  <2>2. <<>> \in Seq(Steps) /\ <<>> \in Seq(Indices)
        /\ <<>> \in Seq(Answers)
    BY EmptySeq
  <2>3. owner \in [todo : Seq(Steps), pool : 0 .. MaxLoads, loads : 0 .. MaxLoads]
    BY <1>1, <2>2 DEF Init
  <2>4. pool \in [Loads -> Pool]
    BY <2>2 DEF Init, Pool
  <2>5. request \in [Loads -> [Indices -> Request]]
    <3>1. Unbound \in Request
      BY <1>1 DEF Unbound, Request
    <3> QED  BY <3>1 DEF Init
  <2>6. caller \in [Callers -> Place]
    BY <1>1 DEF Init, AtRest, Place, Positions
  <2>7. outcome \in [Jobs -> Outcome]
    BY <2>2 DEF Init, Outcome
  <2> QED  BY <2>1, <2>3, <2>4, <2>5, <2>6, <2>7 DEF Types
<1>3. owner.todo = <<>> /\ Now = "none" /\ InPlan(owner.todo) /\ engine.pool = 0
  BY Plans DEF Init, Now
<1>4. \A c \in Callers : caller[c].at = "idle" /\ caller[c].pool = 0
  BY DEF Init, AtRest
<1>5. \A n \in Loads : \A i \in Indices : ~AtWork(n, i) /\ ~Held(n, i)
  BY <1>4 DEF Init, AtWork, Held, Unbound
<1>6. EngineOfOneLoad
  BY <1>3 DEF EngineOfOneLoad
<1>7. PoolsInTurn /\ QuietOnceWaited
  BY DEF Init, PoolsInTurn, QuietOnceWaited
<1>8. \A n \in Loads : Conserved(n)
  <2> SUFFICES ASSUME NEW n \in Loads PROVE Conserved(n)
    OBVIOUS
  <2>1. pool[n].idle = <<>> /\ ~pool[n].filled
    BY DEF Init
  <2>2. IsInjective(<<>>)
    BY DEF IsInjective
  <2> QED  BY <1>4, <1>5, <2>1, <2>2 DEF Conserved, Queue, Whereabouts, Holds, Holding
<1>9. ModelOfPool
  BY <1>4 DEF ModelOfPool, Holding
<1>10. JobOfCall
  BY <1>4 DEF JobOfCall, Init, Fresh
<1>11. JobAtWork
  <2>1. \A n \in Loads, i \in Indices : request[n][i].state = "idle"
    BY DEF Init, Unbound
  <2> QED  BY <1>5, <2>1 DEF JobAtWork, Unanswered
<1>12. OwnAnswer
  <2>1. \A j \in Jobs : outcome[j].answers = <<>>
    BY DEF Init
  <2>2. Len(<<>>) = 0 /\ Range(<<>>) = {}
    BY EmptySeq DEF Range
  <2> QED  BY <2>1, <2>2 DEF OwnAnswer
<1> QED  BY <1>2, <1>3, <1>6, <1>7, <1>8, <1>9, <1>10, <1>11, <1>12 DEF IInv

\* The parts of a state, one at a time.
LEMMA Parts ==
  ASSUME Types
  PROVE  /\ \A n \in Loads :
              /\ pool[n] \in Pool /\ pool[n].filled \in BOOLEAN /\ pool[n].shutdown \in BOOLEAN
              /\ pool[n].idle \in Seq(Indices) /\ pool[n].notifying \in Nat
         /\ \A n \in Loads, i \in Indices : request[n][i] \in Request
         /\ \A c \in Callers : caller[c] \in Place
         /\ \A j \in Jobs : outcome[j] \in Outcome
         /\ MaxLoads \in Nat /\ MaxJobs \in Nat /\ RequestCount \in Nat \ {0}
BY EngineAssumption DEF Types, Pool

\* What GiveBack leaves of the pools.
LEMMA GivenBack ==
  ASSUME Types, NEW n \in Loads, NEW i \in Indices, GiveBack(n, i)
  PROVE  /\ pool' \in [Loads -> Pool]
         /\ \A m \in Loads : pool'[m].filled = pool[m].filled /\ pool'[m].shutdown = pool[m].shutdown
         /\ \A m \in Loads : m # n => pool'[m].idle = pool[m].idle
         /\ pool'[n].idle = Append(pool[n].idle, i)
<1>1. pool \in [Loads -> Pool] /\ pool[n] \in Pool
  BY DEF Types
<1>2. pool[n].idle \in Seq(Indices) /\ pool[n].notifying \in Nat
  BY <1>1 DEF Pool
<1>3. Append(pool[n].idle, i) \in Seq(Indices)
  BY <1>2, AppendProperties
<1>4. pool' \in [Loads -> Pool]
  BY <1>1, <1>2, <1>3 DEF GiveBack, Pool
<1>5. \A m \in Loads : m # n => pool'[m] = pool[m]
  BY <1>1 DEF GiveBack
<1>6. /\ pool'[n].idle = Append(pool[n].idle, i) /\ pool'[n].filled = pool[n].filled
      /\ pool'[n].shutdown = pool[n].shutdown
  BY <1>1 DEF GiveBack, Pool
<1> QED  BY <1>4, <1>5, <1>6

\* What a change of one request leaves.
LEMMA Rebound ==
  ASSUME Types, NEW n \in Loads, NEW i \in Indices, NEW r \in Request,
         request' = [request EXCEPT ![n][i] = r]
  PROVE  /\ request' \in [Loads -> [Indices -> Request]]
         /\ request'[n][i] = r
         /\ \A m \in Loads, k \in Indices : m # n \/ k # i => request'[m][k] = request[m][k]
BY DEF Types

\* What a call that returns leaves.
LEMMA Returned ==
  ASSUME Types, NEW c \in Callers, NEW x \in {"refused", "failed", "started"}, Return(c, x)
  PROVE  /\ caller' \in [Callers -> Place] /\ outcome' \in [Jobs -> Outcome]
         /\ caller'[c] = AtRest /\ \A d \in Callers : d # c => caller'[d] = caller[d]
         /\ \A j \in Jobs : outcome'[j].answers = outcome[j].answers
         /\ \A j \in Jobs : j # caller[c].job => outcome'[j] = outcome[j]
         /\ \A j \in Jobs : j = caller[c].job => outcome'[j].returned = x
<1>1. AtRest \in Place
  BY EngineAssumption DEF AtRest, Place, Positions
<1>2. caller' \in [Callers -> Place] /\ caller'[c] = AtRest /\ \A d \in Callers : d # c => caller'[d] = caller[d]
  BY <1>1 DEF Types, Return
<1>3. outcome \in [Jobs -> Outcome] /\ outcome' = [outcome EXCEPT ![caller[c].job] = [@ EXCEPT !.returned = x]]
  BY DEF Types, Return, Outcome
<1>4. \A j \in Jobs : [outcome[j] EXCEPT !.returned = x] \in Outcome
  BY <1>3 DEF Outcome
<1>5. outcome' \in [Jobs -> Outcome]
  BY <1>3, <1>4
<1>6. \A j \in Jobs : /\ j # caller[c].job => outcome'[j] = outcome[j]
                      /\ j = caller[c].job => outcome'[j] = [outcome[j] EXCEPT !.returned = x]
  BY <1>3
<1>7. \A j \in Jobs : /\ [outcome[j] EXCEPT !.returned = x].answers = outcome[j].answers
                      /\ [outcome[j] EXCEPT !.returned = x].returned = x
  BY <1>3 DEF Outcome
<1>8. \A j \in Jobs : outcome'[j].answers = outcome[j].answers
  BY <1>6, <1>7
<1> QED  BY <1>2, <1>5, <1>6, <1>7, <1>8

\* What a caller that changes its place leaves.
LEMMA Moved ==
  ASSUME Types, NEW c \in Callers, NEW p \in Place, caller' = [caller EXCEPT ![c] = p]
  PROVE  /\ caller' \in [Callers -> Place] /\ caller'[c] = p
         /\ \A d \in Callers : d # c => caller'[d] = caller[d]
BY DEF Types

\* What a caller that goes on in its call leaves.
LEMMA WentOn ==
  ASSUME Types, NEW c \in Callers, NEW at \in Positions, Go(c, at)
  PROVE  /\ caller' \in [Callers -> Place]
         /\ \A d \in Callers : d # c => caller'[d] = caller[d]
         /\ caller'[c].at = at /\ caller'[c].mode = caller[c].mode /\ caller'[c].job = caller[c].job
         /\ caller'[c].pool = caller[c].pool /\ caller'[c].model = caller[c].model
         /\ caller'[c].index = caller[c].index
<1>1. caller \in [Callers -> Place] /\ caller[c] \in Place
  BY DEF Types
<1>2. caller' \in [Callers -> Place]
  BY <1>1 DEF Go, Place
<1>3. \A d \in Callers : d # c => caller'[d] = caller[d]
  BY <1>1 DEF Go
<1>4. /\ caller'[c].at = at /\ caller'[c].mode = caller[c].mode /\ caller'[c].job = caller[c].job
      /\ caller'[c].pool = caller[c].pool /\ caller'[c].model = caller[c].model
      /\ caller'[c].index = caller[c].index
  BY <1>1 DEF Go, Place
<1> QED  BY <1>2, <1>3, <1>4

\* A job is told an answer.
LEMMA Answered ==
  ASSUME Types, NEW j \in Jobs, NEW a \in Answers
  PROVE  /\ Told(j, a) \in [Jobs -> Outcome]
         /\ \A k \in Jobs : k # j => Told(j, a)[k] = outcome[k]
         /\ Told(j, a)[j].answers = Append(outcome[j].answers, a)
         /\ Told(j, a)[j].returned = outcome[j].returned
<1>1. outcome[j] \in Outcome /\ outcome[j].answers \in Seq(Answers)
  BY DEF Types, Outcome
<1>2. Append(outcome[j].answers, a) \in Seq(Answers)
  BY <1>1, AppendProperties
<1>3. Told(j, a) = [outcome EXCEPT ![j] = [outcome[j] EXCEPT !.answers = Append(outcome[j].answers, a)]]
  BY <1>1 DEF Told, Types, Outcome
<1>4. [outcome[j] EXCEPT !.answers = Append(outcome[j].answers, a)] \in Outcome
  BY <1>1, <1>2 DEF Outcome
<1> QED  BY <1>1, <1>3, <1>4 DEF Types, Outcome

\* The job, pool and request of a caller that holds a request.
LEMMA Holder ==
  ASSUME Types, ModelOfPool, JobOfCall, NEW c \in Callers, caller[c].at \in Holding
  PROVE  /\ caller[c].pool \in Loads /\ caller[c].index \in Indices /\ caller[c].job \in Jobs
         /\ caller[c].model = caller[c].pool /\ Held(caller[c].pool, caller[c].index)
         /\ buffer[c] = caller[c].job /\ outcome[caller[c].job] = Fresh
         /\ caller[c].mode \in {"sync", "async"} /\ caller[c].job \in 1 .. jobs
         /\ Holds(c, caller[c].pool, caller[c].index)
<1>1. caller[c] \in Place /\ jobs \in 0 .. MaxJobs /\ MaxLoads \in Nat /\ MaxJobs \in Nat /\ RequestCount \in Nat
  BY EngineAssumption DEF Types
<1>2. caller[c].pool # 0 /\ caller[c].index # 0 /\ caller[c].model = caller[c].pool
  BY DEF ModelOfPool
<1>3. caller[c].job \in 1 .. jobs /\ buffer[c] = caller[c].job /\ outcome[caller[c].job] = Fresh /\ caller[c].mode # "none"
  BY DEF JobOfCall, Holding
<1> QED  BY <1>1, <1>2, <1>3 DEF Place, Loads, Indices, Jobs, Held, Holds, Holding

\* What can become of a plan is a sequence of steps.
LEMMA PlanParts ==
  ASSUME NEW t, InPlan(t), t # <<>>
  PROVE  /\ t \in Seq(Steps) /\ Tail(t) \in Seq(Steps)
         /\ Head(t) = "wait_all" => <<"asleep">> \o Tail(t) \in Seq(Steps)
         /\ Head(t) = "move_pool" => SubSeq(t, 5, Len(t)) \in Seq(Steps)
<1>1. t \in Seq(Steps) /\ Tail(t) \in Seq(Steps)
  BY Onward DEF InPlan
<1>2. Head(t) = "wait_all" => <<"asleep">> \o Tail(t) \in Seq(Steps)
  BY Again DEF InPlan
<1>3. Head(t) = "move_pool" => SubSeq(t, 5, Len(t)) \in Seq(Steps)
  BY Skipped DEF InPlan
<1> QED  BY <1>1, <1>2, <1>3

\* Every step keeps the types.
LEMMA TypesKept ==
  ASSUME Types, InPlan(owner.todo), EngineOfOneLoad, ModelOfPool, JobOfCall, JobAtWork, [Next]_vars
  PROVE  Types'
<1> DEFINE OwnerType == [todo : Seq(Steps), pool : 0 .. MaxLoads, loads : 0 .. MaxLoads]
           EngineType == [pool : 0 .. MaxLoads, model : 0 .. MaxLoads, initialized : BOOLEAN, accepting : BOOLEAN]
<1>a. MaxLoads \in Nat /\ MaxJobs \in Nat /\ RequestCount \in Nat \ {0}
  BY EngineAssumption
<1>b. owner \in OwnerType
  BY DEF Types
<1>c. engine \in EngineType
  BY DEF Types
<1>d. pool \in [Loads -> Pool]
  BY DEF Types
<1>e. request \in [Loads -> [Indices -> Request]]
  BY DEF Types
<1>f. caller \in [Callers -> Place]
  BY DEF Types
<1>g. buffer \in [Callers -> 0 .. MaxJobs] /\ jobs \in 0 .. MaxJobs
  BY DEF Types
<1>h. outcome \in [Jobs -> Outcome]
  BY DEF Types
<1>i. ASSUME NEW t \in Seq(Steps), NEW m \in 0 .. MaxLoads, owner' = [owner EXCEPT !.pool = m, !.todo = t]
      PROVE  owner' \in OwnerType
  BY <1>b, <1>i
<1>p. ASSUME NEW t \in Seq(Steps), owner' = [owner EXCEPT !.todo = t]
      PROVE  owner' \in OwnerType
  BY <1>b, <1>p
<1>j. ASSUME NEW m \in 0 .. MaxLoads, engine' = [engine EXCEPT !.model = m]
      PROVE  engine' \in EngineType
  BY <1>c, <1>j
<1>k. ASSUME NEW n \in Loads, NEW i \in Indices, NEW x \in {"running", "ran", "calling"}
      PROVE  [request EXCEPT ![n][i].state = x] \in [Loads -> [Indices -> Request]]
  <2>1. request[n] \in [Indices -> Request] /\ request[n][i] \in Request
    BY <1>e
  <2>2. [request[n][i] EXCEPT !.state = x] \in Request
    BY <2>1 DEF Request
  <2>3. [request EXCEPT ![n][i] = [request[n][i] EXCEPT !.state = x]] \in [Loads -> [Indices -> Request]]
    BY <1>e, <2>2
  <2> QED  BY <2>3
<1>l. \A n \in Loads :
        pool[n].notifying > 0 => [pool EXCEPT ![n].notifying = @ - 1] \in [Loads -> Pool]
  BY <1>d DEF Pool
<1>m. ASSUME NEW c \in Callers, NEW i \in 0 .. RequestCount
      PROVE  [caller EXCEPT ![c].at = "bind", ![c].index = i] \in [Callers -> Place]
  <2> DEFINE p == [[caller[c] EXCEPT !.at = "bind"] EXCEPT !.index = i]
  <2>1. p \in Place
    <3>1. \A q \in Place : [q EXCEPT !.at = "bind"] \in Place
      BY DEF Place, Positions, Holding
    <3>2. \A q \in Place : [q EXCEPT !.index = i] \in Place
      BY DEF Place
    <3> QED  BY <1>f, <3>1, <3>2
  <2>2. [caller EXCEPT ![c].at = "bind", ![c].index = i] = [caller EXCEPT ![c] = p]
    BY <1>f
  <2> QED  BY <1>f, <2>1, <2>2
<1>n. \A q \in Place, m \in {"sync", "async"}, j \in 0 .. MaxJobs :
        [q EXCEPT !.at = "read_pool", !.mode = m, !.job = j] \in Place
  BY DEF Place, Positions
<1>0. CASE UNCHANGED vars
  BY <1>0 DEF Types, vars
<1> HIDE DEF OwnerType, EngineType
<1>1. ASSUME NEW c \in Callers, Call(c) PROVE Types'
  <2>1. jobs + 1 \in 0 .. MaxJobs
    BY <1>1, <1>a, <1>g DEF Call
  <2>2. \A m \in {"sync", "async"} : [AtRest EXCEPT !.at = "read_pool", !.mode = m, !.job = jobs + 1] \in Place
    <3>1. AtRest \in Place
      BY <1>a DEF AtRest, Place, Positions
    <3> QED  BY <1>n, <2>1, <3>1
  <2>3. caller' \in [Callers -> Place]
    BY <1>1, <1>f, <2>2 DEF Call
  <2> QED  BY <1>1, <2>1, <2>3 DEF Call, Types, OwnerType, EngineType
<1>2. ASSUME NEW c \in Callers, ReadPool(c) \/ ReadModel(c) PROVE Types'
  <2>1. caller' \in [Callers -> Place]
    BY <1>2, <1>c, <1>f DEF ReadPool, ReadModel, Place, Positions, EngineType
  <2> QED  BY <1>2, <2>1 DEF ReadPool, ReadModel, Types, OwnerType, EngineType
<1>3. ASSUME NEW c \in Callers, Check(c) \/ CheckAccepting(c) PROVE Types'
  <2>1. CASE Return(c, "refused")
    <3>1. caller' \in [Callers -> Place] /\ outcome' \in [Jobs -> Outcome]
      BY <2>1, Returned
    <3> QED  BY <1>3, <3>1 DEF Check, CheckAccepting, Types, OwnerType, EngineType
  <2>2. CASE (Go(c, "acquire") \/ Go(c, "check_accepting")) /\ UNCHANGED outcome
    <3>1. caller' \in [Callers -> Place]
      BY <2>2, WentOn DEF Positions
    <3> QED  BY <1>3, <2>2, <3>1 DEF Check, CheckAccepting, Types, OwnerType, EngineType
  <2> QED  BY <1>3, <2>1, <2>2 DEF Check, CheckAccepting
<1>4. ASSUME NEW c \in Callers, Acquire(c) PROVE Types'
  <2> DEFINE n == caller[c].pool
  <2>1. n \in Loads
    <3>1. n # 0
      BY <1>4 DEF Acquire, ModelOfPool
    <3>2. n \in 0 .. MaxLoads
      BY <1>f DEF Place
    <3> QED  BY <1>a, <3>1, <3>2 DEF Loads
  <2>2. CASE pool[n].shutdown /\ Return(c, "refused") /\ UNCHANGED pool
    <3>1. caller' \in [Callers -> Place] /\ outcome' \in [Jobs -> Outcome]
      BY <2>2, Returned
    <3> QED  BY <1>4, <2>2, <3>1 DEF Acquire, Types, OwnerType, EngineType
  <2>3. CASE Go(c, "waiting") /\ UNCHANGED <<pool, outcome>>
    <3>1. caller' \in [Callers -> Place]
      BY <2>3, WentOn DEF Positions
    <3> QED  BY <1>4, <2>3, <3>1 DEF Acquire, Types, OwnerType, EngineType
  <2>4. CASE /\ ~pool[n].shutdown /\ pool[n].idle # <<>>
             /\ caller' = [caller EXCEPT ![c].at = "bind", ![c].index = Head(pool[n].idle)]
             /\ pool' = [pool EXCEPT ![n].idle = Tail(@)]
             /\ UNCHANGED outcome
    <3>1. Head(pool[n].idle) \in Indices /\ Tail(pool[n].idle) \in Seq(Indices)
      BY <1>d, <2>1, <2>4, HeadTailProperties DEF Pool
    <3>2. caller' \in [Callers -> Place]
      <4>1. Head(pool[n].idle) \in 0 .. RequestCount
        BY <1>a, <3>1 DEF Indices
      <4> QED  BY <1>m, <2>4, <4>1, Zenon
    <3>3. pool' \in [Loads -> Pool]
      BY <1>d, <2>1, <2>4, <3>1 DEF Pool
    <3> QED  BY <1>4, <2>4, <3>2, <3>3 DEF Acquire, Types, OwnerType, EngineType
  <2> QED  BY <1>4, <2>2, <2>3, <2>4 DEF Acquire
<1>5. ASSUME NEW c \in Callers, Bind(c) PROVE Types'
  <2>1. caller[c].pool \in Loads /\ caller[c].index \in Indices
    BY <1>5, Holder DEF Bind, Holding
  <2>2. Bound(c) \in Request
    BY <1>f, <1>g DEF Bound, Request, Place
  <2>3. request' \in [Loads -> [Indices -> Request]]
    BY <1>5, <2>1, <2>2, Rebound DEF Bind
  <2>4. caller' \in [Callers -> Place]
    BY <1>5, WentOn DEF Bind, Positions, Holding
  <2> QED  BY <1>5, <2>3, <2>4 DEF Bind, Types, OwnerType, EngineType
<1>6. ASSUME NEW c \in Callers, BindFails(c) PROVE Types'
  <2>1. caller[c].pool \in Loads /\ caller[c].index \in Indices
    BY <1>6, Holder DEF BindFails, Holding
  <2>2. pool' \in [Loads -> Pool]
    BY <1>6, <2>1, GivenBack DEF BindFails
  <2>3. caller' \in [Callers -> Place] /\ outcome' \in [Jobs -> Outcome]
    BY <1>6, Returned DEF BindFails
  <2> QED  BY <1>6, <2>2, <2>3 DEF BindFails, Types, OwnerType, EngineType
<1>7. ASSUME NEW c \in Callers, Launch(c) PROVE Types'
  <2>1. caller[c].pool \in Loads /\ caller[c].index \in Indices
    BY <1>7, Holder DEF Launch, Holding
  <2>2. request' \in [Loads -> [Indices -> Request]]
    BY <1>7, <1>k, <2>1 DEF Launch
  <2>3. CASE Return(c, "started")
    <3>1. caller' \in [Callers -> Place] /\ outcome' \in [Jobs -> Outcome]
      BY <2>3, Returned
    <3> QED  BY <1>7, <2>2, <3>1 DEF Launch, Types, OwnerType, EngineType
  <2>4. CASE Go(c, "infer") /\ UNCHANGED outcome
    <3>1. caller' \in [Callers -> Place]
      BY <2>4, WentOn DEF Positions, Holding
    <3> QED  BY <1>7, <2>2, <2>4, <3>1 DEF Launch, Types, OwnerType, EngineType
  <2> QED  BY <1>7, <2>3, <2>4 DEF Launch
<1>8. ASSUME NEW n \in Loads, NEW i \in Indices, NEW a \in Answers, request[n][i].job \in Jobs
      PROVE  Told(request[n][i].job, a) \in [Jobs -> Outcome]
  BY <1>8, Answered
<1>9. ASSUME NEW c \in Callers, Inferred(c) PROVE Types'
  <2> DEFINE n == caller[c].pool i == caller[c].index r == request[n][i]
  <2>1. n \in Loads /\ i \in Indices /\ caller[c].job \in Jobs
    BY <1>9, Holder DEF Inferred, Holding
  <2>2. r \in Request /\ r.by = c /\ r.job = caller[c].job
    BY <1>9, <1>e, <2>1 DEF Inferred, ModelOfPool
  <2>3. Answer(n, r) \in Answers
    BY <1>a, <1>g, <2>1, <2>2 DEF Answer, Answers, Request, Loads
  <2>4. pool' \in [Loads -> Pool]
    BY <1>9, <2>1, GivenBack DEF Inferred
  <2>5. AtRest \in Place /\ Unbound \in Request
    BY <1>a DEF AtRest, Place, Positions, Unbound, Request
  <2>6. caller' \in [Callers -> Place]
    BY <1>9, <2>5, Moved DEF Inferred
  <2>7. request' \in [Loads -> [Indices -> Request]]
    BY <1>9, <2>1, <2>5, Rebound DEF Inferred
  <2>8. Told(r.job, Answer(n, r)) \in [Jobs -> Outcome] /\ outcome \in [Jobs -> Outcome]
    BY <1>8, <2>1, <2>2, <2>3 DEF Types
  <2>9. \A o \in [Jobs -> Outcome], x \in {"answered", "failed"} : [o EXCEPT ![r.job].returned = x] \in [Jobs -> Outcome]
    BY DEF Outcome
  <2>10. outcome' \in [Jobs -> Outcome]
    <3> HIDE DEF r
    <3>1. PICK ok \in BOOLEAN :
            outcome' = IF ok THEN [Told(r.job, Answer(n, r)) EXCEPT ![r.job].returned = "answered"]
                              ELSE [outcome EXCEPT ![r.job].returned = "failed"]
      BY <1>9 DEF Inferred, r
    <3> QED  BY <2>8, <2>9, <3>1
  <2> QED  BY <1>9, <2>4, <2>6, <2>7, <2>10 DEF Inferred, Types, OwnerType, EngineType
<1>10. ASSUME NEW n \in Loads, NEW i \in Indices, Run(n, i) PROVE Types'
  <2>1. request' \in [Loads -> [Indices -> Request]]
    BY <1>10, <1>k DEF Run
  <2> QED  BY <1>10, <2>1 DEF Run, Types, OwnerType, EngineType
<1>11. ASSUME NEW n \in Loads, NEW i \in Indices, CallBack(n, i) PROVE Types'
  <2> DEFINE r == request[n][i]
  <2>1. request' \in [Loads -> [Indices -> Request]]
    BY <1>11, <1>k DEF CallBack
  <2>2. r \in Request /\ r.copied /\ r.job \in Jobs
    BY <1>11, <1>a, <1>e, <1>g DEF CallBack, JobAtWork, AtWork, Jobs
  <2>3. Answer(n, r) \in Answers /\ NoAnswer \in Answers
    BY <1>a, <2>2 DEF Answer, NoAnswer, Answers, Request, Loads
  <2>4. outcome' \in [Jobs -> Outcome]
    BY <1>8, <1>11, <2>2, <2>3 DEF CallBack
  <2> QED  BY <1>11, <2>1, <2>4 DEF CallBack, Types, OwnerType, EngineType
<1>12. ASSUME NEW n \in Loads, NEW i \in Indices, CalledBack(n, i) PROVE Types'
  <2>1. Unbound \in Request
    BY <1>a DEF Unbound, Request
  <2>2. request' \in [Loads -> [Indices -> Request]] /\ pool' \in [Loads -> Pool]
    BY <1>12, <2>1, Rebound, GivenBack DEF CalledBack
  <2> QED  BY <1>12, <2>2 DEF CalledBack, Types, OwnerType, EngineType
<1>13. ASSUME NEW n \in Loads, NotifyOne(n) PROVE Types'
  <2>1. pool' \in [Loads -> Pool]
    BY <1>13, <1>l DEF NotifyOne
  <2>2. CASE \E c \in Asleep(n) : Go(c, "acquire") /\ UNCHANGED owner
    <3>1. PICK c \in Callers : Go(c, "acquire") /\ UNCHANGED owner
      BY <2>2 DEF Asleep
    <3>2. caller' \in [Callers -> Place]
      BY <3>1, WentOn DEF Positions
    <3> QED  BY <1>13, <2>1, <3>1, <3>2 DEF NotifyOne, Types, OwnerType, EngineType
  <2>3. CASE OwnerAsleep(n) /\ owner' = [owner EXCEPT !.todo = <<"wait_all">> \o Tail(@)] /\ UNCHANGED caller
    <3>1. InPlan(<<"wait_all">> \o Tail(owner.todo))
      BY <2>3, Again DEF OwnerAsleep
    <3>2. owner' \in OwnerType
      BY <1>b, <2>3, <3>1 DEF InPlan, OwnerType
    <3> QED  BY <1>13, <2>1, <2>3, <3>2 DEF NotifyOne, Types, OwnerType, EngineType
  <2>4. CASE UNCHANGED <<caller, owner>>
    BY <1>13, <2>1, <2>4 DEF NotifyOne, Types, OwnerType, EngineType
  <2> QED  BY <1>13, <2>2, <2>3, <2>4 DEF NotifyOne
<1>14. CASE LoadModel \/ Release
  <2>1. Releasing \in Seq(Steps) /\ Releasing \o Loading \in Seq(Steps)
    BY Plans DEF InPlan
  <2>2. owner' \in OwnerType
    <3>1. CASE LoadModel
      <4>1. owner.loads + 1 \in 0 .. MaxLoads
        BY <1>a, <1>b, <3>1 DEF LoadModel, OwnerType
      <4>2. \A t \in Seq(Steps) : [todo |-> t, pool |-> 0, loads |-> owner.loads + 1] \in OwnerType
        BY <1>a, <4>1 DEF OwnerType
      <4> QED  BY <2>1, <3>1, <4>2 DEF LoadModel
    <3>2. CASE Release
      BY <1>p, <2>1, <3>2 DEF Release
    <3> QED  BY <1>14, <3>1, <3>2
  <2> QED  BY <1>14, <2>2 DEF LoadModel, Release, Types, OwnerType, EngineType
<1>16. Done /\ owner.todo # <<>> => owner' \in OwnerType
  BY <1>b, PlanParts DEF Done, OwnerType
<1>17. CASE OwnerAssigns
  <2>1. owner' \in OwnerType
    BY <1>16, <1>17 DEF OwnerAssigns, OwnerAt
  <2>3. owner.loads \in 0 .. MaxLoads
    BY <1>b DEF OwnerType
  <2>2. engine' \in EngineType
    <3>1. CASE engine' = [engine EXCEPT !.accepting = FALSE] \/ engine' = [engine EXCEPT !.accepting = TRUE]
      BY <1>c, <3>1 DEF EngineType
    <3>2. CASE engine' = [engine EXCEPT !.initialized = FALSE] \/ engine' = [engine EXCEPT !.initialized = TRUE]
      BY <1>c, <3>2 DEF EngineType
    <3>3. CASE engine' = [engine EXCEPT !.model = 0] \/ engine' = [engine EXCEPT !.model = owner.loads]
      <4>1. 0 \in 0 .. MaxLoads
        BY <1>a
      <4> QED  BY <1>j, <2>3, <3>3, <4>1, Zenon
    <3> QED  BY <1>17, <3>1, <3>2, <3>3 DEF OwnerAssigns
  <2> QED  BY <1>17, <2>1, <2>2 DEF OwnerAssigns, Types, OwnerType, EngineType
<1>18. CASE MovePool
  <2>3. engine.pool \in 0 .. MaxLoads
    BY <1>c DEF EngineType
  <2>1. owner' \in OwnerType
    <3>1. CASE engine.pool = 0
      <4>1. owner' = [owner EXCEPT !.pool = engine.pool, !.todo = SubSeq(@, 5, Len(@))]
        BY <1>18, <3>1 DEF MovePool
      <4>2. SubSeq(owner.todo, 5, Len(owner.todo)) \in Seq(Steps)
        BY <1>18, PlanParts DEF MovePool, OwnerAt
      <4> QED  BY <1>i, <2>3, <4>1, <4>2
    <3>2. CASE engine.pool # 0
      <4>1. owner' = [owner EXCEPT !.pool = engine.pool, !.todo = Tail(@)]
        BY <1>18, <3>2 DEF MovePool
      <4>2. Tail(owner.todo) \in Seq(Steps)
        BY <1>18, PlanParts DEF MovePool, OwnerAt
      <4> QED  BY <1>i, <2>3, <4>1, <4>2
    <3> QED  BY <3>1, <3>2
  <2>2. engine' \in EngineType
    BY <1>18, <1>a, <1>c DEF MovePool, EngineType
  <2> QED  BY <1>18, <2>1, <2>2 DEF MovePool, Types, OwnerType, EngineType
<1>19. CASE Shutdown
  <2>1. owner' \in OwnerType
    BY <1>16, <1>19 DEF Shutdown, OwnerAt
  <2>2. pool' \in [Loads -> Pool]
    BY <1>19, <1>d DEF Shutdown, Pool
  <2> QED  BY <1>19, <2>1, <2>2 DEF Shutdown, Types, OwnerType, EngineType
<1>20. CASE NotifyAll
  <2>1. owner' \in OwnerType
    BY <1>16, <1>20 DEF NotifyAll, OwnerAt
  <2>2. caller' \in [Callers -> Place]
    BY <1>20, <1>f DEF NotifyAll, Place, Positions
  <2> QED  BY <1>20, <2>1, <2>2 DEF NotifyAll, Types, OwnerType, EngineType
<1>21. CASE WaitAll
  <2>1. owner' \in OwnerType
    <3>1. owner.todo # <<>> /\ Head(owner.todo) = "wait_all"
      BY <1>21 DEF WaitAll, OwnerAt
    <3>2. Tail(owner.todo) \in Seq(Steps) /\ <<"asleep">> \o Tail(owner.todo) \in Seq(Steps)
      BY <3>1, PlanParts
    <3>3. \/ owner' = [owner EXCEPT !.todo = Tail(@)]
          \/ owner' = [owner EXCEPT !.todo = <<"asleep">> \o Tail(@)]
      BY <1>21 DEF WaitAll
    <3> QED  BY <1>p, <3>2, <3>3
  <2> QED  BY <1>21, <2>1 DEF WaitAll, Types, OwnerType, EngineType
<1>22. CASE LoadFails
  <2>1. <<>> \in Seq(Steps)
    BY EmptySeq
  <2>2. owner' \in OwnerType
    BY <1>22, <1>b, <2>1 DEF LoadFails, OwnerType
  <2>3. engine' \in EngineType
    BY <1>22, <1>a DEF LoadFails, EngineType
  <2> QED  BY <1>22, <2>2, <2>3 DEF LoadFails, Types, OwnerType, EngineType
<1>23. CASE MakePool
  <2>1. owner' \in OwnerType
    BY <1>16, <1>23 DEF MakePool, OwnerAt
  <2>2. engine' \in EngineType
    BY <1>23, <1>b, <1>c DEF MakePool, EngineType, OwnerType
  <2> QED  BY <1>23, <2>1, <2>2 DEF MakePool, Types, OwnerType, EngineType
<1>24. CASE FillPool
  <2>1. owner' \in OwnerType
    BY <1>16, <1>24 DEF FillPool, OwnerAt
  <2>2. [i \in Indices |-> i] \in Seq(Indices)
    BY <1>a, SeqDef DEF Indices
  <2>3. pool' \in [Loads -> Pool]
    BY <1>24, <1>d, <2>2 DEF FillPool, Pool
  <2> QED  BY <1>24, <2>1, <2>3 DEF FillPool, Types, OwnerType, EngineType
<1> QED
  BY <1>0, <1>1, <1>2, <1>3, <1>4, <1>5, <1>6, <1>7, <1>9, <1>10, <1>11, <1>12, <1>13, <1>14, <1>17, <1>18, <1>19,
     <1>20, <1>21, <1>22, <1>23, <1>24 DEF Next, CallerStep, RuntimeStep, OwnerStep

-----------------------------------------------------------------------------
(* What a step of the owner leaves of its plan                             *)

\* A step that is done: the owner goes on with the one that follows it.
LEMMA DoneGoes ==
  ASSUME Types, InPlan(owner.todo), owner.todo # <<>>, Done
  PROVE  /\ InPlan(owner.todo)' /\ owner'.pool = owner.pool /\ owner'.loads = owner.loads
         /\ \/ Now' = "none" /\ Now \in {"clear_model", "accept"} /\ ~WillLoad'
            \/ Follows(Now, Now') /\ WillLoad' = WillLoad
         /\ Now \in LoadSteps => WillLoad
<1>1. owner'.todo = Tail(owner.todo) /\ owner'.pool = owner.pool /\ owner'.loads = owner.loads
  BY DEF Types, Done
<1>2. InPlan(owner.todo)'
  BY <1>1, Onward
<1>3. Now = Head(owner.todo) /\ WillLoad = (Last(owner.todo) = "accept")
  BY DEF Now, WillLoad
<1>4. CASE Tail(owner.todo) = <<>>
  <2>1. Now' = "none" /\ ~WillLoad'
    BY <1>1, <1>4 DEF Now, WillLoad
  <2>2. Now \in {"clear_model", "accept"} /\ (Now \in LoadSteps => WillLoad)
    BY <1>3, <1>4, Onward
  <2> QED  BY <1>1, <1>2, <2>1, <2>2
<1>5. CASE Tail(owner.todo) # <<>>
  <2>1. Now' = Head(Tail(owner.todo)) /\ WillLoad' = (Last(Tail(owner.todo)) = "accept")
    BY <1>1, <1>5 DEF Now, WillLoad
  <2>2. Follows(Now, Now') /\ WillLoad' = WillLoad
    BY <1>3, <1>5, <2>1, Onward
  <2>3. Now \in LoadSteps => WillLoad
    BY <1>3, Onward
  <2> QED  BY <1>1, <1>2, <2>2, <2>3
<1> QED  BY <1>4, <1>5

\* The owner falls asleep in WaitAll, or is woken.
LEMMA AsleepGoes ==
  ASSUME Types, InPlan(owner.todo), owner.todo # <<>>, Head(owner.todo) \in {"wait_all", "asleep"},
         NEW s \in {"wait_all", "asleep"}, owner' = [owner EXCEPT !.todo = <<s>> \o Tail(@)]
  PROVE  /\ InPlan(owner.todo)' /\ owner'.pool = owner.pool /\ owner'.loads = owner.loads
         /\ Now' = s /\ WillLoad' = WillLoad
<1>1. /\ owner'.todo = <<s>> \o Tail(owner.todo) /\ owner'.pool = owner.pool /\ owner'.loads = owner.loads
  BY DEF Types
<1>2. /\ InPlan(<<s>> \o Tail(owner.todo)) /\ <<s>> \o Tail(owner.todo) # <<>>
      /\ Head(<<s>> \o Tail(owner.todo)) = s /\ Last(<<s>> \o Tail(owner.todo)) = Last(owner.todo)
  BY Again
<1>3. InPlan(owner.todo)'
  BY <1>1, <1>2
<1>4. Now' = s /\ WillLoad' = WillLoad
  BY <1>1, <1>2 DEF Now, WillLoad
<1> QED  BY <1>1, <1>3, <1>4

\* The owner has moved the pool out of the engine.
LEMMA MoveGoes ==
  ASSUME Types, InPlan(owner.todo), MovePool
  PROVE  /\ InPlan(owner.todo)' /\ owner'.pool = engine.pool /\ owner'.loads = owner.loads
         /\ Now = "move_pool" /\ Now' = (IF engine.pool = 0 THEN "clear_model" ELSE "shutdown")
         /\ WillLoad' = WillLoad
<1>1. owner.todo # <<>> /\ Head(owner.todo) = "move_pool" /\ Now = "move_pool"
  BY DEF MovePool, OwnerAt, Now
<1>2. CASE engine.pool = 0
  <2> DEFINE u == SubSeq(owner.todo, 5, Len(owner.todo))
  <2>1. owner'.todo = u /\ owner'.pool = engine.pool /\ owner'.loads = owner.loads
    BY <1>2 DEF MovePool, Types
  <2>2. InPlan(u) /\ u # <<>> /\ Head(u) = "clear_model" /\ Last(u) = Last(owner.todo)
    BY <1>1, Skipped
  <2> HIDE DEF u
  <2>3. InPlan(owner.todo)'
    BY <2>1, <2>2
  <2>4. Now' = "clear_model" /\ WillLoad' = WillLoad
    BY <1>1, <2>1, <2>2 DEF Now, WillLoad
  <2> QED  BY <1>1, <1>2, <2>1, <2>3, <2>4
<1>3. CASE engine.pool # 0
  <2> DEFINE u == Tail(owner.todo)
  <2>1. owner'.todo = u /\ owner'.pool = engine.pool /\ owner'.loads = owner.loads
    BY <1>3 DEF MovePool, Types
  <2>2. InPlan(u) /\ u # <<>> /\ Head(u) = "shutdown" /\ Last(u) = Last(owner.todo)
    BY <1>1, Onward DEF Follows
  <2> HIDE DEF u
  <2>3. InPlan(owner.todo)'
    BY <2>1, <2>2
  <2>4. Now' = "shutdown" /\ WillLoad' = WillLoad
    BY <1>1, <2>1, <2>2 DEF Now, WillLoad
  <2> QED  BY <1>1, <1>3, <2>1, <2>3, <2>4
<1> QED  BY <1>2, <1>3

\* The owner begins LoadModel or Release.
LEMMA CallGoes ==
  ASSUME Types, LoadModel \/ Release
  PROVE  /\ InPlan(owner.todo)' /\ Now = "none" /\ Now' = "stop_accepting" /\ ~WillLoad
         /\ LoadModel => owner'.loads = owner.loads + 1 /\ owner'.pool = 0
         /\ Release => owner'.loads = owner.loads /\ owner'.pool = owner.pool /\ ~WillLoad'
<1>1. Now = "none" /\ ~WillLoad
  BY DEF LoadModel, Release, Now, WillLoad
<1>2. CASE LoadModel
  <2>1. owner'.todo = Releasing \o Loading /\ owner'.loads = owner.loads + 1 /\ owner'.pool = 0
    BY <1>2 DEF LoadModel
  <2>2. InPlan(owner.todo)'
    BY <2>1, Plans
  <2>3. Now' = "stop_accepting"
    BY <2>1, Plans DEF Now
  <2>4. ~Release
    <3>1. owner.loads \in Nat
      BY EngineAssumption DEF Types
    <3>2. Release => owner'.loads = owner.loads
      BY DEF Release, Types
    <3> QED  BY <2>1, <3>1, <3>2
  <2> QED  BY <1>1, <2>1, <2>2, <2>3, <2>4
<1>3. CASE Release
  <2>1. owner'.todo = Releasing /\ owner'.loads = owner.loads /\ owner'.pool = owner.pool
    BY <1>3 DEF Release, Types
  <2>2. InPlan(owner.todo)'
    BY <2>1, Plans
  <2>3. Now' = "stop_accepting"
    BY <2>1, Plans DEF Now
  <2>4. Last(Releasing) = "clear_model"
    BY DEF Releasing, Last
  <2>5. ~WillLoad'
    BY <2>1, <2>4 DEF WillLoad
  <2>6. ~LoadModel
    BY <2>1 DEF LoadModel, Types
  <2> QED  BY <1>1, <2>1, <2>2, <2>3, <2>5, <2>6
<1> QED  BY <1>2, <1>3

\* What was made stays made, in every step.
LEMMA PlanKept ==
  ASSUME Types, InPlan(owner.todo), [Next]_vars
  PROVE  /\ InPlan(owner.todo)'
         /\ \A n \in Nat : Made(n) => Made(n)'
         /\ \A n \in Nat : n <= owner.loads /\ (Unfilled => n < owner.loads) =>
              n <= owner'.loads /\ (Unfilled' => n < owner'.loads)
<1>1. owner.loads \in Nat
  BY EngineAssumption DEF Types
<1> DEFINE Goal == /\ InPlan(owner.todo)'
                   /\ owner'.loads = owner.loads /\ (Unmade' => Unmade) /\ (Unfilled' => Unfilled)
<1>2. CASE Goal
  BY <1>1, <1>2 DEF Made
<1>3. CASE owner' = owner
  BY <1>3 DEF Unmade, Unfilled, Now, WillLoad, Made
<1>4. CASE LoadModel \/ Release
  <2>1. CASE LoadModel
    BY <1>1, <2>1, CallGoes DEF Made
  <2>2. CASE Release
    BY <1>1, <2>2, CallGoes DEF Made, Unmade, Unfilled
  <2> QED  BY <1>4, <2>1, <2>2
<1>5. CASE Done /\ owner.todo # <<>>
  <2>1. InPlan(owner.todo)' /\ owner'.loads = owner.loads
    BY <1>5, DoneGoes
  <2>2. (Unmade' => Unmade) /\ (Unfilled' => Unfilled)
    BY <1>5, DoneGoes DEF Unmade, Unfilled, Follows
  <2> QED  BY <1>2, <2>1, <2>2
<1>6. CASE MovePool
  <2>1. InPlan(owner.todo)' /\ owner'.loads = owner.loads
    BY <1>6, MoveGoes
  <2>2. (Unmade' => Unmade) /\ (Unfilled' => Unfilled)
    BY <1>6, MoveGoes DEF Unmade, Unfilled
  <2> QED  BY <1>2, <2>1, <2>2
<1>7. ASSUME owner.todo # <<>>, NEW s \in {"wait_all", "asleep"}, Head(owner.todo) \in {"wait_all", "asleep"},
             owner' = [owner EXCEPT !.todo = <<s>> \o Tail(@)]
      PROVE  Goal
  <2>1. InPlan(owner.todo)' /\ owner'.loads = owner.loads /\ Now' = s /\ WillLoad' = WillLoad
    BY <1>7, AsleepGoes
  <2>2. (Unmade' => Unmade) /\ (Unfilled' => Unfilled)
    BY <1>7, <2>1 DEF Unmade, Unfilled, Now
  <2> QED  BY <2>1, <2>2
<1>8. CASE WaitAll
  <2>1. owner.todo # <<>> /\ Head(owner.todo) = "wait_all"
    BY <1>8 DEF WaitAll, OwnerAt
  <2>2. CASE Done
    BY <1>5, <2>1, <2>2
  <2>3. CASE owner' = [owner EXCEPT !.todo = <<"asleep">> \o Tail(@)]
    BY <1>2, <1>7, <2>1, <2>3
  <2> QED  BY <1>8, <2>2, <2>3 DEF WaitAll, Done
<1>9. CASE LoadFails
  <2>1. owner'.todo = <<>> /\ owner'.loads = owner.loads
    BY <1>9 DEF LoadFails, Types
  <2>2. InPlan(owner.todo)'
    BY <2>1, Plans
  <2>3. ~WillLoad'
    BY <2>1 DEF WillLoad
  <2> QED  BY <1>2, <2>1, <2>2, <2>3 DEF Unmade, Unfilled
<1>10. ASSUME NEW n \in Loads, NotifyOne(n)
       PROVE  owner' = owner \/ Goal
  <2>1. CASE OwnerAsleep(n) /\ owner' = [owner EXCEPT !.todo = <<"wait_all">> \o Tail(@)]
    BY <1>7, <2>1 DEF OwnerAsleep
  <2> QED  BY <1>10, <2>1 DEF NotifyOne
<1>11. OwnerStep => (Done /\ owner.todo # <<>>) \/ MovePool \/ WaitAll \/ LoadFails
  BY DEF OwnerStep, OwnerAssigns, Shutdown, NotifyAll, MakePool, FillPool, OwnerAt
<1>12. ASSUME NEW c \in Callers, Call(c) \/ CallerStep(c) PROVE owner' = owner
  BY <1>12 DEF Call, CallerStep, ReadPool, ReadModel, Check, CheckAccepting, Acquire, Bind, BindFails, Launch, Inferred
<1>13. ASSUME NEW n \in Loads, NEW i \in Indices, RuntimeStep(n, i) PROVE owner' = owner
  BY <1>13 DEF RuntimeStep, Run, CallBack, CalledBack
<1>14. CASE UNCHANGED vars
  BY <1>3, <1>14 DEF vars
<1> HIDE DEF Goal
<1> QED  BY <1>2, <1>3, <1>4, <1>5, <1>6, <1>8, <1>9, <1>10, <1>11, <1>12, <1>13, <1>14 DEF Next

-----------------------------------------------------------------------------
(* Pools and models in turn                                                *)

\* What the steps of everybody but the owner leave of the engine and the pools.
LEMMA OwnersAlone ==
  ASSUME Types, ModelOfPool, JobOfCall
  PROVE  /\ \A c \in Callers : Call(c) \/ CallerStep(c) =>
              /\ UNCHANGED <<engine, owner>>
              /\ \A n \in Loads : pool'[n].filled = pool[n].filled /\ pool'[n].shutdown = pool[n].shutdown
         /\ \A n \in Loads, i \in Indices : RuntimeStep(n, i) =>
              /\ UNCHANGED <<engine, owner>>
              /\ \A m \in Loads : pool'[m].filled = pool[m].filled /\ pool'[m].shutdown = pool[m].shutdown
         /\ \A n \in Loads : NotifyOne(n) =>
              /\ UNCHANGED engine
              /\ \A m \in Loads : pool'[m].filled = pool[m].filled /\ pool'[m].shutdown = pool[m].shutdown
<1>1. pool \in [Loads -> Pool]
  BY DEF Types
<1>2. ASSUME NEW c \in Callers, Call(c) \/ CallerStep(c)
      PROVE  /\ UNCHANGED <<engine, owner>>
             /\ \A n \in Loads : pool'[n].filled = pool[n].filled /\ pool'[n].shutdown = pool[n].shutdown
  <2>1. UNCHANGED <<engine, owner>>
    BY <1>2 DEF Call, CallerStep, ReadPool, ReadModel, Check, CheckAccepting, Acquire, Bind, BindFails, Launch, Inferred
  <2>2. CASE UNCHANGED pool
    BY <2>1, <2>2
  <2>3. CASE caller[c].at \in Holding /\ GiveBack(caller[c].pool, caller[c].index)
    <3>1. caller[c].pool \in Loads /\ caller[c].index \in Indices
      BY <2>3, Holder
    <3> QED  BY <2>1, <2>3, <3>1, GivenBack
  <2>4. CASE pool' = [pool EXCEPT ![caller[c].pool].idle = Tail(@)]
    BY <1>1, <2>1, <2>4 DEF Pool
  <2> QED  BY <1>2, <2>2, <2>3, <2>4 DEF Call, CallerStep, ReadPool, ReadModel, Check, CheckAccepting, Acquire, Bind,
             BindFails, Launch, Inferred, Holding
<1>3. ASSUME NEW n \in Loads, NEW i \in Indices, RuntimeStep(n, i)
      PROVE  /\ UNCHANGED <<engine, owner>>
             /\ \A m \in Loads : pool'[m].filled = pool[m].filled /\ pool'[m].shutdown = pool[m].shutdown
  <2>1. UNCHANGED <<engine, owner>>
    BY <1>3 DEF RuntimeStep, Run, CallBack, CalledBack
  <2>2. UNCHANGED pool \/ GiveBack(n, i)
    BY <1>3 DEF RuntimeStep, Run, CallBack, CalledBack
  <2> QED  BY <2>1, <2>2, GivenBack
<1>4. ASSUME NEW n \in Loads, NotifyOne(n)
      PROVE  /\ UNCHANGED engine
             /\ \A m \in Loads : pool'[m].filled = pool[m].filled /\ pool'[m].shutdown = pool[m].shutdown
  <2>1. pool' = [pool EXCEPT ![n].notifying = @ - 1] /\ UNCHANGED engine
    BY <1>4 DEF NotifyOne
  <2> QED  BY <1>1, <2>1 DEF Pool
<1> QED  BY <1>2, <1>3, <1>4

\* Every step keeps the engine to one load, and fills and shuts down the pools in turn.
LEMMA EngineKept ==
  ASSUME Types, InPlan(owner.todo), EngineOfOneLoad, PoolsInTurn, ModelOfPool, JobOfCall, [Next]_vars
  PROVE  EngineOfOneLoad' /\ PoolsInTurn'
<1> DEFINE Same == \A n \in Loads : pool'[n].filled = pool[n].filled /\ pool'[n].shutdown = pool[n].shutdown
           OwnPool(n) == pool[n].filled => n <= owner.loads /\ (Unfilled => n < owner.loads)
           InUse(n) == pool[n].filled /\ ~pool[n].shutdown => engine.pool = n \/ (owner.pool = n /\ Now = "shutdown")
           ModelAsPool == engine.pool # 0 => engine.model = engine.pool /\ Made(engine.pool)
<1>1. /\ MaxLoads \in Nat /\ engine.pool \in Nat /\ engine.model \in Nat /\ owner.loads \in 0 .. MaxLoads
      /\ Loads \subseteq Nat /\ \A n \in Loads : n # 0
  BY EngineAssumption DEF Types, Loads
<1>2. pool \in [Loads -> Pool]
  BY DEF Types
<1>3. Same => \A n \in Loads : OwnPool(n)'
  BY <1>1, PlanKept DEF PoolsInTurn
<1>4. UNCHANGED engine => ModelAsPool'
  BY <1>1, PlanKept DEF EngineOfOneLoad
<1>5. CASE UNCHANGED <<engine, owner>> /\ Same
  <2>1. UNCHANGED <<Now, Made(engine.pool), Unfilled>>
    BY <1>5 DEF Now, Made, Unmade, Unfilled, WillLoad
  <2>2. EngineOfOneLoad'
    BY <1>5, <2>1 DEF EngineOfOneLoad
  <2> QED  BY <1>5, <2>1, <2>2 DEF PoolsInTurn
<1>6. CASE UNCHANGED vars
  BY <1>5, <1>6 DEF vars
<1>7. ASSUME NEW n \in Loads, NotifyOne(n) PROVE EngineOfOneLoad' /\ PoolsInTurn'
  <2>1. UNCHANGED engine /\ Same
    BY <1>7, OwnersAlone
  <2>2. CASE OwnerAsleep(n) /\ owner' = [owner EXCEPT !.todo = <<"wait_all">> \o Tail(@)]
    <3>1. Now = "asleep" /\ Now' = "wait_all" /\ owner'.pool = owner.pool
      BY <2>2, AsleepGoes DEF OwnerAsleep, Now
    <3>2. EngineOfOneLoad'
      BY <1>4, <2>1, <3>1 DEF EngineOfOneLoad
    <3>3. \A m \in Loads : InUse(m)'
      BY <2>1, <3>1 DEF PoolsInTurn
    <3> QED  BY <1>3, <2>1, <3>2, <3>3 DEF PoolsInTurn
  <2> QED  BY <1>5, <1>7, <2>1, <2>2 DEF NotifyOne
<1>8. CASE LoadModel \/ Release
  <2>1. Now = "none" /\ Now' = "stop_accepting" /\ UNCHANGED <<engine, pool>>
    BY <1>8, CallGoes DEF LoadModel, Release
  <2>2. EngineOfOneLoad'
    BY <1>4, <2>1 DEF EngineOfOneLoad
  <2>3. \A n \in Loads : InUse(n)'
    BY <2>1 DEF PoolsInTurn
  <2> QED  BY <1>3, <2>1, <2>2, <2>3 DEF PoolsInTurn
<1>9. OwnerAssigns \/ Shutdown \/ NotifyAll \/ MakePool \/ FillPool \/ (WaitAll /\ AllBack(owner.pool)) =>
        /\ owner.todo # <<>> /\ Done /\ Now = Head(owner.todo)
        /\ owner'.pool = owner.pool /\ owner'.loads = owner.loads
        /\ \/ Now' = "none" /\ Now \in {"clear_model", "accept"} /\ ~WillLoad'
           \/ Follows(Now, Now') /\ WillLoad' = WillLoad
        /\ Now \in LoadSteps => WillLoad
  <2>1. OwnerAssigns \/ Shutdown \/ NotifyAll \/ MakePool \/ FillPool \/ (WaitAll /\ AllBack(owner.pool)) =>
          owner.todo # <<>> /\ Done
    BY DEF OwnerAssigns, Shutdown, NotifyAll, MakePool, FillPool, WaitAll, OwnerAt, Done
  <2>2. owner.todo # <<>> => Now = Head(owner.todo)
    BY DEF Now
  <2> QED  BY <2>1, <2>2, DoneGoes
<1>10. CASE OwnerAssigns
  <2>1. UNCHANGED pool /\ engine'.pool = engine.pool
    BY <1>10 DEF OwnerAssigns, Types
  <2>2. CASE Now \in {"stop_accepting", "uninitialize", "initialize", "accept"}
    <3>1. engine'.model = engine.model
      BY <1>9, <1>10, <2>2 DEF OwnerAssigns, OwnerAt, Types
    <3>2. Now' \in {"uninitialize", "move_pool", "accept", "none"}
      BY <1>9, <1>10, <2>2 DEF Follows
    <3>3. ModelAsPool'
      BY <1>1, <2>1, <3>1, PlanKept DEF EngineOfOneLoad
    <3>4. EngineOfOneLoad'
      BY <3>2, <3>3 DEF EngineOfOneLoad
    <3>5. \A n \in Loads : InUse(n)'
      BY <1>9, <1>10, <2>1, <2>2 DEF PoolsInTurn
    <3> QED  BY <1>3, <2>1, <3>4, <3>5 DEF PoolsInTurn
  <2>3. CASE Now \in {"clear_model", "compile"}
    <3>1. engine.pool = 0 /\ engine'.pool = 0
      BY <2>1, <2>3 DEF EngineOfOneLoad
    <3>2. Now' \in {"compile", "make_pool", "none"} /\ (Now' = "make_pool" => Now = "compile")
      BY <1>9, <1>10, <2>3 DEF Follows
    <3>3. Now = "compile" => engine'.model = owner'.loads
      BY <1>9, <1>10 DEF OwnerAssigns, OwnerAt, Types
    <3>4. EngineOfOneLoad'
      BY <3>1, <3>2, <3>3 DEF EngineOfOneLoad
    <3>5. \A n \in Loads : InUse(n)'
      BY <1>9, <1>10, <2>1, <2>3 DEF PoolsInTurn
    <3> QED  BY <1>3, <2>1, <3>4, <3>5 DEF PoolsInTurn
  <2> QED  BY <1>9, <1>10, <2>2, <2>3 DEF OwnerAssigns, OwnerAt
<1>11. CASE MovePool
  <2>1. /\ Now = "move_pool" /\ Now' = (IF engine.pool = 0 THEN "clear_model" ELSE "shutdown")
        /\ owner'.pool = engine.pool /\ owner'.loads = owner.loads
    BY <1>11, MoveGoes
  <2>2. engine'.pool = 0 /\ engine'.model = engine.model /\ UNCHANGED pool
    BY <1>11 DEF MovePool, Types
  <2>3. engine.pool # 0 => engine.model = engine.pool
    BY DEF EngineOfOneLoad
  <2>4. EngineOfOneLoad'
    BY <2>1, <2>2, <2>3 DEF EngineOfOneLoad
  <2>5. \A n \in Loads : InUse(n)'
    BY <1>1, <2>1, <2>2 DEF PoolsInTurn
  <2> QED  BY <1>3, <2>2, <2>4, <2>5 DEF PoolsInTurn
<1>12. CASE Shutdown
  <2>1. Now = "shutdown" /\ Now' = "notify_all"
    BY <1>9, <1>12 DEF Shutdown, OwnerAt, Follows
  <2>2. UNCHANGED engine /\ pool' = [pool EXCEPT ![owner.pool].shutdown = TRUE]
    BY <1>12 DEF Shutdown
  <2>3. \A n \in Loads : /\ pool'[n].filled = pool[n].filled
                         /\ pool'[n].shutdown = IF n = owner.pool THEN TRUE ELSE pool[n].shutdown
    BY <1>2, <2>2 DEF Pool
  <2>4. EngineOfOneLoad'
    BY <1>4, <1>9, <1>12, <2>1, <2>2 DEF EngineOfOneLoad
  <2>5. \A n \in Loads : OwnPool(n)'
    BY <1>1, <2>3, PlanKept DEF PoolsInTurn
  <2>6. \A n \in Loads : InUse(n)'
    BY <2>1, <2>2, <2>3 DEF PoolsInTurn
  <2> QED  BY <2>4, <2>5, <2>6 DEF PoolsInTurn
<1>13. CASE NotifyAll \/ WaitAll
  <2>1. UNCHANGED <<engine, pool>>
    BY <1>13 DEF NotifyAll, WaitAll
  <2>2. /\ Now \in {"notify_all", "wait_all"} /\ Now' \in {"wait_all", "asleep", "clear_model"}
        /\ owner'.pool = owner.pool
    <3>1. CASE NotifyAll
      BY <1>9, <3>1 DEF NotifyAll, OwnerAt, Follows
    <3>2. CASE WaitAll /\ AllBack(owner.pool)
      BY <1>9, <3>2 DEF WaitAll, OwnerAt, Follows
    <3>3. CASE WaitAll /\ ~AllBack(owner.pool)
      <4>1. /\ owner.todo # <<>> /\ Head(owner.todo) = "wait_all"
            /\ owner' = [owner EXCEPT !.todo = <<"asleep">> \o Tail(@)]
        BY <3>3 DEF WaitAll, OwnerAt
      <4> QED  BY <4>1, AsleepGoes DEF Now
    <3> QED  BY <1>13, <3>1, <3>2, <3>3
  <2>3. EngineOfOneLoad'
    BY <1>4, <2>1, <2>2 DEF EngineOfOneLoad
  <2>4. \A n \in Loads : InUse(n)'
    BY <2>1, <2>2 DEF PoolsInTurn
  <2> QED  BY <1>3, <2>1, <2>3, <2>4 DEF PoolsInTurn
<1>14. CASE LoadFails
  <2>1. Now' = "none" /\ engine'.pool = 0 /\ UNCHANGED pool
    BY <1>14 DEF LoadFails, Now, Types
  <2>2. Now \in {"compile", "fill_pool"} /\ owner.todo # <<>> /\ Now = Head(owner.todo)
    BY <1>14 DEF LoadFails, OwnerAt, Now
  <2>3. WillLoad
    BY <2>2, Onward DEF WillLoad, LoadSteps
  <2>4. EngineOfOneLoad'
    BY <2>1 DEF EngineOfOneLoad
  <2>5. ASSUME NEW n \in Loads PROVE InUse(n)'
    <3> SUFFICES ASSUME pool[n].filled, ~pool[n].shutdown PROVE FALSE
      BY <2>1
    <3>1. engine.pool = n /\ n # 0
      BY <1>1, <2>2, <2>5 DEF PoolsInTurn
    <3>2. Now = "fill_pool" /\ n = owner.loads
      BY <2>2, <3>1 DEF EngineOfOneLoad
    <3>3. n < owner.loads
      BY <2>3, <2>5, <3>2 DEF PoolsInTurn, Unfilled
    <3> QED  BY <1>1, <3>2, <3>3
  <2> QED  BY <1>3, <2>1, <2>4, <2>5 DEF PoolsInTurn
<1>15. CASE MakePool
  <2>1. Now = "make_pool" /\ Now' = "fill_pool" /\ owner'.loads = owner.loads
    BY <1>9, <1>15 DEF MakePool, OwnerAt, Follows
  <2>2. engine'.pool = owner.loads /\ engine'.model = engine.model /\ UNCHANGED pool
    BY <1>15 DEF MakePool, Types
  <2>3. engine.pool = 0 /\ engine.model = owner.loads
    BY <2>1 DEF EngineOfOneLoad
  <2>4. Made(owner.loads)'
    BY <1>1, <2>1 DEF Made, Unmade
  <2>5. EngineOfOneLoad'
    BY <2>1, <2>2, <2>3, <2>4 DEF EngineOfOneLoad, Made
  <2>6. \A n \in Loads : InUse(n)'
    BY <1>1, <2>1, <2>2, <2>3 DEF PoolsInTurn
  <2> QED  BY <1>3, <2>2, <2>5, <2>6 DEF PoolsInTurn
<1>16. CASE FillPool
  <2>1. Now = "fill_pool" /\ Now' = "initialize" /\ owner'.loads = owner.loads
    BY <1>9, <1>16 DEF FillPool, OwnerAt, Follows
  <2>2. UNCHANGED engine /\ engine.pool = owner.loads
    BY <1>16, <2>1 DEF FillPool, EngineOfOneLoad
  <2>3. \A n \in Loads : /\ pool'[n].shutdown = pool[n].shutdown
                         /\ n # owner.loads => pool'[n].filled = pool[n].filled
    BY <1>2, <1>16 DEF FillPool, Pool
  <2>4. EngineOfOneLoad'
    BY <1>4, <2>1, <2>2 DEF EngineOfOneLoad
  <2>5. \A n \in Loads : OwnPool(n)'
    <3>1. ~Unfilled'
      BY <2>1 DEF Unfilled
    <3> QED  BY <1>1, <2>1, <2>3, <3>1 DEF PoolsInTurn
  <2>6. \A n \in Loads : InUse(n)'
    BY <2>1, <2>2, <2>3 DEF PoolsInTurn
  <2> QED  BY <2>4, <2>5, <2>6 DEF PoolsInTurn
<1> HIDE DEF Same
<1>17. ASSUME NEW c \in Callers, Call(c) \/ CallerStep(c) PROVE EngineOfOneLoad' /\ PoolsInTurn'
  BY <1>5, <1>17, OwnersAlone DEF Same
<1>18. ASSUME NEW n \in Loads, NEW i \in Indices, RuntimeStep(n, i) PROVE EngineOfOneLoad' /\ PoolsInTurn'
  BY <1>5, <1>18, OwnersAlone DEF Same
<1> QED  BY <1>6, <1>7, <1>8, <1>10, <1>11, <1>12, <1>13, <1>14, <1>15, <1>16, <1>17, <1>18 DEF Next, OwnerStep

-----------------------------------------------------------------------------
(* Where the requests are                                                  *)

\* A sequence without repetition stays so when something new is appended.
LEMMA AppendOnce ==
  ASSUME NEW S, NEW s \in Seq(S), NEW x \in S, IsInjective(s), x \notin Range(s)
  PROVE  IsInjective(Append(s, x)) /\ \A y : y \in Range(Append(s, x)) <=> y \in Range(s) \/ y = x
<1> DEFINE t == Append(s, x)
<1>1. /\ Len(s) \in Nat /\ DOMAIN s = 1 .. Len(s) /\ DOMAIN t = 1 .. Len(s) + 1
      /\ t[Len(s) + 1] = x /\ \A k \in 1 .. Len(s) : t[k] = s[k]
  BY AppendProperties, LenProperties
<1> HIDE DEF t
<1>2. \A k \in 1 .. Len(s) : s[k] # x
  BY <1>1 DEF Range
<1>3. IsInjective(t)
  <2> SUFFICES ASSUME NEW a \in 1 .. Len(s) + 1, NEW b \in 1 .. Len(s) + 1, t[a] = t[b] PROVE a = b
    BY <1>1 DEF IsInjective
  <2>1. CASE a \in 1 .. Len(s) /\ b \in 1 .. Len(s)
    BY <1>1, <2>1 DEF IsInjective
  <2>2. CASE a = Len(s) + 1 \/ b = Len(s) + 1
    BY <1>1, <1>2, <2>2
  <2> QED  BY <1>1, <2>1, <2>2
<1>4. ASSUME NEW y PROVE y \in Range(t) <=> y \in Range(s) \/ y = x
  <2>1. ASSUME y \in Range(t) PROVE y \in Range(s) \/ y = x
    <3>1. PICK k \in 1 .. Len(s) + 1 : t[k] = y
      BY <1>1, <2>1 DEF Range
    <3> QED  BY <1>1, <3>1 DEF Range
  <2>2. ASSUME y \in Range(s) PROVE y \in Range(t)
    <3>1. PICK k \in 1 .. Len(s) : s[k] = y
      BY <1>1, <2>2 DEF Range
    <3>2. k \in DOMAIN t /\ t[k] = y
      BY <1>1, <3>1
    <3> QED  BY <3>2 DEF Range
  <2>3. x \in Range(t)
    BY <1>1 DEF Range
  <2> QED  BY <2>1, <2>2, <2>3
<1> QED  BY <1>3, <1>4 DEF t

\* A sequence without repetition stays so when its head is taken, which is gone from it.
LEMMA TailOnce ==
  ASSUME NEW S, NEW s \in Seq(S), s # <<>>, IsInjective(s)
  PROVE  /\ IsInjective(Tail(s)) /\ Head(s) \in S /\ Head(s) \in Range(s) /\ Head(s) \notin Range(Tail(s))
         /\ \A y : y # Head(s) => (y \in Range(Tail(s)) <=> y \in Range(s))
<1> DEFINE t == Tail(s)
<1>1. /\ Len(s) \in Nat \ {0} /\ DOMAIN s = 1 .. Len(s) /\ DOMAIN t = 1 .. Len(s) - 1
      /\ \A k \in 1 .. Len(s) - 1 : t[k] = s[k + 1]
  BY HeadTailProperties, LenProperties, EmptySeq
<1>2. Head(s) = s[1] /\ Head(s) \in S
  BY HeadTailProperties
<1> HIDE DEF t
<1>3. Head(s) \in Range(s)
  BY <1>1, <1>2 DEF Range
<1>4. \A a, b \in 1 .. Len(s) : s[a] = s[b] => a = b
  BY <1>1 DEF IsInjective
<1>5. IsInjective(t)
  <2> SUFFICES ASSUME NEW a \in 1 .. Len(s) - 1, NEW b \in 1 .. Len(s) - 1, t[a] = t[b] PROVE a = b
    BY <1>1 DEF IsInjective
  <2>1. a + 1 \in 1 .. Len(s) /\ b + 1 \in 1 .. Len(s) /\ s[a + 1] = s[b + 1]
    BY <1>1
  <2> QED  BY <1>4, <2>1
<1>6. Head(s) \notin Range(t)
  <2> SUFFICES ASSUME NEW a \in 1 .. Len(s) - 1, t[a] = s[1] PROVE FALSE
    BY <1>1, <1>2 DEF Range
  <2>1. a + 1 \in 1 .. Len(s) /\ 1 \in 1 .. Len(s) /\ s[a + 1] = s[1]
    BY <1>1
  <2> QED  BY <1>4, <2>1
<1>7. ASSUME NEW y, y # Head(s) PROVE y \in Range(t) <=> y \in Range(s)
  <2>1. ASSUME y \in Range(t) PROVE y \in Range(s)
    <3>1. PICK k \in 1 .. Len(s) - 1 : t[k] = y
      BY <1>1, <2>1 DEF Range
    <3>2. k + 1 \in 1 .. Len(s) /\ s[k + 1] = y
      BY <1>1, <3>1
    <3> QED  BY <1>1, <3>2 DEF Range
  <2>2. ASSUME y \in Range(s) PROVE y \in Range(t)
    <3>1. PICK k \in 1 .. Len(s) : s[k] = y
      BY <1>1, <2>2 DEF Range
    <3>2. k - 1 \in 1 .. Len(s) - 1 /\ (k - 1) + 1 = k
      BY <1>1, <1>2, <1>7, <3>1
    <3>3. t[k - 1] = y
      BY <1>1, <3>1, <3>2
    <3> QED  BY <1>1, <3>2, <3>3 DEF Range
  <2> QED  BY <2>1, <2>2
<1> QED  BY <1>2, <1>3, <1>5, <1>6, <1>7 DEF t

\* Only the request i of pool n has moved.
LEMMA OneMoved ==
  ASSUME NEW n \in Loads, NEW i \in Indices, \A m \in Loads : Conserved(m),
         \A m \in Loads : pool'[m].filled = pool[m].filled,
         \A m \in Loads : Queue(m)',
         \A m \in Loads, k \in Indices : m # n \/ k # i =>
           /\ AtWork(m, k)' = AtWork(m, k) /\ IsIdle(m, k)' = IsIdle(m, k)
           /\ \A c \in Callers : Holds(c, m, k)' = Holds(c, m, k),
         Whereabouts(n, i)'
  PROVE  \A m \in Loads : Conserved(m)'
<1> SUFFICES ASSUME NEW m \in Loads, NEW k \in Indices, m # n \/ k # i PROVE Whereabouts(m, k)'
  BY DEF Conserved
<1>1. Whereabouts(m, k)
  BY DEF Conserved
<1>2. /\ AtWork(m, k)' = AtWork(m, k) /\ IsIdle(m, k)' = IsIdle(m, k)
      /\ \A c \in Callers : Holds(c, m, k)' = Holds(c, m, k)
  OBVIOUS
<1>3. Held(m, k)' = Held(m, k)
  BY <1>2 DEF Held, Holds, Holding
<1> QED  BY <1>1, <1>2, <1>3 DEF Whereabouts

\* No request has moved.
LEMMA NoneMoved ==
  ASSUME \A m \in Loads : Conserved(m),
         \A m \in Loads : pool'[m].filled = pool[m].filled /\ pool'[m].idle = pool[m].idle,
         \A m \in Loads, k \in Indices : AtWork(m, k)' = AtWork(m, k),
         \A c \in Callers : \/ caller'[c].at \notin Holding /\ caller[c].at \notin Holding
                            \/ /\ caller'[c].at \in Holding /\ caller[c].at \in Holding
                               /\ caller'[c].pool = caller[c].pool /\ caller'[c].index = caller[c].index
  PROVE  \A m \in Loads : Conserved(m)' /\ \A k \in Indices : Held(m, k)' = Held(m, k)
<1> SUFFICES ASSUME NEW m \in Loads
             PROVE  Conserved(m)' /\ \A k \in Indices : Held(m, k)' = Held(m, k)
  OBVIOUS
<1>1. Queue(m)'
  BY DEF Conserved, Queue
<1>2. ASSUME NEW k \in Indices PROVE Whereabouts(m, k)' /\ Held(m, k)' = Held(m, k)
  <2>1. \A c \in Callers : Holds(c, m, k)' = Holds(c, m, k)
    BY DEF Holds
  <2>2. Held(m, k)' = Held(m, k)
    BY <2>1 DEF Held, Holds, Holding
  <2>3. IsIdle(m, k)' = IsIdle(m, k) /\ Whereabouts(m, k)
    BY <1>2 DEF IsIdle, Conserved
  <2> QED  BY <1>2, <2>1, <2>2, <2>3 DEF Whereabouts
<1> QED  BY <1>1, <1>2 DEF Conserved

\* A request has gone back to its pool.
LEMMA WentBack ==
  ASSUME Types, \A m \in Loads : Conserved(m), NEW n \in Loads, NEW i \in Indices, GiveBack(n, i),
         AtWork(n, i) \/ Held(n, i),
         ~AtWork(n, i)', \A c \in Callers : ~Holds(c, n, i)',
         \A m \in Loads, k \in Indices : m # n \/ k # i =>
           AtWork(m, k)' = AtWork(m, k) /\ \A c \in Callers : Holds(c, m, k)' = Holds(c, m, k)
  PROVE  \A m \in Loads : Conserved(m)'
<1>1. /\ \A m \in Loads : pool'[m].filled = pool[m].filled /\ (m # n => pool'[m].idle = pool[m].idle)
      /\ pool'[n].idle = Append(pool[n].idle, i) /\ pool[n].idle \in Seq(Indices)
  BY GivenBack, Parts
<1>2. Whereabouts(n, i) /\ \A m \in Loads : Queue(m)
  BY DEF Conserved
<1>3. pool[n].filled /\ i \notin Range(pool[n].idle)
  BY <1>2 DEF Whereabouts, IsIdle
<1>4. /\ IsInjective(pool'[n].idle)
      /\ \A y : y \in Range(pool'[n].idle) <=> y \in Range(pool[n].idle) \/ y = i
  BY <1>1, <1>2, <1>3, AppendOnce DEF Queue
<1>5. \A m \in Loads : Queue(m)'
  BY <1>1, <1>2, <1>3, <1>4 DEF Queue
<1>6. ASSUME NEW m \in Loads, NEW k \in Indices, m # n \/ k # i PROVE IsIdle(m, k)' = IsIdle(m, k)
  <2>1. CASE m # n
    BY <1>1, <2>1 DEF IsIdle
  <2>2. CASE m = n
    <3>1. IsIdle(n, k)' <=> IsIdle(n, k)
      BY <1>4, <1>6, <2>2 DEF IsIdle
    <3> QED  BY <2>2, <3>1 DEF IsIdle
  <2> QED  BY <2>1, <2>2
<1>7. Whereabouts(n, i)'
  <2>1. ~Held(n, i)'
    BY DEF Held, Holds, Holding
  <2>2. IsIdle(n, i)'
    BY <1>4 DEF IsIdle
  <2> QED  BY <2>1, <2>2 DEF Whereabouts
<1> QED  BY <1>1, <1>5, <1>6, <1>7, OneMoved

\* A pool whose requests are all in its queue lends none.
LEMMA AllBackIsQuiet ==
  ASSUME Types, NEW n \in Loads, Conserved(n), AllBack(n)
  PROVE  Quiet(n)
<1> DEFINE s == pool[n].idle
<1>1. /\ s \in Seq(Indices) /\ IsInjective(s) /\ Len(s) >= RequestCount /\ RequestCount \in Nat
  BY Parts DEF Conserved, Queue, AllBack
<1>2. Len(s) \in Nat /\ s \in [1 .. Len(s) -> Indices] /\ DOMAIN s = 1 .. Len(s)
  BY <1>1, LenProperties
<1> HIDE DEF s
<1>3. IsFiniteSet(Indices) /\ Cardinality(Indices) = RequestCount /\ Cardinality(1 .. Len(s)) = Len(s)
  <2>1. \A k \in Nat : IsFiniteSet(1 .. k) /\ Cardinality(1 .. k) = k
    BY FS_Interval
  <2> QED  BY <1>1, <1>2, <2>1 DEF Indices
<1>4. s \in Injection(1 .. Len(s), Indices)
  BY <1>1, <1>2 DEF Injection
<1>5. s \in Surjection(1 .. Len(s), Indices)
  <2>1. Cardinality(1 .. Len(s)) <= Cardinality(Indices)
    BY <1>3, <1>4, FS_Injection
  <2>2. Cardinality(1 .. Len(s)) = Cardinality(Indices)
    BY <1>1, <1>2, <1>3, <2>1
  <2> QED  BY <1>3, <1>4, <2>2, FS_Injection
<1>6. ASSUME NEW i \in Indices PROVE i \in Range(s)
  <2>1. \E k \in 1 .. Len(s) : s[k] = i
    BY <1>5, <1>6 DEF Surjection
  <2> QED  BY <1>2, <2>1 DEF Range
<1>7. \A i \in Indices : IsIdle(n, i)
  BY <1>6 DEF IsIdle, s
<1> QED  BY <1>7 DEF Conserved, Whereabouts, Quiet

\* A pool that was waited for stays quiet while nothing new is held or at work.
LEMMA StillQuiet ==
  ASSUME QuietOnceWaited,
         \A n \in Loads : pool'[n].shutdown =>
           \/ pool[n].shutdown /\ ~(owner.pool = n /\ Now \in {"notify_all", "wait_all", "asleep"})
           \/ owner'.pool = n /\ Now' \in {"notify_all", "wait_all", "asleep"}
           \/ pool[n].shutdown /\ Quiet(n),
         \A n \in Loads, i \in Indices :
           Held(n, i)' \/ AtWork(n, i)' => Held(n, i) \/ AtWork(n, i) \/ ~pool[n].shutdown
  PROVE  QuietOnceWaited'
<1> SUFFICES ASSUME NEW n \in Loads, pool'[n].shutdown,
                    ~(owner'.pool = n /\ Now' \in {"notify_all", "wait_all", "asleep"})
             PROVE  Quiet(n)'
  BY DEF QuietOnceWaited
<1>1. pool[n].shutdown /\ Quiet(n)
  BY DEF QuietOnceWaited
<1> QED  BY <1>1 DEF Quiet

\* Every step keeps each request in one place, and a pool that was waited for quiet.
LEMMA RequestsKept ==
  ASSUME Types, InPlan(owner.todo), EngineOfOneLoad, PoolsInTurn, \A n \in Loads : Conserved(n),
         ModelOfPool, JobOfCall, JobAtWork, QuietOnceWaited, [Next]_vars
  PROVE  (\A n \in Loads : Conserved(n)') /\ QuietOnceWaited'
<1> DEFINE Goal == (\A n \in Loads : Conserved(n)') /\ QuietOnceWaited'
           SameOwner == owner' = owner /\ \A n \in Loads : pool'[n].shutdown = pool[n].shutdown
           NoNewUser == \A m \in Loads, k \in Indices :
             Held(m, k)' \/ AtWork(m, k)' => Held(m, k) \/ AtWork(m, k) \/ ~pool[m].shutdown
<1>1. /\ pool \in [Loads -> Pool] /\ caller \in [Callers -> Place]
      /\ request \in [Loads -> [Indices -> Request]]
  BY DEF Types
<1>2. \A m \in Loads, k \in Indices : Whereabouts(m, k) /\ Queue(m)
  BY DEF Conserved
<1>3. SameOwner /\ NoNewUser => QuietOnceWaited'
  BY StillQuiet DEF Now
<1> DEFINE CallersStay == \A c \in Callers :
             \/ caller'[c].at \notin Holding /\ caller[c].at \notin Holding
             \/ /\ caller'[c].at \in Holding /\ caller[c].at \in Holding
                /\ caller'[c].pool = caller[c].pool /\ caller'[c].index = caller[c].index
           SameIdle == \A m \in Loads : pool'[m].filled = pool[m].filled /\ pool'[m].idle = pool[m].idle
           SameWork == \A m \in Loads, k \in Indices : AtWork(m, k)' = AtWork(m, k)
\* Most steps move no request.
<1>4. SameIdle /\ SameWork /\ CallersStay => (\A n \in Loads : Conserved(n)') /\ NoNewUser
  BY NoneMoved
<1>5. UNCHANGED request => SameWork
  BY DEF AtWork
<1> HIDE DEF CallersStay, SameIdle, SameWork, SameOwner, NoNewUser
<1>6. UNCHANGED pool => SameIdle
  BY DEF SameIdle
<1>7. UNCHANGED <<owner, pool>> => SameOwner
  BY DEF SameOwner
<1>8. CASE UNCHANGED vars
  BY <1>3, <1>4, <1>5, <1>6, <1>7, <1>8 DEF vars, CallersStay
\* A caller that holds nothing before and after.
<1>9. ASSUME NEW c \in Callers, UNCHANGED <<owner, pool, request>>,
             caller[c].at \notin Holding, caller'[c].at \notin Holding,
             \A d \in Callers : d # c => caller'[d] = caller[d]
      PROVE  Goal
  <2>1. CallersStay
    BY <1>9 DEF CallersStay
  <2> QED  BY <1>3, <1>4, <1>5, <1>6, <1>7, <1>9, <2>1
<1>10. ASSUME NEW c \in Callers, Call(c) \/ ReadPool(c) \/ ReadModel(c) PROVE Goal
  <2>1. caller[c].at \notin Holding /\ UNCHANGED <<owner, pool, request>>
    BY <1>10 DEF Call, ReadPool, ReadModel, Holding
  <2>2. caller'[c].at \in {"read_pool", "read_model", "check"}
    <3>1. Call(c) => caller'[c].at = "read_pool"
      BY <1>1 DEF Call, AtRest
    <3>2. ReadPool(c) \/ ReadModel(c) => caller'[c].at \in {"read_model", "check"}
      BY <1>1 DEF ReadPool, ReadModel, Place
    <3> QED  BY <1>10, <3>1, <3>2
  <2>3. \A d \in Callers : d # c => caller'[d] = caller[d]
    BY <1>1, <1>10 DEF Call, ReadPool, ReadModel
  <2>4. caller'[c].at \notin Holding
    BY <2>2 DEF Holding
  <2> QED  BY <1>9, <2>1, <2>3, <2>4
<1>11. ASSUME NEW c \in Callers, Check(c) \/ CheckAccepting(c) PROVE Goal
  <2>1. caller[c].at \notin Holding /\ UNCHANGED <<owner, pool, request>>
    BY <1>11 DEF Check, CheckAccepting, Holding
  <2>2. CASE Return(c, "refused")
    BY <1>9, <2>1, <2>2, Returned DEF AtRest, Holding
  <2>3. CASE Go(c, "acquire") \/ Go(c, "check_accepting")
    <3>1. \A d \in Callers : d # c => caller'[d] = caller[d]
      BY <2>3, WentOn DEF Positions
    <3>2. caller'[c].at \in {"acquire", "check_accepting"}
      BY <2>3, WentOn DEF Positions
    <3>3. caller'[c].at \notin Holding
      BY <3>2 DEF Holding
    <3> QED  BY <1>9, <2>1, <3>1, <3>3
  <2> QED  BY <1>11, <2>2, <2>3 DEF Check, CheckAccepting
<1>12. ASSUME NEW c \in Callers, Acquire(c) PROVE Goal
  <2>1. caller[c].at = "acquire" /\ caller[c].at \notin Holding /\ UNCHANGED <<owner, request>>
    BY <1>12 DEF Acquire, Holding
  <2>2. PICK n \in Loads : n = caller[c].pool
    BY <1>1, <2>1, EngineAssumption DEF ModelOfPool, Place, Loads
  <2>3. CASE Return(c, "refused") /\ UNCHANGED pool
    BY <1>9, <2>1, <2>3, Returned DEF AtRest, Holding
  <2>4. CASE Go(c, "waiting") /\ UNCHANGED pool
    BY <1>9, <2>1, <2>4, WentOn DEF Positions, Holding
  <2>5. CASE /\ ~pool[n].shutdown /\ pool[n].idle # <<>>
             /\ caller' = [caller EXCEPT ![c].at = "bind", ![c].index = Head(pool[n].idle)]
             /\ pool' = [pool EXCEPT ![n].idle = Tail(@)]
    <3>1. pool[n].idle \in Seq(Indices) /\ IsInjective(pool[n].idle) /\ pool[n].filled
      BY <1>2, <2>2, <2>5, Parts DEF Conserved, Queue
    <3>2. PICK i \in Indices :
            /\ i = Head(pool[n].idle) /\ IsInjective(Tail(pool[n].idle)) /\ i \in Range(pool[n].idle)
            /\ i \notin Range(Tail(pool[n].idle))
            /\ \A y : y # i => (y \in Range(Tail(pool[n].idle)) <=> y \in Range(pool[n].idle))
      BY <2>5, <3>1, TailOnce
    <3>3. /\ \A m \in Loads : pool'[m].filled = pool[m].filled /\ pool'[m].shutdown = pool[m].shutdown
          /\ \A m \in Loads : m # n => pool'[m].idle = pool[m].idle
          /\ pool'[n].idle = Tail(pool[n].idle)
      BY <1>1, <2>2, <2>5 DEF Pool
    <3>4. caller'[c].at = "bind" /\ caller'[c].pool = n /\ caller'[c].index = i
      BY <1>1, <2>2, <2>5, <3>2 DEF Place
    <3>5. \A d \in Callers : d # c => caller'[d] = caller[d]
      BY <1>1, <2>5
    <3>6. \A m \in Loads : Queue(m)'
      BY <1>2, <3>1, <3>2, <3>3 DEF Queue
    <3>7. ASSUME NEW m \in Loads, NEW k \in Indices, m # n \/ k # i
          PROVE  /\ AtWork(m, k)' = AtWork(m, k) /\ IsIdle(m, k)' = IsIdle(m, k)
                 /\ \A d \in Callers : Holds(d, m, k)' = Holds(d, m, k)
      <4>1. AtWork(m, k)' = AtWork(m, k)
        BY <1>5, <2>1 DEF SameWork
      <4>2. IsIdle(m, k)' = IsIdle(m, k)
        <5>1. CASE m # n
          BY <3>3, <3>7, <5>1 DEF IsIdle
        <5>2. CASE m = n
          <6>1. IsIdle(n, k)' <=> IsIdle(n, k)
            BY <3>2, <3>3, <3>7, <5>2 DEF IsIdle
          <6> QED  BY <5>2, <6>1 DEF IsIdle
        <5> QED  BY <5>1, <5>2
      <4>3. \A d \in Callers : Holds(d, m, k)' = Holds(d, m, k)
        BY <2>1, <3>4, <3>5, <3>7 DEF Holds, Holding
      <4> QED  BY <4>1, <4>2, <4>3
    <3>8. Whereabouts(n, i)'
      <4>1. ~AtWork(n, i) /\ ~Held(n, i)
        BY <1>2, <3>2 DEF Whereabouts, IsIdle
      <4>2. ~AtWork(n, i)' /\ ~IsIdle(n, i)' /\ pool'[n].filled
        BY <2>1, <2>2, <3>1, <3>2, <3>3, <4>1 DEF AtWork, IsIdle
      <4>3. Held(n, i)'
        BY <3>4 DEF Held, Holding
      <4>4. \A d \in Callers : Holds(d, n, i)' => d = c
        BY <3>5, <4>1 DEF Held, Holds, Holding
      <4> QED  BY <4>2, <4>3, <4>4 DEF Whereabouts
    <3>9. \A m \in Loads : Conserved(m)'
      BY <2>2, <3>2, <3>3, <3>6, <3>7, <3>8, OneMoved
    <3>10. NoNewUser
      <4> SUFFICES ASSUME NEW m \in Loads, NEW k \in Indices, Held(m, k)' \/ AtWork(m, k)', pool[m].shutdown
                   PROVE  Held(m, k) \/ AtWork(m, k)
        BY DEF NoNewUser
      <4>0. pool[m].shutdown
        OBVIOUS
      <4>1. m # n
        BY <2>5, <4>0
      <4> QED  BY <3>7, <4>1 DEF Held, Holds, Holding
    <3> QED  BY <1>3, <2>1, <3>3, <3>9, <3>10 DEF SameOwner
  <2> QED  BY <1>12, <2>2, <2>3, <2>4, <2>5 DEF Acquire
\* The steps of a caller that holds a request.
<1>13. ASSUME NEW c \in Callers, caller[c].at \in Holding
       PROVE  \E n \in Loads, i \in Indices :
                /\ n = caller[c].pool /\ i = caller[c].index
                /\ Holds(c, n, i) /\ Held(n, i) /\ ~AtWork(n, i)
                /\ pool[n].filled /\ ~IsIdle(n, i) /\ \A d \in Callers : Holds(d, n, i) => d = c
  <2>1. PICK n \in Loads, i \in Indices : n = caller[c].pool /\ i = caller[c].index
    BY <1>13, Holder
  <2>2. Whereabouts(n, i) /\ Holds(c, n, i) /\ Held(n, i)
    BY <1>2, <1>13, <2>1, Holder
  <2> QED  BY <2>1, <2>2 DEF Whereabouts
\* One that keeps it.
<1>14. ASSUME NEW c \in Callers, caller[c].at \in Holding, UNCHANGED <<owner, pool>>, NEW r,
              request' = [request EXCEPT ![caller[c].pool][caller[c].index] = r],
              r.mode # "async" \/ r.state = "idle",
              NEW at \in Holding, Go(c, at)
       PROVE  Goal
  <2>1. PICK n \in Loads, i \in Indices : n = caller[c].pool /\ i = caller[c].index /\ ~AtWork(n, i)
    BY <1>13, <1>14
  <2>2. request' = [request EXCEPT ![n][i] = r]
    BY <1>14, <2>1
  <2>3. request'[n][i] = r /\ \A m \in Loads, k \in Indices : m # n \/ k # i => request'[m][k] = request[m][k]
    BY <1>1, <2>1, <2>2
  <2>4. ~AtWork(n, i)'
    BY <1>14, <2>3 DEF AtWork
  <2>5. SameWork
    <3> SUFFICES ASSUME NEW m \in Loads, NEW k \in Indices PROVE AtWork(m, k)' = AtWork(m, k)
      BY DEF SameWork
    <3>1. CASE m = n /\ k = i
      BY <2>1, <2>4, <3>1 DEF AtWork
    <3>2. CASE m # n \/ k # i
      BY <2>3, <3>2 DEF AtWork
    <3> QED  BY <3>1, <3>2
  <2>6. at \in Positions
    BY <1>14 DEF Positions
  <2>7. CallersStay
    BY <1>14, <2>6, WentOn DEF CallersStay
  <2> QED  BY <1>3, <1>4, <1>6, <1>7, <1>14, <2>5, <2>7
<1>15. ASSUME NEW c \in Callers, Bind(c) PROVE Goal
  <2>1. Bound(c).state = "idle"
    BY DEF Bound
  <2>2. caller[c].at \in Holding /\ "start" \in Holding
    BY <1>15 DEF Bind, Holding
  <2> QED  BY <1>14, <1>15, <2>1, <2>2 DEF Bind
\* One that gives it back.
<1>16. ASSUME NEW c \in Callers, caller[c].at \in Holding, NEW n \in Loads, NEW i \in Indices,
              n = caller[c].pool, i = caller[c].index, GiveBack(n, i),
              caller'[c] = AtRest, \A d \in Callers : d # c => caller'[d] = caller[d], UNCHANGED owner,
              ~AtWork(n, i)', \A m \in Loads, k \in Indices : m # n \/ k # i => AtWork(m, k)' = AtWork(m, k)
       PROVE  Goal
  <2>1. /\ Held(n, i) /\ Holds(c, n, i) /\ \A d \in Callers : Holds(d, n, i) => d = c
    BY <1>13, <1>16
  <2>2. GiveBack(n, i) /\ ~AtWork(n, i)'
    BY <1>16
  <2>3. ~Holds(c, n, i)' /\ \A m, k : ~Holds(c, m, k)'
    BY <1>16 DEF Holds, Holding, AtRest
  <2>4. \A m, k : m # n \/ k # i => ~Holds(c, m, k)
    BY <1>16 DEF Holds
  <2>5. \A m \in Loads, k \in Indices : m # n \/ k # i => AtWork(m, k)' = AtWork(m, k)
    BY <1>16
  <2>6. \A d \in Callers : ~Holds(d, n, i)'
    BY <1>16, <2>1, <2>3 DEF Holds
  <2>7. \A m \in Loads, k \in Indices : m # n \/ k # i => \A d \in Callers : Holds(d, m, k)' = Holds(d, m, k)
    BY <1>16, <2>3, <2>4 DEF Holds
  <2>8. \A m \in Loads : Conserved(m)'
    BY <2>1, <2>2, <2>5, <2>6, <2>7, WentBack
  <2>9. NoNewUser
    <3> SUFFICES ASSUME NEW m \in Loads, NEW k \in Indices, Held(m, k)' \/ AtWork(m, k)'
                 PROVE  Held(m, k) \/ AtWork(m, k)
      BY DEF NoNewUser
    <3>1. CASE m = n /\ k = i
      BY <2>2, <2>6, <3>1 DEF Held, Holds, Holding
    <3>2. CASE m # n \/ k # i
      BY <2>5, <2>7, <3>2 DEF Held, Holds, Holding
    <3> QED  BY <3>1, <3>2
  <2>10. SameOwner
    BY <1>16, <2>1, <2>2, GivenBack DEF SameOwner
  <2> QED  BY <1>3, <2>8, <2>9, <2>10
<1>17. ASSUME NEW c \in Callers, BindFails(c) PROVE Goal
  <2>1. caller[c].at \in Holding /\ UNCHANGED <<owner, request>>
    BY <1>17 DEF BindFails, Holding
  <2>0. PICK n \in Loads, i \in Indices : n = caller[c].pool /\ i = caller[c].index /\ ~AtWork(n, i)
    BY <1>13, <2>1
  <2>2. caller'[c] = AtRest /\ \A d \in Callers : d # c => caller'[d] = caller[d]
    BY <1>17, Returned DEF BindFails
  <2>3. ~AtWork(n, i)' /\ GiveBack(n, i)
    BY <1>17, <2>0, <2>1 DEF AtWork, BindFails
  <2>4. \A m \in Loads, k \in Indices : AtWork(m, k)' = AtWork(m, k)
    BY <2>1 DEF AtWork
  <2> QED  BY <1>16, <2>0, <2>1, <2>2, <2>3, <2>4
<1>18. ASSUME NEW c \in Callers, Launch(c) PROVE Goal
  <2>1. caller[c].at \in Holding /\ caller[c].at = "start" /\ UNCHANGED <<owner, pool>>
    BY <1>18 DEF Launch, Holding
  <2>2. PICK n \in Loads, i \in Indices :
          /\ n = caller[c].pool /\ i = caller[c].index
          /\ ~AtWork(n, i) /\ pool[n].filled /\ ~IsIdle(n, i) /\ Held(n, i)
          /\ \A d \in Callers : Holds(d, n, i) => d = c
    BY <1>13, <2>1
  <2>3. request[n][i].mode = caller[c].mode /\ request[n][i] \in Request
    BY <1>1, <2>1, <2>2 DEF ModelOfPool
  <2>4. PICK r : request' = [request EXCEPT ![n][i] = r] /\ r.mode = caller[c].mode /\ r.state = "running"
    <3>1. request' = [request EXCEPT ![n][i] = [request[n][i] EXCEPT !.state = "running"]]
      BY <1>18, <2>2 DEF Launch
    <3>2. [request[n][i] EXCEPT !.state = "running"].mode = caller[c].mode
      BY <2>3 DEF Request
    <3>3. [request[n][i] EXCEPT !.state = "running"].state = "running"
      BY <2>3 DEF Request
    <3> QED  BY <3>1, <3>2, <3>3
  <2>5. CASE caller[c].mode = "sync" /\ Go(c, "infer")
    <3>1. "infer" \in Holding /\ r.mode # "async"
      BY <2>4, <2>5 DEF Holding
    <3> QED  BY <1>14, <2>1, <2>2, <2>4, <2>5, <3>1
  <2>6. CASE caller[c].mode = "async" /\ Return(c, "started")
    <3>1. caller'[c] = AtRest /\ \A d \in Callers : d # c => caller'[d] = caller[d]
      BY <2>6, Returned
    <3>2. \A m, k : ~Holds(c, m, k)'
      BY <3>1 DEF Holds, Holding, AtRest
    <3>3. \A m, k : m # n \/ k # i => ~Holds(c, m, k)
      BY <2>2 DEF Holds
    <3>4. request'[n][i] = r /\ \A m \in Loads, k \in Indices : m # n \/ k # i => request'[m][k] = request[m][k]
      BY <1>1, <2>2, <2>4
    <3>5. AtWork(n, i)'
      BY <2>4, <2>6, <3>4 DEF AtWork
    <3>6. \A d \in Callers : ~Holds(d, n, i)'
      BY <2>2, <3>1, <3>2 DEF Holds
    <3>7. ASSUME NEW m \in Loads, NEW k \in Indices, m # n \/ k # i
          PROVE  /\ AtWork(m, k)' = AtWork(m, k) /\ IsIdle(m, k)' = IsIdle(m, k)
                 /\ \A d \in Callers : Holds(d, m, k)' = Holds(d, m, k)
      <4>1. AtWork(m, k)' = AtWork(m, k)
        BY <3>4, <3>7 DEF AtWork
      <4>2. IsIdle(m, k)' = IsIdle(m, k)
        BY <2>1 DEF IsIdle
      <4>3. \A d \in Callers : Holds(d, m, k)' = Holds(d, m, k)
        BY <3>1, <3>2, <3>3, <3>7 DEF Holds
      <4> QED  BY <4>1, <4>2, <4>3
    <3>8. Whereabouts(n, i)'
      <4>1. ~Held(n, i)' /\ ~IsIdle(n, i)' /\ pool'[n].filled
        BY <2>1, <2>2, <3>6 DEF Held, Holds, Holding, IsIdle
      <4> QED  BY <3>5, <3>6, <4>1 DEF Whereabouts
    <3>9. \A m \in Loads : Queue(m)' /\ pool'[m].filled = pool[m].filled
      BY <1>2, <2>1, <2>2 DEF Queue
    <3>10. \A m \in Loads : Conserved(m)'
      BY <2>2, <3>7, <3>8, <3>9, OneMoved
    <3>11. NoNewUser
      <4> SUFFICES ASSUME NEW m \in Loads, NEW k \in Indices, Held(m, k)' \/ AtWork(m, k)'
                   PROVE  Held(m, k) \/ AtWork(m, k)
        BY DEF NoNewUser
      <4>1. CASE m = n /\ k = i
        BY <2>2, <4>1
      <4>2. CASE m # n \/ k # i
        BY <3>7, <4>2 DEF Held, Holds, Holding
      <4> QED  BY <4>1, <4>2
    <3> QED  BY <1>3, <1>7, <2>1, <3>10, <3>11
  <2> QED  BY <1>18, <2>5, <2>6 DEF Launch
<1>19. ASSUME NEW c \in Callers, Inferred(c) PROVE Goal
  <2>1. caller[c].at \in Holding /\ UNCHANGED owner /\ caller' = [caller EXCEPT ![c] = AtRest]
    BY <1>19 DEF Inferred, Holding
  <2>2. PICK n \in Loads, i \in Indices : n = caller[c].pool /\ i = caller[c].index
    BY <1>13, <2>1
  <2>3. GiveBack(n, i) /\ request' = [request EXCEPT ![n][i] = Unbound]
    BY <1>19, <2>2 DEF Inferred
  <2>4. caller'[c] = AtRest /\ \A d \in Callers : d # c => caller'[d] = caller[d]
    BY <1>1, <2>1
  <2>5. /\ request'[n][i] = Unbound
        /\ \A m \in Loads, k \in Indices : m # n \/ k # i => request'[m][k] = request[m][k]
    BY <1>1, <2>3
  <2>6. /\ ~AtWork(n, i)'
        /\ \A m \in Loads, k \in Indices : m # n \/ k # i => AtWork(m, k)' = AtWork(m, k)
    BY <2>5 DEF AtWork, Unbound
  <2> QED  BY <1>16, <2>1, <2>2, <2>3, <2>4, <2>6
\* The steps of the runtime: a request that stays at work, or not at work.
<1>20. ASSUME NEW n \in Loads, NEW i \in Indices, NEW r, request' = [request EXCEPT ![n][i] = r],
              r.mode = request[n][i].mode, r.state # "idle", request[n][i].state # "idle",
              UNCHANGED <<owner, pool, caller>>
       PROVE  Goal
  <2>1. request'[n][i] = r /\ \A m \in Loads, k \in Indices : m # n \/ k # i => request'[m][k] = request[m][k]
    BY <1>1, <1>20
  <2>2. SameWork
    <3> SUFFICES ASSUME NEW m \in Loads, NEW k \in Indices PROVE AtWork(m, k)' = AtWork(m, k)
      BY DEF SameWork
    <3>1. CASE m = n /\ k = i
      BY <1>20, <2>1, <3>1 DEF AtWork
    <3>2. CASE m # n \/ k # i
      BY <2>1, <3>2 DEF AtWork
    <3> QED  BY <3>1, <3>2
  <2>3. CallersStay
    BY <1>20 DEF CallersStay
  <2> QED  BY <1>3, <1>4, <1>6, <1>7, <1>20, <2>2, <2>3
<1>21. ASSUME NEW n \in Loads, NEW i \in Indices, Run(n, i) \/ CallBack(n, i) PROVE Goal
  <2>1. /\ request[n][i] \in Request /\ request[n][i].state # "idle" /\ UNCHANGED <<owner, pool, caller>>
    BY <1>1, <1>21 DEF Run, CallBack
  <2>2. PICK x \in {"ran", "calling"} : request' = [request EXCEPT ![n][i] = [request[n][i] EXCEPT !.state = x]]
    BY <1>21 DEF Run, CallBack
  <2>3. /\ [request[n][i] EXCEPT !.state = x].mode = request[n][i].mode
        /\ [request[n][i] EXCEPT !.state = x].state # "idle"
    BY <2>1 DEF Request
  <2> QED  BY <1>20, <2>1, <2>2, <2>3
<1>22. ASSUME NEW n \in Loads, NEW i \in Indices, CalledBack(n, i) PROVE Goal
  <2>1. /\ GiveBack(n, i) /\ UNCHANGED <<owner, caller>> /\ request' = [request EXCEPT ![n][i] = Unbound]
        /\ request[n][i].state = "calling"
    BY <1>22 DEF CalledBack
  <2>2. AtWork(n, i)
    BY <2>1 DEF AtWork, JobAtWork
  <2>3. /\ request'[n][i] = Unbound
        /\ \A m \in Loads, k \in Indices : m # n \/ k # i => request'[m][k] = request[m][k]
    BY <1>1, <2>1
  <2>4. /\ ~AtWork(n, i)'
        /\ \A m \in Loads, k \in Indices : m # n \/ k # i => AtWork(m, k)' = AtWork(m, k)
    BY <2>3 DEF AtWork, Unbound
  <2>5. \A m, k : \A d \in Callers : Holds(d, m, k)' = Holds(d, m, k)
    BY <2>1 DEF Holds
  <2>6. \A d \in Callers : ~Holds(d, n, i)'
    BY <1>2, <2>2, <2>5 DEF Whereabouts, Held, Holds, Holding
  <2>7. \A m \in Loads : Conserved(m)'
    BY <2>1, <2>2, <2>4, <2>5, <2>6, WentBack
  <2>8. NoNewUser
    <3> SUFFICES ASSUME NEW m \in Loads, NEW k \in Indices, Held(m, k)' \/ AtWork(m, k)'
                 PROVE  Held(m, k) \/ AtWork(m, k)
      BY DEF NoNewUser
    <3>1. CASE m = n /\ k = i
      BY <2>2, <3>1
    <3>2. CASE m # n \/ k # i
      BY <2>4, <2>5, <3>2 DEF Held, Holds, Holding
    <3> QED  BY <3>1, <3>2
  <2>9. SameOwner
    BY <2>1, GivenBack DEF SameOwner
  <2> QED  BY <1>3, <2>7, <2>8, <2>9
\* The steps that move no request, but shut a pool down, wait for it, or go on with the plan.
<1> DEFINE WaitedFor == \A n \in Loads : pool'[n].shutdown =>
           \/ pool[n].shutdown /\ ~(owner.pool = n /\ Now \in {"notify_all", "wait_all", "asleep"})
           \/ owner'.pool = n /\ Now' \in {"notify_all", "wait_all", "asleep"}
           \/ pool[n].shutdown /\ Quiet(n)
<1>23. WaitedFor /\ NoNewUser => QuietOnceWaited'
  BY StillQuiet DEF NoNewUser
<1>24. SameIdle /\ CallersStay /\ UNCHANGED request /\ WaitedFor => Goal
  BY <1>4, <1>5, <1>23
<1>25. UNCHANGED caller => CallersStay
  BY DEF CallersStay
<1>26. UNCHANGED pool /\ Now \notin {"notify_all", "wait_all", "asleep"} => WaitedFor
  OBVIOUS
<1>27. (\A n \in Loads : pool'[n].shutdown => pool[n].shutdown \/ (owner.pool = n /\ Now' = "notify_all"))
       /\ owner'.pool = owner.pool /\ Now' \in {"notify_all", "wait_all", "asleep"} => WaitedFor
  OBVIOUS
<1> HIDE DEF WaitedFor
<1>28. ASSUME NEW n \in Loads, NotifyOne(n) PROVE Goal
  <2>1. pool' = [pool EXCEPT ![n].notifying = @ - 1] /\ UNCHANGED request
    BY <1>28 DEF NotifyOne
  <2>2. \A m \in Loads : /\ pool'[m].filled = pool[m].filled /\ pool'[m].idle = pool[m].idle
                         /\ pool'[m].shutdown = pool[m].shutdown
    BY <1>1, <2>1 DEF Pool
  <2>3. SameIdle
    BY <2>2 DEF SameIdle
  <2>4. CASE UNCHANGED owner
    <3>1. SameOwner
      BY <2>2, <2>4 DEF SameOwner
    <3>2. CASE UNCHANGED caller
      BY <1>3, <1>4, <1>5, <1>25, <2>1, <2>3, <3>1, <3>2
    <3>3. CASE \E c \in Asleep(n) : Go(c, "acquire")
      <4>1. PICK c \in Callers : caller[c].at = "waiting" /\ Go(c, "acquire")
        BY <3>3 DEF Asleep
      <4>2. caller'[c].at = "acquire" /\ \A d \in Callers : d # c => caller'[d] = caller[d]
        BY <4>1, WentOn DEF Positions
      <4>3. CallersStay
        BY <4>1, <4>2 DEF CallersStay, Holding
      <4> QED  BY <1>3, <1>4, <1>5, <2>1, <2>3, <3>1, <4>3
    <3> QED  BY <1>28, <3>2, <3>3 DEF NotifyOne
  <2>5. CASE OwnerAsleep(n) /\ owner' = [owner EXCEPT !.todo = <<"wait_all">> \o Tail(@)] /\ UNCHANGED caller
    <3>1. owner'.pool = owner.pool /\ Now' = "wait_all"
      BY <2>5, AsleepGoes DEF OwnerAsleep
    <3>2. WaitedFor
      BY <1>27, <2>2, <3>1
    <3> QED  BY <1>24, <1>25, <2>1, <2>3, <2>5, <3>2
  <2> QED  BY <1>28, <2>4, <2>5 DEF NotifyOne
<1>29. CASE LoadModel \/ Release
  <2>1. Now = "none" /\ UNCHANGED <<pool, request, caller>>
    BY <1>29, CallGoes DEF LoadModel, Release
  <2> QED  BY <1>6, <1>24, <1>25, <1>26, <2>1
<1>30. CASE OwnerAssigns \/ MovePool \/ LoadFails \/ MakePool
  <2>1. UNCHANGED <<pool, request, caller>>
    BY <1>30 DEF OwnerAssigns, MovePool, LoadFails, MakePool
  <2>2. Now \notin {"notify_all", "wait_all", "asleep"}
    BY <1>30 DEF OwnerAssigns, MovePool, LoadFails, MakePool, OwnerAt, Now
  <2> QED  BY <1>6, <1>24, <1>25, <1>26, <2>1, <2>2
<1>31. CASE Shutdown
  <2>1. /\ owner.todo # <<>> /\ Head(owner.todo) = "shutdown" /\ Now = "shutdown" /\ Done
        /\ pool' = [pool EXCEPT ![owner.pool].shutdown = TRUE] /\ UNCHANGED <<request, caller>>
    BY <1>31 DEF Shutdown, OwnerAt, Now
  <2>2. Now' = "notify_all" /\ owner'.pool = owner.pool
    BY <2>1, DoneGoes DEF Follows
  <2>3. \A m \in Loads : /\ pool'[m].filled = pool[m].filled /\ pool'[m].idle = pool[m].idle
                         /\ pool'[m].shutdown = IF m = owner.pool THEN TRUE ELSE pool[m].shutdown
    BY <1>1, <2>1 DEF Pool
  <2>4. SameIdle
    BY <2>3 DEF SameIdle
  <2>5. WaitedFor
    BY <1>27, <2>2, <2>3
  <2> QED  BY <1>24, <1>25, <2>1, <2>4, <2>5
<1>32. CASE NotifyAll
  <2>1. /\ owner.todo # <<>> /\ Head(owner.todo) = "notify_all" /\ Now = "notify_all" /\ Done
        /\ UNCHANGED <<pool, request>>
    BY <1>32 DEF NotifyAll, OwnerAt, Now
  <2>2. Now' = "wait_all" /\ owner'.pool = owner.pool
    BY <2>1, DoneGoes DEF Follows
  <2>3. WaitedFor
    BY <1>27, <2>1, <2>2
  <2>4. CallersStay
    <3> SUFFICES ASSUME NEW c \in Callers
                 PROVE  \/ caller'[c] = caller[c]
                        \/ caller[c].at = "waiting" /\ caller'[c].at = "acquire"
      BY DEF CallersStay, Holding
    <3>1. CASE c \in Asleep(owner.pool)
      BY <1>1, <1>32, <3>1 DEF NotifyAll, Asleep, Place
    <3>2. CASE c \notin Asleep(owner.pool)
      BY <1>32, <3>2 DEF NotifyAll
    <3> QED  BY <3>1, <3>2
  <2> QED  BY <1>6, <1>24, <2>1, <2>3, <2>4
<1>33. CASE WaitAll
  <2>1. /\ owner.todo # <<>> /\ Head(owner.todo) = "wait_all" /\ Now = "wait_all"
        /\ UNCHANGED <<pool, request, caller>>
    BY <1>33 DEF WaitAll, OwnerAt, Now
  <2>2. CASE AllBack(owner.pool)
    <3>1. WaitedFor
      <4> SUFFICES ASSUME NEW n \in Loads, pool[n].shutdown, owner.pool = n PROVE Quiet(n)
        BY <2>1 DEF WaitedFor
      <4>1. Conserved(n) /\ AllBack(n)
        BY <2>2
      <4> QED  BY <4>1, AllBackIsQuiet
    <3> QED  BY <1>6, <1>24, <1>25, <2>1, <3>1
  <2>3. CASE ~AllBack(owner.pool)
    <3>1. owner' = [owner EXCEPT !.todo = <<"asleep">> \o Tail(@)]
      BY <1>33, <2>3 DEF WaitAll
    <3>2. Now' = "asleep" /\ owner'.pool = owner.pool
      BY <2>1, <3>1, AsleepGoes
    <3>3. WaitedFor
      BY <1>27, <2>1, <3>2
    <3> QED  BY <1>6, <1>24, <1>25, <2>1, <3>3
  <2> QED  BY <2>2, <2>3
<1>34. CASE FillPool
  <2>1. /\ owner.todo # <<>> /\ Head(owner.todo) = "fill_pool" /\ Now = "fill_pool"
        /\ pool' = [pool EXCEPT ![owner.loads].idle = [i \in Indices |-> i], ![owner.loads].filled = TRUE]
        /\ UNCHANGED <<request, caller>>
    BY <1>34 DEF FillPool, OwnerAt, Now
  <2>2. WillLoad
    BY <2>1, Onward DEF WillLoad, LoadSteps
  <2>3. \A m \in Loads : /\ pool'[m].shutdown = pool[m].shutdown
                         /\ m # owner.loads => pool'[m].filled = pool[m].filled /\ pool'[m].idle = pool[m].idle
    BY <1>1, <2>1 DEF Pool
  <2>4. \A m \in Loads, k \in Indices : Held(m, k)' = Held(m, k) /\ AtWork(m, k)' = AtWork(m, k)
    BY <2>1 DEF Held, AtWork
  <2>5. \A m \in Loads, k \in Indices : \A d \in Callers : Holds(d, m, k)' = Holds(d, m, k)
    BY <2>1 DEF Holds
  <2>6. ASSUME NEW m \in Loads PROVE Conserved(m)'
    <3>1. CASE m # owner.loads
      <4>1. Queue(m)' /\ \A k \in Indices : IsIdle(m, k)' = IsIdle(m, k)
        BY <1>2, <2>3, <3>1 DEF Conserved, Queue, IsIdle
      <4>2. \A k \in Indices : Whereabouts(m, k)'
        BY <1>2, <2>3, <2>4, <2>5, <3>1, <4>1 DEF Whereabouts
      <4> QED  BY <4>1, <4>2 DEF Conserved
    <3>2. CASE m = owner.loads
      <4>1. ~pool[m].filled
        <5>1. m \in Nat
          BY DEF Loads
        <5> QED  BY <2>1, <2>2, <3>2, <5>1 DEF PoolsInTurn, Unfilled
      <4>2. pool'[m].filled /\ pool'[m].idle = [i \in Indices |-> i]
        BY <1>1, <2>1, <3>2 DEF Pool
      <4>3. IsInjective([i \in Indices |-> i]) /\ \A k \in Indices : k \in Range([i \in Indices |-> i])
        BY DEF IsInjective, Range
      <4>4. Queue(m)' /\ \A k \in Indices : IsIdle(m, k)'
        BY <4>2, <4>3 DEF Queue, IsIdle
      <4>5. ASSUME NEW k \in Indices PROVE Whereabouts(m, k)'
        <5>1. ~Held(m, k) /\ ~AtWork(m, k)
          BY <1>2, <4>1 DEF Whereabouts
        <5>2. \A d \in Callers : ~Holds(d, m, k)'
          BY <2>5, <5>1 DEF Held, Holds, Holding
        <5> QED  BY <2>4, <4>4, <5>1, <5>2 DEF Whereabouts
      <4> QED  BY <4>4, <4>5 DEF Conserved
    <3> QED  BY <3>1, <3>2
  <2>7. NoNewUser
    BY <2>4 DEF NoNewUser
  <2>8. WaitedFor
    BY <2>1, <2>3 DEF WaitedFor
  <2> QED  BY <1>23, <2>6, <2>7, <2>8
<1>35. ASSUME NEW c \in Callers, Call(c) \/ CallerStep(c) PROVE Goal
  BY <1>10, <1>11, <1>12, <1>15, <1>17, <1>18, <1>19, <1>35 DEF CallerStep
<1>36. ASSUME NEW n \in Loads, NEW i \in Indices, RuntimeStep(n, i) PROVE Goal
  BY <1>21, <1>22, <1>36 DEF RuntimeStep
<1>37. CASE OwnerStep
  BY <1>30, <1>31, <1>32, <1>33, <1>34, <1>37 DEF OwnerStep
<1> HIDE DEF Goal
<1>38. CASE \E n \in Loads : NotifyOne(n) \/ \E i \in Indices : RuntimeStep(n, i)
  BY <1>28, <1>36, <1>38 DEF Goal
<1> QED  BY <1>8, <1>29, <1>35, <1>37, <1>38 DEF Next, Goal

-----------------------------------------------------------------------------
(* Callers, their pools and their requests                                 *)

\* A pool that is shut down stays so, and one that nobody fills any more stays empty.
LEMMA PoolsAge ==
  ASSUME Types, InPlan(owner.todo), EngineOfOneLoad, ModelOfPool, JobOfCall, [Next]_vars, NEW n \in Loads
  PROVE  /\ pool[n].shutdown => pool'[n].shutdown
         /\ Made(n) /\ ~pool[n].filled /\ engine.pool # n => ~pool'[n].filled /\ engine'.pool # n
<1> DEFINE Goal == /\ pool[n].shutdown => pool'[n].shutdown
                   /\ Made(n) /\ ~pool[n].filled /\ engine.pool # n => ~pool'[n].filled /\ engine'.pool # n
<1>1. n \in Nat /\ n # 0 /\ pool \in [Loads -> Pool] /\ owner.loads \in Nat
  BY EngineAssumption DEF Types, Loads
<1>2. pool'[n].filled = pool[n].filled /\ pool'[n].shutdown = pool[n].shutdown /\ engine'.pool \in {engine.pool, 0} => Goal
  BY <1>1
<1>3. CASE UNCHANGED vars
  BY <1>2, <1>3 DEF vars
<1>4. ASSUME NEW c \in Callers, Call(c) \/ CallerStep(c) PROVE Goal
  BY <1>2, <1>4, OwnersAlone
<1>5. ASSUME NEW m \in Loads, NEW i \in Indices, RuntimeStep(m, i) PROVE Goal
  BY <1>2, <1>5, OwnersAlone
<1>6. ASSUME NEW m \in Loads, NotifyOne(m) PROVE Goal
  BY <1>2, <1>6, OwnersAlone
<1>7. CASE \E m \in Loads : NotifyOne(m) \/ \E i \in Indices : RuntimeStep(m, i)
  BY <1>5, <1>6, <1>7
<1>8. CASE LoadModel \/ Release \/ OwnerAssigns \/ MovePool \/ NotifyAll \/ WaitAll \/ LoadFails
  <2>1. UNCHANGED pool /\ engine'.pool \in {engine.pool, 0}
    BY <1>8 DEF LoadModel, Release, OwnerAssigns, MovePool, NotifyAll, WaitAll, LoadFails, Types
  <2> QED  BY <1>2, <2>1
<1>9. CASE Shutdown
  <2>1. UNCHANGED engine /\ pool'[n].filled = pool[n].filled /\ (pool[n].shutdown => pool'[n].shutdown)
    BY <1>1, <1>9 DEF Shutdown, Pool
  <2> QED  BY <2>1
<1>10. CASE MakePool
  <2>1. UNCHANGED pool /\ engine'.pool = owner.loads /\ owner.todo # <<>> /\ Head(owner.todo) = "make_pool"
    BY <1>10 DEF MakePool, OwnerAt, Types
  <2>2. Unmade
    BY <2>1, Onward DEF Unmade, WillLoad, LoadSteps, Now
  <2> QED  BY <1>1, <2>1, <2>2 DEF Made
<1>11. CASE FillPool
  <2>1. engine.pool = owner.loads /\ UNCHANGED engine
    BY <1>11 DEF FillPool, OwnerAt, EngineOfOneLoad, Now
  <2>2. pool'[n].shutdown = pool[n].shutdown /\ (n # owner.loads => pool'[n].filled = pool[n].filled)
    BY <1>1, <1>11 DEF FillPool, Pool
  <2> QED  BY <2>1, <2>2
<1> HIDE DEF Goal
<1> QED  BY <1>3, <1>4, <1>7, <1>8, <1>9, <1>10, <1>11 DEF Next, OwnerStep, Goal

\* A caller only moves by itself, or because it is woken.
LEMMA OwnSteps ==
  ASSUME Types, [Next]_vars, NEW d \in Callers
  PROVE  \/ caller'[d] = caller[d]
         \/ caller[d].at = "waiting" /\ caller'[d] = [caller[d] EXCEPT !.at = "acquire"]
         \/ Call(d) \/ CallerStep(d)
<1> DEFINE Woken == caller[d].at = "waiting" /\ caller'[d] = [caller[d] EXCEPT !.at = "acquire"]
           Goal == caller'[d] = caller[d] \/ Woken \/ Call(d) \/ CallerStep(d)
<1>1. caller \in [Callers -> Place]
  BY DEF Types
<1>2. UNCHANGED caller => Goal
  OBVIOUS
<1>3. ASSUME NEW c \in Callers, NEW p, caller' = [caller EXCEPT ![c] = p], c # d PROVE Goal
  BY <1>1, <1>3
<1>4. ASSUME NEW c \in Callers, Call(c) \/ CallerStep(c) PROVE Goal
  <2>1. CASE c = d
    BY <1>4, <2>1
  <2>2. CASE c # d
    <3>1. \E p : caller' = [caller EXCEPT ![c] = p]
      <4>1. CASE \E x : Return(c, x)
        BY <4>1 DEF Return
      <4>2. CASE \E at : Go(c, at)
        BY <4>2 DEF Go
      <4>3. CASE Call(c) \/ ReadPool(c) \/ ReadModel(c) \/ Inferred(c)
        BY <4>3 DEF Call, ReadPool, ReadModel, Inferred
      <4>4. CASE caller' = [caller EXCEPT ![c].at = "bind", ![c].index = Head(pool[caller[c].pool].idle)]
        <5>1. caller' = [caller EXCEPT ![c] = [[caller[c] EXCEPT !.at = "bind"] EXCEPT
                                                 !.index = Head(pool[caller[c].pool].idle)]]
          BY <1>1, <4>4
        <5> QED  BY <5>1
      <4> QED  BY <1>4, <4>1, <4>2, <4>3, <4>4 DEF CallerStep, Check, CheckAccepting, Acquire, Bind, BindFails, Launch
    <3> QED  BY <1>3, <2>2, <3>1
  <2> QED  BY <2>1, <2>2
<1>5. ASSUME NEW m \in Loads, NotifyOne(m) PROVE Goal
  <2>1. CASE \E c \in Asleep(m) : Go(c, "acquire")
    <3>1. PICK c \in Callers : caller[c].at = "waiting" /\ Go(c, "acquire")
      BY <2>1 DEF Asleep
    <3>2. CASE c = d
      BY <1>1, <3>1, <3>2 DEF Go
    <3>3. CASE c # d
      BY <1>1, <3>1, <3>3 DEF Go
    <3> QED  BY <3>2, <3>3
  <2> QED  BY <1>2, <1>5, <2>1 DEF NotifyOne
<1>6. ASSUME NEW m \in Loads, NEW i \in Indices, RuntimeStep(m, i) PROVE Goal
  BY <1>2, <1>6 DEF RuntimeStep, Run, CallBack, CalledBack
<1>7. CASE \E m \in Loads : NotifyOne(m) \/ \E i \in Indices : RuntimeStep(m, i)
  BY <1>5, <1>6, <1>7
<1>8. CASE NotifyAll
  BY <1>1, <1>8 DEF NotifyAll, Asleep
<1>9. CASE LoadModel \/ Release \/ OwnerAssigns \/ MovePool \/ Shutdown \/ WaitAll \/ LoadFails \/ MakePool \/ FillPool
  BY <1>2, <1>9 DEF LoadModel, Release, OwnerAssigns, MovePool, Shutdown, WaitAll, LoadFails, MakePool, FillPool
<1>10. CASE UNCHANGED vars
  BY <1>2, <1>10 DEF vars
<1> HIDE DEF Goal
<1> QED  BY <1>4, <1>7, <1>8, <1>9, <1>10 DEF Next, OwnerStep, Goal

\* What a request is bound to.
SameContent(n, i) ==
  LET r == request[n][i] s == request'[n][i]
  IN  /\ s.data = r.data /\ s.model = r.model /\ s.copied = r.copied /\ s.by = r.by
      /\ s.mode = r.mode /\ s.job = r.job

\* Only the caller that holds a request and the callback of a request change its content.
LEMMA ContentKept ==
  ASSUME Types, ModelOfPool, JobOfCall, [Next]_vars, NEW n \in Loads, NEW i \in Indices
  PROVE  \/ SameContent(n, i)
         \/ \E c \in Callers : (Bind(c) \/ Inferred(c)) /\ caller[c].pool = n /\ caller[c].index = i
         \/ CalledBack(n, i)
<1> DEFINE Goal == \/ SameContent(n, i)
                   \/ \E c \in Callers : (Bind(c) \/ Inferred(c)) /\ caller[c].pool = n /\ caller[c].index = i
                   \/ CalledBack(n, i)
<1>1. request \in [Loads -> [Indices -> Request]] /\ request[n][i] \in Request
  BY DEF Types
<1>2. request'[n][i] = request[n][i] => Goal
  BY DEF SameContent
<1>3. ASSUME NEW m \in Loads, NEW k \in Indices, NEW r, request' = [request EXCEPT ![m][k] = r], m # n \/ k # i
      PROVE  Goal
  BY <1>1, <1>2, <1>3
<1>4. ASSUME NEW m \in Loads, NEW k \in Indices, NEW x, request' = [request EXCEPT ![m][k].state = x]
      PROVE  Goal
  <2>1. request' = [request EXCEPT ![m][k] = [request[m][k] EXCEPT !.state = x]]
    BY <1>4
  <2>2. CASE m = n /\ k = i
    <3>1. request'[n][i] = [request[n][i] EXCEPT !.state = x]
      BY <1>1, <2>1, <2>2
    <3> QED  BY <1>1, <3>1 DEF SameContent, Request
  <2>3. CASE m # n \/ k # i
    BY <1>3, <2>1, <2>3
  <2> QED  BY <2>2, <2>3
<1>5. UNCHANGED request => Goal
  BY <1>2
<1>6. ASSUME NEW c \in Callers, Call(c) \/ CallerStep(c) PROVE Goal
  <2>1. CASE Bind(c) \/ Inferred(c)
    <3>1. PICK m \in Loads, k \in Indices : m = caller[c].pool /\ k = caller[c].index
      BY <2>1, Holder DEF Bind, Inferred, Holding
    <3>2. PICK r : request' = [request EXCEPT ![m][k] = r]
      BY <2>1, <3>1 DEF Bind, Inferred
    <3>3. CASE m = n /\ k = i
      BY <2>1, <3>1, <3>3
    <3>4. CASE m # n \/ k # i
      BY <1>3, <3>2, <3>4
    <3> QED  BY <3>3, <3>4
  <2>2. CASE Launch(c)
    <3>1. PICK m \in Loads, k \in Indices : m = caller[c].pool /\ k = caller[c].index
      BY <2>2, Holder DEF Launch, Holding
    <3>2. request' = [request EXCEPT ![m][k].state = "running"]
      BY <2>2, <3>1 DEF Launch
    <3> QED  BY <1>4, <3>2
  <2>3. CASE UNCHANGED request
    BY <1>5, <2>3
  <2> QED
    BY <1>6, <2>1, <2>2, <2>3 DEF Call, CallerStep, ReadPool, ReadModel, Check, CheckAccepting, Acquire, BindFails
<1>7. ASSUME NEW m \in Loads, NEW k \in Indices, RuntimeStep(m, k) PROVE Goal
  <2>1. CASE Run(m, k) \/ CallBack(m, k)
    BY <1>4, <2>1 DEF Run, CallBack
  <2>2. CASE CalledBack(m, k)
    <3>1. CASE m = n /\ k = i
      BY <2>2, <3>1
    <3>2. CASE m # n \/ k # i
      BY <1>3, <2>2, <3>2 DEF CalledBack
    <3> QED  BY <3>1, <3>2
  <2> QED  BY <1>7, <2>1, <2>2 DEF RuntimeStep
<1>8. ASSUME NEW m \in Loads, NotifyOne(m) PROVE Goal
  BY <1>5, <1>8 DEF NotifyOne
<1>9. CASE \E m \in Loads : NotifyOne(m) \/ \E k \in Indices : RuntimeStep(m, k)
  BY <1>7, <1>8, <1>9
<1>10. CASE LoadModel \/ Release \/ OwnerStep
  BY <1>5, <1>10 DEF LoadModel, Release, OwnerStep, OwnerAssigns, MovePool, Shutdown, NotifyAll, WaitAll, LoadFails,
    MakePool, FillPool
<1>11. CASE UNCHANGED vars
  BY <1>5, <1>11 DEF vars
<1> HIDE DEF Goal
<1> QED  BY <1>6, <1>9, <1>10, <1>11 DEF Next, Goal

\* Every step keeps a caller to the model of the pool that it will borrow from.
LEMMA ModelKept ==
  ASSUME Types, InPlan(owner.todo), EngineOfOneLoad, PoolsInTurn, \A n \in Loads : Conserved(n),
         ModelOfPool, JobOfCall, JobAtWork, [Next]_vars
  PROVE  ModelOfPool'
<1> DEFINE Outside == {"check", "check_accepting", "acquire", "waiting"}
           OfMade(c) == caller[c].pool # 0 => Made(caller[c].pool)
           OfOneLoad(c) ==
             caller[c].at \in Outside /\ caller[c].pool # 0 /\ ~pool[caller[c].pool].shutdown =>
               \/ caller[c].model = caller[c].pool
               \/ ~pool[caller[c].pool].filled /\ engine.pool # caller[c].pool
           OfSome(c) == caller[c].at \in {"check_accepting", "acquire", "waiting"} \cup Holding => caller[c].pool # 0
           OfHeld(c) == caller[c].at \in Holding => caller[c].model = caller[c].pool /\ caller[c].index # 0
           Filled(c) == caller[c].at \in {"start", "infer"} =>
             LET r == request[caller[c].pool][caller[c].index]
             IN  r.by = c /\ r.mode = caller[c].mode /\ r.job = caller[c].job /\ r.data = r.job
                 /\ r.model = caller[c].pool /\ r.copied = (r.mode = "async")
           Waits(c) == caller[c].at = "infer" => caller[c].mode = "sync"
<1>1. /\ caller \in [Callers -> Place] /\ pool \in [Loads -> Pool] /\ engine.pool \in Nat
      /\ request \in [Loads -> [Indices -> Request]]
  BY EngineAssumption DEF Types
<1>2. \A c \in Callers : OfMade(c) /\ OfOneLoad(c) /\ OfSome(c) /\ OfHeld(c) /\ Filled(c) /\ Waits(c)
  BY DEF ModelOfPool
<1>3. \A c \in Callers : caller[c].pool # 0 => caller[c].pool \in Loads
  BY <1>1, EngineAssumption DEF Place, Loads
<1> SUFFICES ASSUME NEW c \in Callers
             PROVE  (OfMade(c) /\ OfOneLoad(c) /\ OfSome(c) /\ OfHeld(c) /\ Filled(c) /\ Waits(c))'
  BY DEF ModelOfPool
<1> DEFINE Goal == (OfMade(c) /\ OfOneLoad(c) /\ OfSome(c) /\ OfHeld(c) /\ Filled(c) /\ Waits(c))'
\* A pool that the caller knows.
<1>4. ASSUME NEW n \in Loads, caller[c].pool = n
      PROVE  /\ Made(n)' /\ (pool[n].shutdown => pool'[n].shutdown)
             /\ ~pool[n].filled /\ engine.pool # n => ~pool'[n].filled /\ engine'.pool # n
  <2>1. Made(n) /\ n \in Nat
    BY <1>2, <1>4 DEF Loads
  <2> QED  BY <2>1, PlanKept, PoolsAge
\* The request of a caller that has bound it.
<1>5. ASSUME caller[c].at \in {"start", "infer"}, caller'[c].at \in {"start", "infer"},
             caller'[c].pool = caller[c].pool, caller'[c].index = caller[c].index,
             caller'[c].mode = caller[c].mode, caller'[c].job = caller[c].job
      PROVE  Filled(c)'
  <2>1. caller[c].at \in Holding
    BY <1>5 DEF Holding
  <2>2. PICK n \in Loads, i \in Indices : n = caller[c].pool /\ i = caller[c].index /\ Holds(c, n, i) /\ Held(n, i)
    BY <2>1, Holder
  <2>3. SameContent(n, i)
    <3>1. Whereabouts(n, i)
      BY DEF Conserved
    <3>2. ~CalledBack(n, i)
      BY <2>2, <3>1 DEF CalledBack, JobAtWork, AtWork, Whereabouts
    <3>3. ASSUME NEW d \in Callers, Bind(d) \/ Inferred(d), caller[d].pool = n, caller[d].index = i
          PROVE  FALSE
      <4>1. Holds(d, n, i)
        BY <3>3 DEF Bind, Inferred, Holds, Holding
      <4>2. d = c
        BY <2>2, <3>1, <4>1 DEF Whereabouts
      <4>3. Inferred(c)
        BY <1>5, <3>3, <4>2 DEF Bind
      <4>4. caller'[c].at = "idle"
        BY <1>1, <4>3 DEF Inferred, AtRest
      <4> QED  BY <1>5, <4>4
    <3> QED  BY <3>2, <3>3, ContentKept
  <2>4. LET r == request[n][i]
        IN  r.by = c /\ r.mode = caller[c].mode /\ r.job = caller[c].job /\ r.data = r.job
            /\ r.model = n /\ r.copied = (r.mode = "async")
    BY <1>2, <1>5, <2>2
  <2>5. LET r == request'[n][i]
        IN  r.by = c /\ r.mode = caller[c].mode /\ r.job = caller[c].job /\ r.data = r.job
            /\ r.model = n /\ r.copied = (r.mode = "async")
    BY <2>3, <2>4 DEF SameContent
  <2> QED  BY <1>5, <2>2, <2>5
\* A caller that keeps what it knows.
<1>6. ASSUME caller'[c].pool = caller[c].pool, caller'[c].model = caller[c].model, caller'[c].index = caller[c].index,
             caller'[c].mode = caller[c].mode, caller'[c].job = caller[c].job,
             \/ caller'[c].at = caller[c].at
             \/ caller'[c].at \in {"check_accepting", "acquire", "waiting"} /\ caller[c].at \in Outside /\ caller[c].pool # 0
      PROVE  Goal
  <2>1. OfMade(c)'
    BY <1>3, <1>4, <1>6
  <2>2. OfOneLoad(c)'
    <3>1. SUFFICES ASSUME caller[c].at \in Outside, NEW n \in Loads, caller[c].pool = n, ~pool'[n].shutdown
                   PROVE  caller[c].model = n \/ (~pool'[n].filled /\ engine'.pool # n)
      BY <1>3, <1>6
    <3>2. n # 0
      BY DEF Loads
    <3> QED  BY <1>2, <1>4, <3>1, <3>2
  <2>3. OfSome(c)' /\ OfHeld(c)' /\ Waits(c)'
    BY <1>2, <1>6 DEF Holding
  <2>4. Filled(c)'
    BY <1>5, <1>6
  <2> QED  BY <2>1, <2>2, <2>3, <2>4
<1>7. CASE caller'[c] = caller[c]
  BY <1>6, <1>7
<1>8. CASE caller[c].at = "waiting" /\ caller'[c] = [caller[c] EXCEPT !.at = "acquire"]
  <2>1. /\ caller'[c].pool = caller[c].pool /\ caller'[c].model = caller[c].model /\ caller'[c].index = caller[c].index
        /\ caller'[c].mode = caller[c].mode /\ caller'[c].job = caller[c].job /\ caller'[c].at = "acquire"
    BY <1>1, <1>8 DEF Place
  <2> QED  BY <1>2, <1>6, <1>8, <2>1
\* A call that begins or is over.
<1>9. ASSUME caller'[c].pool = 0, caller'[c].at \in {"idle", "read_pool"} PROVE Goal
  BY <1>9 DEF Holding
<1>10. CASE Call(c)
  <2>1. caller'[c].pool = 0 /\ caller'[c].at = "read_pool"
    BY <1>1, <1>10 DEF Call, AtRest
  <2> QED  BY <1>9, <2>1
<1>11. ASSUME NEW x \in {"refused", "failed", "started"}, Return(c, x) PROVE Goal
  BY <1>9, <1>11, Returned DEF AtRest
<1>12. CASE Inferred(c)
  BY <1>1, <1>9, <1>12 DEF Inferred, AtRest
<1>13. CASE ReadPool(c)
  <2>1. /\ caller'[c].pool = engine.pool /\ caller'[c].at = "read_model"
    BY <1>1, <1>13 DEF ReadPool, Place
  <2>2. OfMade(c)'
    BY <1>1, <2>1, PlanKept DEF EngineOfOneLoad
  <2> QED  BY <2>1, <2>2 DEF Holding
<1>14. CASE ReadModel(c)
  <2>1. /\ caller'[c].pool = caller[c].pool /\ caller'[c].at = "check" /\ caller'[c].model = engine.model
        /\ UNCHANGED <<engine, pool>>
    BY <1>1, <1>14 DEF ReadModel, Place
  <2>2. OfMade(c)'
    BY <1>3, <1>4, <2>1
  <2>3. OfOneLoad(c)'
    <3>1. SUFFICES ASSUME NEW n \in Loads, caller[c].pool = n, ~pool[n].shutdown, pool[n].filled \/ engine.pool = n
                   PROVE  engine.model = n
      BY <1>3, <2>1
    <3>2. n # 0
      BY DEF Loads
    <3>3. engine.pool = n \/ (owner.pool = n /\ Now = "shutdown")
      BY <3>1 DEF PoolsInTurn
    <3> QED  BY <3>2, <3>3 DEF EngineOfOneLoad
  <2> QED  BY <2>1, <2>2, <2>3 DEF Holding
<1>15. ASSUME NEW at \in {"check_accepting", "acquire", "waiting"}, Go(c, at), caller[c].at \in Outside, caller[c].pool # 0
       PROVE  Goal
  <2>1. at \in Positions
    BY <1>15 DEF Positions
  <2> QED  BY <1>6, <1>15, <2>1, WentOn
<1>16. CASE Check(c) \/ CheckAccepting(c)
  <2>1. CASE Return(c, "refused")
    BY <1>11, <2>1
  <2>2. CASE Go(c, "acquire") \/ Go(c, "check_accepting")
    <3>1. caller[c].at \in Outside
      BY <1>16 DEF Check, CheckAccepting
    <3>2. caller[c].pool # 0 \/ Return(c, "refused")
      BY <1>2, <1>16 DEF Check, CheckAccepting
    <3> QED  BY <1>15, <2>1, <2>2, <3>1, <3>2
  <2> QED  BY <1>16, <2>1, <2>2 DEF Check, CheckAccepting
<1>17. CASE Acquire(c)
  <2>1. PICK n \in Loads : n = caller[c].pool
    BY <1>2, <1>3, <1>17 DEF Acquire
  <2>2. CASE Return(c, "refused")
    BY <1>11, <2>2
  <2>3. CASE Go(c, "waiting")
    BY <1>2, <1>15, <1>17, <2>3 DEF Acquire
  <2>4. CASE /\ ~pool[n].shutdown /\ pool[n].idle # <<>>
             /\ caller' = [caller EXCEPT ![c].at = "bind", ![c].index = Head(pool[n].idle)]
    <3>1. Queue(n) /\ n # 0
      BY DEF Conserved, Loads
    <3>2. pool[n].filled /\ caller[c].at = "acquire"
      BY <1>17, <2>4, <3>1 DEF Queue, Acquire
    <3>3. caller[c].model = n
      BY <1>2, <2>1, <2>4, <3>1, <3>2
    <3>4. Head(pool[n].idle) \in Indices
      BY <2>4, Parts, HeadTailProperties
    <3>5. /\ caller'[c].at = "bind" /\ caller'[c].pool = n /\ caller'[c].model = caller[c].model
          /\ caller'[c].index = Head(pool[n].idle)
      BY <1>1, <2>1, <2>4 DEF Place
    <3>6. OfMade(c)'
      BY <1>4, <2>1, <3>5
    <3> QED  BY <3>1, <3>3, <3>4, <3>5, <3>6 DEF Indices
  <2> QED  BY <1>17, <2>1, <2>2, <2>3, <2>4 DEF Acquire
<1>18. CASE Bind(c)
  <2>1. caller[c].at \in Holding /\ caller[c].at = "bind" /\ Go(c, "start") /\ "start" \in Positions
    BY <1>18 DEF Bind, Holding, Positions
  <2>2. PICK n \in Loads, i \in Indices : n = caller[c].pool /\ i = caller[c].index
    BY <2>1, Holder
  <2>3. caller[c].model = n /\ buffer[c] = caller[c].job /\ i # 0 /\ n # 0
    BY <2>1, <2>2, Holder DEF Indices, Loads
  <2>4. /\ caller'[c].at = "start" /\ caller'[c].mode = caller[c].mode /\ caller'[c].job = caller[c].job
        /\ caller'[c].pool = n /\ caller'[c].model = n /\ caller'[c].index = i
    BY <2>1, <2>2, <2>3, WentOn
  <2>5. request'[n][i] = Bound(c)
    BY <1>1, <1>18, <2>2 DEF Bind
  <2>6. Filled(c)'
    BY <2>2, <2>3, <2>4, <2>5 DEF Bound
  <2>7. OfMade(c)'
    BY <1>4, <2>2, <2>4
  <2> QED  BY <2>3, <2>4, <2>6, <2>7
<1>19. CASE BindFails(c)
  BY <1>11, <1>19 DEF BindFails
<1>20. CASE Launch(c)
  <2>1. CASE Return(c, "started")
    BY <1>11, <2>1
  <2>2. CASE caller[c].mode = "sync" /\ Go(c, "infer")
    <3>1. caller[c].at \in Holding /\ caller[c].at = "start" /\ "infer" \in Positions
      BY <1>20 DEF Launch, Holding, Positions
    <3>2. PICK n \in Loads, i \in Indices : n = caller[c].pool /\ i = caller[c].index
      BY <3>1, Holder
    <3>3. caller[c].model = n /\ i # 0 /\ n # 0
      BY <3>1, <3>2, Holder DEF Indices, Loads
    <3>4. /\ caller'[c].at = "infer" /\ caller'[c].mode = caller[c].mode /\ caller'[c].job = caller[c].job
          /\ caller'[c].pool = n /\ caller'[c].model = n /\ caller'[c].index = i
      BY <2>2, <3>1, <3>2, <3>3, WentOn
    <3>5. Filled(c)'
      BY <1>5, <3>1, <3>2, <3>4
    <3>6. OfMade(c)'
      BY <1>4, <3>2, <3>4
    <3> QED  BY <2>2, <3>3, <3>4, <3>5, <3>6
  <2> QED  BY <1>20, <2>1, <2>2 DEF Launch
<1> QED  BY <1>7, <1>8, <1>10, <1>12, <1>13, <1>14, <1>16, <1>17, <1>18, <1>19, <1>20, OwnSteps DEF CallerStep

-----------------------------------------------------------------------------
(* The job of a call, and the job of a request at work                     *)

\* A call goes on with its job, or is over, and nothing is said of its job, which is not x.
Stays(c, x) ==
  \/ caller'[c].at = "idle"
  \/ /\ caller[c].at # "idle" /\ caller[c].job # x
     /\ caller'[c].job = caller[c].job /\ caller'[c].mode = caller[c].mode

\* The jobs of the calls, when at most the job x is spoken of.
LEMMA CallsKept ==
  ASSUME Types, JobOfCall, UNCHANGED <<jobs, buffer>>, NEW x \in 0 .. jobs,
         \A j \in Jobs : j # x => outcome'[j] = outcome[j],
         \A c \in Callers : Stays(c, x)
  PROVE  JobOfCall'
<1>1. jobs \in Nat /\ jobs <= MaxJobs /\ MaxJobs \in Nat
  BY EngineAssumption DEF Types
<1>2. ASSUME NEW c \in Callers, caller'[c].at # "idle"
      PROVE  /\ caller[c].at # "idle" /\ caller'[c].job = caller[c].job /\ caller'[c].mode = caller[c].mode
             /\ caller[c].job # x
  BY <1>2 DEF Stays
<1>3. ASSUME NEW c \in Callers, caller'[c].at # "idle"
      PROVE  LET j == caller'[c].job
             IN  j \in 1 .. jobs' /\ buffer'[c] = j /\ outcome'[j] = Fresh /\ caller'[c].mode # "none"
  <2>1. caller[c].job \in 1 .. jobs /\ buffer[c] = caller[c].job /\ outcome[caller[c].job] = Fresh /\ caller[c].mode # "none"
    BY <1>2, <1>3 DEF JobOfCall
  <2>2. caller[c].job \in Jobs
    BY <1>1, <2>1 DEF Jobs
  <2> QED  BY <1>2, <1>3, <2>1, <2>2
<1>4. \A c, d \in Callers :
        caller'[c].at # "idle" /\ caller'[d].at # "idle" /\ caller'[c].job = caller'[d].job => c = d
  BY <1>2 DEF JobOfCall
<1>5. \A j \in Jobs : j > jobs' => outcome'[j] = Fresh
  BY <1>1 DEF JobOfCall, Jobs
<1> QED  BY <1>3, <1>4, <1>5 DEF JobOfCall

\* A request at work was at work, with the same content, and nothing is said of its job.
Continues(n, i) ==
  /\ AtWork(n, i)' => AtWork(n, i) /\ SameContent(n, i)
  /\ Unanswered(n, i)' => Unanswered(n, i) /\ outcome'[request[n][i].job] = outcome[request[n][i].job]
  /\ request'[n][i].state = "calling" => request'[n][i].mode = "async"

\* The jobs of the requests at work, when none is new.
LEMMA WorkKept ==
  ASSUME Types, JobAtWork, jobs' \in Nat, jobs' >= jobs, \A n \in Loads, i \in Indices : Continues(n, i)
  PROVE  JobAtWork'
<1>1. ASSUME NEW n \in Loads, NEW i \in Indices
      PROVE  LET r == request'[n][i]
             IN  /\ AtWork(n, i)' => r.copied /\ r.data = r.job /\ r.model = n /\ r.job \in 1 .. jobs'
                 /\ r.state = "calling" => r.mode = "async"
                 /\ Unanswered(n, i)' => outcome'[r.job] = [returned |-> "started", answers |-> <<>>]
  <2>1. Continues(n, i) /\ jobs \in Nat
    BY EngineAssumption DEF Types
  <2>2. Unanswered(n, i)' => AtWork(n, i)'
    BY DEF Unanswered
  <2>3. ASSUME AtWork(n, i)'
        PROVE  LET r == request'[n][i] IN r.copied /\ r.data = r.job /\ r.model = n /\ r.job \in 1 .. jobs'
    <3>1. LET r == request[n][i] IN r.copied /\ r.data = r.job /\ r.model = n /\ r.job \in 1 .. jobs
      BY <2>1, <2>3 DEF Continues, JobAtWork
    <3>2. SameContent(n, i)
      BY <2>1, <2>3 DEF Continues
    <3> QED  BY <2>1, <3>1, <3>2 DEF SameContent
  <2>4. ASSUME Unanswered(n, i)'
        PROVE  outcome'[request'[n][i].job] = [returned |-> "started", answers |-> <<>>]
    <3>1. outcome[request[n][i].job] = [returned |-> "started", answers |-> <<>>]
      BY <2>1, <2>4 DEF Continues, JobAtWork
    <3>2. request'[n][i].job = request[n][i].job
      BY <2>1, <2>2, <2>4 DEF Continues, SameContent
    <3> QED  BY <2>1, <2>4, <3>1, <3>2 DEF Continues
  <2> QED  BY <2>1, <2>3, <2>4 DEF Continues
<1>2. ASSUME NEW m \in Loads, NEW n \in Loads, NEW i \in Indices, NEW k \in Indices,
             Unanswered(m, i)', Unanswered(n, k)', request'[m][i].job = request'[n][k].job
      PROVE  m = n /\ i = k
  <2>1. \A a \in Loads, b \in Indices :
          Unanswered(a, b)' => Unanswered(a, b) /\ request'[a][b].job = request[a][b].job
    BY DEF Continues, SameContent, Unanswered
  <2> QED  BY <1>2, <2>1 DEF JobAtWork
<1> QED  BY <1>1, <1>2 DEF JobAtWork

\* Every step keeps a call and a request at work to a job of their own, not answered yet.
LEMMA JobsKept ==
  ASSUME Types, \A n \in Loads : Conserved(n), ModelOfPool, JobOfCall, JobAtWork, [Next]_vars
  PROVE  JobOfCall' /\ JobAtWork'
<1> DEFINE Goal == JobOfCall' /\ JobAtWork'
           Works == \A n \in Loads, i \in Indices : Continues(n, i)
           Calls(x) == \A d \in Callers : Stays(d, x)
           OnlyOf(x) == \A j \in Jobs : j # x => outcome'[j] = outcome[j]
<1>1. /\ request \in [Loads -> [Indices -> Request]] /\ caller \in [Callers -> Place] /\ outcome \in [Jobs -> Outcome]
      /\ buffer \in [Callers -> 0 .. MaxJobs] /\ jobs \in Nat /\ jobs <= MaxJobs /\ MaxJobs \in Nat
  BY EngineAssumption DEF Types
<1>2. ASSUME NEW c \in Callers, caller[c].at # "idle"
      PROVE  /\ caller[c].job \in Jobs /\ caller[c].job \in 1 .. jobs /\ caller[c].job \in 0 .. jobs /\ caller[c].job # 0
             /\ buffer[c] = caller[c].job /\ outcome[caller[c].job] = Fresh
             /\ caller[c].mode # "none" /\ \A d \in Callers : d # c /\ caller[d].at # "idle" => caller[d].job # caller[c].job
  <2>1. /\ caller[c].job \in 1 .. jobs /\ buffer[c] = caller[c].job /\ outcome[caller[c].job] = Fresh
        /\ caller[c].mode # "none"
    BY <1>2 DEF JobOfCall
  <2>2. \A d \in Callers : d # c /\ caller[d].at # "idle" => caller[d].job # caller[c].job
    BY <1>2 DEF JobOfCall
  <2> QED  BY <1>1, <2>1, <2>2 DEF Jobs
<1>3. ASSUME NEW n \in Loads, NEW i \in Indices, Unanswered(n, i)
      PROVE  /\ request[n][i].job \in Jobs /\ request[n][i].job \in 1 .. jobs
             /\ outcome[request[n][i].job] = [returned |-> "started", answers |-> <<>>]
             /\ \A c \in Callers : caller[c].at # "idle" => request[n][i].job # caller[c].job
  <2>1. /\ request[n][i].job \in 1 .. jobs /\ outcome[request[n][i].job] = [returned |-> "started", answers |-> <<>>]
    BY <1>3 DEF JobAtWork, Unanswered
  <2>2. Fresh # [returned |-> "started", answers |-> <<>>]
    BY DEF Fresh
  <2> QED  BY <1>1, <1>2, <2>1, <2>2 DEF Jobs
<1>4. ASSUME NEW n \in Loads, NEW i \in Indices, request'[n][i] = request[n][i],
             Unanswered(n, i) => outcome'[request[n][i].job] = outcome[request[n][i].job]
      PROVE  Continues(n, i)
  <2>1. UNCHANGED <<AtWork(n, i), Unanswered(n, i)>> /\ SameContent(n, i)
    BY <1>4 DEF AtWork, Unanswered, SameContent
  <2>2. request[n][i].state = "calling" => request[n][i].mode = "async"
    BY DEF JobAtWork
  <2> QED  BY <1>4, <2>1, <2>2 DEF Continues
<1>5. ASSUME NEW n \in Loads, NEW i \in Indices, ~AtWork(n, i)', request'[n][i].state # "calling"
      PROVE  Continues(n, i)
  BY <1>5 DEF Continues, Unanswered
\* One call ends or goes on; at most its job is spoken of.
<1>6. ASSUME NEW c \in Callers, caller[c].at # "idle", UNCHANGED <<jobs, buffer>>,
             \A d \in Callers : d # c => caller'[d] = caller[d],
             \/ caller'[c].at = "idle" /\ OnlyOf(caller[c].job)
             \/ caller'[c].job = caller[c].job /\ caller'[c].mode = caller[c].mode /\ UNCHANGED outcome
      PROVE  /\ JobOfCall'
             /\ \A n \in Loads, i \in Indices : request'[n][i] = request[n][i] => Continues(n, i)
  <2>1. JobOfCall'
    <3>1. CASE caller'[c].at = "idle" /\ OnlyOf(caller[c].job)
      <4>1. PICK x \in 0 .. jobs : x = caller[c].job
        BY <1>2, <1>6
      <4>2. \A d \in Callers : d # c => Stays(d, x)
        BY <1>2, <1>6, <4>1 DEF Stays
      <4>3. Calls(x)
        BY <3>1, <4>2 DEF Stays
      <4> QED  BY <1>6, <3>1, <4>1, <4>3, CallsKept
    <3>2. CASE caller'[c].job = caller[c].job /\ caller'[c].mode = caller[c].mode /\ UNCHANGED outcome
      <4>1. \A d \in Callers : d # c => Stays(d, 0)
        BY <1>2, <1>6 DEF Stays
      <4>2. Stays(c, 0)
        BY <1>2, <1>6, <3>2 DEF Stays
      <4>3. 0 \in 0 .. jobs /\ Calls(0)
        BY <1>1, <4>1, <4>2
      <4> QED  BY <1>6, <3>2, <4>3, CallsKept
    <3> QED  BY <1>6, <3>1, <3>2
  <2>2. ASSUME NEW n \in Loads, NEW i \in Indices, request'[n][i] = request[n][i]
        PROVE  Continues(n, i)
    <3>1. Unanswered(n, i) => outcome'[request[n][i].job] = outcome[request[n][i].job]
      BY <1>3, <1>6
    <3> QED  BY <1>4, <2>2, <3>1
  <2> QED  BY <2>1, <2>2
<1>7. Works /\ jobs' = jobs => JobAtWork'
  BY <1>1, WorkKept
<1>8. ASSUME NEW c \in Callers, Call(c) PROVE Goal
  <2>1. jobs' = jobs + 1 /\ jobs + 1 <= MaxJobs /\ UNCHANGED <<request, outcome>>
    BY <1>1, <1>8 DEF Call
  <2>2. /\ caller'[c].at # "idle" /\ caller'[c].job = jobs + 1 /\ caller'[c].mode # "none"
        /\ \A d \in Callers : d # c => caller'[d] = caller[d]
    BY <1>1, <1>8 DEF Call, AtRest
  <2>3. buffer'[c] = jobs + 1 /\ \A d \in Callers : d # c => buffer'[d] = buffer[d]
    BY <1>1, <1>8 DEF Call
  <2>4. outcome[jobs + 1] = Fresh /\ jobs + 1 \in Jobs
    BY <1>1, <2>1 DEF JobOfCall, Jobs
  <2>5. ASSUME NEW d \in Callers, caller'[d].at # "idle"
        PROVE  LET j == caller'[d].job
               IN  j \in 1 .. jobs' /\ buffer'[d] = j /\ outcome'[j] = Fresh /\ caller'[d].mode # "none"
    <3>1. CASE d = c
      BY <1>1, <2>1, <2>2, <2>3, <2>4, <3>1
    <3>2. CASE d # c
      <4>1. /\ caller[d].job \in 1 .. jobs /\ buffer[d] = caller[d].job /\ outcome[caller[d].job] = Fresh
            /\ caller[d].mode # "none" /\ caller'[d] = caller[d]
        BY <1>2, <2>2, <2>5, <3>2
      <4> QED  BY <1>1, <2>1, <2>3, <3>2, <4>1
    <3> QED  BY <3>1, <3>2
  <2>6. ASSUME NEW d \in Callers, NEW e \in Callers, caller'[d].at # "idle", caller'[e].at # "idle",
               caller'[d].job = caller'[e].job
        PROVE  d = e
    <3>1. \A b \in Callers : b # c /\ caller'[b].at # "idle" => caller'[b].job # jobs + 1
      <4> SUFFICES ASSUME NEW b \in Callers, b # c, caller[b].at # "idle" PROVE caller[b].job # jobs + 1
        BY <2>2
      <4>1. caller[b].job \in 1 .. jobs
        BY <1>2
      <4> QED  BY <1>1, <4>1
    <3>2. CASE d = c \/ e = c
      BY <2>2, <2>6, <3>1, <3>2
    <3>3. CASE d # c /\ e # c
      BY <2>2, <2>6, <3>3 DEF JobOfCall
    <3> QED  BY <3>2, <3>3
  <2>7. \A j \in Jobs : j > jobs' => outcome'[j] = Fresh
    BY <1>1, <2>1 DEF JobOfCall, Jobs
  <2>8. JobOfCall'
    BY <2>5, <2>6, <2>7 DEF JobOfCall
  <2>9. Works
    BY <1>4, <2>1
  <2> QED  BY <1>1, <2>1, <2>8, <2>9, WorkKept
<1>9. ASSUME NEW c \in Callers, NEW x \in {"refused", "failed", "started"}, Return(c, x)
      PROVE  /\ caller'[c].at = "idle" /\ OnlyOf(caller[c].job) /\ \A d \in Callers : d # c => caller'[d] = caller[d]
  BY <1>9, Returned DEF AtRest
<1>10. ASSUME NEW c \in Callers, NEW at \in Positions, Go(c, at)
       PROVE  /\ caller'[c].job = caller[c].job /\ caller'[c].mode = caller[c].mode
              /\ \A d \in Callers : d # c => caller'[d] = caller[d]
  BY <1>10, WentOn
\* The steps of a caller that leave the requests alone.
<1>11. ASSUME NEW c \in Callers,
              ReadPool(c) \/ ReadModel(c) \/ Check(c) \/ CheckAccepting(c) \/ Acquire(c) \/ BindFails(c)
       PROVE  Goal
  <2>1. caller[c].at # "idle" /\ UNCHANGED <<jobs, buffer, request>>
    BY <1>11 DEF ReadPool, ReadModel, Check, CheckAccepting, Acquire, BindFails
  <2>2. /\ \A d \in Callers : d # c => caller'[d] = caller[d]
        /\ \/ caller'[c].at = "idle" /\ OnlyOf(caller[c].job)
           \/ caller'[c].job = caller[c].job /\ caller'[c].mode = caller[c].mode /\ UNCHANGED outcome
    <3>1. CASE Return(c, "refused") \/ Return(c, "failed")
      BY <1>9, <3>1
    <3>2. CASE (Go(c, "acquire") \/ Go(c, "check_accepting") \/ Go(c, "waiting")) /\ UNCHANGED outcome
      BY <1>10, <3>2 DEF Positions
    <3>3. CASE (ReadPool(c) \/ ReadModel(c))
      BY <1>1, <3>3 DEF ReadPool, ReadModel, Place
    <3>4. CASE caller' = [caller EXCEPT ![c].at = "bind", ![c].index = Head(pool[caller[c].pool].idle)] /\ UNCHANGED outcome
      BY <1>1, <3>4 DEF Place
    <3> QED  BY <1>11, <3>1, <3>2, <3>3, <3>4 DEF Check, CheckAccepting, Acquire, BindFails
  <2>3. JobOfCall' /\ Works
    BY <1>6, <2>1, <2>2
  <2> QED  BY <1>7, <2>1, <2>3
\* The steps of a caller that holds a request.
<1>12. ASSUME NEW c \in Callers, Bind(c) \/ Launch(c) \/ Inferred(c) PROVE Goal
  <2>1. caller[c].at \in Holding /\ caller[c].at # "idle" /\ UNCHANGED <<jobs, buffer>>
    BY <1>12 DEF Bind, Launch, Inferred, Holding
  <2>2. PICK n \in Loads, i \in Indices :
          n = caller[c].pool /\ i = caller[c].index /\ Held(n, i) /\ Whereabouts(n, i) /\ request[n][i] \in Request
    BY <1>1, <2>1, Holder DEF Conserved
  <2>3. PICK r : request' = [request EXCEPT ![n][i] = r] /\
                 \/ Bind(c) /\ r = Bound(c)
                 \/ Launch(c) /\ r = [request[n][i] EXCEPT !.state = "running"]
                 \/ Inferred(c) /\ r = Unbound
    BY <1>12, <2>2 DEF Bind, Launch, Inferred
  <2>4. request'[n][i] = r /\ \A m \in Loads, k \in Indices : m # n \/ k # i => request'[m][k] = request[m][k]
    BY <1>1, <2>3
  <2>5. /\ \A d \in Callers : d # c => caller'[d] = caller[d]
        /\ \/ caller'[c].at = "idle" /\ OnlyOf(caller[c].job)
           \/ caller'[c].job = caller[c].job /\ caller'[c].mode = caller[c].mode /\ UNCHANGED outcome
    <3>1. CASE Bind(c)
      BY <1>10, <3>1 DEF Bind, Positions, Holding
    <3>2. CASE Launch(c) /\ Return(c, "started")
      BY <1>9, <3>2
    <3>3. CASE Launch(c) /\ Go(c, "infer") /\ UNCHANGED outcome
      BY <1>10, <3>3 DEF Positions, Holding
    <3>4. CASE Inferred(c)
      <4>1. request[n][i].job = caller[c].job
        BY <2>2, <3>4 DEF Inferred, ModelOfPool
      <4>2. caller'[c].at = "idle" /\ \A d \in Callers : d # c => caller'[d] = caller[d]
        BY <1>1, <3>4 DEF Inferred, AtRest
      <4>3. OnlyOf(request[n][i].job)
        BY <1>1, <2>2, <3>4 DEF Inferred, Told
      <4> QED  BY <4>1, <4>2, <4>3
    <3> QED  BY <1>12, <3>1, <3>2, <3>3, <3>4 DEF Launch
  <2>6. JobOfCall' /\ \A m \in Loads, k \in Indices : m # n \/ k # i => Continues(m, k)
    BY <1>6, <2>1, <2>4, <2>5
  <2>7. CASE Bind(c) \/ Inferred(c)
    <3>1. r.state = "idle" \/ r.mode # "async"
      <4>1. CASE r = Bound(c)
        BY <4>1 DEF Bound
      <4>2. CASE r = Unbound
        BY <4>2 DEF Unbound
      <4>3. CASE Launch(c)
        BY <2>7, <4>3 DEF Launch, Bind, Inferred
      <4> QED  BY <2>3, <4>1, <4>2, <4>3
    <3>2. r.state # "calling"
      <4>1. CASE r = Bound(c)
        BY <4>1 DEF Bound
      <4>2. CASE r = Unbound
        BY <4>2 DEF Unbound
      <4>3. CASE Launch(c)
        BY <2>7, <4>3 DEF Launch, Bind, Inferred
      <4> QED  BY <2>3, <4>1, <4>2, <4>3
    <3>3. Continues(n, i)
      BY <1>5, <2>4, <3>1, <3>2 DEF AtWork
    <3> QED  BY <1>7, <2>1, <2>6, <3>3
  <2>8. CASE Launch(c)
    <3>1. caller[c].at = "start" /\ ~Bind(c) /\ ~Inferred(c)
      BY <2>8 DEF Launch, Bind, Inferred
    <3>2. /\ r.state = "running" /\ r.mode = request[n][i].mode /\ r.copied = request[n][i].copied
          /\ r.data = request[n][i].data /\ r.job = request[n][i].job /\ r.model = request[n][i].model
      BY <2>2, <2>3, <3>1 DEF Request
    <3>3. /\ r.mode = caller[c].mode /\ r.job = caller[c].job /\ r.data = r.job /\ r.model = n
          /\ r.copied = (r.mode = "async")
      <4>1. LET q == request[n][i]
            IN  /\ q.mode = caller[c].mode /\ q.job = caller[c].job /\ q.data = q.job /\ q.model = n
                /\ q.copied = (q.mode = "async")
        BY <2>2, <3>1 DEF ModelOfPool
      <4> QED  BY <3>2, <4>1
    <3>4. CASE caller[c].mode # "async"
      BY <1>5, <1>7, <2>1, <2>4, <2>6, <3>2, <3>3, <3>4 DEF AtWork
    <3>5. CASE caller[c].mode = "async"
      <4>1. Return(c, "started")
        BY <2>8, <3>5 DEF Launch
      <4>2. outcome'[caller[c].job] = [returned |-> "started", answers |-> <<>>]
        <5>1. outcome' = [outcome EXCEPT ![caller[c].job].returned = "started"] /\ outcome[caller[c].job] = Fresh
          BY <1>2, <2>1, <4>1 DEF Return
        <5>2. outcome'[caller[c].job] = [Fresh EXCEPT !.returned = "started"]
          BY <1>1, <1>2, <2>1, <5>1
        <5> QED  BY <5>2 DEF Fresh
      <4>3. caller[c].job \in 1 .. jobs
        BY <1>2, <2>1
      <4>4. ASSUME NEW a \in Loads, NEW b \in Indices, a # n \/ b # i, Unanswered(a, b)'
            PROVE  Unanswered(a, b) /\ request'[a][b].job = request[a][b].job /\ request[a][b].job # caller[c].job
        <5>1. Unanswered(a, b) /\ request'[a][b] = request[a][b]
          BY <2>4, <4>4 DEF Unanswered, AtWork
        <5> QED  BY <1>3, <2>1, <5>1
      <4>5. ASSUME NEW a \in Loads, NEW b \in Indices
            PROVE  LET q == request'[a][b]
                   IN  /\ AtWork(a, b)' => q.copied /\ q.data = q.job /\ q.model = a /\ q.job \in 1 .. jobs'
                       /\ q.state = "calling" => q.mode = "async"
                       /\ Unanswered(a, b)' => outcome'[q.job] = [returned |-> "started", answers |-> <<>>]
        <5>1. CASE a = n /\ b = i
          BY <2>1, <2>4, <3>2, <3>3, <3>5, <4>2, <4>3, <5>1
        <5>2. CASE a # n \/ b # i
          <6>1. Continues(a, b) /\ request'[a][b] = request[a][b]
            BY <2>4, <2>6, <5>2
          <6> QED  BY <2>1, <6>1 DEF Continues, JobAtWork, AtWork, Unanswered
        <5> QED  BY <5>1, <5>2
      <4>6. ASSUME NEW a \in Loads, NEW b \in Loads, NEW k \in Indices, NEW l \in Indices,
                   Unanswered(a, k)', Unanswered(b, l)', request'[a][k].job = request'[b][l].job
            PROVE  a = b /\ k = l
        <5>1. CASE a = n /\ k = i
          BY <2>4, <3>3, <4>4, <4>6, <5>1
        <5>2. CASE b = n /\ l = i
          BY <2>4, <3>3, <4>4, <4>6, <5>2
        <5>3. CASE ~(a = n /\ k = i) /\ ~(b = n /\ l = i)
          BY <4>4, <4>6, <5>3 DEF JobAtWork
        <5> QED  BY <5>1, <5>2, <5>3
      <4>7. JobAtWork'
        BY <4>5, <4>6 DEF JobAtWork
      <4> QED  BY <2>6, <4>7
    <3> QED  BY <3>4, <3>5
  <2> QED  BY <1>12, <2>7, <2>8
<1>13. ASSUME NEW c \in Callers, Call(c) \/ CallerStep(c) PROVE Goal
  BY <1>8, <1>11, <1>12, <1>13 DEF CallerStep
\* The steps of the others: a caller is at most woken.
<1>14. ASSUME ~\E c \in Callers : Call(c) \/ CallerStep(c), NEW x \in 0 .. jobs, \A c \in Callers : caller[c].at # "idle" => caller[c].job # x
       PROVE  Calls(x)
  <2> SUFFICES ASSUME NEW d \in Callers PROVE Stays(d, x)
    OBVIOUS
  <2>1. CASE caller'[d] = caller[d]
    BY <1>14, <2>1 DEF Stays
  <2>2. CASE caller[d].at = "waiting" /\ caller'[d] = [caller[d] EXCEPT !.at = "acquire"]
    <3>1. caller'[d].job = caller[d].job /\ caller'[d].mode = caller[d].mode /\ caller[d].at # "idle"
      BY <1>1, <2>2 DEF Place
    <3> QED  BY <1>14, <3>1 DEF Stays
  <2> QED  BY <1>14, <2>1, <2>2, OwnSteps
<1>15. ASSUME ~\E c \in Callers : Call(c) \/ CallerStep(c), UNCHANGED <<jobs, buffer, outcome>>
       PROVE  JobOfCall'
  <2>1. 0 \in 0 .. jobs /\ \A c \in Callers : caller[c].at # "idle" => caller[c].job # 0
    BY <1>1, <1>2
  <2>2. Calls(0)
    BY <1>14, <1>15, <2>1
  <2> QED  BY <1>15, <2>1, <2>2, CallsKept
<1>16. ASSUME ~\E c \in Callers : Call(c) \/ CallerStep(c), UNCHANGED <<jobs, buffer, outcome, request>>
       PROVE  Goal
  <2>1. Works
    BY <1>4, <1>16
  <2> QED  BY <1>7, <1>15, <1>16, <2>1
<1>17. ASSUME ~\E c \in Callers : Call(c) \/ CallerStep(c), NEW n \in Loads, NEW i \in Indices, RuntimeStep(n, i)
       PROVE  Goal
  <2>1. UNCHANGED <<jobs, buffer>> /\ request[n][i] \in Request
    BY <1>1, <1>17 DEF RuntimeStep, Run, CallBack, CalledBack
  <2>2. PICK r : request' = [request EXCEPT ![n][i] = r] /\
                 \/ Run(n, i) /\ r = [request[n][i] EXCEPT !.state = "ran"]
                 \/ CallBack(n, i) /\ r = [request[n][i] EXCEPT !.state = "calling"]
                 \/ CalledBack(n, i) /\ r = Unbound
    BY <1>17 DEF RuntimeStep, Run, CallBack, CalledBack
  <2>3. request'[n][i] = r /\ \A m \in Loads, k \in Indices : m # n \/ k # i => request'[m][k] = request[m][k]
    BY <1>1, <2>2
  <2>4. CASE Run(n, i)
    <3>1. UNCHANGED outcome /\ request[n][i].state = "running" /\ r = [request[n][i] EXCEPT !.state = "ran"]
      BY <2>2, <2>4 DEF Run, CallBack, CalledBack, JobAtWork
    <3>2. /\ r.state = "ran" /\ r.data = request[n][i].data /\ r.model = request[n][i].model
          /\ r.copied = request[n][i].copied /\ r.by = request[n][i].by /\ r.mode = request[n][i].mode
          /\ r.job = request[n][i].job
      BY <2>1, <3>1 DEF Request
    <3>3. Continues(n, i)
      BY <2>3, <3>1, <3>2 DEF Continues, AtWork, Unanswered, SameContent
    <3>4. \A m \in Loads, k \in Indices : m # n \/ k # i => Continues(m, k)
      BY <1>4, <2>3, <3>1
    <3> QED  BY <1>7, <1>15, <1>17, <2>1, <3>1, <3>3, <3>4
  <2>5. CASE CallBack(n, i)
    <3>1. /\ request[n][i].state = "ran" /\ request[n][i].mode = "async"
          /\ r = [request[n][i] EXCEPT !.state = "calling"]
      BY <2>2, <2>5 DEF Run, CallBack, CalledBack
    <3>2. /\ r.state = "calling" /\ r.data = request[n][i].data /\ r.model = request[n][i].model
          /\ r.copied = request[n][i].copied /\ r.by = request[n][i].by /\ r.mode = request[n][i].mode
          /\ r.job = request[n][i].job
      BY <2>1, <3>1 DEF Request
    <3>3. Unanswered(n, i)
      BY <3>1 DEF Unanswered, AtWork
    <3>4. Continues(n, i)
      BY <2>3, <3>1, <3>2 DEF Continues, AtWork, Unanswered, SameContent
    <3>5. OnlyOf(request[n][i].job)
      BY <1>1, <2>5 DEF CallBack, Told
    <3>6. \A m \in Loads, k \in Indices : (m # n \/ k # i) /\ Unanswered(m, k) =>
            request[m][k].job # request[n][i].job
      BY <3>3 DEF JobAtWork
    <3>7. ASSUME NEW m \in Loads, NEW k \in Indices, m # n \/ k # i PROVE Continues(m, k)
      <4>1. Unanswered(m, k) => outcome'[request[m][k].job] = outcome[request[m][k].job]
        BY <1>3, <3>5, <3>6, <3>7
      <4> QED  BY <1>4, <2>3, <3>7, <4>1
    <3>8. PICK x \in 0 .. jobs : x = request[n][i].job /\ \A c \in Callers : caller[c].at # "idle" => caller[c].job # x
      <4>1. /\ request[n][i].job \in 1 .. jobs
            /\ \A c \in Callers : caller[c].at # "idle" => request[n][i].job # caller[c].job
        BY <1>3, <3>3
      <4>2. request[n][i].job \in 0 .. jobs
        BY <1>1, <4>1
      <4> QED  BY <4>1, <4>2
    <3>9. Calls(x)
      BY <1>14, <1>17, <3>8
    <3>10. JobOfCall'
      BY <2>1, <3>5, <3>8, <3>9, CallsKept
    <3> QED  BY <1>7, <2>1, <3>4, <3>7, <3>10
  <2>6. CASE CalledBack(n, i)
    <3>1. UNCHANGED outcome /\ request[n][i].state = "calling"
      BY <2>6 DEF CalledBack
    <3>2. r = Unbound
      BY <2>2, <3>1 DEF Run, CallBack
    <3>3. Continues(n, i)
      BY <1>5, <2>3, <3>2 DEF AtWork, Unbound
    <3>4. \A m \in Loads, k \in Indices : m # n \/ k # i => Continues(m, k)
      BY <1>4, <2>3, <3>1
    <3> QED  BY <1>7, <1>15, <1>17, <2>1, <3>1, <3>3, <3>4
  <2> QED  BY <1>17, <2>4, <2>5, <2>6 DEF RuntimeStep
<1>18. CASE UNCHANGED vars \/ LoadModel \/ Release \/ OwnerStep \/ \E n \in Loads : NotifyOne(n)
  <2>1. UNCHANGED <<jobs, buffer, outcome, request>>
    BY <1>18 DEF vars, LoadModel, Release, OwnerStep, OwnerAssigns, MovePool, Shutdown, NotifyAll, WaitAll, LoadFails,
      MakePool, FillPool, NotifyOne
  <2> QED  BY <1>13, <1>16, <2>1
<1> HIDE DEF Goal
<1>19. CASE \E n \in Loads : NotifyOne(n) \/ \E i \in Indices : RuntimeStep(n, i)
  BY <1>13, <1>17, <1>18, <1>19 DEF Goal
<1> QED  BY <1>13, <1>18, <1>19 DEF Next, Goal

-----------------------------------------------------------------------------
(* Answers                                                                 *)

\* The first answer of a job is its only one.
LEMMA FirstAnswer == ASSUME NEW a PROVE Len(Append(<<>>, a)) = 1 /\ \A b \in Range(Append(<<>>, a)) : b = a
<1>1. <<>> \in Seq({a}) /\ Len(<<>>) = 0
  BY EmptySeq
<1>2. Append(<<>>, a) \in Seq({a}) /\ Len(Append(<<>>, a)) = 1
  BY <1>1, AppendProperties
<1>3. DOMAIN Append(<<>>, a) = 1 .. 1 /\ \A k \in 1 .. 1 : Append(<<>>, a)[k] \in {a}
  BY <1>2, LenProperties, ElementOfSeq
<1> QED  BY <1>2, <1>3 DEF Range

\* Every step keeps the answers of a job its own.
LEMMA AnswersKept ==
  ASSUME Types, \A n \in Loads : Conserved(n), ModelOfPool, JobOfCall, JobAtWork, OwnAnswer, [Next]_vars
  PROVE  OwnAnswer'
<1> DEFINE Own(o, j) == /\ Len(o.answers) <= 1
                        /\ o.returned \in {"refused", "failed"} => o.answers = <<>>
                        /\ \A a \in Range(o.answers) : a = NoAnswer \/ (a.data = j /\ a.model = a.pool)
           Goal == \A j \in Jobs : Own(outcome'[j], j)
<1>1. /\ request \in [Loads -> [Indices -> Request]] /\ caller \in [Callers -> Place] /\ outcome \in [Jobs -> Outcome]
      /\ jobs \in Nat /\ jobs <= MaxJobs /\ MaxJobs \in Nat
  BY EngineAssumption DEF Types
<1>2. \A j \in Jobs : Own(outcome[j], j)
  BY DEF OwnAnswer
<1>3. \A o, j : o.answers = <<>> => Own(o, j)
  <2>1. Len(<<>>) = 0 /\ Range(<<>>) = {}
    BY EmptySeq DEF Range
  <2> QED  BY <2>1
<1>4. ASSUME NEW j, NEW a, NEW o, o.answers = Append(<<>>, a), o.returned \notin {"refused", "failed"},
             a = NoAnswer \/ (a.data = j /\ a.model = a.pool)
      PROVE  Own(o, j)
  BY <1>4, FirstAnswer
<1> HIDE DEF Own
<1>5. UNCHANGED outcome => Goal
  BY <1>2
<1>6. ASSUME NEW k \in Jobs, \A j \in Jobs : j # k => outcome'[j] = outcome[j], Own(outcome'[k], k)
      PROVE  Goal
  BY <1>2, <1>6
<1>7. ASSUME NEW c \in Callers, NEW x \in {"refused", "failed", "started"}, caller[c].at # "idle", Return(c, x)
      PROVE  Goal
  <2>1. caller[c].job \in Jobs /\ outcome[caller[c].job].answers = <<>>
    BY <1>1, <1>7 DEF JobOfCall, Jobs, Fresh
  <2>2. outcome'[caller[c].job].answers = <<>> /\ \A j \in Jobs : j # caller[c].job => outcome'[j] = outcome[j]
    BY <1>7, <2>1, Returned
  <2> QED  BY <1>3, <1>6, <2>1, <2>2
<1>8. ASSUME NEW c \in Callers, Inferred(c) PROVE Goal
  <2>1. caller[c].at \in Holding /\ caller[c].at = "infer"
    BY <1>8 DEF Inferred, Holding
  <2>2. PICK n \in Loads, i \in Indices : n = caller[c].pool /\ i = caller[c].index
    BY <2>1, Holder
  <2>3. PICK j \in Jobs : j = caller[c].job /\ outcome[j] = Fresh /\ buffer[c] = j
    BY <2>1, Holder
  <2>4. PICK r \in Request : r = request[n][i]
    BY <1>1
  <2>5. r.job = j /\ r.data = j /\ r.by = c /\ r.model = n
    BY <2>1, <2>2, <2>3, <2>4 DEF ModelOfPool
  <2>6. PICK a : a = Answer(n, r) /\ a.data = j /\ a.model = a.pool /\ a \in Answers
    <3>1. Answer(n, r).data = j /\ Answer(n, r).model = Answer(n, r).pool
      BY <2>3, <2>5 DEF Answer
    <3>2. Answer(n, r) \in Answers
      BY <1>1, <2>3, <2>5, EngineAssumption DEF Answer, Answers, Loads, Jobs
    <3> QED  BY <3>1, <3>2
  <2>7. \/ outcome' = [Told(j, a) EXCEPT ![j].returned = "answered"]
        \/ outcome' = [outcome EXCEPT ![j].returned = "failed"]
    BY <1>8, <2>2, <2>4, <2>5, <2>6 DEF Inferred
  <2>8. CASE outcome' = [outcome EXCEPT ![j].returned = "failed"]
    <3>1. outcome'[j].answers = <<>> /\ \A k \in Jobs : k # j => outcome'[k] = outcome[k]
      BY <1>1, <2>3, <2>8 DEF Fresh
    <3> QED  BY <1>3, <1>6, <3>1
  <2>9. CASE outcome' = [Told(j, a) EXCEPT ![j].returned = "answered"]
    <3>1. /\ Told(j, a) \in [Jobs -> Outcome] /\ \A k \in Jobs : k # j => Told(j, a)[k] = outcome[k]
          /\ Told(j, a)[j].answers = Append(<<>>, a)
      BY <2>3, <2>6, Answered DEF Fresh
    <3>2. \A k \in Jobs : k # j => outcome'[k] = outcome[k]
      BY <2>9, <3>1
    <3>3. outcome'[j].answers = Append(<<>>, a) /\ outcome'[j].returned = "answered"
      BY <2>9, <3>1 DEF Outcome
    <3>4. Own(outcome'[j], j)
      BY <1>4, <2>6, <3>3
    <3> QED  BY <1>6, <3>2, <3>4
  <2> QED  BY <2>7, <2>8, <2>9
<1>9. ASSUME NEW n \in Loads, NEW i \in Indices, CallBack(n, i) PROVE Goal
  <2>1. PICK r \in Request : r = request[n][i]
    BY <1>1
  <2>2. Unanswered(n, i) /\ AtWork(n, i)
    BY <1>9 DEF CallBack, Unanswered, AtWork
  <2>3. /\ r.copied /\ r.data = r.job /\ r.model = n /\ r.job \in 1 .. jobs
        /\ outcome[r.job] = [returned |-> "started", answers |-> <<>>]
    BY <2>1, <2>2 DEF JobAtWork
  <2>4. PICK j \in Jobs : j = r.job
    BY <1>1, <2>3 DEF Jobs
  <2>5. PICK a : a \in Answers /\ outcome' = Told(j, a) /\ (a = NoAnswer \/ (a.data = j /\ a.model = a.pool))
    <3>1. PICK ok \in BOOLEAN : outcome' = Told(j, IF ok THEN Answer(n, r) ELSE NoAnswer)
      BY <1>9, <2>1, <2>4 DEF CallBack
    <3>2. Answer(n, r).data = j /\ Answer(n, r).model = Answer(n, r).pool
      BY <2>3, <2>4 DEF Answer
    <3>3. Answer(n, r) \in Answers /\ NoAnswer \in Answers
      BY <1>1, <2>3, <2>4, EngineAssumption DEF Answer, NoAnswer, Answers, Loads, Jobs
    <3>4. CASE ok
      BY <3>1, <3>2, <3>3, <3>4
    <3>5. CASE ~ok
      BY <3>1, <3>3, <3>5
    <3> QED  BY <3>4, <3>5
  <2>6. /\ \A k \in Jobs : k # j => outcome'[k] = outcome[k]
        /\ outcome'[j].answers = Append(<<>>, a) /\ outcome'[j].returned = "started"
    BY <2>3, <2>4, <2>5, Answered
  <2>7. Own(outcome'[j], j)
    BY <1>4, <2>5, <2>6
  <2> QED  BY <1>6, <2>6, <2>7
<1>10. ASSUME NEW c \in Callers, Call(c) \/ CallerStep(c) PROVE Goal
  <2>1. CASE caller[c].at # "idle" /\ (Return(c, "refused") \/ Return(c, "failed") \/ Return(c, "started"))
    BY <1>7, <2>1
  <2>2. CASE UNCHANGED outcome
    BY <1>5, <2>2
  <2> QED  BY <1>8, <1>10, <2>1, <2>2 DEF CallerStep, Call, ReadPool, ReadModel, Check, CheckAccepting, Acquire, Bind,
             BindFails, Launch
<1>11. ASSUME NEW n \in Loads, NEW i \in Indices, RuntimeStep(n, i) PROVE Goal
  BY <1>5, <1>9, <1>11 DEF RuntimeStep, Run, CalledBack
<1>12. ASSUME NEW n \in Loads, NotifyOne(n) PROVE Goal
  BY <1>5, <1>12 DEF NotifyOne
<1>13. CASE \E n \in Loads : NotifyOne(n) \/ \E i \in Indices : RuntimeStep(n, i)
  BY <1>11, <1>12, <1>13 DEF Own, OwnAnswer
<1>14. CASE UNCHANGED vars \/ LoadModel \/ Release \/ OwnerStep
  <2>1. UNCHANGED outcome
    BY <1>14 DEF vars, LoadModel, Release, OwnerStep, OwnerAssigns, MovePool, Shutdown, NotifyAll, WaitAll, LoadFails,
      MakePool, FillPool
  <2> QED  BY <1>5, <2>1 DEF Own, OwnAnswer
<1>15. CASE \E c \in Callers : Call(c) \/ CallerStep(c)
  BY <1>10, <1>15 DEF Own, OwnAnswer
<1> QED  BY <1>13, <1>14, <1>15 DEF Next

-----------------------------------------------------------------------------
(* What the runs check                                                     *)

\* The invariant is inductive.
LEMMA StepKeeps == IInv /\ [Next]_vars => IInv'
<1> SUFFICES ASSUME IInv, [Next]_vars PROVE IInv'
  OBVIOUS
<1> USE DEF IInv
<1>1. Types'
  BY TypesKept
<1>2. InPlan(owner.todo)'
  BY PlanKept
<1>3. EngineOfOneLoad' /\ PoolsInTurn'
  BY EngineKept
<1>4. (\A n \in Loads : Conserved(n)') /\ QuietOnceWaited'
  BY RequestsKept
<1>5. ModelOfPool'
  BY ModelKept
<1>6. JobOfCall' /\ JobAtWork'
  BY JobsKept
<1>7. OwnAnswer'
  BY AnswersKept
<1> QED  BY <1>1, <1>2, <1>3, <1>4, <1>5, <1>6, <1>7

\* The invariant implies what the runs check of the pools.
LEMMA EveryRequestInOnePlace == IInv => TypeOK
<1> SUFFICES ASSUME IInv PROVE TypeOK
  OBVIOUS
<1>1. Types /\ ModelOfPool /\ JobOfCall /\ \A n \in Loads : Conserved(n)
  BY DEF IInv
<1>2. ASSUME NEW c \in Callers, NEW d \in Callers,
             caller[c].at \in {"bind", "start", "infer"}, caller[d].at \in {"bind", "start", "infer"},
             caller[c].pool = caller[d].pool, caller[c].index = caller[d].index
      PROVE  c = d
  <2>1. PICK n \in Loads, i \in Indices : Holds(c, n, i) /\ n = caller[c].pool /\ i = caller[c].index
    BY <1>1, <1>2, Holder DEF Holding
  <2>2. Holds(d, n, i)
    BY <1>2, <2>1 DEF Holds, Holding
  <2>3. Whereabouts(n, i)
    BY <1>1 DEF Conserved
  <2> QED  BY <2>1, <2>2, <2>3 DEF Whereabouts
<1>3. ASSUME NEW n \in Loads, pool[n].filled, NEW i \in Indices
      PROVE  (i \in Range(pool[n].idle)) = ~(Held(n, i) \/ AtWork(n, i)) /\ (Held(n, i) => ~AtWork(n, i))
  <2>1. Whereabouts(n, i)
    BY <1>1 DEF Conserved
  <2> QED  BY <1>3, <2>1 DEF Whereabouts, IsIdle
<1>4. \A n \in Loads : IsInjective(pool[n].idle)
  BY <1>1 DEF Conserved, Queue
<1>5. /\ engine \in [pool : 0 .. MaxLoads, model : 0 .. MaxLoads, initialized : BOOLEAN, accepting : BOOLEAN]
      /\ owner.loads \in 0 .. MaxLoads /\ owner.pool \in 0 .. MaxLoads /\ jobs \in 0 .. MaxJobs
  BY <1>1 DEF Types
<1> QED  BY <1>2, <1>3, <1>4, <1>5 DEF TypeOK

\* The invariant implies that a pool the owner has waited for is quiet.
LEMMA QuietWhenTornDown == IInv => QuietAfterRelease
<1> SUFFICES ASSUME IInv PROVE QuietAfterRelease
  OBVIOUS
<1>1. TypeOK
  BY EveryRequestInOnePlace
<1>2. ASSUME NEW n \in Loads, TornDown(n) PROVE Quiet(n)
  <2>1. owner.todo # <<>> => Head(owner.todo) \in Range(owner.todo)
    <3>1. owner.todo \in Seq(Steps)
      BY DEF IInv, Types
    <3>2. owner.todo # <<>> => 1 \in DOMAIN owner.todo /\ Head(owner.todo) = owner.todo[1]
      BY <3>1, EmptySeq, LenProperties
    <3> QED  BY <3>2 DEF Range
  <2>2. ~(owner.pool = n /\ Now \in {"notify_all", "wait_all", "asleep"})
    BY <1>2, <2>1 DEF TornDown, Now
  <2> QED  BY <1>2, <2>2 DEF IInv, QuietOnceWaited, TornDown
<1> QED  BY <1>1, <1>2 DEF QuietAfterRelease, Quiet

\* The inductive invariant, of every behaviour: who names a pool, where each request of it is, which
\* model and which job a caller and a request work for.
THEOREM Invariant == Spec => []IInv
<1>1. Init => IInv
  BY Initially
<1>2. IInv /\ [Next]_vars => IInv'
  BY StepKeeps
<1> QED  BY <1>1, <1>2, PTL DEF Spec

\* A job gets at most one answer, made from its own input by the model whose pool lent the request, for
\* every number of callers, requests, loads and jobs; a refused or failed call gets none
\* (openvino_engine.cpp:525-615).
THEOREM OwnAnswers == Spec => []OwnAnswer
<1>1. IInv => OwnAnswer
  BY DEF IInv
<1> QED  BY <1>1, Invariant, PTL

\* A request of a pool is idle, held by one caller or at work, and after Release has waited for a pool
\* none of its requests is held or runs, nor is a callback of it called or to come
\* (openvino_engine.cpp:617-629, openvino_request_pool.cpp:41-96).
THEOREM ReleaseQuiets == Spec => []QuietAfterRelease
<1>1. IInv => QuietAfterRelease
  BY QuietWhenTornDown
<1> QED  BY <1>1, Invariant, PTL

=============================================================================
