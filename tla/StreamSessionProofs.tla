------------------------- MODULE StreamSessionProofs -------------------------
(***************************************************************************)
(* Machine-checked proofs about StreamSession: for any number of threads   *)
(* that run the io_context and that start and stop the session, any number *)
(* of calls, connections and packets, and every limit.                     *)
(***************************************************************************)
EXTENDS StreamSession, SequenceTheorems, FiniteSetTheorems, WellFoundedInduction, TLAPS

-----------------------------------------------------------------------------
(* The inductive invariant                                                 *)

\* What a thread may have to do: to open, read and reopen a connection, ...
ReaderOnes == {"open", "opened", "refused", "arm", "reconnect", "reopen", "reopened", "lost", "retry",
               "read", "reading", "NoData", "packet", "again"}
Delivering == {"dispatch", "callback", "enqueue", "push"}
ReaderPlans ==
  {<<s>> : s \in ReaderOnes} \cup {<<"run", "arm">>, <<"hangUp", "retry">>}
    \cup {<<s, "again">> : s \in Delivering}

\* ... to empty the jitter buffer, to end the loop, or to stop the session.
DecoderPlans ==
  {<<"decoder">>, <<"pop">>, <<"rearm">>, <<"dispatch", "rearm">>, <<"callback", "rearm">>}
EndPlans == {<<s>> : s \in Ends \cup {"finished", "failed"}}
StopPlans == {<<"halt", "stopped">>, <<"stopped">>}

Plan(todo) ==
  \/ todo \in {<<>>} \cup ReaderPlans \cup EndPlans \cup StopPlans
  \/ todo \in DecoderPlans /\ mode.jitter
  \/ todo = <<"watchdog">> /\ mode.watchdog

Fields(r) == DOMAIN r = {"todo", "gen", "conn", "packet"}

SessionRecord == [state : States, running : BOOLEAN, generation : Nat, count : Nat, fresh : BOOLEAN]
PullerRecord == [conn : Nat, opens : Nat, packets : Nat]

Types ==
  /\ mode \in Modes
  /\ session \in SessionRecord /\ puller \in PullerRecord
  /\ timer \in [Timers -> Nat]
  /\ ready \in Seq([do : Timers \cup {"read"}, gen : Nat])
  /\ DOMAIN thread = Threads
  /\ \A t \in Threads : Fields(thread[t]) /\ Plan(thread[t].todo) /\ thread[t].gen \in Nat

\* Timers and handlers of the jitter buffer and of the watchdog are there if these are.
Wanted(x) == (x = "decoder" => mode.jitter) /\ (x = "watchdog" => mode.watchdog)
TimersWanted ==
  /\ \A x \in Timers : timer[x] # 0 => Wanted(x)
  /\ \A i \in DOMAIN ready : Wanted(ready[i].do)

\* After a Stop everything there is comes from an earlier generation.
Newest == IF lastCall = "stop" THEN session.generation - 1 ELSE session.generation
Ages ==
  /\ lastCall = "stop" => session.generation >= 2
  /\ session.state # "IDLE" => session.generation >= 1
  /\ \A t \in Threads : thread[t].todo \notin {<<>>} \cup StopPlans => thread[t].gen \in 1 .. Newest
  /\ \A t \in Threads : thread[t].todo \in StopPlans => session.generation >= 2
  /\ \A i \in DOMAIN ready : ready[i].gen \in 1 .. Newest
  /\ \A x \in Timers : timer[x] \in 0 .. Newest

\* Of each generation there is one reader: a thread that opens, reads or reopens the connection,
\* a handler that will, or a wait for the next attempt.
Reads(t) == thread[t].todo \in ReaderPlans
WillRead(h) == h.do \in {"read", "reconnect"}
OneReader ==
  /\ \A t, u \in Threads : Reads(t) /\ Reads(u) /\ thread[t].gen = thread[u].gen => t = u
  /\ \A i, j \in DOMAIN ready :
       WillRead(ready[i]) /\ WillRead(ready[j]) /\ ready[i].gen = ready[j].gen => i = j
  /\ \A t \in Threads : \A i \in DOMAIN ready :
       Reads(t) /\ WillRead(ready[i]) => thread[t].gen # ready[i].gen
  /\ \A t \in Threads : Reads(t) => thread[t].gen # timer.reconnect
  /\ \A i \in DOMAIN ready : WillRead(ready[i]) => ready[i].gen # timer.reconnect

\* While the reader hangs up, nobody else reports the session connected.
HangsUp ==
  session.generation = 1 =>
    \A t \in Threads : thread[t].todo = <<"hangUp", "retry">> => session.state # "CONNECTED"

\* A connection that is open after a Stop is about to be closed.
Closing == {<<"halt", "stopped">>, <<"opened">>, <<"reopened">>}
ClosedInTheEnd ==
  lastCall = "stop" /\ puller.conn # 0 => \E t \in Threads : thread[t].todo \in Closing

\* DecoderDriven, by the plans in which it names a step.
Drives ==
  DecoderPlans \cup {<<"arm">>, <<"run", "arm">>, <<"lost">>, <<"hangUp", "retry">>}
Tending ==
  mode.jitter /\ session.running /\ session.state = "CONNECTED" /\ session.generation = 1
DecoderTended ==
  Tending =>
    \/ timer.decoder # 0
    \/ \E i \in DOMAIN ready : ready[i].do = "decoder"
    \/ \E t \in Threads : thread[t].todo \in Drives

IInv ==
  /\ Types /\ TimersWanted /\ Ages
  /\ ~mode.watchdog => OneReader /\ HangsUp /\ DecoderTended
  /\ ClosedInTheEnd

-----------------------------------------------------------------------------
(* A thread goes on                                                        *)

\* Only thread t moves.
Only(t) ==
  /\ DOMAIN thread' = Threads
  /\ \A u \in Threads : u # t => thread'[u] = thread[u]

\* ... and what it does next it does for the same generation.
Same(t) ==
  /\ Only(t) /\ Fields(thread'[t])
  /\ thread'[t].gen \in Nat
  /\ thread'[t].todo # <<>> => thread'[t].gen = thread[t].gen

Singles ==
  ReaderOnes \cup Ends \cup {"finished", "failed", "stopped", "decoder", "pop", "rearm", "watchdog"}

LEMMA Tails ==
  ASSUME NEW s, NEW r
  PROVE  /\ Head(<<s>>) = s /\ Tail(<<s>>) = <<>> /\ <<s>> # <<>>
         /\ Head(<<s, r>>) = s /\ Tail(<<s, r>>) = <<r>> /\ <<s, r>> # <<>>
OBVIOUS

\* The plan of a thread, from the step it takes now.
LEMMA PlanOfStep ==
  ASSUME Types, NEW t \in Threads, NEW s, At(t, s)
  PROVE  /\ s \in Singles => thread[t].todo = <<s>>
         /\ s = "run" => thread[t].todo = <<"run", "arm">>
         /\ s = "hangUp" => thread[t].todo = <<"hangUp", "retry">>
         /\ s = "halt" => thread[t].todo = <<"halt", "stopped">>
         /\ s \in {"enqueue", "push"} => thread[t].todo = <<s, "again">>
         /\ s \in {"dispatch", "callback"} =>
              thread[t].todo = <<s, "again">> \/ (thread[t].todo = <<s, "rearm">> /\ mode.jitter)
<1>1. Plan(thread[t].todo) /\ thread[t].todo # <<>> /\ Head(thread[t].todo) = s
      BY DEF Types, At, Idle
<1>2. CASE thread[t].todo \in {<<r>> : r \in ReaderOnes}
      BY <1>1, <1>2, Tails DEF ReaderOnes
<1>0. "run" \notin Singles /\ "hangUp" \notin Singles /\ "halt" \notin Singles
      /\ \A r \in Delivering : r \notin Singles
      BY DEF Singles, ReaderOnes, Ends, Delivering
<1>3. CASE thread[t].todo \in {<<"run", "arm">>, <<"hangUp", "retry">>}
      <2>1. CASE s = "run" /\ thread[t].todo = <<"run", "arm">>  BY <2>1, <1>0
      <2>2. CASE s = "hangUp" /\ thread[t].todo = <<"hangUp", "retry">>  BY <2>2, <1>0
      <2> QED  BY <2>1, <2>2, <1>1, <1>3, Tails
<1>4. CASE thread[t].todo \in {<<r, "again">> : r \in Delivering}
      <2>1. s \in Delivering /\ thread[t].todo = <<s, "again">>  BY <1>1, <1>4, Tails
      <2> QED  BY <2>1, <1>0 DEF Delivering
<1>5. CASE thread[t].todo \in EndPlans
      BY <1>1, <1>5, Tails DEF EndPlans, Ends
<1>6. CASE thread[t].todo \in StopPlans
      <2>1. CASE s = "halt" /\ thread[t].todo = <<"halt", "stopped">>  BY <2>1, <1>0
      <2>2. CASE s = "stopped" /\ thread[t].todo = <<"stopped">>  BY <2>2
      <2> QED  BY <2>1, <2>2, <1>1, <1>6, Tails DEF StopPlans
<1>7. CASE thread[t].todo \in DecoderPlans /\ mode.jitter
      <2>1. CASE thread[t].todo \in {<<"decoder">>, <<"pop">>, <<"rearm">>}
            <3>1. PICK r \in {"decoder", "pop", "rearm"} : thread[t].todo = <<r>>  BY <2>1
            <3>2. s = r  BY <1>1, <3>1, Tails
            <3> QED  BY <3>1, <3>2
      <2>2. CASE thread[t].todo \in {<<"dispatch", "rearm">>, <<"callback", "rearm">>}
            <3>1. PICK r \in {"dispatch", "callback"} : thread[t].todo = <<r, "rearm">>  BY <2>2
            <3>2. s = r  BY <1>1, <3>1, Tails
            <3> QED  BY <3>1, <3>2, <1>0, <1>7 DEF Delivering
      <2> QED  BY <1>7, <2>1, <2>2 DEF DecoderPlans
<1>8. CASE thread[t].todo = <<"watchdog">>
      BY <1>1, <1>8, Tails
<1> QED  BY <1>1, <1>2, <1>3, <1>4, <1>5, <1>6, <1>7, <1>8 DEF Plan, ReaderPlans

LEMMA GoesOn ==
  ASSUME Types, NEW t \in Threads, NEW steps, Goes(t, steps)
  PROVE  /\ Same(t)
         /\ thread'[t].todo = steps \o Tail(thread[t].todo)
<1> DEFINE todo == steps \o Tail(thread[t].todo)
           r == IF todo = <<>> THEN Resting ELSE [thread[t] EXCEPT !.todo = todo]
<1>1. thread' = [thread EXCEPT ![t] = r]  BY DEF Goes
<1>2. DOMAIN thread = Threads /\ Fields(thread[t]) /\ thread[t].gen \in Nat  BY DEF Types
<1>3. CASE todo = <<>>
      <2>1. r = Resting  BY <1>3
      <2>2. Fields(r) /\ r.gen = 0 /\ r.todo = <<>> /\ r.todo = todo  BY <2>1, <1>3 DEF Resting, Fields
      <2> HIDE DEF r, todo
      <2>3. thread'[t] = r /\ Only(t)  BY <1>1, <1>2 DEF Only
      <2> QED  BY <2>2, <2>3 DEF Same, todo
<1>4. CASE todo # <<>>
      <2>1. r = [thread[t] EXCEPT !.todo = todo]  BY <1>4
      <2> HIDE DEF r, todo
      <2>2. Fields(r) /\ r.gen = thread[t].gen /\ r.todo = todo  BY <2>1, <1>2 DEF Fields
      <2>3. thread'[t] = r /\ Only(t)  BY <1>1, <1>2 DEF Only
      <2> QED  BY <2>2, <2>3, <1>2 DEF Same, todo
<1> QED  BY <1>3, <1>4

\* The last step of a plan is replaced, ...
LEMMA GoesOne ==
  ASSUME Types, NEW t \in Threads, NEW s, thread[t].todo = <<s>>,
         NEW S, NEW steps \in Seq(S), Goes(t, steps)
  PROVE  Same(t) /\ thread'[t].todo = steps
<1>1. Same(t) /\ thread'[t].todo = steps \o Tail(<<s>>)  BY GoesOn
<1>2. Tail(<<s>>) = <<>>  BY Tails
<1>3. steps \o <<>> = steps  OBVIOUS
<1> QED  BY <1>1, <1>2, <1>3

\* ... and the first of two, or it is left away.
LEMMA GoesTwo ==
  ASSUME Types, NEW t \in Threads, NEW s, NEW r, thread[t].todo = <<s, r>>
  PROVE  /\ Goes(t, <<>>) => Same(t) /\ thread'[t].todo = <<r>>
         /\ \A x : Goes(t, <<x>>) => Same(t) /\ thread'[t].todo = <<x, r>>
<1>1. Tail(<<s, r>>) = <<r>>  BY Tails
<1>4. <<>> \o <<r>> = <<r>>  OBVIOUS
<1>5. ASSUME NEW x  PROVE <<x>> \o <<r>> = <<x, r>>
      <2>1. /\ <<x>> \in Seq({x, r}) /\ <<x, r>> \in Seq({x, r})
            /\ <<r>> \in Seq({x, r}) /\ r \in {x, r}
            OBVIOUS
      <2>2. Append(<<x>>, r) = <<x>> \o <<r>>  BY <2>1, AppendIsConcat
      <2>3. /\ Append(<<x>>, r) \in Seq({x, r}) /\ Len(Append(<<x>>, r)) = 2 /\ Len(<<x, r>>) = 2
            /\ Append(<<x>>, r)[1] = x /\ Append(<<x>>, r)[2] = r
            BY <2>1
      <2>4. Append(<<x>>, r) = <<x, r>>
            <3>1. \A i \in 1 .. 2 : Append(<<x>>, r)[i] = <<x, r>>[i]
                  <4>1. \A i \in 1 .. 2 : i = 1 \/ i = 2  OBVIOUS
                  <4> QED  BY <4>1, <2>3
            <3> QED  BY <3>1, <2>1, <2>3, SeqEqual
      <2> QED  BY <2>2, <2>4
<1>2. ASSUME Goes(t, <<>>)  PROVE Same(t) /\ thread'[t].todo = <<r>>
      <2>1. Same(t) /\ thread'[t].todo = <<>> \o Tail(<<s, r>>)  BY <1>2, GoesOn
      <2> QED  BY <2>1, <1>1, <1>4
<1>3. ASSUME NEW x, Goes(t, <<x>>)  PROVE Same(t) /\ thread'[t].todo = <<x, r>>
      <2>1. Same(t) /\ thread'[t].todo = <<x>> \o Tail(<<s, r>>)  BY <1>3, GoesOn
      <2> QED  BY <2>1, <1>1, <1>5
<1> QED  BY <1>2, <1>3

-----------------------------------------------------------------------------
(* A step of a thread, as far as the invariant tells steps apart           *)

\* The plan goes on: a reader stays one, a thread that stops goes on stopping.
PlanGoesOn(t) ==
  LET now == thread[t].todo
      next == thread'[t].todo
  IN  /\ next \in {<<>>} \cup ReaderPlans \cup EndPlans \cup DecoderPlans \cup {<<"stopped">>}
      /\ next \in DecoderPlans => mode.jitter
      /\ next # <<>> => now # <<>>
      /\ next \in StopPlans => now \in StopPlans
      /\ now \in StopPlans => next \in {<<>>, <<"stopped">>}
      /\ next \in ReaderPlans /\ ~mode.watchdog => now \in ReaderPlans

\* The reader hands itself over: to a handler, or to a timer.
Posts(t) == ready' = Append(ready, Handler("read", thread[t].gen))
Waits(t) == timer'.reconnect = thread[t].gen
HandsOver(t) == thread[t].todo \in ReaderPlans /\ thread'[t].todo \notin ReaderPlans

Turn(t) ==
  /\ Same(t) /\ PlanGoesOn(t) /\ UNCHANGED <<mode, lastCall>>
  /\ session' \in SessionRecord /\ session'.generation = session.generation
  /\ puller' \in PullerRecord
  /\ session'.state # session.state => thread[t].todo # <<>>
  \* timers and handlers
  /\ timer' \in [Timers -> Nat]
  /\ \A x \in Timers :
       \/ timer'[x] \in {0, timer[x]}
       \/ timer'[x] = thread[t].gen /\ Wanted(x) /\ thread[t].todo \notin {<<>>} \cup StopPlans
  /\ timer'.reconnect \in {0, timer.reconnect} \/ (HandsOver(t) /\ Waits(t) /\ ready' = ready)
  /\ ready' = ready \/ (HandsOver(t) /\ Posts(t) /\ timer'.reconnect = timer.reconnect)
  \* what is said of the state
  /\ thread'[t].todo = <<"hangUp", "retry">> => session'.state # "CONNECTED"
  /\ session'.state = "CONNECTED" => session.state = "CONNECTED" \/ thread[t].todo \in ReaderPlans
  /\ ~mode.watchdog /\ Tending' =>
       \/ timer'.decoder # 0
       \/ thread'[t].todo \in Drives
       \/ Tending /\ thread[t].todo \notin Drives /\ (timer.decoder # 0 => timer'.decoder # 0)
  /\ lastCall = "stop" /\ puller'.conn # 0 =>
       \/ thread'[t].todo \in Closing
       \/ puller.conn # 0 /\ thread[t].todo \notin Closing

LEMMA TurnTypes ==
  ASSUME IInv, NEW t \in Threads, Turn(t)
  PROVE  Types'
<1>1. DOMAIN thread' = Threads /\ \A u \in Threads : u # t => thread'[u] = thread[u]
      BY DEF Turn, Same, Only
<1>2. Fields(thread'[t]) /\ thread'[t].gen \in Nat  BY DEF Turn, Same
<1>3. Plan(thread[t].todo)'
      BY DEF Turn, PlanGoesOn, Plan, StopPlans
<1>4. \A u \in Threads : Fields(thread[u]) /\ Plan(thread[u].todo) /\ thread[u].gen \in Nat
      BY DEF IInv, Types
<1>5. \A u \in Threads : u # t => Plan(thread[u].todo)'
      BY <1>1, <1>4 DEF Turn, Plan
<1>6. ready' \in Seq([do : Timers \cup {"read"}, gen : Nat])
      <2>1. PICK S : S = [do : Timers \cup {"read"}, gen : Nat]  OBVIOUS
      <2>2. PICK h : h = Handler("read", thread[t].gen)  OBVIOUS
      <2>3. h \in S  BY <2>1, <2>2, <1>4 DEF Handler
      <2>4. ready \in Seq(S)  BY <2>1 DEF IInv, Types
      <2>5. ready' = ready \/ ready' = Append(ready, h)  BY <2>2 DEF Turn, Posts
      <2>6. ready' \in Seq(S)  BY <2>3, <2>4, <2>5
      <2> QED  BY <2>1, <2>6
<1>7. session' \in SessionRecord /\ puller' \in PullerRecord /\ timer' \in [Timers -> Nat]  BY DEF Turn
<1>8. \A u \in Threads : Fields(thread'[u]) /\ Plan(thread[u].todo)' /\ thread'[u].gen \in Nat
      BY <1>1, <1>2, <1>3, <1>4, <1>5
<1>9. mode' \in Modes  BY DEF Turn, IInv, Types
<1> QED  BY <1>1, <1>6, <1>7, <1>8, <1>9 DEF Types

\* The handlers after a turn are those before it, and perhaps one more at the end.
LEMMA TurnReady ==
  ASSUME Types, NEW h \in [do : Timers \cup {"read"}, gen : Nat], ready' = Append(ready, h)
  PROVE  /\ DOMAIN ready' = 1 .. (Len(ready) + 1) /\ DOMAIN ready = 1 .. Len(ready) /\ Len(ready) \in Nat
         /\ ready'[Len(ready) + 1] = h
         /\ \A i \in DOMAIN ready : ready'[i] = ready[i]
         /\ \A i \in DOMAIN ready' : i \in DOMAIN ready \/ i = Len(ready) + 1
<1>1. ready \in Seq([do : Timers \cup {"read"}, gen : Nat])  BY DEF Types
<1> QED  BY <1>1

LEMMA ReadHandlerTyped ==
  ASSUME Types, NEW t \in Threads
  PROVE  /\ Handler("read", thread[t].gen) \in [do : Timers \cup {"read"}, gen : Nat]
         /\ Handler("read", thread[t].gen).do = "read"
         /\ Handler("read", thread[t].gen).gen = thread[t].gen
BY DEF Types, Handler

LEMMA TurnAges ==
  ASSUME IInv, NEW t \in Threads, Turn(t)
  PROVE  TimersWanted' /\ Ages'
<1>1. DOMAIN thread' = Threads /\ \A u \in Threads : u # t => thread'[u] = thread[u]
      BY DEF Turn, Same, Only
<1>2. Newest' = Newest /\ Newest \in Int /\ session'.generation = session.generation /\ lastCall' = lastCall
      BY DEF Turn, Newest, IInv, Types, SessionRecord
<1>3. thread[t].todo \notin {<<>>} \cup StopPlans => thread[t].gen \in 1 .. Newest
      BY DEF IInv, Ages
<1>4. HandsOver(t) => thread[t].todo \notin {<<>>} \cup StopPlans
      BY Tails DEF HandsOver, ReaderPlans, StopPlans, ReaderOnes, Delivering
<1>5. TimersWanted'
      <2>1. \A x \in Timers : timer'[x] # 0 => Wanted(x)
            BY DEF Turn, IInv, TimersWanted
      <2>2. \A i \in DOMAIN ready' : Wanted(ready'[i].do)
            <3>1. CASE ready' = ready  BY <3>1 DEF IInv, TimersWanted
            <3>2. CASE Posts(t)
                  BY <3>2, TurnReady, ReadHandlerTyped DEF Posts, IInv, TimersWanted, Wanted
            <3> QED  BY <3>1, <3>2 DEF Turn
      <2> QED  BY <2>1, <2>2 DEF TimersWanted, Wanted, Turn
<1>6. \A u \in Threads : thread'[u].todo \notin {<<>>} \cup StopPlans => thread'[u].gen \in 1 .. Newest
      <2>1. CASE thread'[t].todo \notin {<<>>} \cup StopPlans
            <3>1. thread[t].todo \notin {<<>>} \cup StopPlans
                  BY <2>1 DEF Turn, PlanGoesOn, StopPlans, IInv, Types
            <3> QED  BY <3>1, <2>1, <1>1, <1>3 DEF Turn, Same, IInv, Ages
      <2>2. CASE thread'[t].todo \in {<<>>} \cup StopPlans  BY <2>2, <1>1 DEF IInv, Ages
      <2> QED  BY <2>1, <2>2
<1>7. \A u \in Threads : thread'[u].todo \in StopPlans => session.generation >= 2
      <2>1. thread'[t].todo \in StopPlans => thread[t].todo \in StopPlans
            BY DEF Turn, PlanGoesOn, StopPlans
      <2> QED  BY <2>1, <1>1 DEF IInv, Ages
<1>8. \A i \in DOMAIN ready' : ready'[i].gen \in 1 .. Newest
      <2>1. CASE ready' = ready  BY <2>1 DEF IInv, Ages
      <2>2. CASE HandsOver(t) /\ Posts(t)
            BY <2>2, <1>3, <1>4, TurnReady, ReadHandlerTyped DEF Posts, IInv, Ages
      <2> QED  BY <2>1, <2>2 DEF Turn
<1>9. \A x \in Timers : timer'[x] \in 0 .. Newest
      <2>1. Newest >= 0  BY DEF Newest, IInv, Ages, Types, SessionRecord
      <2> QED  BY <2>1, <1>2, <1>3 DEF Turn, IInv, Ages
<1>10. session'.state # "IDLE" => session.generation >= 1
      <2>1. CASE session'.state = session.state  BY <2>1 DEF IInv, Ages
      <2>2. CASE thread[t].todo # <<>>
            BY <2>2, <1>3, <1>2 DEF IInv, Ages, Newest, Types, SessionRecord
      <2> QED  BY <2>1, <2>2 DEF Turn
<1>11. lastCall = "stop" => session.generation >= 2  BY DEF IInv, Ages
<1> QED  BY <1>2, <1>5, <1>6, <1>7, <1>8, <1>9, <1>10, <1>11 DEF Ages

LEMMA TurnReader ==
  ASSUME IInv, ~mode.watchdog, NEW t \in Threads, Turn(t)
  PROVE  OneReader'
<1>1. DOMAIN thread' = Threads /\ \A u \in Threads : u # t => thread'[u] = thread[u]
      BY DEF Turn, Same, Only
<1>2. thread'[t].todo \in ReaderPlans => thread[t].todo \in ReaderPlans /\ thread'[t].gen = thread[t].gen
      <2>1. <<>> \notin ReaderPlans  BY DEF ReaderPlans
      <2> QED  BY <2>1 DEF Turn, PlanGoesOn, Same
<1>3. OneReader  BY DEF IInv
<1>4. \A u \in Threads : thread[u].todo \in ReaderPlans => thread[u].gen \in Nat \ {0}
      <2>1. \A u \in Threads : thread[u].todo \in ReaderPlans => thread[u].todo \notin {<<>>} \cup StopPlans
            BY Tails DEF ReaderPlans, StopPlans, ReaderOnes, Delivering
      <2> QED  BY <2>1 DEF IInv, Ages, Newest, Types, SessionRecord
<1>5. \A i \in DOMAIN ready : ready[i].gen # 0
      BY DEF IInv, Ages
<1>6. \A u, v \in Threads : Reads(u)' /\ Reads(v)' /\ thread'[u].gen = thread'[v].gen => u = v
      BY <1>1, <1>2, <1>3 DEF OneReader, Reads
<1>7. CASE ready' = ready /\ timer'.reconnect \in {0, timer.reconnect}
      <2>1. \A u \in Threads : \A i \in DOMAIN ready :
              Reads(u)' /\ WillRead(ready[i]) => thread'[u].gen # ready[i].gen
            BY <1>1, <1>2, <1>3 DEF OneReader, Reads
      <2>2. \A u \in Threads : Reads(u)' => thread'[u].gen # timer'.reconnect
            BY <1>1, <1>2, <1>3, <1>4, <1>7 DEF OneReader, Reads
      <2>3. \A i \in DOMAIN ready : WillRead(ready[i]) => ready[i].gen # timer'.reconnect
            BY <1>3, <1>5, <1>7 DEF OneReader
      <2> QED  BY <1>3, <1>6, <1>7, <2>1, <2>2, <2>3 DEF OneReader, WillRead
<1>8. CASE HandsOver(t) /\ Waits(t) /\ ready' = ready
      <2>0. Reads(t) /\ ~Reads(t)'  BY <1>8 DEF HandsOver, Reads
      <2>1. \A u \in Threads : Reads(u)' => u # t /\ Reads(u) /\ thread'[u].gen = thread[u].gen
            BY <2>0, <1>1 DEF Reads
      <2>2. \A u \in Threads : \A i \in DOMAIN ready :
              Reads(u)' /\ WillRead(ready[i]) => thread'[u].gen # ready[i].gen
            BY <2>1, <1>3 DEF OneReader
      <2>3. \A u \in Threads : Reads(u)' => thread'[u].gen # timer'.reconnect
            BY <2>0, <2>1, <1>3, <1>8 DEF OneReader, Waits
      <2>4. \A i \in DOMAIN ready : WillRead(ready[i]) => ready[i].gen # timer'.reconnect
            BY <2>0, <1>3, <1>8 DEF OneReader, Waits
      <2> QED  BY <1>3, <1>6, <1>8, <2>2, <2>3, <2>4 DEF OneReader, WillRead
<1>9. CASE HandsOver(t) /\ Posts(t) /\ timer'.reconnect = timer.reconnect
      <2>0. Reads(t) /\ ~Reads(t)'  BY <1>9 DEF HandsOver, Reads
      <2>1. \A u \in Threads : Reads(u)' => u # t /\ Reads(u) /\ thread'[u].gen = thread[u].gen
            BY <2>0, <1>1 DEF Reads
      <2>10. PICK n : n = Len(ready) + 1  OBVIOUS
      <2>2. PICK h : /\ h = Handler("read", thread[t].gen) /\ n = Len(ready) + 1
                     /\ h.gen = thread[t].gen
            BY <2>10, ReadHandlerTyped DEF IInv, Types
      <2>3. /\ DOMAIN ready' = 1 .. n /\ ready'[n] = h
            /\ \A i \in DOMAIN ready : ready'[i] = ready[i]
            /\ \A i \in DOMAIN ready' : i \in DOMAIN ready \/ i = n
            BY <2>2, <1>9, TurnReady, ReadHandlerTyped DEF Posts, IInv
      <2>4. \A i \in DOMAIN ready : WillRead(ready[i]) => ready[i].gen # h.gen
            BY <2>0, <2>2, <1>3 DEF OneReader
      <2>5. \A i, j \in DOMAIN ready' :
              WillRead(ready'[i]) /\ WillRead(ready'[j]) /\ ready'[i].gen = ready'[j].gen => i = j
            BY <2>3, <2>4, <1>3 DEF OneReader
      <2>6. \A u \in Threads : Reads(u)' => thread'[u].gen # h.gen
            BY <2>0, <2>1, <2>2, <1>3 DEF OneReader
      <2>7. \A u \in Threads : \A i \in DOMAIN ready' :
              Reads(u)' /\ WillRead(ready'[i]) => thread'[u].gen # ready'[i].gen
            BY <2>1, <2>3, <2>6, <1>3 DEF OneReader
      <2>8. \A u \in Threads : Reads(u)' => thread'[u].gen # timer'.reconnect
            BY <2>1, <1>3, <1>9 DEF OneReader
      <2>9. \A i \in DOMAIN ready' : WillRead(ready'[i]) => ready'[i].gen # timer'.reconnect
            BY <2>0, <2>2, <2>3, <1>3, <1>9 DEF OneReader
      <2> QED  BY <1>6, <2>5, <2>7, <2>8, <2>9 DEF OneReader, WillRead
<1> QED  BY <1>7, <1>8, <1>9 DEF Turn

LEMMA TurnHangsUp ==
  ASSUME IInv, ~mode.watchdog, NEW t \in Threads, Turn(t)
  PROVE  HangsUp'
<1> SUFFICES ASSUME session'.generation = 1, NEW u \in Threads, thread'[u].todo = <<"hangUp", "retry">>,
                    session'.state = "CONNECTED"
             PROVE  FALSE
    BY DEF HangsUp
<1>1. u # t  BY DEF Turn
<1>2. thread[u] = thread'[u]  BY <1>1 DEF Turn, Same, Only
<1>3. session.generation = 1  BY DEF Turn
<1>4. session.state # "CONNECTED"  BY <1>2, <1>3 DEF IInv, HangsUp
<1>5. thread[t].todo \in ReaderPlans  BY <1>4 DEF Turn
<1>6. thread[u].todo \in ReaderPlans  BY <1>2 DEF ReaderPlans
<1>7. \A v \in Threads : thread[v].todo \in ReaderPlans => thread[v].gen = 1
      <2>1. \A v \in Threads : thread[v].todo \in ReaderPlans => thread[v].todo \notin {<<>>} \cup StopPlans
            BY Tails DEF ReaderPlans, StopPlans, ReaderOnes, Delivering
      <2> QED  BY <2>1, <1>3 DEF IInv, Ages, Newest, Types, SessionRecord
<1> QED  BY <1>1, <1>5, <1>6, <1>7 DEF IInv, OneReader, Reads

LEMMA TurnTended ==
  ASSUME IInv, ~mode.watchdog, NEW t \in Threads, Turn(t)
  PROVE  DecoderTended'
<1> SUFFICES ASSUME Tending', timer'.decoder = 0, ~(thread'[t].todo \in Drives)
             PROVE  \/ \E i \in DOMAIN ready' : ready'[i].do = "decoder"
                    \/ \E u \in Threads : thread'[u].todo \in Drives
    BY DEF DecoderTended
<1>1. Tending /\ thread[t].todo \notin Drives /\ timer.decoder = 0  BY DEF Turn, IInv, Types, Timers
<1>2. CASE \E i \in DOMAIN ready : ready[i].do = "decoder"
      <2>1. \A i \in DOMAIN ready : i \in DOMAIN ready' /\ ready'[i] = ready[i]
            <3>1. CASE ready' = ready  BY <3>1
            <3>2. CASE Posts(t)  BY <3>2, TurnReady, ReadHandlerTyped DEF Posts, IInv
            <3> QED  BY <3>1, <3>2 DEF Turn
      <2> QED  BY <2>1, <1>2
<1>3. CASE \E u \in Threads : thread[u].todo \in Drives
      BY <1>1, <1>3 DEF Turn, Same, Only
<1> QED  BY <1>1, <1>2, <1>3 DEF IInv, DecoderTended

LEMMA TurnCloses ==
  ASSUME IInv, NEW t \in Threads, Turn(t)
  PROVE  ClosedInTheEnd'
<1> SUFFICES ASSUME lastCall' = "stop", puller'.conn # 0
             PROVE  \E u \in Threads : thread'[u].todo \in Closing
    BY DEF ClosedInTheEnd
<1>1. lastCall = "stop"  BY DEF Turn
<1>2. CASE thread'[t].todo \in Closing  BY <1>2
<1>3. CASE puller.conn # 0 /\ thread[t].todo \notin Closing
      <2>1. PICK u \in Threads : thread[u].todo \in Closing  BY <1>1, <1>3 DEF IInv, ClosedInTheEnd
      <2>2. thread'[u] = thread[u]  BY <2>1, <1>3 DEF Turn, Same, Only
      <2> QED  BY <2>1, <2>2
<1> QED  BY <1>1, <1>2, <1>3 DEF Turn

LEMMA TurnHolds ==
  ASSUME IInv, NEW t \in Threads, Turn(t)
  PROVE  IInv'
<1>1. mode' = mode  BY DEF Turn
<1> QED  BY <1>1, TurnTypes, TurnAges, TurnReader, TurnHangsUp, TurnTended, TurnCloses DEF IInv

-----------------------------------------------------------------------------
(* Which plans are of which kind                                           *)

PlainPlans == ReaderPlans \cup EndPlans \cup DecoderPlans \cup {<<"stopped">>}

LEMMA NoStep ==
  /\ <<>> \notin ReaderPlans /\ <<>> \notin EndPlans /\ <<>> \notin DecoderPlans /\ <<>> \notin StopPlans
  /\ <<>> \notin Drives /\ <<>> \notin Closing
  /\ <<>> # <<"hangUp", "retry">> /\ <<>> # <<"stopped">>
BY DEF ReaderPlans, EndPlans, DecoderPlans, StopPlans, Drives, Closing

LEMMA OneStep ==
  ASSUME NEW s
  PROVE  /\ <<s>> \in ReaderPlans <=> s \in ReaderOnes
         /\ <<s>> \in EndPlans <=> s \in Ends \cup {"finished", "failed"}
         /\ <<s>> \in DecoderPlans <=> s \in {"decoder", "pop", "rearm"}
         /\ <<s>> \in StopPlans <=> s = "stopped"
         /\ <<s>> \in Drives <=> s \in {"decoder", "pop", "rearm", "arm", "lost"}
         /\ <<s>> \in Closing <=> s \in {"opened", "reopened"}
         /\ <<s>> # <<>> /\ <<s>> # <<"hangUp", "retry">>
         /\ <<s>> = <<"stopped">> <=> s = "stopped"
<1>1. \A r, x, y : <<s>> # <<x, y>> /\ (<<s>> = <<r>> => s = r)
      BY Tails
<1>2. <<s>> \in ReaderPlans <=> s \in ReaderOnes  BY <1>1 DEF ReaderPlans
<1>3. <<s>> \in EndPlans <=> s \in Ends \cup {"finished", "failed"}  BY <1>1 DEF EndPlans
<1>4. <<s>> \in DecoderPlans <=> s \in {"decoder", "pop", "rearm"}  BY <1>1 DEF DecoderPlans
<1>5. <<s>> \in StopPlans <=> s = "stopped"  BY <1>1 DEF StopPlans
<1>6. <<s>> \in Drives <=> s \in {"decoder", "pop", "rearm", "arm", "lost"}  BY <1>1, <1>4 DEF Drives
<1>7. <<s>> \in Closing <=> s \in {"opened", "reopened"}  BY <1>1 DEF Closing
<1> QED  BY <1>1, <1>2, <1>3, <1>4, <1>5, <1>6, <1>7, Tails

LEMMA TwoSteps ==
  ASSUME NEW s, NEW r
  PROVE  /\ <<s, r>> \in ReaderPlans <=>
              \/ s = "run" /\ r = "arm"
              \/ s = "hangUp" /\ r = "retry"
              \/ s \in Delivering /\ r = "again"
         /\ <<s, r>> \notin EndPlans
         /\ <<s, r>> \in DecoderPlans <=> s \in {"dispatch", "callback"} /\ r = "rearm"
         /\ <<s, r>> \in StopPlans <=> s = "halt" /\ r = "stopped"
         /\ <<s, r>> \in Drives <=>
              \/ s \in {"dispatch", "callback"} /\ r = "rearm"
              \/ s = "run" /\ r = "arm"
              \/ s = "hangUp" /\ r = "retry"
         /\ <<s, r>> \in Closing <=> s = "halt" /\ r = "stopped"
         /\ <<s, r>> # <<>> /\ <<s, r>> # <<"stopped">>
         /\ <<s, r>> = <<"hangUp", "retry">> <=> s = "hangUp" /\ r = "retry"
<1>1. \A x, y : <<s, r>> # <<x>> /\ (<<s, r>> = <<x, y>> => s = x /\ r = y)
      <2> TAKE x, y
      <2>1. Tail(<<s, r>>) = <<r>> /\ Tail(<<x>>) = <<>> /\ <<r>> # <<>>  BY Tails
      <2>2. <<s, r>> = <<x, y>> => s = x /\ <<r>> = <<y>>  BY Tails
      <2>3. <<r>> = <<y>> => r = y  BY Tails
      <2> QED  BY <2>1, <2>2, <2>3
<1>2. <<s, r>> \in ReaderPlans <=>
        \/ s = "run" /\ r = "arm"
        \/ s = "hangUp" /\ r = "retry"
        \/ s \in Delivering /\ r = "again"
      BY <1>1 DEF ReaderPlans
<1>3. <<s, r>> \notin EndPlans  BY <1>1 DEF EndPlans
<1>4. <<s, r>> \in DecoderPlans <=> s \in {"dispatch", "callback"} /\ r = "rearm"  BY <1>1 DEF DecoderPlans
<1>5. <<s, r>> \in StopPlans <=> s = "halt" /\ r = "stopped"  BY <1>1 DEF StopPlans
<1>6. <<s, r>> \in Drives <=>
        \/ s \in {"dispatch", "callback"} /\ r = "rearm"
        \/ s = "run" /\ r = "arm"
        \/ s = "hangUp" /\ r = "retry"
      BY <1>1, <1>4 DEF Drives
<1>7. <<s, r>> \in Closing <=> s = "halt" /\ r = "stopped"  BY <1>1 DEF Closing
<1>8. <<s, r>> = <<"hangUp", "retry">> <=> s = "hangUp" /\ r = "retry"  BY <1>1
<1> QED  BY <1>1, <1>2, <1>3, <1>4, <1>5, <1>6, <1>7, <1>8, Tails

\* The kinds exclude each other.
LEMMA Kinds ==
  /\ \A p \in ReaderPlans : p # <<>> /\ p \notin EndPlans /\ p \notin DecoderPlans /\ p \notin StopPlans
  /\ \A p \in EndPlans : p # <<>> /\ p \notin ReaderPlans /\ p \notin DecoderPlans /\ p \notin StopPlans
                         /\ p \notin Drives /\ p \notin Closing /\ p # <<"hangUp", "retry">>
  /\ \A p \in DecoderPlans : p # <<>> /\ p \notin ReaderPlans /\ p \notin EndPlans /\ p \notin StopPlans
                             /\ p \in Drives /\ p \notin Closing /\ p # <<"hangUp", "retry">>
<1>1. ASSUME NEW p \in ReaderPlans
      PROVE  p # <<>> /\ p \notin EndPlans /\ p \notin DecoderPlans /\ p \notin StopPlans
      <2>1. CASE p \in {<<s>> : s \in ReaderOnes}
            <3>1. PICK s \in ReaderOnes : p = <<s>>  BY <2>1
            <3> QED  BY <3>1, OneStep DEF ReaderOnes, Ends
      <2>2. CASE p \in {<<"run", "arm">>, <<"hangUp", "retry">>}
            BY <2>2, TwoSteps
      <2>3. CASE p \in {<<s, "again">> : s \in Delivering}
            <3>1. PICK s \in Delivering : p = <<s, "again">>  BY <2>3
            <3> QED  BY <3>1, TwoSteps
      <2> QED  BY <2>1, <2>2, <2>3 DEF ReaderPlans
<1>2. ASSUME NEW p \in EndPlans
      PROVE  p # <<>> /\ p \notin ReaderPlans /\ p \notin DecoderPlans /\ p \notin StopPlans
             /\ p \notin Drives /\ p \notin Closing /\ p # <<"hangUp", "retry">>
      <2>1. PICK s \in Ends \cup {"finished", "failed"} : p = <<s>>  BY DEF EndPlans
      <2> QED  BY <2>1, OneStep DEF ReaderOnes, Ends
<1>3. ASSUME NEW p \in DecoderPlans
      PROVE  p # <<>> /\ p \notin ReaderPlans /\ p \notin EndPlans /\ p \notin StopPlans
             /\ p \in Drives /\ p \notin Closing /\ p # <<"hangUp", "retry">>
      <2>1. CASE p \in {<<"decoder">>, <<"pop">>, <<"rearm">>}
            <3>1. PICK s \in {"decoder", "pop", "rearm"} : p = <<s>>  BY <2>1
            <3> QED  BY <3>1, OneStep DEF ReaderOnes, Ends
      <2>2. CASE p \in {<<"dispatch", "rearm">>, <<"callback", "rearm">>}
            <3>1. PICK s \in {"dispatch", "callback"} : p = <<s, "rearm">>  BY <2>2
            <3> QED  BY <3>1, TwoSteps
      <2> QED  BY <2>1, <2>2 DEF DecoderPlans
<1> QED  BY <1>1, <1>2, <1>3

\* A reader goes on reading or ends; the loop ends; the jitter buffer is emptied.
LEMMA KindGoesOn ==
  ASSUME NEW t,
         \/ /\ thread[t].todo \in ReaderPlans
            /\ thread'[t].todo \in {<<>>} \cup ReaderPlans \cup EndPlans
         \/ /\ thread[t].todo \in EndPlans
            /\ thread'[t].todo \in {<<>>} \cup EndPlans
         \/ /\ thread[t].todo \in DecoderPlans /\ mode.jitter
            /\ thread'[t].todo \in {<<>>} \cup DecoderPlans
         \/ /\ thread[t].todo = <<"halt", "stopped">> /\ thread'[t].todo = <<"stopped">>
         \/ /\ thread[t].todo = <<"stopped">> /\ thread'[t].todo = <<>>
         \/ /\ thread[t].todo = <<"watchdog">> /\ mode.watchdog
            /\ thread'[t].todo \in {<<>>, <<"lost">>}
  PROVE  PlanGoesOn(t) /\ thread[t].todo # <<>>
<1> DEFINE now == thread[t].todo
           next == thread'[t].todo
<1>1. CASE now \in ReaderPlans /\ next \in {<<>>} \cup ReaderPlans \cup EndPlans
      BY <1>1, Kinds, NoStep DEF PlanGoesOn
<1>2. CASE now \in EndPlans /\ next \in {<<>>} \cup EndPlans
      BY <1>2, Kinds, NoStep DEF PlanGoesOn
<1>3. CASE now \in DecoderPlans /\ mode.jitter /\ next \in {<<>>} \cup DecoderPlans
      BY <1>3, Kinds, NoStep DEF PlanGoesOn
<1>4. /\ <<"stopped">> \in StopPlans /\ <<"stopped">> \notin DecoderPlans
         /\ <<"stopped">> \notin ReaderPlans
      /\ <<"halt", "stopped">> \in StopPlans /\ <<"halt", "stopped">> # <<>> /\ <<"stopped">> # <<>>
      BY OneStep, TwoSteps DEF ReaderOnes
<1>5. CASE now = <<"halt", "stopped">> /\ next = <<"stopped">>
      BY <1>5, <1>4 DEF PlanGoesOn
<1>6. CASE now = <<"stopped">> /\ next = <<>>
      BY <1>6, <1>4, NoStep DEF PlanGoesOn
<1>7. CASE now = <<"watchdog">> /\ mode.watchdog /\ next \in {<<>>, <<"lost">>}
      <2>1. <<"watchdog">> # <<>> /\ <<"watchdog">> \notin StopPlans  BY OneStep
      <2>2. <<"lost">> \in ReaderPlans  BY OneStep DEF ReaderOnes
      <2> QED  BY <1>7, <2>1, <2>2, Kinds, NoStep DEF PlanGoesOn
<1> QED  BY <1>1, <1>2, <1>3, <1>5, <1>6, <1>7

\* The last step of a plan, and the last but one.
LEMMA GoesFromOne ==
  ASSUME Types, NEW t \in Threads, NEW s, thread[t].todo = <<s>>
  PROVE  /\ Goes(t, <<>>) => Same(t) /\ thread'[t].todo = <<>>
         /\ \A x : Goes(t, <<x>>) => Same(t) /\ thread'[t].todo = <<x>>
         /\ \A x, y : Goes(t, <<x, y>>) => Same(t) /\ thread'[t].todo = <<x, y>>
<1>1. ASSUME Goes(t, <<>>)  PROVE Same(t) /\ thread'[t].todo = <<>>
      <2>1. <<>> \in Seq(STRING)  OBVIOUS
      <2> QED  BY <1>1, <2>1, GoesOne
<1>2. ASSUME NEW x, Goes(t, <<x>>)  PROVE Same(t) /\ thread'[t].todo = <<x>>
      <2>1. <<x>> \in Seq({x})  OBVIOUS
      <2> QED  BY <1>2, <2>1, GoesOne
<1>3. ASSUME NEW x, NEW y, Goes(t, <<x, y>>)  PROVE Same(t) /\ thread'[t].todo = <<x, y>>
      <2>1. <<x, y>> \in Seq({x, y})  OBVIOUS
      <2> QED  BY <1>3, <2>1, GoesOne
<1> QED  BY <1>1, <1>2, <1>3

-----------------------------------------------------------------------------
(* What a thread goes on with                                              *)

LEMMA OpenSteps ==
  ASSUME IInv, NEW t \in Threads, Open(t)
  PROVE  /\ thread[t].todo \in {<<"open">>, <<"reopen">>}
         /\ Same(t) /\ thread'[t].todo \in {<<"opened">>, <<"refused">>, <<"reopened">>, <<"lost">>}
         /\ \/ /\ puller.opens < MaxOpens
               /\ puller' = [puller EXCEPT !.conn = puller.opens + 1, !.opens = @ + 1]
               /\ \/ thread[t].todo = <<"open">> /\ thread'[t].todo = <<"opened">>
                  \/ thread[t].todo = <<"reopen">> /\ thread'[t].todo = <<"reopened">>
            \/ /\ puller' = Closed
               /\ \/ thread[t].todo = <<"open">> /\ thread'[t].todo = <<"refused">>
                  \/ thread[t].todo = <<"reopen">> /\ thread'[t].todo = <<"lost">>
<1>1. thread[t].todo \in {<<"open">>, <<"reopen">>}
      BY PlanOfStep DEF Open, IInv, Singles, ReaderOnes, Ends
<1>2. /\ thread[t].todo = <<"open">> => At(t, "open")
      /\ thread[t].todo = <<"reopen">> => ~At(t, "open")
      BY Tails DEF At, Idle
<1>3. CASE puller.opens < MaxOpens
           /\ puller' = [puller EXCEPT !.conn = puller.opens + 1, !.opens = @ + 1]
           /\ Goes(t, IF At(t, "open") THEN <<"opened">> ELSE <<"reopened">>)
      <2>1. CASE thread[t].todo = <<"open">> /\ Goes(t, <<"opened">>)
            <3>1. Same(t) /\ thread'[t].todo = <<"opened">>  BY <2>1, GoesFromOne DEF IInv
            <3> QED  BY <1>3, <2>1, <3>1
      <2>2. CASE thread[t].todo = <<"reopen">> /\ Goes(t, <<"reopened">>)
            <3>1. Same(t) /\ thread'[t].todo = <<"reopened">>  BY <2>2, GoesFromOne DEF IInv
            <3> QED  BY <1>3, <2>2, <3>1
      <2> QED  BY <1>1, <1>2, <1>3, <2>1, <2>2
<1>4. CASE puller' = Closed /\ Goes(t, IF At(t, "open") THEN <<"refused">> ELSE <<"lost">>)
      <2>1. CASE thread[t].todo = <<"open">> /\ Goes(t, <<"refused">>)
            <3>1. Same(t) /\ thread'[t].todo = <<"refused">>  BY <2>1, GoesFromOne DEF IInv
            <3> QED  BY <1>4, <2>1, <3>1
      <2>2. CASE thread[t].todo = <<"reopen">> /\ Goes(t, <<"lost">>)
            <3>1. Same(t) /\ thread'[t].todo = <<"lost">>  BY <2>2, GoesFromOne DEF IInv
            <3> QED  BY <1>4, <2>2, <3>1
      <2> QED  BY <1>1, <1>2, <1>4, <2>1, <2>2
<1> QED  BY <1>3, <1>4 DEF Open

LEMMA RefusedSteps ==
  ASSUME IInv, NEW t \in Threads, Refused(t)
  PROVE  /\ thread[t].todo \in {<<"refused">>}
         /\ Same(t) /\ thread'[t].todo \in {<<>>}
<1>1. thread[t].todo \in {<<"refused">>}
      BY PlanOfStep DEF Refused, IInv, Singles, ReaderOnes, Ends
<1>2. Same(t) /\ thread'[t].todo \in {<<>>}
      <2>1. Goes(t, <<>>)  BY DEF Refused
      <2> QED  BY <1>1, <2>1, GoesFromOne DEF IInv
<1> QED  BY <1>1, <1>2

LEMMA OpenedSteps ==
  ASSUME IInv, NEW t \in Threads, Opened(t)
  PROVE  /\ thread[t].todo \in {<<"opened">>}
         /\ Same(t) /\ thread'[t].todo \in {<<"run", "arm">>, <<>>}
<1>1. thread[t].todo \in {<<"opened">>}
      BY PlanOfStep DEF Opened, IInv, Singles, ReaderOnes, Ends
<1>2. Same(t) /\ thread'[t].todo \in {<<"run", "arm">>, <<>>}
      <2>1. CASE Mine(t)
            <3>1. Goes(t, <<"run", "arm">>)  BY <2>1 DEF Opened
            <3> QED  BY <1>1, <3>1, GoesFromOne DEF IInv
      <2>2. CASE ~Mine(t)
            <3>1. Goes(t, <<>>)  BY <2>2 DEF Opened
            <3> QED  BY <1>1, <3>1, GoesFromOne DEF IInv
      <2> QED  BY <2>1, <2>2 DEF Opened
<1> QED  BY <1>1, <1>2

LEMMA MarkRunningSteps ==
  ASSUME IInv, NEW t \in Threads, MarkRunning(t)
  PROVE  /\ thread[t].todo \in {<<"run", "arm">>}
         /\ Same(t) /\ thread'[t].todo \in {<<"arm">>}
<1>1. thread[t].todo \in {<<"run", "arm">>}
      BY PlanOfStep DEF MarkRunning, IInv, Singles, ReaderOnes, Ends
<1>2. Same(t) /\ thread'[t].todo \in {<<"arm">>}
      <2>1. Goes(t, <<>>)  BY DEF MarkRunning
      <2> QED  BY <1>1, <2>1, GoesTwo DEF IInv
<1> QED  BY <1>1, <1>2

LEMMA StoppedSteps ==
  ASSUME IInv, NEW t \in Threads, Stopped(t)
  PROVE  /\ thread[t].todo \in {<<"stopped">>}
         /\ Same(t) /\ thread'[t].todo \in {<<>>}
<1>1. thread[t].todo \in {<<"stopped">>}
      BY PlanOfStep DEF Stopped, IInv, Singles, ReaderOnes, Ends
<1>2. Same(t) /\ thread'[t].todo \in {<<>>}
      <2>1. Goes(t, <<>>)  BY DEF Stopped
      <2> QED  BY <1>1, <2>1, GoesFromOne DEF IInv
<1> QED  BY <1>1, <1>2

LEMMA ConnectSteps ==
  ASSUME IInv, NEW t \in Threads, Connect(t)
  PROVE  /\ thread[t].todo \in {<<"reconnect">>}
         /\ Same(t) /\ thread'[t].todo \in {<<"reopen">>, <<>>}
<1>1. thread[t].todo \in {<<"reconnect">>}
      BY PlanOfStep DEF Connect, IInv, Singles, ReaderOnes, Ends
<1>2. Same(t) /\ thread'[t].todo \in {<<"reopen">>, <<>>}
      <2>1. CASE Mine(t)
            <3>1. Goes(t, <<"reopen">>)  BY <2>1 DEF Connect
            <3> QED  BY <1>1, <3>1, GoesFromOne DEF IInv
      <2>2. CASE ~Mine(t)
            <3>1. Goes(t, <<>>)  BY <2>2 DEF Connect
            <3> QED  BY <1>1, <3>1, GoesFromOne DEF IInv
      <2> QED  BY <2>1, <2>2 DEF Connect
<1> QED  BY <1>1, <1>2

LEMMA ReopenedSteps ==
  ASSUME IInv, NEW t \in Threads, Reopened(t)
  PROVE  /\ thread[t].todo \in {<<"reopened">>}
         /\ Same(t) /\ thread'[t].todo \in {<<"arm">>, <<>>}
<1>1. thread[t].todo \in {<<"reopened">>}
      BY PlanOfStep DEF Reopened, IInv, Singles, ReaderOnes, Ends
<1>2. Same(t) /\ thread'[t].todo \in {<<"arm">>, <<>>}
      <2>1. CASE Mine(t)
            <3>1. Goes(t, <<"arm">>)  BY <2>1 DEF Reopened
            <3> QED  BY <1>1, <3>1, GoesFromOne DEF IInv
      <2>2. CASE ~Mine(t)
            <3>1. Goes(t, <<>>)  BY <2>2 DEF Reopened
            <3> QED  BY <1>1, <3>1, GoesFromOne DEF IInv
      <2> QED  BY <2>1, <2>2 DEF Reopened
<1> QED  BY <1>1, <1>2

LEMMA LostSteps ==
  ASSUME IInv, NEW t \in Threads, Lost(t)
  PROVE  /\ thread[t].todo \in {<<"lost">>}
         /\ Same(t) /\ thread'[t].todo \in {<<"hangUp", "retry">>, <<>>}
<1>1. thread[t].todo \in {<<"lost">>}
      BY PlanOfStep DEF Lost, IInv, Singles, ReaderOnes, Ends
<1>2. Same(t) /\ thread'[t].todo \in {<<"hangUp", "retry">>, <<>>}
      <2>1. CASE Mine(t)
            <3>1. Goes(t, <<"hangUp", "retry">>)  BY <2>1 DEF Lost
            <3> QED  BY <1>1, <3>1, GoesFromOne DEF IInv
      <2>2. CASE ~Mine(t)
            <3>1. Goes(t, <<>>)  BY <2>2 DEF Lost
            <3> QED  BY <1>1, <3>1, GoesFromOne DEF IInv
      <2> QED  BY <2>1, <2>2 DEF Lost
<1> QED  BY <1>1, <1>2

LEMMA ReadLoopSteps ==
  ASSUME IInv, NEW t \in Threads, ReadLoop(t)
  PROVE  /\ thread[t].todo \in {<<"read">>}
         /\ Same(t) /\ thread'[t].todo \in {<<"reading">>, <<>>}
<1>1. thread[t].todo \in {<<"read">>}
      BY PlanOfStep DEF ReadLoop, IInv, Singles, ReaderOnes, Ends
<1>2. Same(t) /\ thread'[t].todo \in {<<"reading">>, <<>>}
      <2>1. DOMAIN thread = Threads /\ Fields(thread[t]) /\ thread[t].gen \in Nat  BY DEF IInv, Types
      <2>2. CASE Mine(t)
            <3>1. thread' = [thread EXCEPT ![t] = [@ EXCEPT !.todo = <<"reading">>, !.conn = puller.conn]]
                  BY <2>2 DEF ReadLoop
            <3> QED  BY <2>1, <3>1 DEF Same, Only, Fields
      <2>3. CASE ~Mine(t)
            <3>1. thread' = [thread EXCEPT ![t] = Resting]  BY <2>3 DEF ReadLoop
            <3> QED  BY <2>1, <3>1 DEF Same, Only, Fields, Resting
      <2> QED  BY <2>2, <2>3
<1> QED  BY <1>1, <1>2

LEMMA ReadStoppedSteps ==
  ASSUME IInv, NEW t \in Threads, ReadStopped(t)
  PROVE  /\ thread[t].todo \in {<<"reading">>}
         /\ Same(t) /\ thread'[t].todo \in {<<"end Stopped">>}
<1>1. thread[t].todo \in {<<"reading">>}
      BY PlanOfStep DEF ReadStopped, IInv, Singles, ReaderOnes, Ends
<1>2. Same(t) /\ thread'[t].todo \in {<<"end Stopped">>}
      <2>1. Goes(t, <<"end Stopped">>)  BY DEF ReadStopped
      <2> QED  BY <1>1, <2>1, GoesFromOne DEF IInv
<1> QED  BY <1>1, <1>2

LEMMA ReadAnsweredSteps ==
  ASSUME IInv, NEW t \in Threads, ReadAnswered(t)
  PROVE  /\ thread[t].todo \in {<<"reading">>}
         /\ Same(t) /\ thread'[t].todo \in {<<"NoData">>, <<"lost">>, <<"end EOS">>, <<"end FatalError">>, <<"packet">>}
<1>1. thread[t].todo \in {<<"reading">>}
      BY PlanOfStep DEF ReadAnswered, IInv, Singles, ReaderOnes, Ends
<1>2. Same(t) /\ thread'[t].todo \in {<<"NoData">>, <<"lost">>, <<"end EOS">>, <<"end FatalError">>, <<"packet">>}
      <2>1. CASE \E answer \in {"NoData", "lost", "end EOS", "end FatalError"} : Goes(t, <<answer>>)
            BY <1>1, <2>1, GoesFromOne DEF IInv
      <2>2. CASE \E s \in StampsOf :
                   thread' = [thread EXCEPT ![t].todo = <<"packet">>,
                                ![t].packet = [number |-> puller.packets + 1, stamp |-> s,
                                               conn |-> puller.conn, gen |-> thread[t].gen]]
            <3>1. DOMAIN thread = Threads /\ Fields(thread[t]) /\ thread[t].gen \in Nat  BY DEF IInv, Types
            <3> QED  BY <2>2, <3>1 DEF Same, Only, Fields
      <2> QED  BY <2>1, <2>2 DEF ReadAnswered
<1> QED  BY <1>1, <1>2

LEMMA GotPacketSteps ==
  ASSUME IInv, NEW t \in Threads, GotPacket(t)
  PROVE  /\ thread[t].todo \in {<<"packet">>}
         /\ Same(t) /\ thread'[t].todo \in {<<"enqueue", "again">>, <<"dispatch", "again">>, <<>>}
<1>1. thread[t].todo \in {<<"packet">>}
      BY PlanOfStep DEF GotPacket, IInv, Singles, ReaderOnes, Ends
<1>2. Same(t) /\ thread'[t].todo \in {<<"enqueue", "again">>, <<"dispatch", "again">>, <<>>}
      <2>1. CASE Mine(t) /\ mode.jitter
            <3>1. Goes(t, <<"enqueue", "again">>)  BY <2>1 DEF GotPacket
            <3> QED  BY <1>1, <3>1, GoesFromOne DEF IInv
      <2>2. CASE Mine(t) /\ ~mode.jitter
            <3>1. Goes(t, <<"dispatch", "again">>)  BY <2>2 DEF GotPacket
            <3> QED  BY <1>1, <3>1, GoesFromOne DEF IInv
      <2>3. CASE ~Mine(t)
            <3>1. Goes(t, <<>>)  BY <2>3 DEF GotPacket
            <3> QED  BY <1>1, <3>1, GoesFromOne DEF IInv
      <2> QED  BY <2>1, <2>2, <2>3 DEF GotPacket
<1> QED  BY <1>1, <1>2

LEMMA DispatchSteps ==
  ASSUME IInv, NEW t \in Threads, Dispatch(t)
  PROVE  /\ thread[t].todo \in {<<"enqueue", "again">>, <<"dispatch", "again">>, <<"dispatch", "rearm">>}
         /\ Same(t) /\ thread'[t].todo \in {<<"push", "again">>, <<"callback", "again">>, <<"callback", "rearm">>, <<"again">>, <<"rearm">>}
         /\ \/ thread[t].todo = <<"enqueue", "again">> /\ thread'[t].todo \in {<<"push", "again">>, <<"again">>}
            \/ thread[t].todo = <<"dispatch", "again">> /\ thread'[t].todo \in {<<"callback", "again">>, <<"again">>}
            \/ thread[t].todo = <<"dispatch", "rearm">> /\ thread'[t].todo \in {<<"callback", "rearm">>, <<"rearm">>}
<1>1. thread[t].todo \in {<<"enqueue", "again">>, <<"dispatch", "again">>, <<"dispatch", "rearm">>}
      BY PlanOfStep DEF Dispatch, IInv, Singles, ReaderOnes, Ends
<1>2. /\ Same(t)
      /\ \/ thread[t].todo = <<"enqueue", "again">> /\ thread'[t].todo \in {<<"push", "again">>, <<"again">>}
         \/ thread[t].todo = <<"dispatch", "again">> /\ thread'[t].todo \in {<<"callback", "again">>, <<"again">>}
         \/ thread[t].todo = <<"dispatch", "rearm">> /\ thread'[t].todo \in {<<"callback", "rearm">>, <<"rearm">>}
      <2>9. \/ thread[t].todo = <<"enqueue", "again">> /\ ~At(t, "dispatch")
            \/ thread[t].todo \in {<<"dispatch", "again">>, <<"dispatch", "rearm">>} /\ At(t, "dispatch")
            BY <1>1, Tails DEF At, Idle
      <2>1. CASE ~Mine(t)
            <3>1. Goes(t, <<>>)  BY <2>1 DEF Dispatch
            <3> QED  BY <1>1, <2>9, <2>1, <3>1, GoesTwo DEF IInv
      <2>2. CASE Mine(t) /\ At(t, "dispatch")
            <3>1. Goes(t, <<"callback">>)  BY <2>2 DEF Dispatch
            <3> QED  BY <1>1, <2>9, <2>2, <3>1, GoesTwo DEF IInv
      <2>3. CASE Mine(t) /\ ~At(t, "dispatch")
            <3>1. Goes(t, <<"push">>)  BY <2>3 DEF Dispatch
            <3> QED  BY <1>1, <2>9, <2>3, <3>1, GoesTwo DEF IInv
      <2> QED  BY <2>1, <2>2, <2>3 DEF Dispatch
<1> QED  BY <1>1, <1>2

LEMMA CallbackSteps ==
  ASSUME IInv, NEW t \in Threads, Callback(t)
  PROVE  /\ thread[t].todo \in {<<"callback", "again">>, <<"callback", "rearm">>}
         /\ Same(t) /\ thread'[t].todo \in {<<"again">>, <<"rearm">>}
         /\ \/ thread[t].todo = <<"callback", "again">> /\ thread'[t].todo = <<"again">>
            \/ thread[t].todo = <<"callback", "rearm">> /\ thread'[t].todo = <<"rearm">>
<1>1. thread[t].todo \in {<<"callback", "again">>, <<"callback", "rearm">>}
      BY PlanOfStep DEF Callback, IInv, Singles, ReaderOnes, Ends
<1>2. /\ Same(t)
      /\ \/ thread[t].todo = <<"callback", "again">> /\ thread'[t].todo = <<"again">>
         \/ thread[t].todo = <<"callback", "rearm">> /\ thread'[t].todo = <<"rearm">>
      <2>1. Goes(t, <<>>)  BY DEF Callback
      <2> QED  BY <1>1, <2>1, GoesTwo DEF IInv
<1> QED  BY <1>1, <1>2

LEMMA EndSteps ==
  ASSUME IInv, NEW t \in Threads, End(t)
  PROVE  /\ thread[t].todo \in {<<"end Stopped">>, <<"end EOS">>, <<"end FatalError">>}
         /\ Same(t) /\ thread'[t].todo \in {<<"failed">>, <<"finished">>, <<>>}
<1>1. thread[t].todo \in {<<"end Stopped">>, <<"end EOS">>, <<"end FatalError">>}
      BY PlanOfStep DEF End, IInv, Singles, ReaderOnes, Ends
<1>2. Same(t) /\ thread'[t].todo \in {<<"failed">>, <<"finished">>, <<>>}
      <2>1. CASE Mine(t) /\ At(t, "end FatalError")
            <3>1. Goes(t, <<"failed">>)  BY <2>1 DEF End
            <3> QED  BY <1>1, <3>1, GoesFromOne DEF IInv
      <2>2. CASE Mine(t) /\ ~At(t, "end FatalError")
            <3>1. Goes(t, <<"finished">>)  BY <2>2 DEF End
            <3> QED  BY <1>1, <3>1, GoesFromOne DEF IInv
      <2>3. CASE ~Mine(t)
            <3>1. Goes(t, <<>>)  BY <2>3 DEF End
            <3> QED  BY <1>1, <3>1, GoesFromOne DEF IInv
      <2> QED  BY <2>1, <2>2, <2>3 DEF End
<1> QED  BY <1>1, <1>2

LEMMA FinishedSteps ==
  ASSUME IInv, NEW t \in Threads, Finished(t)
  PROVE  /\ thread[t].todo \in {<<"finished">>, <<"failed">>}
         /\ Same(t) /\ thread'[t].todo \in {<<>>}
<1>1. thread[t].todo \in {<<"finished">>, <<"failed">>}
      BY PlanOfStep DEF Finished, IInv, Singles, ReaderOnes, Ends
<1>2. Same(t) /\ thread'[t].todo \in {<<>>}
      <2>1. Goes(t, <<>>)  BY DEF Finished
      <2> QED  BY <1>1, <2>1, GoesFromOne DEF IInv
<1> QED  BY <1>1, <1>2

LEMMA PushSteps ==
  ASSUME IInv, NEW t \in Threads, Push(t)
  PROVE  /\ thread[t].todo \in {<<"push", "again">>}
         /\ Same(t) /\ thread'[t].todo \in {<<"again">>}
<1>1. thread[t].todo \in {<<"push", "again">>}
      BY PlanOfStep DEF Push, IInv, Singles, ReaderOnes, Ends
<1>2. Same(t) /\ thread'[t].todo \in {<<"again">>}
      <2>1. Goes(t, <<>>)  BY DEF Push
      <2> QED  BY <1>1, <2>1, GoesTwo DEF IInv
<1> QED  BY <1>1, <1>2

LEMMA DecoderSteps ==
  ASSUME IInv, NEW t \in Threads, Decoder(t)
  PROVE  /\ thread[t].todo \in {<<"decoder">>}
         /\ Same(t) /\ thread'[t].todo \in {<<"pop">>, <<>>}
<1>1. thread[t].todo \in {<<"decoder">>}
      BY PlanOfStep DEF Decoder, IInv, Singles, ReaderOnes, Ends
<1>2. Same(t) /\ thread'[t].todo \in {<<"pop">>, <<>>}
      <2>1. CASE Mine(t) /\ session.state = "CONNECTED"
            <3>1. Goes(t, <<"pop">>)  BY <2>1 DEF Decoder
            <3> QED  BY <1>1, <3>1, GoesFromOne DEF IInv
      <2>2. CASE ~(Mine(t) /\ session.state = "CONNECTED")
            <3>1. Goes(t, <<>>)  BY <2>2 DEF Decoder
            <3> QED  BY <1>1, <3>1, GoesFromOne DEF IInv
      <2> QED  BY <2>1, <2>2 DEF Decoder
<1> QED  BY <1>1, <1>2

LEMMA PopReadySteps ==
  ASSUME IInv, NEW t \in Threads, PopReady(t)
  PROVE  /\ thread[t].todo \in {<<"pop">>}
         /\ Same(t) /\ thread'[t].todo \in {<<"rearm">>, <<"dispatch", "rearm">>}
<1>1. thread[t].todo \in {<<"pop">>}
      BY PlanOfStep DEF PopReady, IInv, Singles, ReaderOnes, Ends
<1>2. Same(t) /\ thread'[t].todo \in {<<"rearm">>, <<"dispatch", "rearm">>}
      <2>1. CASE Goes(t, <<"rearm">>)  BY <1>1, <2>1, GoesFromOne DEF IInv
      <2>2. CASE \E p : thread' = [thread EXCEPT ![t].todo = <<"dispatch", "rearm">>, ![t].packet = p]
            <3>1. DOMAIN thread = Threads /\ Fields(thread[t]) /\ thread[t].gen \in Nat  BY DEF IInv, Types
            <3> QED  BY <2>2, <3>1 DEF Same, Only, Fields
      <2> QED  BY <2>1, <2>2 DEF PopReady
<1> QED  BY <1>1, <1>2

LEMMA ArmAllSteps ==
  ASSUME IInv, NEW t \in Threads, ArmAll(t)
  PROVE  /\ thread[t].todo = <<"arm">>
         /\ Same(t) /\ thread'[t].todo = <<>>
<1>1. thread[t].todo = <<"arm">>
      BY PlanOfStep DEF ArmAll, IInv, Singles, ReaderOnes
<1>2. Same(t) /\ thread'[t].todo = <<>>
      <2>1. Goes(t, <<>>)  BY DEF ArmAll
      <2> QED  BY <1>1, <2>1, GoesFromOne DEF IInv
<1> QED  BY <1>1, <1>2

LEMMA RetrySteps ==
  ASSUME IInv, NEW t \in Threads, Retry(t)
  PROVE  /\ thread[t].todo = <<"retry">>
         /\ Same(t) /\ thread'[t].todo = <<>>
<1>1. thread[t].todo = <<"retry">>
      BY PlanOfStep DEF Retry, IInv, Singles, ReaderOnes
<1>2. Same(t) /\ thread'[t].todo = <<>>
      <2>1. Goes(t, <<>>)  BY DEF Retry
      <2> QED  BY <1>1, <2>1, GoesFromOne DEF IInv
<1> QED  BY <1>1, <1>2

LEMMA NextRoundSteps ==
  ASSUME IInv, NEW t \in Threads, NoData(t) \/ NextRound(t)
  PROVE  /\ thread[t].todo \in {<<"NoData">>, <<"again">>}
         /\ Same(t) /\ thread'[t].todo = <<>>
<1>1. thread[t].todo \in {<<"NoData">>, <<"again">>}
      BY PlanOfStep DEF NoData, NextRound, IInv, Singles, ReaderOnes
<1>2. Same(t) /\ thread'[t].todo = <<>>
      <2>1. Goes(t, <<>>)  BY DEF NoData, NextRound
      <2> QED  BY <1>1, <2>1, GoesFromOne DEF IInv
<1> QED  BY <1>1, <1>2

LEMMA RearmSteps ==
  ASSUME IInv, NEW t \in Threads, Rearm(t)
  PROVE  /\ thread[t].todo = <<"rearm">>
         /\ Same(t) /\ thread'[t].todo = <<>>
<1>1. thread[t].todo = <<"rearm">>
      BY PlanOfStep DEF Rearm, IInv, Singles
<1>2. Same(t) /\ thread'[t].todo = <<>>
      <2>1. Goes(t, <<>>)  BY DEF Rearm
      <2> QED  BY <1>1, <2>1, GoesFromOne DEF IInv
<1> QED  BY <1>1, <1>2

LEMMA WatchdogSteps ==
  ASSUME IInv, NEW t \in Threads, Watchdog(t)
  PROVE  /\ thread[t].todo = <<"watchdog">>
         /\ Same(t) /\ thread'[t].todo \in {<<>>, <<"lost">>}
<1>1. thread[t].todo = <<"watchdog">>
      BY PlanOfStep DEF Watchdog, IInv, Singles
<1>2. Same(t) /\ thread'[t].todo \in {<<>>, <<"lost">>}
      <2>1. Goes(t, <<>>) \/ Goes(t, <<"lost">>)  BY DEF Watchdog
      <2> QED  BY <1>1, <2>1, GoesFromOne DEF IInv
<1> QED  BY <1>1, <1>2

LEMMA HangUpSteps ==
  ASSUME IInv, NEW t \in Threads, HangUp(t)
  PROVE  /\ thread[t].todo = <<"hangUp", "retry">>
         /\ Same(t) /\ thread'[t].todo = <<"retry">>
<1>1. thread[t].todo = <<"hangUp", "retry">>
      BY PlanOfStep DEF HangUp, IInv
<1>2. Same(t) /\ thread'[t].todo = <<"retry">>
      <2>1. Goes(t, <<>>)  BY DEF HangUp
      <2> QED  BY <1>1, <2>1, GoesTwo DEF IInv
<1> QED  BY <1>1, <1>2

LEMMA HaltSteps ==
  ASSUME IInv, NEW t \in Threads, Halt(t)
  PROVE  /\ thread[t].todo = <<"halt", "stopped">>
         /\ Same(t) /\ thread'[t].todo = <<"stopped">>
<1>1. thread[t].todo = <<"halt", "stopped">>
      BY PlanOfStep DEF Halt, IInv
<1>2. Same(t) /\ thread'[t].todo = <<"stopped">>
      <2>1. Goes(t, <<>>)  BY DEF Halt
      <2> QED  BY <1>1, <2>1, GoesTwo DEF IInv
<1> QED  BY <1>1, <1>2

-----------------------------------------------------------------------------
(* Every step is a turn                                                    *)

\* A thread does not turn to a timer or a handler.
LEMMA PlainTurn ==
  ASSUME IInv, NEW t \in Threads, Same(t), PlanGoesOn(t), thread[t].todo # <<>>,
         UNCHANGED <<mode, lastCall, timer, ready>>,
         session' \in SessionRecord, session'.generation = session.generation, puller' \in PullerRecord,
         thread'[t].todo = <<"hangUp", "retry">> => session'.state # "CONNECTED",
         session'.state = "CONNECTED" => session.state = "CONNECTED" \/ thread[t].todo \in ReaderPlans,
         ~mode.watchdog /\ Tending' =>
           thread'[t].todo \in Drives \/ (Tending /\ thread[t].todo \notin Drives),
         lastCall = "stop" /\ puller'.conn # 0 =>
           thread'[t].todo \in Closing \/ (puller.conn # 0 /\ thread[t].todo \notin Closing)
  PROVE  Turn(t)
<1>1. timer' \in [Timers -> Nat] /\ timer' = timer  BY DEF IInv, Types
<1> QED  BY <1>1 DEF Turn, Timers

\* A generation that is at work is not the newest after a Stop.
LEMMA StaleAfterStop ==
  ASSUME IInv, NEW t \in Threads, thread[t].todo \notin {<<>>} \cup StopPlans
  PROVE  /\ thread[t].gen \in Nat /\ thread[t].gen >= 1 /\ thread[t].gen <= session.generation
         /\ lastCall = "stop" => ~Mine(t)
         /\ session.generation = 1 /\ session.running => Mine(t)
BY DEF IInv, Types, Ages, Newest, SessionRecord, Mine, Active


LEMMA OpenTurns ==
  ASSUME IInv, NEW t \in Threads, Open(t)
  PROVE  Turn(t)
<1>1. thread[t].todo \in {<<"open">>, <<"reopen">>}  BY OpenSteps
<1>11. /\ <<"open">> \in ReaderPlans /\ <<"open">> \notin Drives /\ <<"open">> \notin Closing
          /\ <<"open">> # <<"hangUp", "retry">>
      /\ <<"reopen">> \in ReaderPlans /\ <<"reopen">> \notin Drives /\ <<"reopen">> \notin Closing
         /\ <<"reopen">> # <<"hangUp", "retry">>
      /\ <<"opened">> \in ReaderPlans /\ <<"opened">> \notin Drives /\ <<"opened">> \in Closing
         /\ <<"opened">> # <<"hangUp", "retry">>
      /\ <<"refused">> \in ReaderPlans /\ <<"refused">> \notin Drives
         /\ <<"refused">> \notin Closing /\ <<"refused">> # <<"hangUp", "retry">>
      /\ <<"reopened">> \in ReaderPlans /\ <<"reopened">> \notin Drives
         /\ <<"reopened">> \in Closing /\ <<"reopened">> # <<"hangUp", "retry">>
      /\ <<"lost">> \in ReaderPlans /\ <<"lost">> \in Drives /\ <<"lost">> \notin Closing
         /\ <<"lost">> # <<"hangUp", "retry">>
      BY OneStep, TwoSteps DEF ReaderOnes, Ends, Delivering
<1>2. Same(t) /\ thread'[t].todo \in {<<"opened">>, <<"refused">>, <<"reopened">>, <<"lost">>}
      BY OpenSteps
<1>3. PlanGoesOn(t) /\ thread[t].todo # <<>>
      BY <1>1, <1>2, <1>11, KindGoesOn
<1>5. UNCHANGED <<mode, lastCall, timer, ready>>  BY DEF Open
<1>6. session' \in SessionRecord /\ session'.generation = session.generation /\ puller' \in PullerRecord
      <2>1. session' \in SessionRecord /\ session'.generation = session.generation
            BY SessionAssumption DEF Open, IInv, Types, SessionRecord, States
      <2>2. puller' \in PullerRecord
            <3>1. Closed \in PullerRecord
                  BY DEF IInv, Types, PullerRecord, Closed
            <3>2. PICK n \in Nat : n = puller.opens + 1  BY DEF IInv, Types, PullerRecord
            <3>3. puller' = [puller EXCEPT !.conn = n, !.opens = n] => puller' \in PullerRecord
                  BY DEF IInv, Types, PullerRecord
            <3> QED  BY <3>1, <3>2, <3>3 DEF Open
      <2> QED  BY <2>1, <2>2
<1>7. thread'[t].todo # <<"hangUp", "retry">>
      BY <1>2, <1>11, NoStep
<1>8. session'.state = "CONNECTED" => session.state = "CONNECTED"
      BY DEF Open, IInv, Types, SessionRecord
<1>9. Tending' => Tending /\ thread[t].todo \notin Drives
      <2>1. Tending' => Tending  BY DEF Open, Tending, IInv, Types, SessionRecord
      <2> QED  BY <2>1, <1>1, <1>11
<1>10. puller'.conn # 0 => thread'[t].todo \in Closing
      <2>1. CASE puller' = Closed  BY <2>1 DEF Closed, IInv, Types, PullerRecord
      <2>2. CASE Goes(t, IF At(t, "open") THEN <<"opened">> ELSE <<"reopened">>)
            <3>1. CASE Goes(t, <<"opened">>)  BY <1>1, <3>1, <1>11, GoesFromOne DEF IInv
            <3>2. CASE Goes(t, <<"reopened">>)  BY <1>1, <3>2, <1>11, GoesFromOne DEF IInv
            <3> QED  BY <2>2, <3>1, <3>2
      <2> QED  BY <2>1, <2>2 DEF Open
<1> QED  BY <1>2, <1>3, <1>5, <1>6, <1>7, <1>8, <1>9, <1>10, PlainTurn, NoStep

LEMMA RefusedTurns ==
  ASSUME IInv, NEW t \in Threads, Refused(t)
  PROVE  Turn(t)
<1>1. thread[t].todo \in {<<"refused">>}  BY RefusedSteps
<1>11. /\ <<"refused">> \in ReaderPlans /\ <<"refused">> \notin Drives
          /\ <<"refused">> \notin Closing /\ <<"refused">> # <<"hangUp", "retry">>
      BY OneStep, TwoSteps DEF ReaderOnes, Ends, Delivering
<1>2. Same(t) /\ thread'[t].todo \in {<<>>}
      BY RefusedSteps
<1>3. PlanGoesOn(t) /\ thread[t].todo # <<>>
      BY <1>1, <1>2, <1>11, KindGoesOn
<1>5. UNCHANGED <<mode, lastCall, timer, ready>>  BY DEF Refused
<1>6. session' \in SessionRecord /\ session'.generation = session.generation /\ puller' \in PullerRecord
      <2>1. session' \in SessionRecord /\ session'.generation = session.generation
            BY SessionAssumption DEF Refused, IInv, Types, SessionRecord, States
      <2>2. puller' \in PullerRecord
            BY DEF Refused, IInv, Types, PullerRecord, Closed
      <2> QED  BY <2>1, <2>2
<1>7. thread'[t].todo # <<"hangUp", "retry">>
      BY <1>2, <1>11, NoStep
<1>8. session'.state = "CONNECTED" => session.state = "CONNECTED"
      BY DEF Refused, IInv, Types, SessionRecord
<1>9. Tending' => Tending /\ thread[t].todo \notin Drives
      <2>1. Tending' => Tending  BY DEF Refused, Tending, IInv, Types, SessionRecord
      <2> QED  BY <2>1, <1>1, <1>11
<1>10. puller'.conn # 0 => puller.conn # 0 /\ thread[t].todo \notin Closing
      <2>1. puller'.conn # 0 => puller.conn # 0  BY DEF Refused, Closed, IInv, Types, PullerRecord
      <2> QED  BY <2>1, <1>1, <1>11
<1> QED  BY <1>2, <1>3, <1>5, <1>6, <1>7, <1>8, <1>9, <1>10, PlainTurn, NoStep

LEMMA OpenedTurns ==
  ASSUME IInv, NEW t \in Threads, Opened(t)
  PROVE  Turn(t)
<1>1. thread[t].todo \in {<<"opened">>}  BY OpenedSteps
<1>11. /\ <<"opened">> \in ReaderPlans /\ <<"opened">> \notin Drives /\ <<"opened">> \in Closing
          /\ <<"opened">> # <<"hangUp", "retry">>
      /\ <<"run", "arm">> \in ReaderPlans /\ <<"run", "arm">> \in Drives
         /\ <<"run", "arm">> \notin Closing /\ <<"run", "arm">> # <<"hangUp", "retry">>
      BY OneStep, TwoSteps DEF ReaderOnes, Ends, Delivering
<1>2. Same(t) /\ thread'[t].todo \in {<<"run", "arm">>, <<>>}
      BY OpenedSteps
<1>3. PlanGoesOn(t) /\ thread[t].todo # <<>>
      BY <1>1, <1>2, <1>11, KindGoesOn
<1>5. UNCHANGED <<mode, lastCall, timer, ready>>  BY DEF Opened
<1>6. session' \in SessionRecord /\ session'.generation = session.generation /\ puller' \in PullerRecord
      <2>1. session' \in SessionRecord /\ session'.generation = session.generation
            BY SessionAssumption DEF Opened, IInv, Types, SessionRecord, States
      <2>2. puller' \in PullerRecord
            BY DEF Opened, IInv, Types, PullerRecord, Closed
      <2> QED  BY <2>1, <2>2
<1>7. thread'[t].todo # <<"hangUp", "retry">>
      BY <1>2, <1>11, NoStep
<1>8. session'.state = "CONNECTED" => session.state = "CONNECTED"
      BY DEF Opened, IInv, Types, SessionRecord
<1>9. Tending' => Tending /\ thread[t].todo \notin Drives
      <2>1. Tending' => Tending  BY DEF Opened, Tending, IInv, Types, SessionRecord
      <2> QED  BY <2>1, <1>1, <1>11
<1>10. lastCall = "stop" => puller'.conn = 0
      <2>1. thread[t].todo \notin {<<>>} \cup StopPlans  BY <1>1, <1>11, Kinds
      <2>2. lastCall = "stop" => ~Mine(t)  BY <2>1, StaleAfterStop
      <2> QED  BY <2>2 DEF Opened, Closed, IInv, Types, PullerRecord
<1> QED  BY <1>2, <1>3, <1>5, <1>6, <1>7, <1>8, <1>9, <1>10, PlainTurn, NoStep

LEMMA MarkRunningTurns ==
  ASSUME IInv, NEW t \in Threads, MarkRunning(t)
  PROVE  Turn(t)
<1>1. thread[t].todo \in {<<"run", "arm">>}  BY MarkRunningSteps
<1>11. /\ <<"run", "arm">> \in ReaderPlans /\ <<"run", "arm">> \in Drives
          /\ <<"run", "arm">> \notin Closing /\ <<"run", "arm">> # <<"hangUp", "retry">>
      /\ <<"arm">> \in ReaderPlans /\ <<"arm">> \in Drives /\ <<"arm">> \notin Closing
         /\ <<"arm">> # <<"hangUp", "retry">>
      BY OneStep, TwoSteps DEF ReaderOnes, Ends, Delivering
<1>2. Same(t) /\ thread'[t].todo \in {<<"arm">>}
      BY MarkRunningSteps
<1>3. PlanGoesOn(t) /\ thread[t].todo # <<>>
      BY <1>1, <1>2, <1>11, KindGoesOn
<1>5. UNCHANGED <<mode, lastCall, timer, ready>>  BY DEF MarkRunning
<1>6. session' \in SessionRecord /\ session'.generation = session.generation /\ puller' \in PullerRecord
      <2>1. session' \in SessionRecord /\ session'.generation = session.generation
            BY SessionAssumption DEF MarkRunning, IInv, Types, SessionRecord, States
      <2>2. puller' \in PullerRecord
            BY DEF MarkRunning, IInv, Types, PullerRecord, Closed
      <2> QED  BY <2>1, <2>2
<1>7. thread'[t].todo # <<"hangUp", "retry">>
      BY <1>2, <1>11, NoStep
<1>8. session'.state = "CONNECTED" => session.state = "CONNECTED"
      BY DEF MarkRunning, IInv, Types, SessionRecord
<1>9. Tending' => thread'[t].todo \in Drives
      BY <1>2, <1>11
<1>10. puller'.conn # 0 => puller.conn # 0 /\ thread[t].todo \notin Closing
      <2>1. puller'.conn # 0 => puller.conn # 0  BY DEF MarkRunning, Closed, IInv, Types, PullerRecord
      <2> QED  BY <2>1, <1>1, <1>11
<1> QED  BY <1>2, <1>3, <1>5, <1>6, <1>7, <1>8, <1>9, <1>10, PlainTurn, NoStep

LEMMA StoppedTurns ==
  ASSUME IInv, NEW t \in Threads, Stopped(t)
  PROVE  Turn(t)
<1>1. thread[t].todo \in {<<"stopped">>}  BY StoppedSteps
<1>11. /\ <<"stopped">> \in StopPlans /\ <<"stopped">> \notin Drives
          /\ <<"stopped">> \notin Closing /\ <<"stopped">> # <<"hangUp", "retry">>
      BY OneStep, TwoSteps DEF ReaderOnes, Ends, Delivering
<1>2. Same(t) /\ thread'[t].todo \in {<<>>}
      BY StoppedSteps
<1>3. PlanGoesOn(t) /\ thread[t].todo # <<>>
      BY <1>1, <1>2, <1>11, KindGoesOn
<1>5. UNCHANGED <<mode, lastCall, timer, ready>>  BY DEF Stopped
<1>6. session' \in SessionRecord /\ session'.generation = session.generation /\ puller' \in PullerRecord
      <2>1. session' \in SessionRecord /\ session'.generation = session.generation
            BY SessionAssumption DEF Stopped, IInv, Types, SessionRecord, States
      <2>2. puller' \in PullerRecord
            BY DEF Stopped, IInv, Types, PullerRecord, Closed
      <2> QED  BY <2>1, <2>2
<1>7. thread'[t].todo # <<"hangUp", "retry">>
      BY <1>2, <1>11, NoStep
<1>8. session'.state = "CONNECTED" => session.state = "CONNECTED"
      BY DEF Stopped, IInv, Types, SessionRecord
<1>9. ~Tending'
      BY DEF Stopped, Tending, IInv, Types, SessionRecord
<1>10. puller'.conn # 0 => puller.conn # 0 /\ thread[t].todo \notin Closing
      <2>1. puller'.conn # 0 => puller.conn # 0  BY DEF Stopped, Closed, IInv, Types, PullerRecord
      <2> QED  BY <2>1, <1>1, <1>11
<1> QED  BY <1>2, <1>3, <1>5, <1>6, <1>7, <1>8, <1>9, <1>10, PlainTurn, NoStep

LEMMA ConnectTurns ==
  ASSUME IInv, NEW t \in Threads, Connect(t)
  PROVE  Turn(t)
<1>1. thread[t].todo \in {<<"reconnect">>}  BY ConnectSteps
<1>11. /\ <<"reconnect">> \in ReaderPlans /\ <<"reconnect">> \notin Drives
          /\ <<"reconnect">> \notin Closing /\ <<"reconnect">> # <<"hangUp", "retry">>
      /\ <<"reopen">> \in ReaderPlans /\ <<"reopen">> \notin Drives /\ <<"reopen">> \notin Closing
         /\ <<"reopen">> # <<"hangUp", "retry">>
      BY OneStep, TwoSteps DEF ReaderOnes, Ends, Delivering
<1>2. Same(t) /\ thread'[t].todo \in {<<"reopen">>, <<>>}
      BY ConnectSteps
<1>3. PlanGoesOn(t) /\ thread[t].todo # <<>>
      BY <1>1, <1>2, <1>11, KindGoesOn
<1>5. UNCHANGED <<mode, lastCall, timer, ready>>  BY DEF Connect
<1>6. session' \in SessionRecord /\ session'.generation = session.generation /\ puller' \in PullerRecord
      <2>1. session' \in SessionRecord /\ session'.generation = session.generation
            BY SessionAssumption DEF Connect, IInv, Types, SessionRecord, States
      <2>2. puller' \in PullerRecord
            BY DEF Connect, IInv, Types, PullerRecord, Closed
      <2> QED  BY <2>1, <2>2
<1>7. thread'[t].todo # <<"hangUp", "retry">>
      BY <1>2, <1>11, NoStep
<1>8. session'.state = "CONNECTED" => session.state = "CONNECTED"
      BY DEF Connect, IInv, Types, SessionRecord
<1>9. Tending' => Tending /\ thread[t].todo \notin Drives
      <2>1. Tending' => Tending  BY DEF Connect, Tending, IInv, Types, SessionRecord
      <2> QED  BY <2>1, <1>1, <1>11
<1>10. puller'.conn # 0 => puller.conn # 0 /\ thread[t].todo \notin Closing
      <2>1. puller'.conn # 0 => puller.conn # 0  BY DEF Connect, Closed, IInv, Types, PullerRecord
      <2> QED  BY <2>1, <1>1, <1>11
<1> QED  BY <1>2, <1>3, <1>5, <1>6, <1>7, <1>8, <1>9, <1>10, PlainTurn, NoStep

LEMMA ReopenedTurns ==
  ASSUME IInv, NEW t \in Threads, Reopened(t)
  PROVE  Turn(t)
<1>1. thread[t].todo \in {<<"reopened">>}  BY ReopenedSteps
<1>11. /\ <<"reopened">> \in ReaderPlans /\ <<"reopened">> \notin Drives
          /\ <<"reopened">> \in Closing /\ <<"reopened">> # <<"hangUp", "retry">>
      /\ <<"arm">> \in ReaderPlans /\ <<"arm">> \in Drives /\ <<"arm">> \notin Closing
         /\ <<"arm">> # <<"hangUp", "retry">>
      BY OneStep, TwoSteps DEF ReaderOnes, Ends, Delivering
<1>2. Same(t) /\ thread'[t].todo \in {<<"arm">>, <<>>}
      BY ReopenedSteps
<1>3. PlanGoesOn(t) /\ thread[t].todo # <<>>
      BY <1>1, <1>2, <1>11, KindGoesOn
<1>5. UNCHANGED <<mode, lastCall, timer, ready>>  BY DEF Reopened
<1>6. session' \in SessionRecord /\ session'.generation = session.generation /\ puller' \in PullerRecord
      <2>1. session' \in SessionRecord /\ session'.generation = session.generation
            <3>1. CASE Mine(t)
                  <4>1. PICK b \in BOOLEAN : b = mode.watchdog  BY SessionAssumption DEF IInv, Types
                  <4>2. session' = [session EXCEPT !.count = 0, !.fresh = b]  BY <3>1, <4>1 DEF Reopened
                  <4> QED  BY <4>2 DEF IInv, Types, SessionRecord
            <3>2. CASE ~Mine(t)  BY <3>2 DEF Reopened, IInv, Types, SessionRecord
            <3> QED  BY <3>1, <3>2
      <2>2. puller' \in PullerRecord
            BY DEF Reopened, IInv, Types, PullerRecord, Closed
      <2> QED  BY <2>1, <2>2
<1>7. thread'[t].todo # <<"hangUp", "retry">>
      BY <1>2, <1>11, NoStep
<1>8. session'.state = "CONNECTED" => session.state = "CONNECTED"
      BY DEF Reopened, IInv, Types, SessionRecord
<1>9. Tending' => Tending /\ thread[t].todo \notin Drives
      <2>1. Tending' => Tending  BY DEF Reopened, Tending, IInv, Types, SessionRecord
      <2> QED  BY <2>1, <1>1, <1>11
<1>10. lastCall = "stop" => puller'.conn = 0
      <2>1. thread[t].todo \notin {<<>>} \cup StopPlans  BY <1>1, <1>11, Kinds
      <2>2. lastCall = "stop" => ~Mine(t)  BY <2>1, StaleAfterStop
      <2> QED  BY <2>2 DEF Reopened, Closed, IInv, Types, PullerRecord
<1> QED  BY <1>2, <1>3, <1>5, <1>6, <1>7, <1>8, <1>9, <1>10, PlainTurn, NoStep

LEMMA LostTurns ==
  ASSUME IInv, NEW t \in Threads, Lost(t)
  PROVE  Turn(t)
<1>1. thread[t].todo \in {<<"lost">>}  BY LostSteps
<1>11. /\ <<"lost">> \in ReaderPlans /\ <<"lost">> \in Drives /\ <<"lost">> \notin Closing
          /\ <<"lost">> # <<"hangUp", "retry">>
      /\ <<"hangUp", "retry">> \in ReaderPlans /\ <<"hangUp", "retry">> \in Drives
         /\ <<"hangUp", "retry">> \notin Closing
      BY OneStep, TwoSteps DEF ReaderOnes, Ends, Delivering
<1>2. Same(t) /\ thread'[t].todo \in {<<"hangUp", "retry">>, <<>>}
      BY LostSteps
<1>3. PlanGoesOn(t) /\ thread[t].todo # <<>>
      BY <1>1, <1>2, <1>11, KindGoesOn
<1>5. UNCHANGED <<mode, lastCall, timer, ready>>  BY DEF Lost
<1>6. session' \in SessionRecord /\ session'.generation = session.generation /\ puller' \in PullerRecord
      <2>1. session' \in SessionRecord /\ session'.generation = session.generation
            BY SessionAssumption DEF Lost, IInv, Types, SessionRecord, States
      <2>2. puller' \in PullerRecord
            BY DEF Lost, IInv, Types, PullerRecord, Closed
      <2> QED  BY <2>1, <2>2
<1>7. session'.state # "CONNECTED" \/ thread'[t].todo = <<>>
      <2>1. CASE Mine(t)  BY <2>1 DEF Lost, IInv, Types, SessionRecord
      <2>2. CASE ~Mine(t)
            <3>1. Goes(t, <<>>)  BY <2>2 DEF Lost
            <3> QED  BY <1>1, <3>1, GoesFromOne DEF IInv
      <2> QED  BY <2>1, <2>2
<1>8. session'.state = "CONNECTED" => session.state = "CONNECTED"
      BY DEF Lost, IInv, Types, SessionRecord
<1>9. Tending' => thread'[t].todo \in Drives
      <2>1. CASE Mine(t)
            BY <2>1 DEF Lost, Tending, IInv, Types, SessionRecord
      <2>2. CASE ~Mine(t)
            <3>1. thread[t].todo \notin {<<>>} \cup StopPlans  BY <1>1, <1>11, Kinds
            <3> QED  BY <2>2, <3>1, <1>5, StaleAfterStop DEF Lost, Tending
      <2> QED  BY <2>1, <2>2
<1>10. puller'.conn # 0 => puller.conn # 0 /\ thread[t].todo \notin Closing
      <2>1. puller'.conn # 0 => puller.conn # 0  BY DEF Lost, Closed, IInv, Types, PullerRecord
      <2> QED  BY <2>1, <1>1, <1>11
<1> QED  BY <1>2, <1>3, <1>5, <1>6, <1>7, <1>8, <1>9, <1>10, PlainTurn, NoStep

LEMMA ReadLoopTurns ==
  ASSUME IInv, NEW t \in Threads, ReadLoop(t)
  PROVE  Turn(t)
<1>1. thread[t].todo \in {<<"read">>}  BY ReadLoopSteps
<1>11. /\ <<"read">> \in ReaderPlans /\ <<"read">> \notin Drives /\ <<"read">> \notin Closing
          /\ <<"read">> # <<"hangUp", "retry">>
      /\ <<"reading">> \in ReaderPlans /\ <<"reading">> \notin Drives
         /\ <<"reading">> \notin Closing /\ <<"reading">> # <<"hangUp", "retry">>
      BY OneStep, TwoSteps DEF ReaderOnes, Ends, Delivering
<1>2. Same(t) /\ thread'[t].todo \in {<<"reading">>, <<>>}
      BY ReadLoopSteps
<1>3. PlanGoesOn(t) /\ thread[t].todo # <<>>
      BY <1>1, <1>2, <1>11, KindGoesOn
<1>5. UNCHANGED <<mode, lastCall, timer, ready>>  BY DEF ReadLoop
<1>6. session' \in SessionRecord /\ session'.generation = session.generation /\ puller' \in PullerRecord
      <2>1. session' \in SessionRecord /\ session'.generation = session.generation
            BY SessionAssumption DEF ReadLoop, IInv, Types, SessionRecord, States
      <2>2. puller' \in PullerRecord
            BY DEF ReadLoop, IInv, Types, PullerRecord, Closed
      <2> QED  BY <2>1, <2>2
<1>7. thread'[t].todo # <<"hangUp", "retry">>
      BY <1>2, <1>11, NoStep
<1>8. session'.state = "CONNECTED" => session.state = "CONNECTED"
      BY DEF ReadLoop, IInv, Types, SessionRecord
<1>9. Tending' => Tending /\ thread[t].todo \notin Drives
      <2>1. Tending' => Tending  BY DEF ReadLoop, Tending, IInv, Types, SessionRecord
      <2> QED  BY <2>1, <1>1, <1>11
<1>10. puller'.conn # 0 => puller.conn # 0 /\ thread[t].todo \notin Closing
      <2>1. puller'.conn # 0 => puller.conn # 0  BY DEF ReadLoop, Closed, IInv, Types, PullerRecord
      <2> QED  BY <2>1, <1>1, <1>11
<1> QED  BY <1>2, <1>3, <1>5, <1>6, <1>7, <1>8, <1>9, <1>10, PlainTurn, NoStep

LEMMA ReadStoppedTurns ==
  ASSUME IInv, NEW t \in Threads, ReadStopped(t)
  PROVE  Turn(t)
<1>1. thread[t].todo \in {<<"reading">>}  BY ReadStoppedSteps
<1>11. /\ <<"reading">> \in ReaderPlans /\ <<"reading">> \notin Drives
          /\ <<"reading">> \notin Closing /\ <<"reading">> # <<"hangUp", "retry">>
      /\ <<"end Stopped">> \in EndPlans /\ <<"end Stopped">> \notin Drives
         /\ <<"end Stopped">> \notin Closing /\ <<"end Stopped">> # <<"hangUp", "retry">>
      BY OneStep, TwoSteps DEF ReaderOnes, Ends, Delivering
<1>2. Same(t) /\ thread'[t].todo \in {<<"end Stopped">>}
      BY ReadStoppedSteps
<1>3. PlanGoesOn(t) /\ thread[t].todo # <<>>
      BY <1>1, <1>2, <1>11, KindGoesOn
<1>5. UNCHANGED <<mode, lastCall, timer, ready>>  BY DEF ReadStopped
<1>6. session' \in SessionRecord /\ session'.generation = session.generation /\ puller' \in PullerRecord
      <2>1. session' \in SessionRecord /\ session'.generation = session.generation
            BY SessionAssumption DEF ReadStopped, IInv, Types, SessionRecord, States
      <2>2. puller' \in PullerRecord
            BY DEF ReadStopped, IInv, Types, PullerRecord, Closed
      <2> QED  BY <2>1, <2>2
<1>7. thread'[t].todo # <<"hangUp", "retry">>
      BY <1>2, <1>11, NoStep
<1>8. session'.state = "CONNECTED" => session.state = "CONNECTED"
      BY DEF ReadStopped, IInv, Types, SessionRecord
<1>9. Tending' => Tending /\ thread[t].todo \notin Drives
      <2>1. Tending' => Tending  BY DEF ReadStopped, Tending, IInv, Types, SessionRecord
      <2> QED  BY <2>1, <1>1, <1>11
<1>10. puller'.conn # 0 => puller.conn # 0 /\ thread[t].todo \notin Closing
      <2>1. puller'.conn # 0 => puller.conn # 0  BY DEF ReadStopped, Closed, IInv, Types, PullerRecord
      <2> QED  BY <2>1, <1>1, <1>11
<1> QED  BY <1>2, <1>3, <1>5, <1>6, <1>7, <1>8, <1>9, <1>10, PlainTurn, NoStep

LEMMA ReadAnsweredTurns ==
  ASSUME IInv, NEW t \in Threads, ReadAnswered(t)
  PROVE  Turn(t)
<1>1. thread[t].todo \in {<<"reading">>}  BY ReadAnsweredSteps
<1>11. /\ <<"reading">> \in ReaderPlans /\ <<"reading">> \notin Drives
          /\ <<"reading">> \notin Closing /\ <<"reading">> # <<"hangUp", "retry">>
      /\ <<"NoData">> \in ReaderPlans /\ <<"NoData">> \notin Drives /\ <<"NoData">> \notin Closing
         /\ <<"NoData">> # <<"hangUp", "retry">>
      /\ <<"lost">> \in ReaderPlans /\ <<"lost">> \in Drives /\ <<"lost">> \notin Closing
         /\ <<"lost">> # <<"hangUp", "retry">>
      /\ <<"end EOS">> \in EndPlans /\ <<"end EOS">> \notin Drives /\ <<"end EOS">> \notin Closing
         /\ <<"end EOS">> # <<"hangUp", "retry">>
      /\ <<"end FatalError">> \in EndPlans /\ <<"end FatalError">> \notin Drives
         /\ <<"end FatalError">> \notin Closing /\ <<"end FatalError">> # <<"hangUp", "retry">>
      /\ <<"packet">> \in ReaderPlans /\ <<"packet">> \notin Drives /\ <<"packet">> \notin Closing
         /\ <<"packet">> # <<"hangUp", "retry">>
      BY OneStep, TwoSteps DEF ReaderOnes, Ends, Delivering
<1>2. Same(t) /\ thread'[t].todo \in {<<"NoData">>, <<"lost">>, <<"end EOS">>, <<"end FatalError">>, <<"packet">>}
      BY ReadAnsweredSteps
<1>3. PlanGoesOn(t) /\ thread[t].todo # <<>>
      BY <1>1, <1>2, <1>11, KindGoesOn
<1>5. UNCHANGED <<mode, lastCall, timer, ready>>  BY DEF ReadAnswered
<1>6. session' \in SessionRecord /\ session'.generation = session.generation /\ puller' \in PullerRecord
      <2>1. session' \in SessionRecord /\ session'.generation = session.generation
            BY SessionAssumption DEF ReadAnswered, IInv, Types, SessionRecord, States
      <2>2. puller' \in PullerRecord
            <3>2. PICK n \in Nat : n = puller.packets + 1  BY DEF IInv, Types, PullerRecord
            <3>3. puller' = [puller EXCEPT !.packets = n] => puller' \in PullerRecord
                  BY DEF IInv, Types, PullerRecord
            <3> QED  BY <3>2, <3>3 DEF ReadAnswered, IInv, Types
      <2> QED  BY <2>1, <2>2
<1>7. thread'[t].todo # <<"hangUp", "retry">>
      BY <1>2, <1>11, NoStep
<1>8. session'.state = "CONNECTED" => session.state = "CONNECTED"
      BY DEF ReadAnswered, IInv, Types, SessionRecord
<1>9. Tending' => Tending /\ thread[t].todo \notin Drives
      <2>1. Tending' => Tending  BY DEF ReadAnswered, Tending, IInv, Types, SessionRecord
      <2> QED  BY <2>1, <1>1, <1>11
<1>10. puller'.conn # 0 => puller.conn # 0 /\ thread[t].todo \notin Closing
      <2>1. puller'.conn # 0 => puller.conn # 0  BY DEF ReadAnswered, Closed, IInv, Types, PullerRecord
      <2> QED  BY <2>1, <1>1, <1>11
<1> QED  BY <1>2, <1>3, <1>5, <1>6, <1>7, <1>8, <1>9, <1>10, PlainTurn, NoStep

LEMMA GotPacketTurns ==
  ASSUME IInv, NEW t \in Threads, GotPacket(t)
  PROVE  Turn(t)
<1>1. thread[t].todo \in {<<"packet">>}  BY GotPacketSteps
<1>11. /\ <<"packet">> \in ReaderPlans /\ <<"packet">> \notin Drives /\ <<"packet">> \notin Closing
          /\ <<"packet">> # <<"hangUp", "retry">>
      /\ <<"enqueue", "again">> \in ReaderPlans /\ <<"enqueue", "again">> \notin Drives
         /\ <<"enqueue", "again">> \notin Closing /\ <<"enqueue", "again">> # <<"hangUp", "retry">>
      /\ <<"dispatch", "again">> \in ReaderPlans /\ <<"dispatch", "again">> \notin Drives
         /\ <<"dispatch", "again">> \notin Closing /\ <<"dispatch", "again">> # <<"hangUp", "retry">>
      BY OneStep, TwoSteps DEF ReaderOnes, Ends, Delivering
<1>2. Same(t) /\ thread'[t].todo \in {<<"enqueue", "again">>, <<"dispatch", "again">>, <<>>}
      BY GotPacketSteps
<1>3. PlanGoesOn(t) /\ thread[t].todo # <<>>
      BY <1>1, <1>2, <1>11, KindGoesOn
<1>5. UNCHANGED <<mode, lastCall, timer, ready>>  BY DEF GotPacket
<1>6. session' \in SessionRecord /\ session'.generation = session.generation /\ puller' \in PullerRecord
      <2>1. session' \in SessionRecord /\ session'.generation = session.generation
            BY SessionAssumption DEF GotPacket, IInv, Types, SessionRecord, States
      <2>2. puller' \in PullerRecord
            BY DEF GotPacket, IInv, Types, PullerRecord, Closed
      <2> QED  BY <2>1, <2>2
<1>7. thread'[t].todo # <<"hangUp", "retry">>
      BY <1>2, <1>11, NoStep
<1>8. session'.state = "CONNECTED" => session.state = "CONNECTED"
      BY DEF GotPacket, IInv, Types, SessionRecord
<1>9. Tending' => Tending /\ thread[t].todo \notin Drives
      <2>1. Tending' => Tending  BY DEF GotPacket, Tending, IInv, Types, SessionRecord
      <2> QED  BY <2>1, <1>1, <1>11
<1>10. puller'.conn # 0 => puller.conn # 0 /\ thread[t].todo \notin Closing
      <2>1. puller'.conn # 0 => puller.conn # 0  BY DEF GotPacket, Closed, IInv, Types, PullerRecord
      <2> QED  BY <2>1, <1>1, <1>11
<1> QED  BY <1>2, <1>3, <1>5, <1>6, <1>7, <1>8, <1>9, <1>10, PlainTurn, NoStep

LEMMA DispatchTurns ==
  ASSUME IInv, NEW t \in Threads, Dispatch(t)
  PROVE  Turn(t)
<1>1. thread[t].todo \in {<<"enqueue", "again">>, <<"dispatch", "again">>, <<"dispatch", "rearm">>}  BY DispatchSteps
<1>11. /\ <<"enqueue", "again">> \in ReaderPlans /\ <<"enqueue", "again">> \notin Drives
          /\ <<"enqueue", "again">> \notin Closing /\ <<"enqueue", "again">> # <<"hangUp", "retry">>
      /\ <<"dispatch", "again">> \in ReaderPlans /\ <<"dispatch", "again">> \notin Drives
         /\ <<"dispatch", "again">> \notin Closing /\ <<"dispatch", "again">> # <<"hangUp", "retry">>
      /\ <<"dispatch", "rearm">> \in DecoderPlans /\ <<"dispatch", "rearm">> \in Drives
         /\ <<"dispatch", "rearm">> \notin Closing /\ <<"dispatch", "rearm">> # <<"hangUp", "retry">>
      /\ <<"push", "again">> \in ReaderPlans /\ <<"push", "again">> \notin Drives
         /\ <<"push", "again">> \notin Closing /\ <<"push", "again">> # <<"hangUp", "retry">>
      /\ <<"callback", "again">> \in ReaderPlans /\ <<"callback", "again">> \notin Drives
         /\ <<"callback", "again">> \notin Closing /\ <<"callback", "again">> # <<"hangUp", "retry">>
      /\ <<"callback", "rearm">> \in DecoderPlans /\ <<"callback", "rearm">> \in Drives
         /\ <<"callback", "rearm">> \notin Closing /\ <<"callback", "rearm">> # <<"hangUp", "retry">>
      /\ <<"again">> \in ReaderPlans /\ <<"again">> \notin Drives /\ <<"again">> \notin Closing
         /\ <<"again">> # <<"hangUp", "retry">>
      /\ <<"rearm">> \in DecoderPlans /\ <<"rearm">> \in Drives /\ <<"rearm">> \notin Closing
         /\ <<"rearm">> # <<"hangUp", "retry">>
      BY OneStep, TwoSteps DEF ReaderOnes, Ends, Delivering
<1>12. thread[t].todo = <<"dispatch", "rearm">> => mode.jitter
      <2>1. <<"watchdog">> \notin DecoderPlans  BY OneStep
      <2>2. thread[t].todo \in DecoderPlans => mode.jitter
            <3>1. Plan(thread[t].todo)  BY DEF IInv, Types
            <3> QED  BY <2>1, <3>1, Kinds, NoStep DEF Plan
      <2> QED  BY <2>2, <1>1, <1>11
<1>2. Same(t) /\ thread'[t].todo \in {<<"push", "again">>, <<"callback", "again">>, <<"callback", "rearm">>, <<"again">>, <<"rearm">>}
      BY DispatchSteps
<1>3. PlanGoesOn(t) /\ thread[t].todo # <<>>
      <2>1. CASE thread[t].todo = <<"dispatch", "rearm">>
            <3>1. At(t, "dispatch")  BY <2>1, Tails DEF At, Idle
            <3>2. Goes(t, <<"callback">>) \/ Goes(t, <<>>)  BY <3>1 DEF Dispatch
            <3>3. thread'[t].todo \in {<<"callback", "rearm">>, <<"rearm">>}
                  BY <2>1, <3>2, GoesTwo DEF IInv
            <3> QED  BY <2>1, <3>3, <1>11, <1>12, KindGoesOn
      <2>2. CASE thread[t].todo \in {<<"enqueue", "again">>, <<"dispatch", "again">>}
            <3>1. Goes(t, <<"callback">>) \/ Goes(t, <<"push">>) \/ Goes(t, <<>>)  BY DEF Dispatch
            <3>2. thread'[t].todo \in {<<"callback", "again">>, <<"push", "again">>, <<"again">>}
                  BY <2>2, <3>1, GoesTwo DEF IInv
            <3>3. <<"again">> \in ReaderPlans  BY OneStep DEF ReaderOnes
            <3> QED  BY <2>2, <3>2, <3>3, <1>11, KindGoesOn
      <2> QED  BY <1>1, <2>1, <2>2
<1>5. UNCHANGED <<mode, lastCall, timer, ready>>  BY DEF Dispatch
<1>6. session' \in SessionRecord /\ session'.generation = session.generation /\ puller' \in PullerRecord
      <2>1. session' \in SessionRecord /\ session'.generation = session.generation
            BY SessionAssumption DEF Dispatch, IInv, Types, SessionRecord, States
      <2>2. puller' \in PullerRecord
            BY DEF Dispatch, IInv, Types, PullerRecord, Closed
      <2> QED  BY <2>1, <2>2
<1>7. thread'[t].todo # <<"hangUp", "retry">>
      BY <1>2, <1>11, NoStep
<1>8. session'.state = "CONNECTED" => session.state = "CONNECTED"
      BY DEF Dispatch, IInv, Types, SessionRecord
<1>9. Tending' => thread'[t].todo \in Drives \/ (Tending /\ thread[t].todo \notin Drives)
      <2>1. Tending' => Tending  BY DEF Dispatch, Tending
      <2>2. thread[t].todo \notin Drives \/ thread'[t].todo \in Drives
            <3>1. CASE thread[t].todo = <<"dispatch", "rearm">>
                  <4>1. At(t, "dispatch")  BY <3>1, Tails DEF At, Idle
                  <4>2. Goes(t, <<"callback">>) \/ Goes(t, <<>>)  BY <4>1 DEF Dispatch
                  <4>3. thread'[t].todo \in {<<"callback", "rearm">>, <<"rearm">>}
                        BY <3>1, <4>2, GoesTwo DEF IInv
                  <4> QED  BY <4>3, <1>11
            <3> QED  BY <3>1, <1>1, <1>11
      <2> QED  BY <2>1, <2>2
<1>10. puller'.conn # 0 => puller.conn # 0 /\ thread[t].todo \notin Closing
      <2>1. puller'.conn # 0 => puller.conn # 0  BY DEF Dispatch, Closed, IInv, Types, PullerRecord
      <2> QED  BY <2>1, <1>1, <1>11
<1> QED  BY <1>2, <1>3, <1>5, <1>6, <1>7, <1>8, <1>9, <1>10, PlainTurn, NoStep

LEMMA CallbackTurns ==
  ASSUME IInv, NEW t \in Threads, Callback(t)
  PROVE  Turn(t)
<1>1. thread[t].todo \in {<<"callback", "again">>, <<"callback", "rearm">>}  BY CallbackSteps
<1>11. /\ <<"callback", "again">> \in ReaderPlans /\ <<"callback", "again">> \notin Drives
          /\ <<"callback", "again">> \notin Closing /\ <<"callback", "again">> # <<"hangUp", "retry">>
      /\ <<"callback", "rearm">> \in DecoderPlans /\ <<"callback", "rearm">> \in Drives
         /\ <<"callback", "rearm">> \notin Closing /\ <<"callback", "rearm">> # <<"hangUp", "retry">>
      /\ <<"again">> \in ReaderPlans /\ <<"again">> \notin Drives /\ <<"again">> \notin Closing
         /\ <<"again">> # <<"hangUp", "retry">>
      /\ <<"rearm">> \in DecoderPlans /\ <<"rearm">> \in Drives /\ <<"rearm">> \notin Closing
         /\ <<"rearm">> # <<"hangUp", "retry">>
      BY OneStep, TwoSteps DEF ReaderOnes, Ends, Delivering
<1>12. thread[t].todo = <<"callback", "rearm">> => mode.jitter
      <2>1. <<"watchdog">> \notin DecoderPlans  BY OneStep
      <2>2. thread[t].todo \in DecoderPlans => mode.jitter
            <3>1. Plan(thread[t].todo)  BY DEF IInv, Types
            <3> QED  BY <2>1, <3>1, Kinds, NoStep DEF Plan
      <2> QED  BY <2>2, <1>1, <1>11
<1>2. Same(t) /\ thread'[t].todo \in {<<"again">>, <<"rearm">>}
      BY CallbackSteps
<1>3. PlanGoesOn(t) /\ thread[t].todo # <<>>
      <2>0. Goes(t, <<>>)  BY DEF Callback
      <2>1. CASE thread[t].todo = <<"callback", "rearm">>
            <3>1. thread'[t].todo = <<"rearm">>  BY <2>0, <2>1, GoesTwo DEF IInv
            <3> QED  BY <2>1, <3>1, <1>11, <1>12, KindGoesOn
      <2>2. CASE thread[t].todo = <<"callback", "again">>
            <3>1. thread'[t].todo = <<"again">>  BY <2>0, <2>2, GoesTwo DEF IInv
            <3> QED  BY <2>2, <3>1, <1>11, KindGoesOn
      <2> QED  BY <1>1, <2>1, <2>2
<1>5. UNCHANGED <<mode, lastCall, timer, ready>>  BY DEF Callback
<1>6. session' \in SessionRecord /\ session'.generation = session.generation /\ puller' \in PullerRecord
      <2>1. session' \in SessionRecord /\ session'.generation = session.generation
            BY SessionAssumption DEF Callback, IInv, Types, SessionRecord, States
      <2>2. puller' \in PullerRecord
            BY DEF Callback, IInv, Types, PullerRecord, Closed
      <2> QED  BY <2>1, <2>2
<1>7. thread'[t].todo # <<"hangUp", "retry">>
      BY <1>2, <1>11, NoStep
<1>8. session'.state = "CONNECTED" => session.state = "CONNECTED"
      BY DEF Callback, IInv, Types, SessionRecord
<1>9. Tending' => thread'[t].todo \in Drives \/ (Tending /\ thread[t].todo \notin Drives)
      <2>1. Tending' => Tending  BY DEF Callback, Tending
      <2>2. thread[t].todo \notin Drives \/ thread'[t].todo \in Drives
            <3>1. Goes(t, <<>>)  BY DEF Callback
            <3>2. CASE thread[t].todo = <<"callback", "rearm">>
                  <4>1. thread'[t].todo = <<"rearm">>  BY <3>1, <3>2, GoesTwo DEF IInv
                  <4> QED  BY <4>1, <1>11
            <3> QED  BY <3>2, <1>1, <1>11
      <2> QED  BY <2>1, <2>2
<1>10. puller'.conn # 0 => puller.conn # 0 /\ thread[t].todo \notin Closing
      <2>1. puller'.conn # 0 => puller.conn # 0  BY DEF Callback, Closed, IInv, Types, PullerRecord
      <2> QED  BY <2>1, <1>1, <1>11
<1> QED  BY <1>2, <1>3, <1>5, <1>6, <1>7, <1>8, <1>9, <1>10, PlainTurn, NoStep

LEMMA EndTurns ==
  ASSUME IInv, NEW t \in Threads, End(t)
  PROVE  Turn(t)
<1>1. thread[t].todo \in {<<"end Stopped">>, <<"end EOS">>, <<"end FatalError">>}  BY EndSteps
<1>11. /\ <<"end Stopped">> \in EndPlans /\ <<"end Stopped">> \notin Drives
          /\ <<"end Stopped">> \notin Closing /\ <<"end Stopped">> # <<"hangUp", "retry">>
      /\ <<"end EOS">> \in EndPlans /\ <<"end EOS">> \notin Drives /\ <<"end EOS">> \notin Closing
         /\ <<"end EOS">> # <<"hangUp", "retry">>
      /\ <<"end FatalError">> \in EndPlans /\ <<"end FatalError">> \notin Drives
         /\ <<"end FatalError">> \notin Closing /\ <<"end FatalError">> # <<"hangUp", "retry">>
      /\ <<"failed">> \in EndPlans /\ <<"failed">> \notin Drives /\ <<"failed">> \notin Closing
         /\ <<"failed">> # <<"hangUp", "retry">>
      /\ <<"finished">> \in EndPlans /\ <<"finished">> \notin Drives
         /\ <<"finished">> \notin Closing /\ <<"finished">> # <<"hangUp", "retry">>
      BY OneStep, TwoSteps DEF ReaderOnes, Ends, Delivering
<1>2. Same(t) /\ thread'[t].todo \in {<<"failed">>, <<"finished">>, <<>>}
      BY EndSteps
<1>3. PlanGoesOn(t) /\ thread[t].todo # <<>>
      BY <1>1, <1>2, <1>11, KindGoesOn
<1>5. UNCHANGED <<mode, lastCall, timer, ready>>  BY DEF End
<1>6. session' \in SessionRecord /\ session'.generation = session.generation /\ puller' \in PullerRecord
      <2>1. session' \in SessionRecord /\ session'.generation = session.generation
            BY SessionAssumption DEF End, IInv, Types, SessionRecord, States
      <2>2. puller' \in PullerRecord
            <3>1. Closed \in PullerRecord  BY DEF IInv, Types, PullerRecord, Closed
            <3>2. puller' \in {puller, Closed}  BY DEF End
            <3> QED  BY <3>1, <3>2 DEF IInv, Types
      <2> QED  BY <2>1, <2>2
<1>7. thread'[t].todo # <<"hangUp", "retry">>
      BY <1>2, <1>11, NoStep
<1>8. session'.state = "CONNECTED" => session.state = "CONNECTED"
      BY DEF End, IInv, Types, SessionRecord
<1>9. Tending' => Tending /\ thread[t].todo \notin Drives
      <2>1. Tending' => Tending  BY DEF End, Tending, IInv, Types, SessionRecord
      <2> QED  BY <2>1, <1>1, <1>11
<1>10. puller'.conn # 0 => puller.conn # 0 /\ thread[t].todo \notin Closing
      <2>1. puller'.conn # 0 => puller.conn # 0  BY DEF End, Closed, IInv, Types, PullerRecord
      <2> QED  BY <2>1, <1>1, <1>11
<1> QED  BY <1>2, <1>3, <1>5, <1>6, <1>7, <1>8, <1>9, <1>10, PlainTurn, NoStep

LEMMA FinishedTurns ==
  ASSUME IInv, NEW t \in Threads, Finished(t)
  PROVE  Turn(t)
<1>1. thread[t].todo \in {<<"finished">>, <<"failed">>}  BY FinishedSteps
<1>11. /\ <<"finished">> \in EndPlans /\ <<"finished">> \notin Drives
          /\ <<"finished">> \notin Closing /\ <<"finished">> # <<"hangUp", "retry">>
      /\ <<"failed">> \in EndPlans /\ <<"failed">> \notin Drives /\ <<"failed">> \notin Closing
         /\ <<"failed">> # <<"hangUp", "retry">>
      BY OneStep, TwoSteps DEF ReaderOnes, Ends, Delivering
<1>2. Same(t) /\ thread'[t].todo \in {<<>>}
      BY FinishedSteps
<1>3. PlanGoesOn(t) /\ thread[t].todo # <<>>
      BY <1>1, <1>2, <1>11, KindGoesOn
<1>5. UNCHANGED <<mode, lastCall, timer, ready>>  BY DEF Finished
<1>6. session' \in SessionRecord /\ session'.generation = session.generation /\ puller' \in PullerRecord
      <2>1. session' \in SessionRecord /\ session'.generation = session.generation
            BY SessionAssumption DEF Finished, IInv, Types, SessionRecord, States
      <2>2. puller' \in PullerRecord
            BY DEF Finished, IInv, Types, PullerRecord, Closed
      <2> QED  BY <2>1, <2>2
<1>7. thread'[t].todo # <<"hangUp", "retry">>
      BY <1>2, <1>11, NoStep
<1>8. session'.state = "CONNECTED" => session.state = "CONNECTED"
      BY DEF Finished, IInv, Types, SessionRecord
<1>9. ~Tending'
      BY DEF Finished, Tending, IInv, Types, SessionRecord
<1>10. puller'.conn # 0 => puller.conn # 0 /\ thread[t].todo \notin Closing
      <2>1. puller'.conn # 0 => puller.conn # 0  BY DEF Finished, Closed, IInv, Types, PullerRecord
      <2> QED  BY <2>1, <1>1, <1>11
<1> QED  BY <1>2, <1>3, <1>5, <1>6, <1>7, <1>8, <1>9, <1>10, PlainTurn, NoStep

LEMMA PushTurns ==
  ASSUME IInv, NEW t \in Threads, Push(t)
  PROVE  Turn(t)
<1>1. thread[t].todo \in {<<"push", "again">>}  BY PushSteps
<1>11. /\ <<"push", "again">> \in ReaderPlans /\ <<"push", "again">> \notin Drives
          /\ <<"push", "again">> \notin Closing /\ <<"push", "again">> # <<"hangUp", "retry">>
      /\ <<"again">> \in ReaderPlans /\ <<"again">> \notin Drives /\ <<"again">> \notin Closing
         /\ <<"again">> # <<"hangUp", "retry">>
      BY OneStep, TwoSteps DEF ReaderOnes, Ends, Delivering
<1>2. Same(t) /\ thread'[t].todo \in {<<"again">>}
      BY PushSteps
<1>3. PlanGoesOn(t) /\ thread[t].todo # <<>>
      BY <1>1, <1>2, <1>11, KindGoesOn
<1>5. UNCHANGED <<mode, lastCall, timer, ready>>  BY DEF Push
<1>6. session' \in SessionRecord /\ session'.generation = session.generation /\ puller' \in PullerRecord
      <2>1. session' \in SessionRecord /\ session'.generation = session.generation
            BY SessionAssumption DEF Push, IInv, Types, SessionRecord, States
      <2>2. puller' \in PullerRecord
            BY DEF Push, IInv, Types, PullerRecord, Closed
      <2> QED  BY <2>1, <2>2
<1>7. thread'[t].todo # <<"hangUp", "retry">>
      BY <1>2, <1>11, NoStep
<1>8. session'.state = "CONNECTED" => session.state = "CONNECTED"
      BY DEF Push, IInv, Types, SessionRecord
<1>9. Tending' => Tending /\ thread[t].todo \notin Drives
      <2>1. Tending' => Tending  BY DEF Push, Tending, IInv, Types, SessionRecord
      <2> QED  BY <2>1, <1>1, <1>11
<1>10. puller'.conn # 0 => puller.conn # 0 /\ thread[t].todo \notin Closing
      <2>1. puller'.conn # 0 => puller.conn # 0  BY DEF Push, Closed, IInv, Types, PullerRecord
      <2> QED  BY <2>1, <1>1, <1>11
<1> QED  BY <1>2, <1>3, <1>5, <1>6, <1>7, <1>8, <1>9, <1>10, PlainTurn, NoStep

LEMMA DecoderTurns ==
  ASSUME IInv, NEW t \in Threads, Decoder(t)
  PROVE  Turn(t)
<1>1. thread[t].todo \in {<<"decoder">>}  BY DecoderSteps
<1>11. /\ <<"decoder">> \in DecoderPlans /\ <<"decoder">> \in Drives
          /\ <<"decoder">> \notin Closing /\ <<"decoder">> # <<"hangUp", "retry">>
      /\ <<"pop">> \in DecoderPlans /\ <<"pop">> \in Drives /\ <<"pop">> \notin Closing
         /\ <<"pop">> # <<"hangUp", "retry">>
      BY OneStep, TwoSteps DEF ReaderOnes, Ends, Delivering
<1>12. mode.jitter
      <2>1. <<"watchdog">> \notin DecoderPlans  BY OneStep
      <2>2. thread[t].todo \in DecoderPlans => mode.jitter
            <3>1. Plan(thread[t].todo)  BY DEF IInv, Types
            <3> QED  BY <2>1, <3>1, Kinds, NoStep DEF Plan
      <2> QED  BY <2>2, <1>1, <1>11
<1>2. Same(t) /\ thread'[t].todo \in {<<"pop">>, <<>>}
      BY DecoderSteps
<1>3. PlanGoesOn(t) /\ thread[t].todo # <<>>
      BY <1>1, <1>2, <1>11, <1>12, KindGoesOn
<1>5. UNCHANGED <<mode, lastCall, timer, ready>>  BY DEF Decoder
<1>6. session' \in SessionRecord /\ session'.generation = session.generation /\ puller' \in PullerRecord
      <2>1. session' \in SessionRecord /\ session'.generation = session.generation
            BY SessionAssumption DEF Decoder, IInv, Types, SessionRecord, States
      <2>2. puller' \in PullerRecord
            BY DEF Decoder, IInv, Types, PullerRecord, Closed
      <2> QED  BY <2>1, <2>2
<1>7. thread'[t].todo # <<"hangUp", "retry">>
      BY <1>2, <1>11, NoStep
<1>8. session'.state = "CONNECTED" => session.state = "CONNECTED"
      BY DEF Decoder, IInv, Types, SessionRecord
<1>9. Tending' => thread'[t].todo \in Drives
      <2>1. CASE Mine(t) /\ session.state = "CONNECTED"
            <3>1. Goes(t, <<"pop">>)  BY <2>1 DEF Decoder
            <3> QED  BY <1>1, <3>1, <1>11, GoesFromOne DEF IInv
      <2>2. CASE ~(Mine(t) /\ session.state = "CONNECTED")
            <3>1. thread[t].todo \notin {<<>>} \cup StopPlans  BY <1>1, <1>11, Kinds
            <3> QED  BY <2>2, <3>1, <1>5, StaleAfterStop DEF Decoder, Tending
      <2> QED  BY <2>1, <2>2
<1>10. puller'.conn # 0 => puller.conn # 0 /\ thread[t].todo \notin Closing
      <2>1. puller'.conn # 0 => puller.conn # 0  BY DEF Decoder, Closed, IInv, Types, PullerRecord
      <2> QED  BY <2>1, <1>1, <1>11
<1> QED  BY <1>2, <1>3, <1>5, <1>6, <1>7, <1>8, <1>9, <1>10, PlainTurn, NoStep

LEMMA PopReadyTurns ==
  ASSUME IInv, NEW t \in Threads, PopReady(t)
  PROVE  Turn(t)
<1>1. thread[t].todo \in {<<"pop">>}  BY PopReadySteps
<1>11. /\ <<"pop">> \in DecoderPlans /\ <<"pop">> \in Drives /\ <<"pop">> \notin Closing
          /\ <<"pop">> # <<"hangUp", "retry">>
      /\ <<"rearm">> \in DecoderPlans /\ <<"rearm">> \in Drives /\ <<"rearm">> \notin Closing
         /\ <<"rearm">> # <<"hangUp", "retry">>
      /\ <<"dispatch", "rearm">> \in DecoderPlans /\ <<"dispatch", "rearm">> \in Drives
         /\ <<"dispatch", "rearm">> \notin Closing /\ <<"dispatch", "rearm">> # <<"hangUp", "retry">>
      BY OneStep, TwoSteps DEF ReaderOnes, Ends, Delivering
<1>12. mode.jitter
      <2>1. <<"watchdog">> \notin DecoderPlans  BY OneStep
      <2>2. thread[t].todo \in DecoderPlans => mode.jitter
            <3>1. Plan(thread[t].todo)  BY DEF IInv, Types
            <3> QED  BY <2>1, <3>1, Kinds, NoStep DEF Plan
      <2> QED  BY <2>2, <1>1, <1>11
<1>2. Same(t) /\ thread'[t].todo \in {<<"rearm">>, <<"dispatch", "rearm">>}
      BY PopReadySteps
<1>3. PlanGoesOn(t) /\ thread[t].todo # <<>>
      BY <1>1, <1>2, <1>11, <1>12, KindGoesOn
<1>5. UNCHANGED <<mode, lastCall, timer, ready>>  BY DEF PopReady
<1>6. session' \in SessionRecord /\ session'.generation = session.generation /\ puller' \in PullerRecord
      <2>1. session' \in SessionRecord /\ session'.generation = session.generation
            BY SessionAssumption DEF PopReady, IInv, Types, SessionRecord, States
      <2>2. puller' \in PullerRecord
            BY DEF PopReady, IInv, Types, PullerRecord, Closed
      <2> QED  BY <2>1, <2>2
<1>7. thread'[t].todo # <<"hangUp", "retry">>
      BY <1>2, <1>11, NoStep
<1>8. session'.state = "CONNECTED" => session.state = "CONNECTED"
      BY DEF PopReady, IInv, Types, SessionRecord
<1>9. Tending' => thread'[t].todo \in Drives
      BY <1>2, <1>11
<1>10. puller'.conn # 0 => puller.conn # 0 /\ thread[t].todo \notin Closing
      <2>1. puller'.conn # 0 => puller.conn # 0  BY DEF PopReady, Closed, IInv, Types, PullerRecord
      <2> QED  BY <2>1, <1>1, <1>11
<1> QED  BY <1>2, <1>3, <1>5, <1>6, <1>7, <1>8, <1>9, <1>10, PlainTurn, NoStep

-----------------------------------------------------------------------------
(* The steps that set a timer or queue a handler                           *)

LEMMA ArmAllTurns ==
  ASSUME IInv, NEW t \in Threads, ArmAll(t)
  PROVE  Turn(t)
<1>1. thread[t].todo = <<"arm">>  BY ArmAllSteps
<1>2. Same(t) /\ thread'[t].todo = <<>>
      BY ArmAllSteps
<1>3. /\ <<"arm">> \in ReaderPlans /\ <<"arm">> \notin Closing /\ <<"arm">> \notin {<<>>} \cup StopPlans
      /\ <<>> \notin ReaderPlans /\ <<>> # <<"hangUp", "retry">>
      BY OneStep, NoStep DEF ReaderOnes
<1>4. PlanGoesOn(t) /\ thread[t].todo # <<>>  BY <1>1, <1>2, <1>3, KindGoesOn
<1>5. UNCHANGED <<mode, lastCall, puller>>  BY DEF ArmAll
<1>6. session' \in SessionRecord /\ session'.generation = session.generation
      BY DEF ArmAll, IInv, Types, SessionRecord, States
<1>7. PICK w, d : /\ w = IF mode.watchdog /\ Mine(t) THEN thread[t].gen ELSE timer.watchdog
                  /\ d = IF mode.jitter /\ Mine(t) THEN thread[t].gen ELSE timer.decoder
      OBVIOUS
<1>8. timer' = [timer EXCEPT !.watchdog = w, !.decoder = d]
      <2>1. timer' = [timer EXCEPT !.watchdog = IF mode.watchdog /\ Mine(t) THEN thread[t].gen ELSE @,
                                   !.decoder = IF mode.jitter /\ Mine(t) THEN thread[t].gen ELSE @]
            BY DEF ArmAll
      <2>2. DOMAIN timer = Timers /\ timer \in [Timers -> Nat]  BY DEF IInv, Types
      <2> QED  BY <1>7, <2>1, <2>2 DEF Timers
<1>9. /\ timer \in [Timers -> Nat] /\ thread[t].gen \in Nat
      /\ w = timer.watchdog \/ (w = thread[t].gen /\ mode.watchdog)
      /\ d = timer.decoder \/ (d = thread[t].gen /\ mode.jitter)
      BY <1>7 DEF IInv, Types
<1>10. /\ timer' \in [Timers -> Nat] /\ timer'.reconnect = timer.reconnect
       /\ timer'["watchdog"] = w /\ timer'["decoder"] = d
       <2>1. w \in Nat /\ d \in Nat  BY <1>9 DEF Timers
       <2> QED  BY <1>8, <1>9, <2>1 DEF Timers
<1>11. \A x \in Timers :
         \/ timer'[x] \in {0, timer[x]}
         \/ timer'[x] = thread[t].gen /\ Wanted(x) /\ thread[t].todo \notin {<<>>} \cup StopPlans
       BY <1>1, <1>3, <1>9, <1>10 DEF Timers, Wanted
<1>12. HandsOver(t) /\ Posts(t)
       BY <1>1, <1>2, <1>3 DEF HandsOver, Posts, ArmAll, Post
<1>13. Tending' => timer'.decoder # 0
       <2>1. Tending' => Mine(t) /\ mode.jitter /\ thread[t].gen >= 1 /\ thread[t].gen \in Nat
             BY <1>1, <1>3, <1>5, StaleAfterStop DEF ArmAll, Tending, IInv, Types, SessionRecord
       <2> QED  BY <2>1, <1>7, <1>10
<1>14. puller' \in PullerRecord  BY <1>5 DEF IInv, Types
<1> QED  BY <1>1, <1>2, <1>3, <1>4, <1>5, <1>6, <1>10, <1>11, <1>12, <1>13, <1>14 DEF Turn

\* Counting an attempt changes the count alone, and not beyond the limit.
LEMMA CountedTyped ==
  ASSUME IInv
  PROVE  /\ Counted \in SessionRecord /\ Counted.generation = session.generation
         /\ Counted.state = session.state /\ Counted.running = session.running
         /\ ~AttemptsUsedUp /\ session.count <= Attempts => Counted.count <= Attempts
<1>1. session \in SessionRecord /\ mode \in Modes  BY DEF IInv, Types
<1>2. CASE mode.reconnects < 0  BY <1>1, <1>2 DEF Counted, SessionRecord
<1>3. CASE ~(mode.reconnects < 0)
      <2>1. mode.reconnects \in Int  BY <1>1, SessionAssumption
      <2>2. PICK n \in Nat : n = session.count + 1  BY <1>1 DEF SessionRecord
      <2>3. Counted = [session EXCEPT !.count = n]  BY <1>3, <2>2 DEF Counted
      <2>4. Counted.count = n /\ session.count \in Nat  BY <1>1, <2>3 DEF SessionRecord
      <2>5. ~AttemptsUsedUp => session.count < Attempts
            BY <1>3, <2>1, <2>4 DEF AttemptsUsedUp, Attempts
      <2>6. Attempts \in Nat  BY <1>3, <2>1 DEF Attempts
      <2>7. ~AttemptsUsedUp => Counted.count <= Attempts  BY <2>2, <2>4, <2>5, <2>6
      <2> QED  BY <1>1, <2>3, <2>7 DEF SessionRecord
<1> QED  BY <1>2, <1>3

LEMMA RetryTurns ==
  ASSUME IInv, NEW t \in Threads, Retry(t)
  PROVE  Turn(t)
<1>1. thread[t].todo = <<"retry">>  BY RetrySteps
<1>2. Same(t) /\ thread'[t].todo = <<>>
      BY RetrySteps
<1>3. /\ <<"retry">> \in ReaderPlans /\ <<"retry">> \notin Closing
         /\ <<"retry">> \notin {<<>>} \cup StopPlans
      /\ <<"retry">> \notin Drives /\ <<>> \notin ReaderPlans /\ <<>> # <<"hangUp", "retry">>
      BY OneStep, NoStep DEF ReaderOnes
<1>4. PlanGoesOn(t) /\ thread[t].todo # <<>>  BY <1>1, <1>2, <1>3, KindGoesOn
<1>5. UNCHANGED <<mode, lastCall, puller, ready>>  BY DEF Retry
<1>6. puller' \in PullerRecord /\ timer \in [Timers -> Nat] /\ thread[t].gen \in Nat
      BY <1>5 DEF IInv, Types
<1>7. CASE AttemptsUsedUp
      <2>1. session' = [session EXCEPT !.running = FALSE, !.state = "ERROR"] /\ timer' = timer
            BY <1>7 DEF Retry
      <2>2. session' \in SessionRecord /\ session'.generation = session.generation
            BY <2>1 DEF IInv, Types, SessionRecord, States
      <2>3. session'.state # "CONNECTED" /\ ~Tending'  BY <2>1 DEF Tending, IInv, Types, SessionRecord
      <2> QED  BY <1>1, <1>2, <1>3, <1>4, <1>5, <1>6, <2>1, <2>2, <2>3 DEF Turn
<1>8. CASE ~AttemptsUsedUp
      <2>1. session' = Counted /\ Waits(t)
            /\ timer' = [timer EXCEPT !.reconnect = thread[t].gen]
            BY <1>6, <1>8 DEF Retry, Waits, Timers
      <2>2. session' \in SessionRecord /\ session'.generation = session.generation
            /\ session'.state = session.state /\ session'.running = session.running
            BY <2>1, CountedTyped
      <2>3. timer' \in [Timers -> Nat] /\ timer'.decoder = timer.decoder  BY <2>1, <1>6 DEF Timers
      <2>4. \A x \in Timers :
              \/ timer'[x] \in {0, timer[x]}
              \/ timer'[x] = thread[t].gen /\ Wanted(x) /\ thread[t].todo \notin {<<>>} \cup StopPlans
            BY <2>1, <1>1, <1>3, <1>6 DEF Timers, Wanted
      <2>5. Tending' => Tending  BY <1>5, <2>2 DEF Tending
      <2>6. HandsOver(t)  BY <1>1, <1>2, <1>3 DEF HandsOver
      <2> QED  BY <1>1, <1>2, <1>3, <1>4, <1>5, <1>6, <2>1, <2>2, <2>3, <2>4, <2>5, <2>6 DEF Turn
<1> QED  BY <1>7, <1>8

LEMMA NextRoundTurns ==
  ASSUME IInv, NEW t \in Threads, NoData(t) \/ NextRound(t)
  PROVE  Turn(t)
<1>1. thread[t].todo \in {<<"NoData">>, <<"again">>}  BY NextRoundSteps
<1>2. Same(t) /\ thread'[t].todo = <<>>
      BY NextRoundSteps
<1>3. /\ <<"NoData">> \in ReaderPlans /\ <<"NoData">> \notin Closing /\ <<"NoData">> \notin Drives
      /\ <<"again">> \in ReaderPlans /\ <<"again">> \notin Closing /\ <<"again">> \notin Drives
      /\ <<>> \notin ReaderPlans /\ <<>> # <<"hangUp", "retry">>
      BY OneStep, NoStep DEF ReaderOnes
<1>4. PlanGoesOn(t) /\ thread[t].todo # <<>>  BY <1>1, <1>2, <1>3, KindGoesOn
<1>5. UNCHANGED <<mode, lastCall, puller, session, timer>>  BY DEF NoData, NextRound
<1>6. /\ puller' \in PullerRecord /\ session' \in SessionRecord /\ timer' \in [Timers -> Nat]
      /\ Tending' => Tending
      BY <1>5 DEF IInv, Types, Tending
<1>7. ready' = ready \/ Posts(t)  BY DEF NoData, NextRound, Again, Post, Posts
<1>8. HandsOver(t)  BY <1>1, <1>2, <1>3 DEF HandsOver
<1>9. /\ timer'.reconnect = timer.reconnect /\ (timer.decoder # 0 => timer'.decoder # 0)
      /\ \A x \in Timers : timer'[x] = timer[x]
      BY <1>5
<1> QED  BY <1>1, <1>2, <1>3, <1>4, <1>5, <1>6, <1>7, <1>8, <1>9 DEF Turn

LEMMA RearmTurns ==
  ASSUME IInv, NEW t \in Threads, Rearm(t)
  PROVE  Turn(t)
<1>1. thread[t].todo = <<"rearm">>  BY RearmSteps
<1>2. Same(t) /\ thread'[t].todo = <<>>
      BY RearmSteps
<1>3. /\ <<"rearm">> \in DecoderPlans /\ <<"rearm">> \notin Closing
         /\ <<"rearm">> \notin {<<>>} \cup StopPlans
      /\ <<>> # <<"hangUp", "retry">> /\ <<"watchdog">> \notin DecoderPlans
      BY OneStep, NoStep
<1>4. mode.jitter
      <2>1. Plan(thread[t].todo)  BY DEF IInv, Types
      <2> QED  BY <1>1, <1>3, <2>1, Kinds DEF Plan
<1>5. PlanGoesOn(t) /\ thread[t].todo # <<>>  BY <1>1, <1>2, <1>3, <1>4, KindGoesOn
<1>6. UNCHANGED <<mode, lastCall, puller, session, ready>>  BY DEF Rearm
<1>7. puller' \in PullerRecord /\ session' \in SessionRecord /\ timer \in [Timers -> Nat] /\ thread[t].gen \in Nat
      BY <1>6 DEF IInv, Types
<1>8. timer' = timer \/ timer' = [timer EXCEPT !["decoder"] = thread[t].gen]
      BY DEF Rearm, ArmIf
<1>9. /\ timer' \in [Timers -> Nat] /\ timer'.reconnect = timer.reconnect
      /\ \A x \in Timers :
           \/ timer'[x] \in {0, timer[x]}
           \/ timer'[x] = thread[t].gen /\ Wanted(x) /\ thread[t].todo \notin {<<>>} \cup StopPlans
      BY <1>1, <1>3, <1>4, <1>7, <1>8 DEF Timers, Wanted
<1>10. Tending' => timer'.decoder # 0
       <2>1. Tending' => Mine(t) /\ thread[t].gen >= 1
             BY <1>1, <1>3, <1>6, StaleAfterStop DEF Tending
       <2>2. Mine(t) => timer' = [timer EXCEPT !["decoder"] = thread[t].gen]
             BY DEF Rearm, ArmIf, Mine
       <2> QED  BY <2>1, <2>2, <1>7 DEF Timers
<1> QED  BY <1>1, <1>2, <1>3, <1>5, <1>6, <1>7, <1>9, <1>10 DEF Turn

LEMMA WatchdogTurns ==
  ASSUME IInv, NEW t \in Threads, Watchdog(t)
  PROVE  Turn(t)
<1>1. thread[t].todo = <<"watchdog">>  BY WatchdogSteps
<1>2. Same(t) /\ thread'[t].todo \in {<<>>, <<"lost">>}
      BY WatchdogSteps
<1>3. /\ <<"watchdog">> \notin ReaderPlans /\ <<"watchdog">> \notin EndPlans
         /\ <<"watchdog">> \notin DecoderPlans
      /\ <<"watchdog">> \notin {<<>>} \cup StopPlans /\ <<"watchdog">> \notin Closing
      <2>1. <<"watchdog">> \notin ReaderPlans  BY OneStep DEF ReaderOnes
      <2>2. <<"watchdog">> \notin EndPlans
            <3>1. "watchdog" \notin Ends \cup {"finished", "failed"}  BY DEF Ends
            <3> QED  BY <3>1, OneStep
      <2>3. <<"watchdog">> \notin DecoderPlans /\ <<"watchdog">> \notin {<<>>} \cup StopPlans  BY OneStep
      <2>4. <<"watchdog">> \notin Closing  BY OneStep
      <2> QED  BY <2>1, <2>2, <2>3, <2>4
<1>11. <<>> # <<"hangUp", "retry">> /\ <<"lost">> # <<"hangUp", "retry">>
      BY OneStep, NoStep
<1>4. mode.watchdog
      <2>1. Plan(thread[t].todo)  BY DEF IInv, Types
      <2> QED  BY <1>1, <1>3, <2>1 DEF Plan
<1>5. PlanGoesOn(t) /\ thread[t].todo # <<>>  BY <1>1, <1>2, <1>4, KindGoesOn
<1>6. UNCHANGED <<mode, lastCall, puller, ready>>  BY DEF Watchdog
<1>7. puller' \in PullerRecord /\ timer \in [Timers -> Nat] /\ thread[t].gen \in Nat
      BY <1>6 DEF IInv, Types
<1>8. timer' = timer \/ timer' = [timer EXCEPT !["watchdog"] = thread[t].gen]
      BY DEF Watchdog, ArmIf
<1>9. /\ timer' \in [Timers -> Nat] /\ timer'.reconnect = timer.reconnect
      /\ \A x \in Timers :
           \/ timer'[x] \in {0, timer[x]}
           \/ timer'[x] = thread[t].gen /\ Wanted(x) /\ thread[t].todo \notin {<<>>} \cup StopPlans
      BY <1>1, <1>3, <1>4, <1>7, <1>8 DEF Timers, Wanted
<1>10. /\ session' \in SessionRecord /\ session'.generation = session.generation
       /\ session'.state = session.state
       <2>1. PICK b \in BOOLEAN : session' = session \/ session' = [session EXCEPT !.fresh = b]
             <3>1. PICK b : b = (~Mine(t) /\ session.fresh)  OBVIOUS
             <3>2. b \in BOOLEAN  BY <3>1
             <3>3. session' = session \/ session' = [session EXCEPT !.fresh = b]
                   BY <3>1 DEF Watchdog
             <3> QED  BY <3>2, <3>3
       <2> QED  BY <2>1 DEF IInv, Types, SessionRecord
<1> QED  BY <1>1, <1>2, <1>3, <1>4, <1>5, <1>6, <1>7, <1>9, <1>10, <1>11 DEF Turn

LEMMA HangUpTurns ==
  ASSUME IInv, NEW t \in Threads, HangUp(t)
  PROVE  Turn(t)
<1>1. thread[t].todo = <<"hangUp", "retry">>  BY HangUpSteps
<1>2. Same(t) /\ thread'[t].todo = <<"retry">>
      BY HangUpSteps
<1>3. /\ <<"hangUp", "retry">> \in ReaderPlans /\ <<"hangUp", "retry">> \notin Closing
      /\ <<"retry">> \in ReaderPlans /\ <<"retry">> # <<"hangUp", "retry">>
      BY OneStep, TwoSteps DEF ReaderOnes
<1>4. PlanGoesOn(t) /\ thread[t].todo # <<>>  BY <1>1, <1>2, <1>3, KindGoesOn
<1>5. UNCHANGED <<mode, lastCall, session, ready>>  BY DEF HangUp
<1>6. puller' \in PullerRecord /\ puller'.conn = 0 /\ session' \in SessionRecord
      BY <1>5 DEF HangUp, Closed, IInv, Types, PullerRecord
<1>7. /\ timer' \in [Timers -> Nat] /\ timer'.reconnect = timer.reconnect
      /\ \A x \in Timers : timer'[x] \in {0, timer[x]}
      BY DEF HangUp, IInv, Types, Timers
<1>8. ~mode.watchdog => ~Tending'
      BY <1>1, <1>5 DEF Tending, IInv, HangsUp
<1> QED  BY <1>1, <1>2, <1>3, <1>4, <1>5, <1>6, <1>7, <1>8 DEF Turn

LEMMA HaltTurns ==
  ASSUME IInv, NEW t \in Threads, Halt(t)
  PROVE  Turn(t)
<1>1. thread[t].todo = <<"halt", "stopped">>  BY HaltSteps
<1>2. Same(t) /\ thread'[t].todo = <<"stopped">>
      BY HaltSteps
<1>3. <<"halt", "stopped">> \in StopPlans /\ <<"stopped">> # <<"hangUp", "retry">>
      BY OneStep, TwoSteps
<1>4. PlanGoesOn(t) /\ thread[t].todo # <<>>  BY <1>1, <1>2, KindGoesOn
<1>5. UNCHANGED <<mode, lastCall, session, ready>>  BY DEF Halt
<1>6. puller' \in PullerRecord /\ puller'.conn = 0 /\ session' \in SessionRecord
      BY <1>5 DEF Halt, Closed, IInv, Types, PullerRecord
<1>7. timer' \in [Timers -> Nat] /\ timer'.reconnect = 0 /\ \A x \in Timers : timer'[x] = 0
      BY DEF Halt, Timers
<1>8. ~Tending'
      BY <1>1, <1>3, <1>5 DEF Tending, IInv, Ages, Types, SessionRecord
<1> QED  BY <1>1, <1>2, <1>3, <1>4, <1>5, <1>6, <1>7, <1>8 DEF Turn

LEMMA ThreadTurns ==
  ASSUME IInv, NEW t \in Threads, Steps(t) \/ ReadAnswered(t)
  PROVE  IInv'
<1>1. Turn(t)
      BY OpenTurns, RefusedTurns, OpenedTurns, MarkRunningTurns, ArmAllTurns, HaltTurns, StoppedTurns,
         ConnectTurns, ReopenedTurns, LostTurns, HangUpTurns, RetryTurns, ReadLoopTurns, ReadStoppedTurns,
         ReadAnsweredTurns, NextRoundTurns, GotPacketTurns, DispatchTurns, CallbackTurns, EndTurns,
         FinishedTurns, PushTurns, DecoderTurns, PopReadyTurns, RearmTurns, WatchdogTurns
      DEF Steps
<1> QED  BY <1>1, TurnHolds

-----------------------------------------------------------------------------
(* The io_context                                                          *)

\* A wait that is over becomes a handler of the same generation.
LEMMA ExpireHolds ==
  ASSUME IInv, NEW x \in Timers, Expire(x)
  PROVE  IInv'
<1>0. PICK g \in Nat : g = timer[x] /\ g # 0 /\ Wanted(x)
      BY DEF Expire, IInv, Types, TimersWanted
<1>11. PICK h : h = [do |-> x, gen |-> g]  OBVIOUS
<1>1. /\ h = Handler(x, g) /\ h.do = x /\ h.gen = g
      /\ h \in [do : Timers \cup {"read"}, gen : Nat]
      <2>1. h = Handler(x, g) /\ h.do = x /\ h.gen = g  BY <1>11 DEF Handler
      <2>2. x \in Timers \cup {"read"}  OBVIOUS
      <2> QED  BY <1>11, <2>1, <2>2
<1>2. UNCHANGED <<mode, session, puller, jitter, thread, delivered, lastCall>>
      /\ ready' = Append(ready, h) /\ timer' = [timer EXCEPT ![x] = 0]
      BY <1>0, <1>1 DEF Expire, Post
<1>3. PICK n : n = Len(ready) + 1  OBVIOUS
<1>4. /\ n \in DOMAIN ready' /\ ready'[n] = h
      /\ \A i \in DOMAIN ready : i \in DOMAIN ready' /\ ready'[i] = ready[i]
      /\ \A i \in DOMAIN ready' : i \in DOMAIN ready \/ i = n
      BY <1>1, <1>2, <1>3, TurnReady DEF IInv
<1>5. /\ timer' \in [Timers -> Nat] /\ timer'[x] = 0
      /\ \A y \in Timers : y # x => timer'[y] = timer[y]
      BY <1>2 DEF IInv, Types
<1>6. Types'
      <2>1. PICK S : S = [do : Timers \cup {"read"}, gen : Nat]  OBVIOUS
      <2>2. ready' \in Seq(S)
            <3>1. ready \in Seq(S) /\ h \in S  BY <1>1, <2>1 DEF IInv, Types
            <3> QED  BY <3>1, <1>2
      <2>3. \A u \in Threads : Plan(thread[u].todo)'  BY <1>2 DEF Plan, IInv, Types
      <2> QED  BY <1>2, <1>5, <2>1, <2>2, <2>3 DEF Types, IInv
<1>7. TimersWanted'
      <2>1. \A y \in Timers : timer'[y] # 0 => Wanted(y)  BY <1>5 DEF IInv, TimersWanted
      <2>2. \A i \in DOMAIN ready' : Wanted(ready'[i].do)  BY <1>0, <1>1, <1>4 DEF IInv, TimersWanted
      <2> QED  BY <1>2, <2>1, <2>2 DEF TimersWanted, Wanted
<1>8. Ages'
      <2>1. Newest' = Newest /\ Newest \in Int /\ g \in 1 .. Newest
            BY <1>0, <1>2 DEF Newest, IInv, Ages, Types, SessionRecord
      <2>2. \A i \in DOMAIN ready' : ready'[i].gen \in 1 .. Newest
            BY <1>1, <1>4, <2>1 DEF IInv, Ages
      <2>3. \A y \in Timers : timer'[y] \in 0 .. Newest
            BY <1>5, <2>1 DEF IInv, Ages
      <2> QED  BY <1>2, <2>1, <2>2, <2>3 DEF IInv, Ages
<1>9. ASSUME ~mode.watchdog  PROVE OneReader' /\ HangsUp' /\ DecoderTended'
      <2>0. OneReader /\ HangsUp /\ DecoderTended  BY <1>9 DEF IInv
      <2>1. \A u \in Threads : Reads(u)' <=> Reads(u)  BY <1>2 DEF Reads
      <2>2. \A u \in Threads : Reads(u) => thread[u].gen # 0
            BY Kinds DEF Reads, IInv, Ages
      <2>3. \A i \in DOMAIN ready : ready[i].gen # 0  BY DEF IInv, Ages
      <2>4. timer'["reconnect"] \in {0, timer["reconnect"]}  BY <1>5 DEF Timers
      <2>5. WillRead(h) => /\ g = timer["reconnect"] /\ timer'["reconnect"] = 0
            BY <1>0, <1>1, <1>5 DEF WillRead, Timers
      <2>6. OneReader'
            <3>1. \A t, u \in Threads : Reads(t) /\ Reads(u) /\ thread[t].gen = thread[u].gen => t = u
                  BY <2>0 DEF OneReader
            <3>2. \A i, j \in DOMAIN ready' :
                    WillRead(ready'[i]) /\ WillRead(ready'[j]) /\ ready'[i].gen = ready'[j].gen => i = j
                  BY <1>1, <1>4, <2>0, <2>5 DEF OneReader
            <3>3. \A t \in Threads : \A i \in DOMAIN ready' :
                    Reads(t) /\ WillRead(ready'[i]) => thread[t].gen # ready'[i].gen
                  BY <1>1, <1>4, <2>0, <2>5 DEF OneReader
            <3>4. \A t \in Threads : Reads(t) => thread[t].gen # timer'["reconnect"]
                  BY <2>0, <2>2, <2>4 DEF OneReader
            <3>5. \A i \in DOMAIN ready' : WillRead(ready'[i]) => ready'[i].gen # timer'["reconnect"]
                  <4> TAKE i \in DOMAIN ready'
                  <4>1. CASE i = n  BY <4>1, <1>0, <1>1, <1>4, <2>5
                  <4>2. CASE i \in DOMAIN ready  BY <4>2, <1>4, <2>0, <2>3, <2>4 DEF OneReader
                  <4> QED  BY <4>1, <4>2, <1>4
            <3> QED  BY <1>2, <2>1, <3>1, <3>2, <3>3, <3>4, <3>5 DEF OneReader, WillRead
      <2>7. HangsUp'  BY <1>2, <2>0 DEF HangsUp
      <2>8. DecoderTended'
            <3> SUFFICES ASSUME Tending', timer'["decoder"] = 0, ~\E u \in Threads : thread'[u].todo \in Drives
                         PROVE  \E i \in DOMAIN ready' : ready'[i].do = "decoder"
                BY DEF DecoderTended
            <3>1. Tending /\ ~\E u \in Threads : thread[u].todo \in Drives  BY <1>2 DEF Tending
            <3>2. CASE \E i \in DOMAIN ready : ready[i].do = "decoder"  BY <3>2, <1>4
            <3>3. CASE timer["decoder"] # 0
                  <4>1. x = "decoder"  BY <3>3, <1>5 DEF Timers
                  <4> QED  BY <4>1, <1>1, <1>4
            <3> QED  BY <3>1, <3>2, <3>3, <2>0 DEF DecoderTended
      <2> QED  BY <2>6, <2>7, <2>8
<1>10. ClosedInTheEnd'  BY <1>2 DEF IInv, ClosedInTheEnd
<1> QED  BY <1>2, <1>6, <1>7, <1>8, <1>9, <1>10 DEF IInv

\* What a queue becomes when its first element is taken.
LEMMA TakeFirst ==
  ASSUME NEW S, NEW q \in Seq(S), q # <<>>
  PROVE  /\ Tail(q) \in Seq(S) /\ Head(q) = q[1] /\ 1 \in DOMAIN q /\ q[1] \in S
         /\ \A i \in DOMAIN Tail(q) : i \in Int /\ i + 1 \in DOMAIN q /\ i + 1 # 1 /\ Tail(q)[i] = q[i + 1]
         /\ \A i \in DOMAIN q : i \in Int /\ (i # 1 => i - 1 \in DOMAIN Tail(q) /\ Tail(q)[i - 1] = q[i])
OBVIOUS

LEMMA RunHolds ==
  ASSUME IInv, NEW t \in Threads, Run(t)
  PROVE  IInv'
<1>1. PICK S : S = [do : Timers \cup {"read"}, gen : Nat]  OBVIOUS
<1>2. ready \in Seq(S) /\ ready # <<>>  BY <1>1 DEF Run, IInv, Types
<1>3. PICK h, q : h = ready[1] /\ q = Tail(ready)  OBVIOUS
<1>4. /\ q \in Seq(S) /\ h = Head(ready) /\ h \in S /\ 1 \in DOMAIN ready
      /\ \A i \in DOMAIN q : i \in Int /\ i + 1 \in DOMAIN ready /\ i + 1 # 1 /\ q[i] = ready[i + 1]
      /\ \A i \in DOMAIN ready : i # 1 => i - 1 \in DOMAIN q /\ q[i - 1] = ready[i]
      BY <1>2, <1>3, TakeFirst
<1>5. /\ UNCHANGED <<mode, session, puller, jitter, timer, delivered, lastCall>> /\ ready' = q
      /\ thread[t].todo = <<>>
      BY <1>3, <1>4 DEF Run, Idle
<1>6. /\ Only(t) /\ Fields(thread'[t])
      /\ thread'[t].todo = <<h.do>> /\ thread'[t].gen = h.gen
      <2>1. thread' = [thread EXCEPT ![t].todo = <<h.do>>, ![t].gen = h.gen]
            BY <1>4 DEF Run
      <2>2. DOMAIN thread = Threads /\ Fields(thread[t])  BY DEF IInv, Types
      <2> QED  BY <2>1, <2>2 DEF Only, Fields
<1>7. h.do \in Timers \cup {"read"} /\ h.gen \in Nat /\ Wanted(h.do) /\ h.gen \in 1 .. Newest
      BY <1>1, <1>3, <1>4 DEF IInv, TimersWanted, Ages
<1>8. /\ <<h.do>> \in ReaderPlans <=> h.do \in {"read", "reconnect"}
      /\ <<h.do>> \in DecoderPlans <=> h.do = "decoder"
      /\ <<h.do>> \notin StopPlans /\ <<h.do>> # <<"hangUp", "retry">>
      <2>1. h.do \in ReaderOnes <=> h.do \in {"read", "reconnect"}  BY <1>7 DEF ReaderOnes, Timers
      <2>2. h.do # "stopped" /\ h.do # "pop" /\ h.do # "rearm"  BY <1>7 DEF Timers
      <2> QED  BY <2>1, <2>2, OneStep
<1>9. Types'
      <2>1. Plan(thread[t].todo)'  BY <1>5, <1>6, <1>7, <1>8 DEF Plan, Wanted, Timers
      <2>2. \A u \in Threads : u # t => Plan(thread[u].todo)'
            BY <1>5, <1>6 DEF Plan, Only, IInv, Types
      <2>3. \A u \in Threads : Fields(thread'[u]) /\ thread'[u].gen \in Nat
            BY <1>6, <1>7 DEF Only, IInv, Types
      <2> QED  BY <1>1, <1>4, <1>5, <1>6, <2>1, <2>2, <2>3 DEF Types, IInv, Only
<1>10. TimersWanted'
       <2>1. \A i \in DOMAIN q : Wanted(q[i].do)  BY <1>4 DEF IInv, TimersWanted
       <2> QED  BY <1>5, <2>1 DEF TimersWanted, Wanted, IInv
<1>11. Ages'
       <2>1. Newest' = Newest  BY <1>5 DEF Newest
       <2>2. \A i \in DOMAIN q : q[i].gen \in 1 .. Newest  BY <1>4 DEF IInv, Ages
       <2>3. \A u \in Threads : thread'[u].todo \notin {<<>>} \cup StopPlans => thread'[u].gen \in 1 .. Newest
             BY <1>6, <1>7 DEF Only, IInv, Ages
       <2>4. \A u \in Threads : thread'[u].todo \in StopPlans => session.generation >= 2
             BY <1>6, <1>8 DEF Only, IInv, Ages
       <2> QED  BY <1>5, <2>1, <2>2, <2>3, <2>4 DEF IInv, Ages
<1>12. ASSUME ~mode.watchdog  PROVE OneReader' /\ HangsUp' /\ DecoderTended'
       <2>0. OneReader /\ HangsUp /\ DecoderTended  BY <1>12 DEF IInv
       <2>1. \A u \in Threads : Reads(u)' => (u # t /\ Reads(u) /\ thread'[u].gen = thread[u].gen)
                                             \/ (u = t /\ WillRead(ready[1]) /\ thread'[u].gen = ready[1].gen)
             BY <1>3, <1>6, <1>8 DEF Reads, Only, WillRead
       <2>2. OneReader'
             <3>1. \A u, v \in Threads : Reads(u)' /\ Reads(v)' /\ thread'[u].gen = thread'[v].gen => u = v
                   BY <2>0, <2>1, <1>4 DEF OneReader
             <3>2. \A i, j \in DOMAIN q :
                     WillRead(q[i]) /\ WillRead(q[j]) /\ q[i].gen = q[j].gen => i = j
                   <4> SUFFICES ASSUME NEW i \in DOMAIN q, NEW j \in DOMAIN q,
                                       WillRead(q[i]), WillRead(q[j]), q[i].gen = q[j].gen
                                PROVE  i = j
                       OBVIOUS
                   <4>1. i + 1 = j + 1  BY <2>0, <1>4 DEF OneReader
                   <4> QED  BY <4>1, <1>4
             <3>3. \A u \in Threads : \A i \in DOMAIN q :
                     Reads(u)' /\ WillRead(q[i]) => thread'[u].gen # q[i].gen
                   <4> SUFFICES ASSUME NEW u \in Threads, NEW i \in DOMAIN q, Reads(u)', WillRead(q[i])
                                PROVE  thread'[u].gen # q[i].gen
                       OBVIOUS
                   <4>1. i + 1 \in DOMAIN ready /\ i + 1 # 1 /\ q[i] = ready[i + 1]  BY <1>4
                   <4>2. CASE u = t  BY <4>1, <4>2, <2>0, <2>1, <1>4 DEF OneReader
                   <4>3. CASE u # t  BY <4>1, <4>3, <2>0, <2>1 DEF OneReader
                   <4> QED  BY <4>2, <4>3
             <3>4. \A u \in Threads : Reads(u)' => thread'[u].gen # timer["reconnect"]
                   BY <2>0, <2>1, <1>4 DEF OneReader
             <3>5. \A i \in DOMAIN q : WillRead(q[i]) => q[i].gen # timer["reconnect"]
                   BY <2>0, <1>4 DEF OneReader
             <3> QED  BY <1>5, <3>1, <3>2, <3>3, <3>4, <3>5 DEF OneReader, WillRead
       <2>3. HangsUp'  BY <1>5, <1>6, <1>8, <2>0 DEF HangsUp, Only
       <2>4. DecoderTended'
             <3> SUFFICES ASSUME Tending', timer'["decoder"] = 0, ~\E u \in Threads : thread'[u].todo \in Drives
                          PROVE  \E i \in DOMAIN ready' : ready'[i].do = "decoder"
                 BY DEF DecoderTended
             <3>1. Tending /\ timer["decoder"] = 0  BY <1>5 DEF Tending
             <3>2. ~\E u \in Threads : thread[u].todo \in Drives
                   BY <1>5, <1>6, NoStep DEF Only
             <3>3. PICK i \in DOMAIN ready : ready[i].do = "decoder"
                   BY <3>1, <3>2, <2>0 DEF DecoderTended
             <3>4. i # 1  BY <3>3, <1>3, <1>6, <1>8, Kinds
             <3> QED  BY <3>3, <3>4, <1>4, <1>5
       <2> QED  BY <2>2, <2>3, <2>4
<1>13. ClosedInTheEnd'
       BY <1>5, <1>6, NoStep DEF IInv, ClosedInTheEnd, Only
<1> QED  BY <1>5, <1>9, <1>10, <1>11, <1>12, <1>13 DEF IInv

-----------------------------------------------------------------------------
(* Start and Stop                                                          *)

\* A thread at rest is given a plan; nothing else changes but the session.
LEMMA Called ==
  ASSUME IInv, NEW t \in Threads, NEW todo, NEW g \in Nat,
         thread[t].todo = <<>>, thread' = [thread EXCEPT ![t].todo = todo, ![t].gen = g]
  PROVE  Only(t) /\ Fields(thread'[t]) /\ thread'[t].todo = todo /\ thread'[t].gen = g
<1>1. DOMAIN thread = Threads /\ Fields(thread[t])  BY DEF IInv, Types
<1> QED  BY <1>1 DEF Only, Fields

\* Everything there is is older than the generation a Start or a Stop begins.
LEMMA NewestBefore ==
  ASSUME IInv
  PROVE  /\ session.generation \in Nat /\ Newest \in Int /\ Newest <= session.generation
         /\ \A u \in Threads : Reads(u) => thread[u].gen \in 1 .. Newest
         /\ \A i \in DOMAIN ready : ready[i].gen \in 1 .. Newest
         /\ \A x \in Timers : timer[x] \in 0 .. Newest
<1>1. session.generation \in Nat  BY DEF IInv, Types, SessionRecord
<1>2. \A u \in Threads : Reads(u) => thread[u].gen \in 1 .. Newest
      BY Kinds DEF Reads, IInv, Ages
<1> QED  BY <1>1, <1>2 DEF Newest, IInv, Ages

LEMMA StartHolds ==
  ASSUME IInv, NEW t \in Threads, Start(t)
  PROVE  IInv'
<1>1. PICK g \in Nat : g = session.generation + 1  BY DEF IInv, Types, SessionRecord
<1>2. /\ UNCHANGED <<mode, puller, jitter, timer, ready, delivered>> /\ lastCall' = "start"
      /\ session' = [session EXCEPT !.generation = g, !.running = TRUE, !.state = "CONNECTING"]
      /\ thread[t].todo = <<>>
      BY <1>1 DEF Start, BetweenCalls, Callers, Idle
<1>3. Only(t) /\ Fields(thread'[t]) /\ thread'[t].todo = <<"open">> /\ thread'[t].gen = g
      <2>1. thread' = [thread EXCEPT ![t].todo = <<"open">>, ![t].gen = g]  BY <1>1 DEF Start
      <2> QED  BY <1>2, <2>1, Called
<1>4. session' \in SessionRecord /\ session'.generation = g /\ session'.state = "CONNECTING"
      BY <1>2 DEF IInv, Types, SessionRecord, States
<1>5. <<"open">> \in ReaderPlans /\ <<"open">> \notin StopPlans /\ <<"open">> # <<"hangUp", "retry">>
      BY OneStep DEF ReaderOnes
<1>6. Types'
      <2>1. \A u \in Threads : Plan(thread[u].todo)'
            BY <1>2, <1>3, <1>5 DEF Only, Plan, IInv, Types
      <2>2. \A u \in Threads : Fields(thread'[u]) /\ thread'[u].gen \in Nat
            BY <1>3 DEF Only, IInv, Types
      <2> QED  BY <1>2, <1>3, <1>4, <2>1, <2>2 DEF Types, IInv, Only
<1>7. TimersWanted'  BY <1>2 DEF TimersWanted, Wanted, IInv
<1>8. Ages'
      <2>1. Newest' = g /\ Newest < g /\ Newest \in Int /\ g >= 1
            BY <1>1, <1>2, <1>4, NewestBefore DEF Newest
      <2>2. \A u \in Threads : thread'[u].todo \notin {<<>>} \cup StopPlans => thread'[u].gen \in 1 .. g
            BY <2>1, <1>3 DEF Only, IInv, Ages
      <2>3. \A u \in Threads : thread'[u].todo \in StopPlans => g >= 2
            BY <1>1, <1>3, <1>5, NewestBefore DEF Only, IInv, Ages
      <2>4. /\ \A i \in DOMAIN ready : ready[i].gen \in 1 .. g
            /\ \A x \in Timers : timer[x] \in 0 .. g
            BY <2>1, NewestBefore
      <2> QED  BY <1>2, <1>4, <2>1, <2>2, <2>3, <2>4 DEF Ages
<1>9. ASSUME ~mode.watchdog  PROVE OneReader' /\ HangsUp' /\ DecoderTended'
      <2>0. OneReader  BY <1>9 DEF IInv
      <2>1. \A u \in Threads : Reads(u)' => \/ u # t /\ Reads(u) /\ thread'[u].gen = thread[u].gen
                                               /\ thread'[u].gen < g
                                            \/ u = t /\ thread'[u].gen = g
            BY <1>1, <1>3, NewestBefore DEF Reads, Only
      <2>2. \A i \in DOMAIN ready : ready[i].gen < g  BY <1>1, NewestBefore
      <2>3. timer["reconnect"] < g  BY <1>1, NewestBefore DEF Timers
      <2>4. \A u, v \in Threads : Reads(u)' /\ Reads(v)' /\ thread'[u].gen = thread'[v].gen => u = v
            BY <2>0, <2>1 DEF OneReader
      <2>5. \A u \in Threads : \A i \in DOMAIN ready :
              Reads(u)' /\ WillRead(ready[i]) => thread'[u].gen # ready[i].gen
            BY <2>0, <2>1, <2>2 DEF OneReader
      <2>6. \A u \in Threads : Reads(u)' => thread'[u].gen # timer["reconnect"]
            BY <2>0, <2>1, <2>3 DEF OneReader
      <2>7. OneReader'  BY <1>2, <2>0, <2>4, <2>5, <2>6 DEF OneReader, WillRead
      <2> QED  BY <1>4, <2>7 DEF HangsUp, DecoderTended, Tending
<1>10. ClosedInTheEnd'  BY <1>2 DEF ClosedInTheEnd
<1> QED  BY <1>2, <1>6, <1>7, <1>8, <1>9, <1>10 DEF IInv

LEMMA StopHolds ==
  ASSUME IInv, NEW t \in Threads, Stop(t)
  PROVE  IInv'
<1>1. PICK g \in Nat : g = session.generation + 1  BY DEF IInv, Types, SessionRecord
<1>2. /\ UNCHANGED <<mode, puller, jitter, timer, ready, delivered>> /\ lastCall' = "stop"
      /\ session' = [session EXCEPT !.generation = g, !.running = FALSE]
      /\ thread[t].todo = <<>> /\ session.state # "IDLE"
      BY <1>1 DEF Stop, Idle
<1>3. Only(t) /\ Fields(thread'[t]) /\ thread'[t].todo = <<"halt", "stopped">> /\ thread'[t].gen \in Nat
      <2>1. PICK h \in Nat : h = thread[t].gen  BY DEF IInv, Types
      <2>2. DOMAIN thread = Threads /\ Fields(thread[t])  BY DEF IInv, Types
      <2>3. thread' = [thread EXCEPT ![t].todo = <<"halt", "stopped">>]  BY DEF Stop
      <2> QED  BY <2>1, <2>2, <2>3 DEF Only, Fields
<1>4. session' \in SessionRecord /\ session'.generation = g /\ session'.running = FALSE
      BY <1>2 DEF IInv, Types, SessionRecord, States
<1>5. /\ <<"halt", "stopped">> \in StopPlans /\ <<"halt", "stopped">> \notin ReaderPlans
      /\ <<"halt", "stopped">> # <<"hangUp", "retry">> /\ <<"halt", "stopped">> \in Closing
      BY TwoSteps DEF Delivering
<1>6. Types'
      <2>1. \A u \in Threads : Plan(thread[u].todo)'
            BY <1>2, <1>3, <1>5 DEF Only, Plan, IInv, Types
      <2>2. \A u \in Threads : Fields(thread'[u]) /\ thread'[u].gen \in Nat
            BY <1>3 DEF Only, IInv, Types
      <2> QED  BY <1>2, <1>3, <1>4, <2>1, <2>2 DEF Types, IInv, Only
<1>7. TimersWanted'  BY <1>2 DEF TimersWanted, Wanted, IInv
<1>8. g >= 2 /\ session.generation >= 1
      <2>1. session.generation \in Nat /\ session.generation >= 1
            BY <1>2 DEF IInv, Ages, Types, SessionRecord
      <2> QED  BY <1>1, <2>1
<1>9. Ages'
      <2>1. Newest' = session.generation /\ Newest <= session.generation /\ Newest \in Int
            /\ session.generation \in Nat
            BY <1>1, <1>2, <1>4, NewestBefore DEF Newest
      <2>2. PICK m \in Nat : m = session.generation  BY <2>1
      <2>3. \A u \in Threads : thread'[u].todo \notin {<<>>} \cup StopPlans => thread'[u].gen \in 1 .. m
            BY <2>1, <2>2, <1>3, <1>5 DEF Only, IInv, Ages
      <2>4. /\ \A i \in DOMAIN ready : ready[i].gen \in 1 .. m
            /\ \A x \in Timers : timer[x] \in 0 .. m
            BY <2>1, <2>2, NewestBefore
      <2>5. Newest' = m /\ session'.generation >= 2  BY <1>4, <1>8, <2>1, <2>2
      <2> QED  BY <1>2, <2>3, <2>4, <2>5 DEF Ages
<1>10. ASSUME ~mode.watchdog  PROVE OneReader' /\ HangsUp' /\ DecoderTended'
       <2>0. OneReader  BY <1>10 DEF IInv
       <2>1. \A u \in Threads : Reads(u)' => Reads(u) /\ thread'[u].gen = thread[u].gen
             BY <1>3, <1>5 DEF Reads, Only
       <2>2. OneReader'  BY <1>2, <2>0, <2>1 DEF OneReader, WillRead
       <2> QED  BY <1>4, <1>8, <2>2 DEF HangsUp, DecoderTended, Tending
<1>11. ClosedInTheEnd'  BY <1>3, <1>5 DEF ClosedInTheEnd
<1> QED  BY <1>2, <1>6, <1>7, <1>9, <1>10, <1>11 DEF IInv

-----------------------------------------------------------------------------
(* The invariant                                                           *)

LEMMA InitHolds ==
  ASSUME Init
  PROVE  IInv
<1>1. session.state = "IDLE" /\ session.generation = 0 /\ session.running = FALSE /\ lastCall = "none"
      /\ puller.conn = 0 /\ ready = <<>> /\ DOMAIN ready = {}
      BY DEF Init
<1>2. \A x \in Timers : timer[x] = 0  BY DEF Init
<1>3. \A u \in Threads : thread[u] = Resting /\ thread[u].todo = <<>> /\ thread[u].gen = 0 /\ Fields(thread[u])
      BY DEF Init, Resting, Fields
<1>4. Types
      <2>1. session \in SessionRecord /\ puller \in PullerRecord
            BY DEF Init, SessionRecord, PullerRecord, States
      <2>2. timer \in [Timers -> Nat]  BY DEF Init
      <2>3. ready \in Seq([do : Timers \cup {"read"}, gen : Nat])
            <3>1. PICK S : S = [do : Timers \cup {"read"}, gen : Nat]  OBVIOUS
            <3>2. ready \in Seq(S)  BY <1>1
            <3> QED  BY <3>1, <3>2
      <2> QED  BY <1>3, <2>1, <2>2, <2>3 DEF Types, Init, Plan
<1>5. TimersWanted  BY <1>1, <1>2 DEF TimersWanted
<1>6. Ages
      <2>1. Newest = 0  BY <1>1 DEF Newest
      <2>2. \A u \in Threads : thread[u].todo \notin StopPlans  BY <1>3, NoStep
      <2> QED  BY <1>1, <1>2, <1>3, <2>1, <2>2 DEF Ages
<1>7. OneReader /\ HangsUp /\ DecoderTended
      <2>1. \A u \in Threads : ~Reads(u)  BY <1>3, NoStep DEF Reads
      <2> QED  BY <1>1, <2>1 DEF OneReader, HangsUp, DecoderTended, Tending
<1> QED  BY <1>1, <1>4, <1>5, <1>6, <1>7 DEF IInv, ClosedInTheEnd

LEMMA StutterHolds ==
  ASSUME IInv, UNCHANGED vars
  PROVE  IInv'
<1>1. UNCHANGED <<mode, session, puller, jitter, timer, ready, thread, delivered, lastCall>>  BY DEF vars
<1>2. Types'  BY <1>1 DEF IInv, Types, Plan
<1>3. TimersWanted' /\ Ages'  BY <1>1 DEF IInv, TimersWanted, Wanted, Ages, Newest
<1>4. ~mode.watchdog => OneReader' /\ HangsUp'
      BY <1>1 DEF IInv, OneReader, Reads, WillRead, HangsUp
<1>5. ~mode.watchdog => DecoderTended'  BY <1>1 DEF IInv, DecoderTended, Tending
<1>6. ClosedInTheEnd'  BY <1>1 DEF IInv, ClosedInTheEnd
<1> QED  BY <1>1, <1>2, <1>3, <1>4, <1>5, <1>6 DEF IInv

\* The inductive invariant holds in every reachable state.
THEOREM Invariant == Spec => []IInv
<1>1. Init => IInv  BY InitHolds
<1>2. IInv /\ [Next]_vars => IInv'
      <2> SUFFICES ASSUME IInv, [Next]_vars  PROVE IInv'
          OBVIOUS
      <2>1. CASE \E x \in Timers : Expire(x)  BY <2>1, ExpireHolds
      <2>2. ASSUME NEW t \in Threads, Run(t) \/ Start(t) \/ Stop(t) \/ Steps(t) \/ ReadAnswered(t)
            PROVE  IInv'
            BY <2>2, RunHolds, StartHolds, StopHolds, ThreadTurns
      <2>3. CASE UNCHANGED vars  BY <2>3, StutterHolds
      <2> QED  BY <2>1, <2>2, <2>3 DEF Next
<1> QED  BY <1>1, <1>2, PTL DEF Spec

-----------------------------------------------------------------------------
(* What a connection is promised                                           *)

LEMMA Elements ==
  ASSUME NEW s, NEW r
  PROVE  ToSet(<<>>) = {} /\ ToSet(<<s>>) = {s} /\ ToSet(<<s, r>>) = {s, r}
BY DEF ToSet

\* Who is in the read loop, with the next steps of its thread, is a reader of the invariant.
LEMMA InLoopReads ==
  ASSUME IInv, NEW t \in Threads, InReadLoop(t)
  PROVE  Reads(t)
<1> DEFINE todo == thread[t].todo
           loop == {"read", "reading", "packet", "NoData", "enqueue", "push", "again"}
                     \cup (IF mode.jitter THEN {} ELSE {"dispatch", "callback"})
<1>1. ToSet(todo) \cap loop # {}  BY DEF InReadLoop
<1>2. Plan(todo)  BY DEF IInv, Types
<1>3. todo # <<>>  BY <1>1, Elements
<1>4. ASSUME todo \in EndPlans  PROVE FALSE
      <2>1. PICK s \in Ends \cup {"finished", "failed"} : todo = <<s>>  BY <1>4 DEF EndPlans
      <2>2. ToSet(todo) = {s}  BY <2>1, Elements
      <2> QED  BY <2>2, <1>1 DEF Ends
<1>5. ASSUME todo \in StopPlans  PROVE FALSE
      <2>2. todo = <<"halt", "stopped">> \/ todo = <<"stopped">>  BY <1>5 DEF StopPlans
      <2>3. ToSet(<<"halt", "stopped">>) = {"halt", "stopped"} /\ ToSet(<<"stopped">>) = {"stopped"}
            BY Elements
      <2>1. ToSet(todo) \subseteq {"halt", "stopped"}  BY <2>2, <2>3
      <2> QED  BY <2>1, <1>1
<1>6. ASSUME todo \in DecoderPlans, mode.jitter  PROVE FALSE
      <2>1. ToSet(todo) \subseteq {"decoder", "pop", "rearm", "dispatch", "callback"}
            <3>1. CASE todo \in {<<"decoder">>, <<"pop">>, <<"rearm">>}
                  <4>1. PICK s \in {"decoder", "pop", "rearm"} : todo = <<s>>  BY <3>1
                  <4>2. ToSet(<<s>>) = {s}  BY Elements
                  <4> QED  BY <4>1, <4>2
            <3>2. CASE todo \in {<<"dispatch", "rearm">>, <<"callback", "rearm">>}
                  <4>1. PICK s \in {"dispatch", "callback"} : todo = <<s, "rearm">>  BY <3>2
                  <4>2. ToSet(<<s, "rearm">>) = {s, "rearm"}  BY Elements
                  <4> QED  BY <4>1, <4>2
            <3> QED  BY <1>6, <3>1, <3>2 DEF DecoderPlans
      <2> QED  BY <2>1, <1>1, <1>6
<1>7. todo # <<"watchdog">>
      <2>1. ToSet(<<"watchdog">>) = {"watchdog"}  BY Elements
      <2> QED  BY <2>1, <1>1
<1> QED  BY <1>2, <1>3, <1>4, <1>5, <1>6, <1>7 DEF Plan, Reads

\* Of two sets of which at most one has an element, and no more than one, ...
LEMMA OneOfTwo ==
  ASSUME NEW A, NEW B, \A a, b \in A : a = b, \A a, b \in B : a = b, A = {} \/ B = {}
  PROVE  Cardinality(A) + Cardinality(B) <= 1
<1>1. ASSUME NEW S, \A a, b \in S : a = b  PROVE S = {} \/ \E a : S = {a}
      BY <1>1
<1>2. ASSUME NEW S, S = {} \/ \E a : S = {a}
      PROVE  Cardinality(S) \in {0, 1} /\ (S = {} => Cardinality(S) = 0)
      BY <1>2, FS_EmptySet, FS_Singleton
<1>3. (A = {} \/ \E a : A = {a}) /\ (B = {} \/ \E a : B = {a})  BY <1>1
<1> QED  BY <1>2, <1>3

LEMMA OneLoop ==
  ASSUME IInv
  PROVE  OneReadLoop
<1> SUFFICES ASSUME ~mode.watchdog
             PROVE  Cardinality({t \in Workers : InReadLoop(t) /\ thread[t].gen = session.generation})
                      + Cardinality({i \in 1 .. Len(ready) :
                                       ready[i] = Handler("read", session.generation)}) <= 1
    BY DEF OneReadLoop
<1> DEFINE A == {t \in Workers : InReadLoop(t) /\ thread[t].gen = session.generation}
           B == {i \in 1 .. Len(ready) : ready[i] = Handler("read", session.generation)}
<1>1. OneReader  BY DEF IInv
<1>2. \A t \in A : t \in Threads /\ Reads(t) /\ thread[t].gen = session.generation
      BY InLoopReads DEF Threads
<1>3. \A i \in B : i \in DOMAIN ready /\ WillRead(ready[i]) /\ ready[i].gen = session.generation
      <2>1. DOMAIN ready = 1 .. Len(ready)  BY DEF IInv, Types
      <2> QED  BY <2>1 DEF WillRead, Handler
<1> HIDE DEF A, B
<1>4. \A a, b \in A : a = b  BY <1>1, <1>2 DEF OneReader
<1>5. \A a, b \in B : a = b  BY <1>1, <1>3 DEF OneReader
<1>6. A = {} \/ B = {}  BY <1>1, <1>2, <1>3 DEF OneReader
<1>7. Cardinality(A) + Cardinality(B) <= 1  BY <1>4, <1>5, <1>6, OneOfTwo
<1> QED  BY <1>7 DEF A, B

LEMMA Driven ==
  ASSUME IInv
  PROVE  DecoderDriven
<1> SUFFICES ASSUME mode.jitter, ~mode.watchdog, session.running, session.state = "CONNECTED",
                    session.generation = 1
             PROVE  \/ timer.decoder # 0
                    \/ \E i \in 1 .. Len(ready) : ready[i].do = "decoder"
                    \/ \E t \in Threads : {"decoder", "rearm", "pop", "arm", "lost", "hangUp"}
                                             \cap ToSet(thread[t].todo) # {}
    BY DEF DecoderDriven
<1>1. Tending /\ DecoderTended  BY DEF IInv, Tending
<1>2. DOMAIN ready = 1 .. Len(ready)  BY DEF IInv, Types
<1>3. ASSUME NEW t \in Threads, thread[t].todo \in Drives \ {<<"callback", "rearm">>, <<"dispatch", "rearm">>}
      PROVE  {"decoder", "rearm", "pop", "arm", "lost", "hangUp"} \cap ToSet(thread[t].todo) # {}
      <2>1. thread[t].todo \in {<<"decoder">>, <<"pop">>, <<"rearm">>, <<"arm">>, <<"run", "arm">>, <<"lost">>,
                                <<"hangUp", "retry">>}
            BY <1>3 DEF Drives, DecoderPlans
      <2>2. CASE thread[t].todo \in {<<s>> : s \in {"decoder", "pop", "rearm", "arm", "lost"}}
            <3>1. PICK s \in {"decoder", "pop", "rearm", "arm", "lost"} : thread[t].todo = <<s>>  BY <2>2
            <3>2. ToSet(<<s>>) = {s}  BY Elements
            <3> QED  BY <3>1, <3>2
      <2>3. CASE thread[t].todo = <<"run", "arm">>
            <3>1. ToSet(thread[t].todo) = {"run", "arm"}  BY <2>3, Elements
            <3> QED  BY <3>1
      <2>4. CASE thread[t].todo = <<"hangUp", "retry">>
            <3>1. ToSet(thread[t].todo) = {"hangUp", "retry"}  BY <2>4, Elements
            <3> QED  BY <3>1
      <2> QED  BY <2>1, <2>2, <2>3, <2>4
<1>4. ASSUME NEW t \in Threads, thread[t].todo \in {<<"callback", "rearm">>, <<"dispatch", "rearm">>}
      PROVE  {"decoder", "rearm", "pop", "arm", "lost", "hangUp"} \cap ToSet(thread[t].todo) # {}
      <2>0. PICK s : thread[t].todo = <<s, "rearm">>  BY <1>4
      <2>3. ToSet(<<s, "rearm">>) = {s, "rearm"}  BY Elements
      <2>1. "rearm" \in ToSet(thread[t].todo)  BY <2>0, <2>3
      <2> QED  BY <2>1
<1> QED  BY <1>1, <1>2, <1>3, <1>4 DEF DecoderTended

LEMMA Closes ==
  ASSUME IInv
  PROVE  StopCloses
<1>1. \A t \in Threads : Idle(t) => thread[t].todo \notin Closing  BY NoStep DEF Idle
<1> QED  BY <1>1 DEF StopCloses, Quiet, IInv, ClosedInTheEnd

\* Without the watchdog the active generation has one read loop, whatever is stopped, restarted and
\* reconnected, and in the first start somebody empties its jitter buffer; with or without it no
\* connection is open once all has come to rest after a Stop, which may come at any moment of a
\* Start (stream_session.cpp:130-148).
THEOREM OneConnectionTended == Spec => []ConnectionTended
<1>1. IInv => ConnectionTended  BY OneLoop, Driven, Closes DEF ConnectionTended
<1> QED  BY <1>1, Invariant, PTL

-----------------------------------------------------------------------------
(* The order of delivery: the inductive invariant                          *)

\* What threads hold and what they have given away is within the bounds of the mode.
Bounded ==
  /\ session.generation <= mode.calls /\ session.count <= Attempts
  /\ puller.conn <= MaxOpens /\ puller.opens <= MaxOpens /\ puller.packets <= mode.packets
  /\ jitter \in [incoming : Seq(Packets), reorder : Seq(Packets), last : Stamps \cup {0}]
  /\ Len(jitter.incoming) <= Capacity
  /\ \A t \in Threads : /\ thread[t].gen <= session.generation
                        /\ thread[t].conn \in 0 .. MaxOpens
                        /\ thread[t].packet \in Packets \cup {None}
  /\ delivered \in Seq(Packets)

\* Plans of a thread that holds a packet: to be delivered straight, or popped from the buffer.
Straight == {<<"dispatch", "again">>, <<"callback", "again">>}
Popped == {<<"dispatch", "rearm">>, <<"callback", "rearm">>}
Holding == {<<"packet">>} \cup {<<s, "again">> : s \in Delivering} \cup Popped
Holds(t) == thread[t].todo \in Holding

Numbers(s) == {s[i].number : i \in DOMAIN s}
Distinct(s) == \A i, j \in DOMAIN s : s[i].number = s[j].number => i = j
Given == Numbers(delivered) \cup Numbers(jitter.reorder) \cup Numbers(jitter.incoming)

\* A packet is in one place: with a thread, in the buffer, or delivered.
Apart ==
  /\ Distinct(delivered) /\ Distinct(jitter.reorder) /\ Distinct(jitter.incoming)
  /\ Numbers(delivered) \cap Numbers(jitter.reorder) = {}
  /\ Numbers(delivered) \cap Numbers(jitter.incoming) = {}
  /\ Numbers(jitter.reorder) \cap Numbers(jitter.incoming) = {}
  /\ \A n \in Given : n <= puller.packets
  /\ \A t \in Threads : Holds(t) =>
       /\ thread[t].packet \in Packets /\ thread[t].packet.number <= puller.packets
       /\ thread[t].packet.number \notin Given
       /\ \A u \in Threads : Holds(u) /\ thread[u].packet.number = thread[t].packet.number => t = u

\* Without the jitter buffer: what a reader holds is of its generation, and newer than all that
\* was delivered of it.
Ascending ==
  /\ \A i, j \in DOMAIN delivered :
       i < j /\ delivered[i].gen = delivered[j].gen => delivered[i].number < delivered[j].number
  /\ \A t \in Threads : Holds(t) =>
       /\ thread[t].packet.gen = thread[t].gen
       /\ \A i \in DOMAIN delivered :
            delivered[i].gen = thread[t].gen => delivered[i].number < thread[t].packet.number

\* The first connection of the first start.
Early == session.generation <= 1 /\ puller.opens <= 1
Arming == {<<"open">>, <<"opened">>, <<"run", "arm">>, <<"arm">>}
Feeding ==
  Arming \cup {<<s>> : s \in {"read", "reading", "NoData", "packet", "again"}}
    \cup {<<s, "again">> : s \in Delivering}
Pops(h) == h.do = "decoder"
Reading(h) == h.do = "read"

\* Nobody has done anything before the first start, and nobody but the caller before a connection.
AtFirst ==
  /\ session.generation = 0 => puller.opens = 0
  /\ session.generation <= 1 /\ puller.opens = 0 =>
       /\ delivered = <<>> /\ jitter = EmptyBuffer
       /\ ready = <<>> /\ timer.decoder = 0 /\ timer.reconnect = 0
       /\ \A t \in Threads : thread[t].todo \in {<<>>, <<"open">>, <<"refused">>}

\* One thread, one handler or one wait empties the buffer, after the connection is reported.
OneDecoder ==
  /\ \A t, u \in Threads : thread[t].todo \in DecoderPlans /\ thread[u].todo \in DecoderPlans => t = u
  /\ \A i, j \in DOMAIN ready : Pops(ready[i]) /\ Pops(ready[j]) => i = j
  /\ \A t \in Threads : thread[t].todo \in DecoderPlans => \A i \in DOMAIN ready : ~Pops(ready[i])
  /\ timer.decoder # 0 => /\ \A t \in Threads : thread[t].todo \notin DecoderPlans
                          /\ \A i \in DOMAIN ready : ~Pops(ready[i])
  /\ \A t \in Threads : thread[t].todo \in Arming =>
       /\ delivered = <<>> /\ timer.decoder = 0
       /\ \A u \in Threads : thread[u].todo \notin DecoderPlans
       /\ \A i \in DOMAIN ready : ~Pops(ready[i])

\* A connection is not opened again, and when its reader has ended there is no other.
OneLife ==
  /\ \A t \in Threads : thread[t].todo # <<"reopened">>
  /\ \A t \in Threads : thread[t].todo \in EndPlans =>
       /\ timer.reconnect = 0
       /\ \A u \in Threads : ~Reads(u)
       /\ \A i \in DOMAIN ready : ~WillRead(ready[i])

\* The buffer releases no stamp below the last; or it is empty for good.
RunDry ==
  /\ jitter.incoming = <<>> /\ jitter.reorder = <<>>
  /\ \A t \in Threads : thread[t].todo \notin Feeding
  /\ \A i \in DOMAIN ready : ~Reading(ready[i])
InStep ==
  /\ \A i \in DOMAIN delivered : delivered[i].stamp <= jitter.last
  /\ \A t \in Threads : thread[t].todo \in Popped => thread[t].packet.stamp <= jitter.last
  /\ \A i \in DOMAIN jitter.reorder : jitter.last <= jitter.reorder[i].stamp
Released ==
  /\ \A i, j \in DOMAIN delivered : i < j => delivered[i].stamp <= delivered[j].stamp
  /\ \A t \in Threads : thread[t].todo \in Popped =>
       \A i \in DOMAIN delivered : delivered[i].stamp <= thread[t].packet.stamp
  /\ RunDry \/ InStep

NotStraight == \A t \in Threads : thread[t].todo \notin Straight

Orderly == NotStraight /\ AtFirst /\ (Early => OneDecoder /\ OneLife /\ Released)

OInv ==
  /\ IInv /\ Bounded /\ Apart
  /\ ~mode.watchdog => IF mode.jitter THEN Orderly ELSE Ascending

-----------------------------------------------------------------------------
(* Which plans are of which kind, as far as packets go                     *)

\* Plans with different steps are different.
LEMMA DifferentPlans ==
  ASSUME NEW s, NEW r
  PROVE  /\ \A x : <<s>> = <<x>> => s = x
         /\ \A x, y : <<s>> # <<x, y>>
         /\ \A x, y : <<s, r>> = <<x, y>> => s = x /\ r = y
         /\ <<s>> # <<>> /\ <<s, r>> # <<>>
<1>1. \A x : <<s>> = <<x>> => s = x  BY Tails
<1>2. \A x, y : <<s>> # <<x, y>>
      <2> TAKE x, y
      <2>1. Tail(<<s>>) = <<>> /\ Tail(<<x, y>>) = <<y>> /\ <<y>> # <<>>  BY Tails
      <2> QED  BY <2>1
<1>3. \A x, y : <<s, r>> = <<x, y>> => s = x /\ r = y
      <2> TAKE x, y
      <2>1. <<s, r>> = <<x, y>> => s = x /\ <<r>> = <<y>>  BY Tails
      <2>2. <<r>> = <<y>> => r = y  BY Tails
      <2> QED  BY <2>1, <2>2
<1> QED  BY <1>1, <1>2, <1>3, Tails

\* The kinds of a plan of one step, ...
LEMMA OnePlan ==
  ASSUME NEW s
  PROVE  /\ <<s>> \in Arming <=> s \in {"open", "opened", "arm"}
         /\ <<s>> \in Feeding <=>
              s \in {"open", "opened", "arm", "read", "reading", "NoData", "packet", "again"}
         /\ <<s>> \in Holding <=> s = "packet"
         /\ <<s>> \notin Popped /\ <<s>> \notin Straight
<1>1. <<s>> \in Arming <=> s \in {"open", "opened", "arm"}  BY DifferentPlans DEF Arming
<1>2. <<s>> \in Feeding <=>
        s \in {"open", "opened", "arm", "read", "reading", "NoData", "packet", "again"}
      BY <1>1, DifferentPlans DEF Feeding
<1>3. <<s>> \notin Popped /\ <<s>> \notin Straight  BY DifferentPlans DEF Popped, Straight
<1>4. <<s>> \in Holding <=> s = "packet"  BY <1>3, DifferentPlans DEF Holding
<1> QED  BY <1>1, <1>2, <1>3, <1>4

\* ... of two steps, ...
LEMMA TwoPlan ==
  ASSUME NEW s, NEW r
  PROVE  /\ <<s, r>> \in Arming <=> s = "run" /\ r = "arm"
         /\ <<s, r>> \in Feeding <=> (s = "run" /\ r = "arm") \/ (s \in Delivering /\ r = "again")
         /\ <<s, r>> \in Popped <=> s \in {"dispatch", "callback"} /\ r = "rearm"
         /\ <<s, r>> \in Straight <=> s \in {"dispatch", "callback"} /\ r = "again"
         /\ <<s, r>> \in Holding <=>
              (s \in Delivering /\ r = "again") \/ (s \in {"dispatch", "callback"} /\ r = "rearm")
<1>0. \A x : <<s, r>> # <<x>>  BY DifferentPlans
<1>1. <<s, r>> \in Arming <=> s = "run" /\ r = "arm"  BY <1>0, DifferentPlans DEF Arming
<1>2. <<s, r>> \in Feeding <=> (s = "run" /\ r = "arm") \/ (s \in Delivering /\ r = "again")
      BY <1>0, <1>1, DifferentPlans DEF Feeding
<1>3. <<s, r>> \in Popped <=> s \in {"dispatch", "callback"} /\ r = "rearm"
      BY DifferentPlans DEF Popped
<1>4. <<s, r>> \in Straight <=> s \in {"dispatch", "callback"} /\ r = "again"
      BY DifferentPlans DEF Straight
<1>5. <<s, r>> \in Holding <=>
        (s \in Delivering /\ r = "again") \/ (s \in {"dispatch", "callback"} /\ r = "rearm")
      BY <1>0, <1>3, DifferentPlans DEF Holding
<1> QED  BY <1>1, <1>2, <1>3, <1>4, <1>5

\* ... and of none.
LEMMA NoPlan ==
  <<>> \notin Arming /\ <<>> \notin Feeding /\ <<>> \notin Holding /\ <<>> \notin Popped /\ <<>> \notin Straight
<1>1. \A x, y : <<x>> # <<>> /\ <<x, y>> # <<>>  BY Tails
<1> QED  BY <1>1 DEF Arming, Feeding, Holding, Popped, Straight

\* Who arms feeds, who feeds reads, and who holds a packet reads it or has popped it.
LEMMA KindsOfPlans ==
  /\ Arming \subseteq Feeding /\ Feeding \subseteq ReaderPlans
  /\ Popped \subseteq DecoderPlans /\ Popped \subseteq Holding /\ Straight \subseteq Holding
  /\ Holding \subseteq ReaderPlans \cup Popped
  /\ Arming \cap Holding = {}
<1>1. Arming \subseteq Feeding  BY DEF Feeding
<1>2. ASSUME NEW p \in Feeding  PROVE p \in ReaderPlans
      <2>1. CASE p \in {<<s>> : s \in {"open", "opened", "arm", "read", "reading", "NoData", "packet", "again"}}
            <3>1. PICK s \in {"open", "opened", "arm", "read", "reading", "NoData", "packet", "again"} : p = <<s>>
                  BY <2>1
            <3> QED  BY <3>1, OneStep DEF ReaderOnes
      <2>2. CASE p = <<"run", "arm">>  BY <2>2, TwoSteps
      <2>3. CASE p \in {<<s, "again">> : s \in Delivering}
            <3>1. PICK s \in Delivering : p = <<s, "again">>  BY <2>3
            <3> QED  BY <3>1, TwoSteps
      <2> QED  BY <2>1, <2>2, <2>3 DEF Feeding, Arming
<1>3. Popped \subseteq DecoderPlans  BY DEF Popped, DecoderPlans
<1>4. Popped \subseteq Holding /\ Straight \subseteq Holding  BY DEF Popped, Holding, Straight, Delivering
<1>5. ASSUME NEW p \in Holding  PROVE p \in Feeding \cup Popped
      BY <1>5 DEF Holding, Feeding
<1>6. ASSUME NEW p \in Arming  PROVE p \notin Holding
      <2>1. CASE p \in {<<s>> : s \in {"open", "opened", "arm"}}
            <3>1. PICK s \in {"open", "opened", "arm"} : p = <<s>>  BY <2>1
            <3> QED  BY <3>1, OnePlan
      <2>2. CASE p = <<"run", "arm">>  BY <2>2, TwoPlan DEF Delivering
      <2> QED  BY <2>1, <2>2, <1>6 DEF Arming
<1> QED  BY <1>1, <1>2, <1>3, <1>4, <1>5, <1>6

-----------------------------------------------------------------------------
(* Packets in sequences                                                    *)

\* A non-empty set of naturals has a least element.
LEMMA LeastNatural ==
  ASSUME NEW T \in SUBSET Nat, T # {}
  PROVE  \E x \in T : \A y \in T : x <= y
<1> DEFINE R == {ss \in Nat \X Nat : ss[1] < ss[2]}
<1>1. IsWellFoundedOn(R, Nat)  BY NatLessThanWellFounded DEF OpToRel
<1>2. \A m, n \in Nat : m < n => <<m, n>> \in R  OBVIOUS
<1> HIDE DEF R
<1>3. PICK x \in T : \A y \in T : ~(<<y, x>> \in R)  BY <1>1, WFMin
<1>4. ASSUME NEW y \in T  PROVE x <= y
      <2>1. ~(<<y, x>> \in R) /\ x \in Nat /\ y \in Nat  BY <1>3
      <2>2. ~(y < x)  BY <1>2, <2>1
      <2> QED  BY <2>1, <2>2
<1> QED  BY <1>4

\* One packet more at the end of a sequence, ...
LEMMA OneMore ==
  ASSUME NEW P, NEW s \in Seq(P), NEW p \in P, NEW r \in Seq(P), Len(r) = Len(s) + 1,
         r[Len(s) + 1] = p, \A i \in 1 .. Len(s) : r[i] = s[i]
  PROVE  /\ DOMAIN s = 1 .. Len(s) /\ DOMAIN r = 1 .. (Len(s) + 1)
         /\ \A i \in DOMAIN r : i \in DOMAIN s \/ i = Len(s) + 1
         /\ Numbers(r) = Numbers(s) \cup {p.number}
         /\ Distinct(s) /\ p.number \notin Numbers(s) => Distinct(r)
<1>1. /\ DOMAIN s = 1 .. Len(s) /\ DOMAIN r = 1 .. (Len(s) + 1) /\ Len(s) \in Nat
      /\ r[Len(s) + 1] = p /\ \A i \in DOMAIN s : r[i] = s[i]
      OBVIOUS
<1> DEFINE n == Len(s)
<1>2. \A i \in DOMAIN r : i \in DOMAIN s \/ i = n + 1  BY <1>1
<1>3. n + 1 \in DOMAIN r /\ DOMAIN s \subseteq DOMAIN r  BY <1>1
<1>4. Numbers(r) = Numbers(s) \cup {p.number}
      <2>1. Numbers(r) \subseteq Numbers(s) \cup {p.number}  BY <1>1, <1>2 DEF Numbers
      <2>2. Numbers(s) \subseteq Numbers(r) /\ p.number \in Numbers(r)  BY <1>1, <1>3 DEF Numbers
      <2> QED  BY <2>1, <2>2
<1>5. ASSUME Distinct(s), p.number \notin Numbers(s)  PROVE Distinct(r)
      <2>1. \A i \in DOMAIN s : r[i].number # p.number  BY <1>1, <1>5 DEF Numbers
      <2> SUFFICES ASSUME NEW i \in DOMAIN r, NEW j \in DOMAIN r, r[i].number = r[j].number
                   PROVE  i = j
          BY DEF Distinct
      <2>2. CASE i \in DOMAIN s /\ j \in DOMAIN s  BY <1>1, <1>5, <2>2 DEF Distinct
      <2>3. CASE i = n + 1 \/ j = n + 1  BY <1>1, <1>2, <2>1, <2>3
      <2> QED  BY <1>2, <2>2, <2>3
<1> QED  BY <1>1, <1>2, <1>4, <1>5

\* ... and one packet less, wherever it was.
LEMMA OneLess ==
  ASSUME NEW P, NEW s \in Seq(P), NEW i \in DOMAIN s, NEW r, r = RemoveAt(s, i)
  PROVE  /\ r \in Seq(P)
         /\ \A j \in DOMAIN r : \E k \in DOMAIN s : r[j] = s[k]
         /\ Distinct(s) => Distinct(r) /\ Numbers(r) \subseteq Numbers(s) \ {s[i].number}
<1> DEFINE before == SubSeq(s, 1, i - 1)
           after == SubSeq(s, i + 1, Len(s))
           at(j) == IF j < i THEN j ELSE j + 1
<1>1. i \in 1 .. Len(s) /\ Len(s) \in Nat /\ DOMAIN s = 1 .. Len(s) /\ \A j \in 1 .. Len(s) : s[j] \in P  OBVIOUS
<1>2. before \in Seq(P) /\ Len(before) = i - 1 /\ \A j \in 1 .. (i - 1) : before[j] = s[j]
      BY <1>1, SubSeqProperties
<1>3. after \in Seq(P) /\ Len(after) = Len(s) - i /\ \A j \in 1 .. (Len(s) - i) : after[j] = s[j + i]
      BY <1>1, SubSeqProperties
<1>4. r = before \o after  BY DEF RemoveAt
<1> HIDE DEF before, after
<1>5. \A j \in 1 .. (Len(s) - 1) : (before \o after)[j] = s[at(j)]
      <2> TAKE j \in 1 .. (Len(s) - 1)
      <2>1. CASE j < i
            <3>1. j \in 1 .. (i - 1) /\ j <= Len(before)  BY <1>1, <1>2, <2>1
            <3>2. (before \o after)[j] = before[j]  BY <1>1, <1>2, <1>3, <3>1, ConcatProperties
            <3> QED  BY <1>2, <2>1, <3>1, <3>2
      <2>2. CASE ~(j < i)
            <3>1. j - (i - 1) \in 1 .. (Len(s) - i) /\ j - (i - 1) + i = j + 1  BY <1>1, <2>2
            <3>4. j \in 1 .. Len(before) + Len(after) /\ ~(j <= Len(before))  BY <1>1, <1>2, <1>3, <2>2
            <3>2. (before \o after)[j] = after[j - Len(before)]
                  BY <1>2, <1>3, <3>4, ConcatProperties
            <3>3. after[j - (i - 1)] = s[j + 1]  BY <1>3, <3>1
            <3> QED  BY <1>2, <2>2, <3>2, <3>3
      <2> QED  BY <2>1, <2>2
<1>6. r \in Seq(P) /\ DOMAIN r = 1 .. (Len(s) - 1)
      <2>2. /\ before \o after \in Seq(P)
            /\ Len(before \o after) = Len(before) + Len(after)
            BY <1>2, <1>3, ConcatProperties
      <2>3. Len(before) + Len(after) = Len(s) - 1  BY <1>1, <1>2, <1>3
      <2>1. before \o after \in Seq(P) /\ Len(before \o after) = Len(s) - 1  BY <2>2, <2>3
      <2> QED  BY <1>4, <2>1
<1>7. \A j \in DOMAIN r : at(j) \in DOMAIN s /\ at(j) # i /\ r[j] = s[at(j)]
      <2>1. \A j \in 1 .. (Len(s) - 1) : at(j) \in 1 .. Len(s) /\ at(j) # i  BY <1>1
      <2> HIDE DEF at
      <2> QED  BY <1>1, <1>4, <1>5, <1>6, <2>1
<1>8. \A j, k \in DOMAIN r : at(j) = at(k) => j = k  BY <1>1, <1>6
<1> HIDE DEF at
<1>9. ASSUME Distinct(s)  PROVE Distinct(r) /\ Numbers(r) \subseteq Numbers(s) \ {s[i].number}
      <2>1. Distinct(r)  BY <1>7, <1>8, <1>9 DEF Distinct
      <2>2. Numbers(r) \subseteq Numbers(s) \ {s[i].number}  BY <1>7, <1>9 DEF Distinct, Numbers
      <2> QED  BY <2>1, <2>2
<1> QED  BY <1>6, <1>7, <1>9

\* The buffer has a first packet, and none has an earlier stamp.
LEMMA OldestFirst ==
  ASSUME NEW P, \A p \in P : p.stamp \in Nat, NEW buffer \in Seq(P), buffer # <<>>
  PROVE  /\ Oldest(buffer) \in DOMAIN buffer
         /\ \A j \in DOMAIN buffer : buffer[Oldest(buffer)].stamp <= buffer[j].stamp
<1>1. DOMAIN buffer = 1 .. Len(buffer) /\ Len(buffer) \in Nat /\ 1 \in DOMAIN buffer
      /\ \A i \in DOMAIN buffer : buffer[i].stamp \in Nat
      <2>1. Len(buffer) \in Nat /\ Len(buffer) # 0 /\ DOMAIN buffer = 1 .. Len(buffer)  OBVIOUS
      <2>2. \A i \in DOMAIN buffer : buffer[i] \in P  OBVIOUS
      <2> QED  BY <2>1, <2>2
<1> DEFINE T == {buffer[j].stamp : j \in DOMAIN buffer}
<1>2. PICK m \in T : \A y \in T : m <= y
      <2>1. T \in SUBSET Nat /\ T # {}  BY <1>1
      <2> QED  BY <2>1, LeastNatural
<1> DEFINE I == {j \in DOMAIN buffer : buffer[j].stamp = m}
<1>3. PICK i \in I : \A j \in I : i <= j
      <2>1. I \in SUBSET Nat /\ I # {}  BY <1>1, <1>2
      <2> HIDE DEF I
      <2> QED  BY <2>1, LeastNatural
<1> DEFINE First(k) == \A j \in 1 .. Len(buffer) :
             buffer[k].stamp < buffer[j].stamp \/ (buffer[k].stamp = buffer[j].stamp /\ k <= j)
<1>4. i \in 1 .. Len(buffer) /\ First(i)
      <2>1. i \in DOMAIN buffer /\ buffer[i].stamp = m  OBVIOUS
      <2> SUFFICES ASSUME NEW j \in 1 .. Len(buffer)
                   PROVE  buffer[i].stamp < buffer[j].stamp \/ (buffer[i].stamp = buffer[j].stamp /\ i <= j)
          BY <1>1, <2>1
      <2>2. m <= buffer[j].stamp /\ m \in Nat /\ buffer[j].stamp \in Nat  BY <1>1, <1>2
      <2>3. buffer[j].stamp = m => i <= j  BY <1>1, <1>3
      <2> QED  BY <2>1, <2>2, <2>3
<1>5. Oldest(buffer) \in 1 .. Len(buffer) /\ First(Oldest(buffer))
      <2>1. \E k \in 1 .. Len(buffer) : First(k)  BY <1>4
      <2>2. Oldest(buffer) = CHOOSE k \in 1 .. Len(buffer) : First(k)  BY DEF Oldest
      <2> HIDE DEF First
      <2> QED  BY <2>1, <2>2
<1>6. ASSUME NEW j \in DOMAIN buffer  PROVE buffer[Oldest(buffer)].stamp <= buffer[j].stamp
      <2>1. PICK k \in DOMAIN buffer : k = Oldest(buffer) /\ First(k)  BY <1>1, <1>5
      <2>2. buffer[k].stamp \in Nat /\ buffer[j].stamp \in Nat /\ j \in 1 .. Len(buffer)  BY <1>1
      <2>3. buffer[k].stamp < buffer[j].stamp \/ buffer[k].stamp = buffer[j].stamp  BY <2>1, <2>2
      <2> QED  BY <2>1, <2>2, <2>3
<1> QED  BY <1>1, <1>5, <1>6

\* What the incoming packets of a drain leave in the buffer, one after the other.
Kept(buffer, p, last) == IF p.stamp >= last THEN Append(buffer, p) ELSE buffer
Drains(f, n, base, inc, last) ==
  /\ f = [k \in 0 .. n |-> f[k]] /\ f[0] = base
  /\ \A k \in 1 .. n : f[k] = Kept(f[k - 1], inc[k], last)

\* The function by which DrainIncoming is defined exists.
LEMMA DrainExists ==
  ASSUME NEW base, NEW inc, NEW last, NEW N \in Nat
  PROVE  \E f : Drains(f, N, base, inc, last)
<1> DEFINE Bad == {n \in Nat : ~ \E f : Drains(f, n, base, inc, last)}
<1> SUFFICES ASSUME Bad # {}  PROVE FALSE
    OBVIOUS
<1>1. PICK n \in Bad : \A m \in Bad : n <= m
      <2>1. Bad \in SUBSET Nat  OBVIOUS
      <2> HIDE DEF Bad
      <2> QED  BY <2>1, LeastNatural
<1>2. CASE n = 0
      <2>1. PICK f : f = [k \in 0 .. 0 |-> base]  OBVIOUS
      <2>2. f = [k \in 0 .. 0 |-> f[k]] /\ f[0] = base /\ 1 .. 0 = {}  BY <2>1
      <2> QED  BY <1>2, <2>2 DEF Drains
<1>3. CASE n # 0
      <2>1. n - 1 \in Nat /\ ~(n <= n - 1)  BY <1>3
      <2>2. PICK f : Drains(f, n - 1, base, inc, last)  BY <1>1, <2>1
      <2>3. PICK x : x = Kept(f[n - 1], inc[n], last)  OBVIOUS
      <2>4. PICK g : g = [k \in 0 .. n |-> IF k = n THEN x ELSE f[k]]  OBVIOUS
      <2>5. g = [k \in 0 .. n |-> g[k]] /\ g[n] = x /\ \A k \in 0 .. (n - 1) : g[k] = f[k]  BY <2>1, <2>4
      <2>6. g[0] = base  BY <2>1, <2>2, <2>5 DEF Drains
      <2>7. ASSUME NEW k \in 1 .. n  PROVE g[k] = Kept(g[k - 1], inc[k], last)
            <3>1. CASE k = n
                  <4>2. n - 1 \in 0 .. (n - 1)  BY <2>1
                  <4>1. g[n - 1] = f[n - 1]  BY <2>5, <4>2
                  <4> QED  BY <2>3, <2>5, <3>1, <4>1
            <3>2. CASE k # n
                  <4>1. k \in 1 .. (n - 1) /\ k \in 0 .. (n - 1) /\ k - 1 \in 0 .. (n - 1)  BY <3>2, <2>1
                  <4>2. f[k] = Kept(f[k - 1], inc[k], last)  BY <2>2, <4>1 DEF Drains
                  <4> QED  BY <2>5, <4>1, <4>2
            <3> QED  BY <3>1, <3>2
      <2>8. Drains(g, n, base, inc, last)  BY <2>5, <2>6, <2>7 DEF Drains
      <2> QED  BY <2>8
<1> QED  BY <1>2, <1>3

\* What a drain leaves in the buffer was in the buffer or came in, once each, and is not late.
LEMMA DrainKeeps ==
  ASSUME NEW P, \A p \in P : p.stamp \in Nat, NEW base \in Seq(P), NEW inc \in Seq(P), NEW last \in Nat,
         NEW f, Drains(f, Len(inc), base, inc, last),
         Distinct(base), Distinct(inc), Numbers(base) \cap Numbers(inc) = {}
  PROVE  /\ f[Len(inc)] \in Seq(P) /\ Distinct(f[Len(inc)])
         /\ Numbers(f[Len(inc)]) \subseteq Numbers(base) \cup Numbers(inc)
         /\ (\A i \in DOMAIN base : last <= base[i].stamp) =>
              \A i \in DOMAIN f[Len(inc)] : last <= f[Len(inc)][i].stamp
<1> DEFINE OnTime(s) == \A i \in DOMAIN s : last <= s[i].stamp
           Good(s, n) == /\ s \in Seq(P) /\ Distinct(s)
                         /\ OnTime(base) => OnTime(s)
                         /\ \A x \in Numbers(s) : x \in Numbers(base) \/ \E k \in 1 .. n : x = inc[k].number
<1>0. Len(inc) \in Nat /\ DOMAIN inc = 1 .. Len(inc) /\ \A k \in 1 .. Len(inc) : inc[k] \in P  OBVIOUS
<1>1. Good(f[0], 0)
      <2>1. f[0] = base  BY DEF Drains
      <2> QED  BY <2>1
<1>2. ASSUME NEW n \in 1 .. Len(inc), Good(f[n - 1], n - 1)  PROVE Good(f[n], n)
      <2>1. PICK q \in Seq(P) : q = f[n - 1] /\ Good(q, n - 1)  BY <1>2
      <2>2. PICK p \in P : p = inc[n] /\ p.stamp \in Nat  BY <1>0
      <2>3. PICK r : r = f[n]  OBVIOUS
      <2>4. r = Kept(q, p, last)  BY <2>1, <2>2, <2>3 DEF Drains
      <2>5. 1 .. (n - 1) \subseteq 1 .. n /\ n \in 1 .. n /\ n \notin 1 .. (n - 1)
            /\ 1 .. n \subseteq 1 .. Len(inc)
            BY <1>0
      <2>6. CASE ~(p.stamp >= last)
            <3>1. r = q  BY <2>4, <2>6 DEF Kept
            <3> QED  BY <2>1, <2>3, <2>5, <3>1
      <2>7. CASE p.stamp >= last
            <3>1. r = Append(q, p)  BY <2>4, <2>7 DEF Kept
            <3>2. p.number \notin Numbers(q)
                  <4> SUFFICES ASSUME p.number \in Numbers(q)  PROVE FALSE
                      OBVIOUS
                  <4>1. p.number \in Numbers(inc)  BY <1>0, <2>2 DEF Numbers
                  <4>2. PICK k \in 1 .. (n - 1) : p.number = inc[k].number  BY <2>1, <4>1
                  <4>3. k = n  BY <1>0, <2>2, <2>5, <4>2 DEF Distinct
                  <4> QED  BY <2>5, <4>3
            <3>6. q \in Seq(P) /\ Distinct(q) /\ p \in P  BY <2>1, <2>2
            <3>7. /\ r \in Seq(P) /\ Len(r) = Len(q) + 1
                  /\ r[Len(q) + 1] = p /\ \A i \in 1 .. Len(q) : r[i] = q[i]
                  BY <3>1, <3>6
            <3>8. /\ DOMAIN q = 1 .. Len(q) /\ DOMAIN r = 1 .. (Len(q) + 1)
                  /\ \A i \in DOMAIN r : i \in DOMAIN q \/ i = Len(q) + 1
                  /\ Numbers(r) = Numbers(q) \cup {p.number}
                  /\ Distinct(q) /\ p.number \notin Numbers(q) => Distinct(r)
                  BY <3>6, <3>7, OneMore
            <3>3. /\ r \in Seq(P) /\ Distinct(r)
                  /\ r[Len(q) + 1] = p /\ \A i \in DOMAIN q : r[i] = q[i]
                  /\ Numbers(r) = Numbers(q) \cup {p.number}
                  BY <3>2, <3>6, <3>7, <3>8
            <3>4. OnTime(base) => OnTime(r)
                  <4> SUFFICES ASSUME OnTime(base), NEW i \in DOMAIN r  PROVE last <= r[i].stamp
                      OBVIOUS
                  <4>1. OnTime(q)  BY <2>1
                  <4>2. i \in DOMAIN q \/ i = Len(q) + 1  BY <3>8
                  <4>3. CASE i \in DOMAIN q  BY <3>3, <4>1, <4>3
                  <4>4. CASE i = Len(q) + 1  BY <2>2, <2>7, <3>3, <4>4
                  <4> QED  BY <4>2, <4>3, <4>4
            <3>5. \A x \in Numbers(r) : x \in Numbers(base) \/ \E k \in 1 .. n : x = inc[k].number
                  BY <2>1, <2>2, <2>5, <3>3
            <3> QED  BY <2>3, <3>3, <3>4, <3>5
      <2> QED  BY <2>6, <2>7
<1> HIDE DEF Good
<1>3. Good(f[Len(inc)], Len(inc))
      <2> DEFINE Bad == {n \in 0 .. Len(inc) : ~Good(f[n], n)}
      <2> SUFFICES ASSUME Bad # {}  PROVE FALSE
          BY <1>0
      <2>1. PICK n \in Bad : \A m \in Bad : n <= m
            <3>1. Bad \in SUBSET Nat  OBVIOUS
            <3> HIDE DEF Bad
            <3> QED  BY <3>1, LeastNatural
      <2>2. n # 0  BY <1>1, <2>1
      <2>3. n \in 1 .. Len(inc) /\ n - 1 \in 0 .. Len(inc) /\ ~(n <= n - 1)  BY <1>0, <2>1, <2>2
      <2>4. Good(f[n - 1], n - 1)  BY <2>1, <2>3
      <2> QED  BY <1>2, <2>1, <2>3, <2>4
<1>4. \A x \in Numbers(f[Len(inc)]) : x \in Numbers(base) \cup Numbers(inc)
      <2>1. \A k \in 1 .. Len(inc) : inc[k].number \in Numbers(inc)  BY <1>0 DEF Numbers
      <2> QED  BY <1>3, <2>1 DEF Good
<1> QED  BY <1>3, <1>4 DEF Good

\* Stamps are positive naturals, ...
LEMMA StampsTyped ==
  \A s \in Stamps : s \in Nat /\ s # 0
BY SessionAssumption

\* ... the limit of attempts is a natural, ...
LEMMA LimitTyped ==
  ASSUME mode \in Modes
  PROVE  Attempts \in Nat
<1>1. mode.reconnects \in Int  BY SessionAssumption
<1> QED  BY <1>1 DEF Attempts

\* ... and numbers and stamps of packets naturals.
LEMMA PacketsTyped ==
  ASSUME mode \in Modes, NEW p \in Packets
  PROVE  /\ p.number \in Nat /\ p.number \in 1 .. mode.packets
         /\ p.stamp \in Stamps /\ p.stamp \in Nat
<1>1. p.number \in 1 .. mode.packets /\ p.stamp \in Stamps  BY DEF Packets
<1>2. PICK n \in Nat : n = mode.packets  BY SessionAssumption
<1>3. p.number \in Nat  BY <1>1, <1>2
<1> QED  BY <1>1, <1>3, StampsTyped

\* DrainIncoming keeps packets apart and, if the buffer releases none that is late, drops those that are.
LEMMA DrainedPackets ==
  ASSUME mode \in Modes, Bounded, Apart
  PROVE  /\ DrainIncoming \in Seq(Packets) /\ Distinct(DrainIncoming)
         /\ Numbers(DrainIncoming) \subseteq Numbers(jitter.reorder) \cup Numbers(jitter.incoming)
         /\ (\A i \in DOMAIN jitter.reorder : jitter.last <= jitter.reorder[i].stamp) =>
              \A i \in DOMAIN DrainIncoming : jitter.last <= DrainIncoming[i].stamp
         /\ jitter.incoming = <<>> => DrainIncoming = jitter.reorder
<1>1. PICK inc : inc = jitter.incoming  OBVIOUS
<1>2. PICK base : base = jitter.reorder  OBVIOUS
<1>3. PICK last : last = jitter.last  OBVIOUS
<1>4. base \in Seq(Packets) /\ inc \in Seq(Packets) /\ last \in Nat /\ Len(inc) \in Nat
      <2>1. jitter.incoming \in Seq(Packets) /\ jitter.reorder \in Seq(Packets)
            /\ jitter.last \in Stamps \cup {0}
            BY DEF Bounded
      <2>3. last \in Nat  BY <1>3, <2>1, StampsTyped
      <2>4. inc \in Seq(Packets)  BY <1>1, <2>1
      <2> QED  BY <1>2, <2>1, <2>3, <2>4
<1>5. PICK f : Drains(f, Len(inc), base, inc, last)  BY <1>4, DrainExists
<1> DEFINE Fits(g) == g = [n \in 0 .. Len(inc) |->
             IF n = 0 THEN base
             ELSE IF inc[n].stamp >= last THEN Append(g[n - 1], inc[n]) ELSE g[n - 1]]
<1>6. Fits(f)
      <2>1. f = [n \in 0 .. Len(inc) |-> f[n]]  BY <1>5 DEF Drains
      <2>2. \A n \in 0 .. Len(inc) :
              f[n] = IF n = 0 THEN base
                     ELSE IF inc[n].stamp >= last THEN Append(f[n - 1], inc[n]) ELSE f[n - 1]
            <3> TAKE n \in 0 .. Len(inc)
            <3>1. n = 0 \/ n \in 1 .. Len(inc)  BY <1>4
            <3> QED  BY <1>5, <3>1 DEF Drains, Kept
      <2> QED  BY <2>1, <2>2
<1>7. PICK g : g = (CHOOSE h : Fits(h))  OBVIOUS
<1>8. Fits(g)
      <2> HIDE DEF Fits
      <2> QED  BY <1>6, <1>7
<1>9. DrainIncoming = g[Len(inc)]
      BY <1>1, <1>2, <1>3, <1>7 DEF DrainIncoming
<1>10. Drains(g, Len(inc), base, inc, last)
      <2>1. g[0] = base  BY <1>4, <1>8
      <2>2. g = [k \in 0 .. Len(inc) |-> g[k]]  BY <1>8
      <2>3. \A k \in 1 .. Len(inc) : g[k] = Kept(g[k - 1], inc[k], last)
            <3> TAKE k \in 1 .. Len(inc)
            <3>1. k \in 0 .. Len(inc) /\ k # 0  BY <1>4
            <3> QED  BY <1>8, <3>1 DEF Kept
      <2> QED  BY <2>1, <2>2, <2>3 DEF Drains
<1>11. inc = <<>> => g[Len(inc)] = base  BY <1>10 DEF Drains
<1>12. Distinct(base) /\ Distinct(inc) /\ Numbers(base) \cap Numbers(inc) = {}
      BY <1>1, <1>2 DEF Apart
<1>13. \A p \in Packets : p.stamp \in Nat  BY PacketsTyped
<1>14. /\ g[Len(inc)] \in Seq(Packets) /\ Distinct(g[Len(inc)])
       /\ Numbers(g[Len(inc)]) \subseteq Numbers(base) \cup Numbers(inc)
       /\ (\A i \in DOMAIN base : last <= base[i].stamp) =>
            \A i \in DOMAIN g[Len(inc)] : last <= g[Len(inc)][i].stamp
      BY <1>4, <1>10, <1>12, <1>13, DrainKeeps
<1> HIDE DEF Fits
<1> QED  BY <1>1, <1>2, <1>3, <1>9, <1>11, <1>14

-----------------------------------------------------------------------------
(* Steps that move no packet                                               *)

\* No packet comes, goes on or is delivered, though the buffer may be cleared and a thread may
\* let go of what it holds.
Quietly ==
  /\ UNCHANGED <<mode, delivered>>
  /\ jitter' = jitter \/ jitter' = EmptyBuffer
  /\ session'.generation <= mode.calls /\ session'.count <= Attempts
  /\ puller'.conn <= MaxOpens /\ puller'.opens <= MaxOpens /\ puller'.packets = puller.packets
  /\ \A u \in Threads :
       /\ thread'[u].gen <= session'.generation
       /\ thread'[u].conn \in 0 .. MaxOpens
       /\ thread'[u].packet \in {None, thread[u].packet}
       /\ thread'[u].todo \in Holding =>
            /\ thread[u].todo \in Holding
            /\ thread'[u].packet = thread[u].packet /\ thread'[u].gen = thread[u].gen
       /\ thread'[u].todo \in Popped => thread[u].todo \in Popped

\* The empty sequence has no packets, ...
LEMMA NothingIn ==
  /\ <<>> \in Seq(Packets) /\ Len(<<>>) = 0 /\ DOMAIN <<>> = {}
  /\ Numbers(<<>>) = {} /\ Distinct(<<>>)
<1>1. DOMAIN <<>> = {} /\ <<>> \in Seq(Packets) /\ Len(<<>>) = 0  OBVIOUS
<1> QED  BY <1>1 DEF Numbers, Distinct

\* ... nor has the empty buffer, ...
LEMMA EmptyBufferFields ==
  EmptyBuffer.incoming = <<>> /\ EmptyBuffer.reorder = <<>> /\ EmptyBuffer.last = 0
BY DEF EmptyBuffer

\* ... which is a buffer.
LEMMA EmptyBufferTyped ==
  EmptyBuffer \in [incoming : Seq(Packets), reorder : Seq(Packets), last : Stamps \cup {0}]
<1>1. PICK S : S = Seq(Packets)  OBVIOUS
<1>2. PICK e : e = <<>> /\ e \in S  BY <1>1, NothingIn
<1>3. EmptyBuffer = [incoming |-> e, reorder |-> e, last |-> 0]  BY <1>2 DEF EmptyBuffer
<1> QED  BY <1>1, <1>2, <1>3

\* A step that moves no packet keeps the bounds, ...
LEMMA QuietBounded ==
  ASSUME Bounded, Quietly
  PROVE  Bounded'
<1>1. Packets' = Packets  BY DEF Quietly, Packets
<1>2. /\ jitter' \in [incoming : Seq(Packets), reorder : Seq(Packets), last : Stamps \cup {0}]
      /\ Len(jitter'.incoming) <= Capacity
      <2>1. 0 <= Capacity  BY SessionAssumption
      <2>2. CASE jitter' = jitter  BY <2>2 DEF Bounded
      <2>3. CASE jitter' = EmptyBuffer  BY <2>1, <2>3, EmptyBufferTyped, EmptyBufferFields, NothingIn
      <2> QED  BY <2>2, <2>3 DEF Quietly
<1>3. \A u \in Threads : thread'[u].packet \in Packets \cup {None}  BY DEF Quietly, Bounded
<1>4. mode' = mode /\ delivered' = delivered  BY DEF Quietly
<1>5. delivered' \in Seq(Packets)  BY <1>4 DEF Bounded
<1>6. puller'.packets <= mode.packets  BY DEF Quietly, Bounded
<1> QED  BY <1>1, <1>2, <1>3, <1>4, <1>5, <1>6 DEF Bounded, Quietly, Attempts

\* ... every packet in its place, ...
LEMMA QuietApart ==
  ASSUME Apart, Quietly
  PROVE  Apart'
<1>1. Packets' = Packets  BY DEF Quietly, Packets
<1>2. delivered' = delivered /\ puller'.packets = puller.packets  BY DEF Quietly
<1>3. /\ jitter'.reorder = jitter.reorder \/ jitter'.reorder = <<>>
      /\ jitter'.incoming = jitter.incoming \/ jitter'.incoming = <<>>
      BY EmptyBufferFields DEF Quietly
<1>4. Distinct(jitter'.reorder) /\ Distinct(jitter'.incoming) /\ Distinct(delivered')
      BY <1>2, <1>3, NothingIn DEF Apart
<1>5. /\ Numbers(jitter'.reorder) \subseteq Numbers(jitter.reorder)
      /\ Numbers(jitter'.incoming) \subseteq Numbers(jitter.incoming)
      BY <1>3, NothingIn
<1>6. /\ Numbers(delivered') \cap Numbers(jitter'.reorder) = {}
      /\ Numbers(delivered') \cap Numbers(jitter'.incoming) = {}
      /\ Numbers(jitter'.reorder) \cap Numbers(jitter'.incoming) = {}
      BY <1>2, <1>5 DEF Apart
<1>7. Given' \subseteq Given  BY <1>2, <1>5 DEF Given
<1>8. \A n \in Given' : n <= puller'.packets  BY <1>2, <1>7 DEF Apart
<1>9. \A u \in Threads : Holds(u)' => Holds(u) /\ thread'[u].packet = thread[u].packet
      BY DEF Quietly, Holds
<1>10. \A u \in Threads : Holds(u)' =>
         /\ thread'[u].packet \in Packets' /\ thread'[u].packet.number <= puller'.packets
         /\ thread'[u].packet.number \notin Given'
         /\ \A v \in Threads : Holds(v)' /\ thread'[v].packet.number = thread'[u].packet.number => u = v
       BY <1>1, <1>2, <1>7, <1>9 DEF Apart
<1> QED  BY <1>4, <1>6, <1>8, <1>10 DEF Apart

\* ... and the order of numbers.
LEMMA QuietAscending ==
  ASSUME Ascending, Quietly
  PROVE  Ascending'
<1>1. delivered' = delivered  BY DEF Quietly
<1>2. \A u \in Threads : Holds(u)' => Holds(u) /\ thread'[u].packet = thread[u].packet
                                      /\ thread'[u].gen = thread[u].gen
      BY DEF Quietly, Holds
<1> QED  BY <1>1, <1>2 DEF Ascending

-----------------------------------------------------------------------------
(* Steps that move a packet                                                *)

\* What a thread keeps when it goes on.
LEMMA GoesFields ==
  ASSUME Types, NEW t \in Threads, NEW steps, Goes(t, steps)
  PROVE  /\ thread'[t].gen \in {0, thread[t].gen} /\ thread'[t].conn \in {0, thread[t].conn}
         /\ thread'[t].packet \in {None, thread[t].packet}
         /\ thread'[t].todo # <<>> => thread'[t].gen = thread[t].gen
                                      /\ thread'[t].packet = thread[t].packet
<1> DEFINE todo == steps \o Tail(thread[t].todo)
           r == IF todo = <<>> THEN Resting ELSE [thread[t] EXCEPT !.todo = todo]
<1>1. thread' = [thread EXCEPT ![t] = r]  BY DEF Goes
<1>2. DOMAIN thread = Threads /\ Fields(thread[t])  BY DEF Types
<1>3. thread'[t] = r  BY <1>1, <1>2
<1>4. CASE todo = <<>>
      <2>1. thread'[t] = Resting  BY <1>3, <1>4
      <2> QED  BY <2>1 DEF Resting
<1>5. CASE todo # <<>>
      <2>1. thread'[t] = [thread[t] EXCEPT !.todo = todo]  BY <1>3, <1>5
      <2> HIDE DEF todo
      <2> QED  BY <1>2, <2>1 DEF Fields
<1> QED  BY <1>4, <1>5

\* One thread moves, and stays within the bounds.
Fit(t) ==
  /\ thread'[t].gen <= session'.generation /\ thread'[t].conn \in 0 .. MaxOpens
  /\ thread'[t].packet \in Packets \cup {None}

\* Nor do the others leave them.
LEMMA OthersBounded ==
  ASSUME IInv, Bounded, NEW t \in Threads, Only(t), Fit(t), session'.generation >= session.generation,
         session'.generation \in Nat
  PROVE  \A u \in Threads : /\ thread'[u].gen <= session'.generation
                            /\ thread'[u].conn \in 0 .. MaxOpens
                            /\ thread'[u].packet \in Packets \cup {None}
<1> TAKE u \in Threads
<1>1. CASE u = t  BY <1>1 DEF Fit
<1>2. CASE u # t
      <2>1. thread'[u] = thread[u]  BY <1>2 DEF Only
      <2>2. thread[u].gen \in Nat /\ session.generation \in Nat /\ thread[u].gen <= session.generation
            BY DEF IInv, Types, SessionRecord, Bounded
      <2> QED  BY <2>1, <2>2 DEF Bounded
<1> QED  BY <1>1, <1>2

\* A thread that goes on stays within the bounds.
LEMMA GoesFit ==
  ASSUME IInv, Bounded, NEW t \in Threads, NEW steps, Goes(t, steps),
         session'.generation = session.generation
  PROVE  Fit(t)
<1>1. thread[t].gen \in Nat /\ session.generation \in Nat /\ MaxOpens \in Nat
      BY SessionAssumption DEF IInv, Types, SessionRecord
<1>2. /\ thread'[t].gen \in {0, thread[t].gen} /\ thread'[t].conn \in {0, thread[t].conn}
      /\ thread'[t].packet \in {None, thread[t].packet}
      BY GoesFields DEF IInv
<1>3. /\ thread[t].gen <= session.generation /\ thread[t].conn \in 0 .. MaxOpens
      /\ thread[t].packet \in Packets \cup {None}
      BY DEF Bounded
<1> QED  BY <1>1, <1>2, <1>3 DEF Fit

\* Without the jitter buffer only readers hold packets.
LEMMA HoldersRead ==
  ASSUME IInv, NEW u \in Threads, Holds(u), thread[u].todo \notin Popped
  PROVE  Reads(u)
BY KindsOfPlans DEF Holds, Reads

\* Only a session with a jitter buffer empties one.
LEMMA PoppedWithJitter ==
  ASSUME IInv, NEW u \in Threads, thread[u].todo \in DecoderPlans
  PROVE  mode.jitter
<1>1. Plan(thread[u].todo)  BY DEF IInv, Types
<1>2. <<"watchdog">> \notin DecoderPlans  BY OneStep
<1> QED  BY <1>1, <1>2, Kinds, NoStep DEF Plan

\* A packet that is delivered was with the thread that delivers it.
LEMMA CallbackKeeps ==
  ASSUME IInv, Bounded, Apart, NEW t \in Threads, Callback(t)
  PROVE  /\ Bounded' /\ Apart'
         /\ ~mode.watchdog /\ ~mode.jitter /\ Ascending => Ascending'
<1>1. /\ thread[t].todo \in {<<"callback", "again">>, <<"callback", "rearm">>}
      /\ Only(t) /\ thread'[t].todo \in {<<"again">>, <<"rearm">>}
      BY CallbackSteps DEF Same
<1>2. Holds(t) /\ ~Holds(t)' /\ thread'[t].todo # <<>>
      BY <1>1, OnePlan, TwoPlan, Tails DEF Holds, Delivering
<1>3. UNCHANGED <<mode, session, puller, jitter>> /\ Goes(t, <<>>)  BY DEF Callback
<1>4. PICK p \in Packets : p = thread[t].packet  BY <1>2 DEF Apart
<1>5. PICK d \in Seq(Packets) : d = delivered  BY DEF Bounded
<1>6. PICK r : r = delivered'  OBVIOUS
<1>7. r = Append(d, p)  BY <1>4, <1>5, <1>6 DEF Callback
<1>8. /\ r \in Seq(Packets) /\ Len(r) = Len(d) + 1 /\ Len(d) \in Nat
      /\ r[Len(d) + 1] = p /\ \A i \in 1 .. Len(d) : r[i] = d[i]
      BY <1>7
<1>9. /\ DOMAIN d = 1 .. Len(d) /\ DOMAIN r = 1 .. (Len(d) + 1)
      /\ \A i \in DOMAIN r : i \in DOMAIN d \/ i = Len(d) + 1
      /\ Numbers(r) = Numbers(d) \cup {p.number}
      /\ Distinct(d) /\ p.number \notin Numbers(d) => Distinct(r)
      BY <1>8, OneMore
<1>10. Packets' = Packets  BY <1>3 DEF Packets
<1>11. Bounded'
       <2>1. Fit(t)  BY <1>3, GoesFit
       <2>2. session.generation \in Nat  BY DEF IInv, Types, SessionRecord
       <2>3. \A u \in Threads : /\ thread'[u].gen <= session'.generation
                                /\ thread'[u].conn \in 0 .. MaxOpens
                                /\ thread'[u].packet \in Packets \cup {None}
             BY <1>1, <1>3, <2>1, <2>2, OthersBounded
       <2> QED  BY <1>3, <1>6, <1>8, <1>10, <2>3 DEF Bounded, Attempts
<1>12. p.number \notin Given /\ p.number <= puller.packets  BY <1>2, <1>4 DEF Apart
<1>13. Apart'
       <2>1. Given' = Given \cup {p.number}  BY <1>3, <1>5, <1>6, <1>9 DEF Given
       <2>2. Distinct(r)  BY <1>5, <1>9, <1>12 DEF Apart, Given
       <2>3. /\ Numbers(r) \cap Numbers(jitter.reorder) = {}
             /\ Numbers(r) \cap Numbers(jitter.incoming) = {}
             BY <1>5, <1>9, <1>12 DEF Apart, Given
       <2>4. \A n \in Given' : n <= puller'.packets  BY <1>3, <1>12, <2>1 DEF Apart
       <2>5. \A u \in Threads : Holds(u)' => u # t /\ Holds(u) /\ thread'[u].packet = thread[u].packet
             BY <1>1, <1>2 DEF Only, Holds
       <2>6. \A u \in Threads : Holds(u)' => thread[u].packet.number # p.number
             BY <1>2, <1>4, <2>5 DEF Apart
       <2>7. \A u \in Threads : Holds(u)' =>
               /\ thread'[u].packet \in Packets /\ thread'[u].packet.number <= puller'.packets
               /\ thread'[u].packet.number \notin Given'
               /\ \A v \in Threads : Holds(v)' /\ thread'[v].packet.number = thread'[u].packet.number
                                       => u = v
             BY <1>3, <2>1, <2>5, <2>6 DEF Apart
       <2> QED  BY <1>3, <1>6, <1>10, <2>2, <2>3, <2>4, <2>7 DEF Apart
<1>14. ASSUME ~mode.watchdog, ~mode.jitter, Ascending  PROVE Ascending'
       <2>0. OneReader  BY <1>14 DEF IInv
       <2>1. \A u \in Threads : Holds(u) => Reads(u)
             BY <1>14, KindsOfPlans, PoppedWithJitter, HoldersRead
       <2>2. p.gen = thread[t].gen  BY <1>2, <1>4, <1>14 DEF Ascending
       <2>3. \A i \in DOMAIN d : d[i].gen = p.gen => d[i].number < p.number
             BY <1>2, <1>4, <1>5, <1>14, <2>2 DEF Ascending
       <2>4. \A i, j \in DOMAIN r :
               i < j /\ r[i].gen = r[j].gen => r[i].number < r[j].number
             <3> SUFFICES ASSUME NEW i \in DOMAIN r, NEW j \in DOMAIN r, i < j, r[i].gen = r[j].gen
                          PROVE  r[i].number < r[j].number
                 OBVIOUS
             <3>1. i \in DOMAIN d  BY <1>8, <1>9
             <3>2. CASE j \in DOMAIN d
                   <4>1. r[i] = d[i] /\ r[j] = d[j]  BY <1>8, <1>9, <3>1, <3>2
                   <4> QED  BY <1>5, <1>14, <3>1, <3>2, <4>1 DEF Ascending
             <3>3. CASE j = Len(d) + 1
                   <4>1. r[i] = d[i] /\ r[j] = p  BY <1>8, <1>9, <3>1, <3>3
                   <4> QED  BY <2>3, <3>1, <4>1
             <3> QED  BY <1>9, <3>2, <3>3
       <2>5. ASSUME NEW u \in Threads, Holds(u)'
             PROVE  /\ thread'[u].packet.gen = thread'[u].gen
                    /\ \A i \in DOMAIN r : r[i].gen = thread'[u].gen => r[i].number < thread'[u].packet.number
             <3>1. u # t /\ thread'[u] = thread[u] /\ Holds(u)  BY <1>1, <1>2, <2>5 DEF Only, Holds
             <3>2. Reads(u) /\ Reads(t)  BY <1>2, <2>1, <3>1
             <3>3. thread[u].gen # thread[t].gen  BY <2>0, <3>1, <3>2 DEF OneReader
             <3>4. \A i \in DOMAIN r : r[i].gen = thread[u].gen => i \in DOMAIN d /\ r[i] = d[i]
                   BY <1>8, <1>9, <2>2, <3>3
             <3> QED  BY <1>5, <1>14, <3>1, <3>4 DEF Ascending
       <2> QED  BY <1>6, <2>4, <2>5 DEF Ascending
<1> QED  BY <1>11, <1>13, <1>14

\* A thread gives up its packet, and only it.
LEMMA OneGivesUp ==
  ASSUME Apart, NEW t \in Threads, Only(t), Holds(t), ~Holds(t)', mode' = mode, puller' = puller,
         Given' \subseteq Given \cup {thread[t].packet.number}
  PROVE  \A u \in Threads : Holds(u)' =>
           /\ thread'[u].packet \in Packets' /\ thread'[u].packet.number <= puller'.packets
           /\ thread'[u].packet.number \notin Given'
           /\ \A v \in Threads : Holds(v)' /\ thread'[v].packet.number = thread'[u].packet.number => u = v
<1>1. Packets' = Packets  BY DEF Packets
<1>2. \A u \in Threads : Holds(u)' => u # t /\ Holds(u) /\ thread'[u].packet = thread[u].packet
      BY DEF Only, Holds
<1>3. \A u \in Threads : Holds(u)' => thread[u].packet.number # thread[t].packet.number
      BY <1>2 DEF Apart
<1> QED  BY <1>1, <1>2, <1>3 DEF Apart

\* A packet that is queued for the buffer was with the thread that queues it.
LEMMA PushKeeps ==
  ASSUME IInv, Bounded, Apart, NEW t \in Threads, Push(t)
  PROVE  Bounded' /\ Apart' /\ (Ascending => Ascending')
<1>1. /\ thread[t].todo = <<"push", "again">> /\ Only(t) /\ thread'[t].todo = <<"again">>
      BY PushSteps DEF Same
<1>2. Holds(t) /\ ~Holds(t)'  BY <1>1, OnePlan, TwoPlan DEF Holds, Delivering
<1>3. UNCHANGED <<mode, session, puller, delivered>> /\ Goes(t, <<>>)  BY DEF Push
<1>4. PICK p \in Packets : p = thread[t].packet  BY <1>2 DEF Apart
<1>5. Packets' = Packets  BY <1>3 DEF Packets
<1>6. p.number \notin Given /\ p.number <= puller.packets  BY <1>2, <1>4 DEF Apart
<1>7. \A u \in Threads : /\ thread'[u].gen <= session'.generation
                         /\ thread'[u].conn \in 0 .. MaxOpens
                         /\ thread'[u].packet \in Packets \cup {None}
      <2>1. Fit(t)  BY <1>3, GoesFit
      <2>2. session.generation \in Nat  BY DEF IInv, Types, SessionRecord
      <2> QED  BY <1>1, <1>3, <2>1, <2>2, OthersBounded
<1>8. Ascending => Ascending'
      <2>1. \A u \in Threads : Holds(u)' => u # t /\ Holds(u) /\ thread'[u] = thread[u]
            BY <1>1, <1>2 DEF Only, Holds
      <2> QED  BY <1>3, <2>1 DEF Ascending
<1>9. CASE ~(Len(jitter.incoming) < Capacity)
      <2>1. jitter' = jitter  BY <1>9 DEF Push
      <2>2. Bounded'  BY <1>3, <1>5, <1>7, <2>1 DEF Bounded, Attempts
      <2>3. Given' = Given  BY <1>3, <2>1 DEF Given
      <2>4. Apart'  BY <1>1, <1>2, <1>3, <2>1, <2>3, OneGivesUp DEF Apart
      <2> QED  BY <1>8, <2>2, <2>4
<1>10. CASE Len(jitter.incoming) < Capacity
      <2>1. PICK s \in Seq(Packets) : s = jitter.incoming  BY DEF Bounded
      <2>2. PICK r : r = Append(s, p)  OBVIOUS
      <2>3. jitter' = [jitter EXCEPT !.incoming = r]  BY <1>4, <1>10, <2>1, <2>2 DEF Push
      <2>4. /\ r \in Seq(Packets) /\ Len(r) = Len(s) + 1 /\ Len(s) \in Nat
            /\ r[Len(s) + 1] = p /\ \A i \in 1 .. Len(s) : r[i] = s[i]
            BY <2>2
      <2>5. /\ Numbers(r) = Numbers(s) \cup {p.number}
            /\ Distinct(s) /\ p.number \notin Numbers(s) => Distinct(r)
            BY <2>4, OneMore
      <2>6. /\ jitter' \in [incoming : Seq(Packets), reorder : Seq(Packets), last : Stamps \cup {0}]
            /\ jitter'.incoming = r /\ jitter'.reorder = jitter.reorder
            <3>1. PICK S : S = Seq(Packets)  OBVIOUS
            <3>2. jitter \in [incoming : S, reorder : S, last : Stamps \cup {0}] /\ r \in S
                  BY <2>4, <3>1 DEF Bounded
            <3>3. /\ jitter' \in [incoming : S, reorder : S, last : Stamps \cup {0}]
                  /\ jitter'.incoming = r /\ jitter'.reorder = jitter.reorder
                  BY <2>3, <3>2
            <3> QED  BY <3>1, <3>3
      <2>7. Len(jitter'.incoming) <= Capacity
            <3>1. Capacity \in Nat  BY SessionAssumption
            <3> QED  BY <1>10, <2>1, <2>4, <2>6, <3>1
      <2>8. Bounded'  BY <1>3, <1>5, <1>7, <2>6, <2>7 DEF Bounded, Attempts
      <2>9. Given' = Given \cup {p.number}  BY <1>3, <2>1, <2>5, <2>6 DEF Given
      <2>10. Distinct(r)  BY <1>6, <2>1, <2>5 DEF Apart, Given
      <2>11. /\ Numbers(delivered) \cap Numbers(r) = {}
             /\ Numbers(jitter.reorder) \cap Numbers(r) = {}
             BY <1>6, <2>1, <2>5 DEF Apart, Given
      <2>12. \A n \in Given' : n <= puller'.packets  BY <1>3, <1>6, <2>9 DEF Apart
      <2>13. Given' \subseteq Given \cup {thread[t].packet.number}  BY <1>4, <2>9
      <2>14. \A u \in Threads : Holds(u)' =>
               /\ thread'[u].packet \in Packets' /\ thread'[u].packet.number <= puller'.packets
               /\ thread'[u].packet.number \notin Given'
               /\ \A v \in Threads : Holds(v)' /\ thread'[v].packet.number = thread'[u].packet.number => u = v
             BY <1>1, <1>2, <1>3, <2>13, OneGivesUp
      <2>15. Distinct(delivered') /\ Distinct(jitter'.reorder) /\ Distinct(jitter'.incoming)
             BY <1>3, <2>6, <2>10 DEF Apart
      <2>16. /\ Numbers(delivered') \cap Numbers(jitter'.reorder) = {}
             /\ Numbers(delivered') \cap Numbers(jitter'.incoming) = {}
             /\ Numbers(jitter'.reorder) \cap Numbers(jitter'.incoming) = {}
             BY <1>3, <2>6, <2>11 DEF Apart
      <2>17. Apart'  BY <2>12, <2>14, <2>15, <2>16 DEF Apart
      <2> QED  BY <1>8, <2>8, <2>17
<1> QED  BY <1>9, <1>10

\* A packet that is read is new.
LEMMA PacketKeeps ==
  ASSUME IInv, Bounded, Apart, NEW t \in Threads, ReadAnswered(t), puller' # puller
  PROVE  /\ Bounded' /\ Apart' /\ (Ascending => Ascending')
         /\ thread'[t].todo = <<"packet">>
<1>1. /\ thread[t].todo = <<"reading">> /\ Only(t)
      BY ReadAnsweredSteps DEF Same
<1>2. /\ UNCHANGED <<mode, session, jitter, timer, ready, delivered, lastCall>>
      /\ thread[t].conn # 0 /\ puller.conn = thread[t].conn /\ puller.packets < mode.packets
      /\ puller' = [puller EXCEPT !.packets = @ + 1]
      BY DEF ReadAnswered
<1>3. PICK s \in StampsOf :
        thread' = [thread EXCEPT ![t].todo = <<"packet">>,
                     ![t].packet = [number |-> puller.packets + 1, stamp |-> s,
                                    conn |-> puller.conn, gen |-> thread[t].gen]]
      BY DEF ReadAnswered
<1>4. PICK p : p = [number |-> puller.packets + 1, stamp |-> s, conn |-> puller.conn, gen |-> thread[t].gen]
      OBVIOUS
<1>5. DOMAIN thread = Threads /\ Fields(thread[t]) /\ thread[t].gen \in Nat /\ session.generation \in Nat
      BY DEF IInv, Types, SessionRecord
<1>6. /\ thread'[t].todo = <<"packet">> /\ thread'[t].packet = p /\ thread'[t].gen = thread[t].gen
      /\ thread'[t].conn = thread[t].conn
      <2>1. thread' = [thread EXCEPT ![t].todo = <<"packet">>, ![t].packet = p]  BY <1>3, <1>4
      <2> QED  BY <1>5, <2>1 DEF Fields
<1>7. PICK n \in Nat : n = puller.packets  BY DEF IInv, Types, PullerRecord
<1>8. PICK m \in Nat : m = mode.packets  BY SessionAssumption DEF IInv, Types
<1>9. p.number = n + 1 /\ p.gen = thread[t].gen  BY <1>4, <1>7
<1>10. p \in Packets
       <2>1. s \in Stamps
             <3>1. StampsOf \subseteq Stamps
                   <4>1. (CHOOSE x \in Stamps : TRUE) \in Stamps  BY SessionAssumption
                   <4> QED  BY <4>1 DEF StampsOf
             <3> QED  BY <3>1
       <2>2. n + 1 \in 1 .. m  BY <1>2, <1>7, <1>8
       <2>3. puller.conn \in 1 .. MaxOpens
             <3>1. MaxOpens \in Nat  BY SessionAssumption
             <3>2. puller.conn \in Nat /\ puller.conn <= MaxOpens  BY DEF Bounded, IInv, Types, PullerRecord
             <3> QED  BY <1>2, <3>1, <3>2
       <2>4. thread[t].gen \in 1 .. mode.calls
             <3>1. thread[t].gen >= 1 /\ thread[t].gen <= session.generation
                   <4>1. <<"reading">> \notin {<<>>} \cup StopPlans  BY OneStep
                   <4> QED  BY <1>1, <4>1, StaleAfterStop
             <3>2. mode.calls \in Nat  BY SessionAssumption DEF IInv, Types
             <3>3. session.generation <= mode.calls  BY DEF Bounded
             <3> QED  BY <1>5, <3>1, <3>2, <3>3
       <2>5. p = [number |-> n + 1, stamp |-> s, conn |-> puller.conn, gen |-> thread[t].gen]
             BY <1>4, <1>7
       <2> QED  BY <1>8, <2>1, <2>2, <2>3, <2>4, <2>5 DEF Packets
<1>11. puller'.packets = n + 1 /\ puller'.conn = puller.conn /\ puller'.opens = puller.opens
       BY <1>2, <1>7 DEF IInv, Types, PullerRecord
<1>12. Packets' = Packets  BY <1>2 DEF Packets
<1>13. Bounded'
       <2>1. Fit(t)  BY <1>2, <1>6, <1>10 DEF Fit, Bounded
       <2>2. \A u \in Threads : /\ thread'[u].gen <= session'.generation
                                /\ thread'[u].conn \in 0 .. MaxOpens
                                /\ thread'[u].packet \in Packets \cup {None}
             BY <1>1, <1>2, <1>5, <2>1, OthersBounded
       <2>3. n + 1 <= mode.packets  BY <1>2, <1>7, <1>8
       <2> QED  BY <1>2, <1>11, <1>12, <2>2, <2>3 DEF Bounded, Attempts
<1>14. /\ Given' = Given
       /\ \A x \in Given : x <= n
       BY <1>2, <1>7 DEF Given, Apart
<1>15. \A x \in Given : x \in Nat
       <2>1. /\ jitter.incoming \in Seq(Packets) /\ jitter.reorder \in Seq(Packets)
             /\ delivered \in Seq(Packets)
             BY DEF Bounded
       <2>2. mode \in Modes  BY DEF IInv, Types
       <2>3. \A q \in Packets : q.number \in Nat  BY <2>2, PacketsTyped
       <2>4. ASSUME NEW q \in Seq(Packets)  PROVE \A x \in Numbers(q) : x \in Nat
             BY <2>3 DEF Numbers
       <2> QED  BY <2>1, <2>4 DEF Given
<1>16. \A u \in Threads : Holds(u) => thread[u].packet.number \in Nat /\ thread[u].packet.number <= n
       <2>1. mode \in Modes  BY DEF IInv, Types
       <2> QED  BY <1>7, <2>1, PacketsTyped DEF Apart
<1>17. \A u \in Threads : Holds(u)' => u = t \/ (u # t /\ Holds(u) /\ thread'[u] = thread[u])
       BY <1>1 DEF Only, Holds
<1>18. Apart'
       <2>1. \A x \in Given' : x <= puller'.packets  BY <1>7, <1>11, <1>14, <1>15
       <2>2. p.number \notin Given /\ p.number <= puller'.packets  BY <1>9, <1>11, <1>14, <1>15
       <2>3. \A u \in Threads : Holds(u) => thread[u].packet.number # p.number
                                            /\ thread[u].packet.number <= puller'.packets
             BY <1>9, <1>11, <1>16
       <2>4. ASSUME NEW u \in Threads, Holds(u)'
             PROVE  /\ thread'[u].packet \in Packets /\ thread'[u].packet.number <= puller'.packets
                    /\ thread'[u].packet.number \notin Given'
                    /\ \A v \in Threads : Holds(v)' /\ thread'[v].packet.number = thread'[u].packet.number
                                            => u = v
             <3>1. CASE u = t  BY <1>6, <1>10, <1>14, <1>17, <2>2, <2>3, <3>1
             <3>2. CASE u # t
                   <4>1. Holds(u) /\ thread'[u] = thread[u]  BY <1>17, <2>4, <3>2
                   <4>2. \A v \in Threads : Holds(v)' /\ thread'[v].packet.number = thread'[u].packet.number
                                            => u = v
                         BY <1>6, <1>17, <2>3, <4>1 DEF Apart
                   <4> QED  BY <1>14, <2>3, <4>1, <4>2 DEF Apart
             <3> QED  BY <3>1, <3>2
       <2> QED  BY <1>2, <1>12, <2>1, <2>4 DEF Apart
<1>19. ASSUME Ascending  PROVE Ascending'
       <2>1. \A i \in DOMAIN delivered : delivered[i].number < p.number
             <3>1. \A i \in DOMAIN delivered : delivered[i].number \in Given  BY DEF Given, Numbers
             <3> QED  BY <1>9, <1>14, <1>15, <3>1
       <2> QED  BY <1>2, <1>6, <1>9, <1>17, <1>19, <2>1 DEF Ascending
<1> QED  BY <1>6, <1>13, <1>18, <1>19

\* What PopReady does: the buffer is drained, and perhaps its oldest packet is taken.
Drained(t) ==
  /\ jitter' = [jitter EXCEPT !.incoming = <<>>, !.reorder = DrainIncoming]
  /\ Goes(t, <<"rearm">>)
Taken(t) ==
  LET i == Oldest(DrainIncoming)
  IN  /\ DrainIncoming # <<>>
      /\ jitter' = [incoming |-> <<>>, reorder |-> RemoveAt(DrainIncoming, i), last |-> DrainIncoming[i].stamp]
      /\ thread' = [thread EXCEPT ![t].todo = <<"dispatch", "rearm">>, ![t].packet = DrainIncoming[i]]

\* These are the two cases of PopReady.
LEMMA PopReadyCases ==
  ASSUME NEW t \in Threads, PopReady(t)
  PROVE  /\ Drained(t) \/ Taken(t)
         /\ UNCHANGED <<mode, session, puller, timer, ready, delivered, lastCall>>
BY DEF PopReady, Drained, Taken

\* The packet that is taken, and what is left.
LEMMA TakenPacket ==
  ASSUME IInv, Bounded, Apart, NEW t \in Threads, Taken(t)
  PROVE  \E p \in Packets :
           /\ p.number \in Numbers(DrainIncoming) /\ p.stamp \in Stamps
           /\ \E i \in DOMAIN DrainIncoming : p = DrainIncoming[i]
           /\ \A i \in DOMAIN DrainIncoming : p.stamp <= DrainIncoming[i].stamp
           /\ jitter'.incoming = <<>> /\ jitter'.last = p.stamp
           /\ jitter' \in [incoming : Seq(Packets), reorder : Seq(Packets), last : Stamps \cup {0}]
           /\ Distinct(jitter'.reorder)
           /\ Numbers(jitter'.reorder) \subseteq Numbers(DrainIncoming) \ {p.number}
           /\ \A i \in DOMAIN jitter'.reorder : p.stamp <= jitter'.reorder[i].stamp
           /\ thread'[t].todo = <<"dispatch", "rearm">> /\ thread'[t].packet = p
           /\ thread'[t].gen = thread[t].gen /\ thread'[t].conn = thread[t].conn
<1>1. mode \in Modes  BY DEF IInv, Types
<1>2. PICK b : b = DrainIncoming  OBVIOUS
<1>3. b \in Seq(Packets) /\ Distinct(b) /\ b # <<>>  BY <1>1, <1>2, DrainedPackets DEF Taken
<1>4. PICK i : i = Oldest(b)  OBVIOUS
<1>5. i \in DOMAIN b /\ \A j \in DOMAIN b : b[i].stamp <= b[j].stamp
      <2>1. \A q \in Packets : q.stamp \in Nat  BY <1>1, PacketsTyped
      <2> QED  BY <1>3, <1>4, <2>1, OldestFirst
<1>6. PICK p \in Packets : p = b[i]  BY <1>3, <1>5
<1>7. PICK r : r = RemoveAt(b, i)  OBVIOUS
<1>8. /\ r \in Seq(Packets)
      /\ \A j \in DOMAIN r : \E k \in DOMAIN b : r[j] = b[k]
      /\ Distinct(b) => Distinct(r) /\ Numbers(r) \subseteq Numbers(b) \ {b[i].number}
      BY <1>3, <1>5, <1>7, OneLess
<1>9. jitter' = [incoming |-> <<>>, reorder |-> r, last |-> p.stamp]
      BY <1>2, <1>4, <1>6, <1>7 DEF Taken
<1>10. p.stamp \in Stamps  BY <1>1, PacketsTyped
<1>11. /\ jitter' \in [incoming : Seq(Packets), reorder : Seq(Packets), last : Stamps \cup {0}]
       /\ jitter'.incoming = <<>> /\ jitter'.reorder = r /\ jitter'.last = p.stamp
       <2>1. PICK S : S = Seq(Packets)  OBVIOUS
       <2>2. PICK e : e = <<>> /\ e \in S  BY <2>1, NothingIn
       <2>3. jitter' = [incoming |-> e, reorder |-> r, last |-> p.stamp]  BY <1>9, <2>2
       <2>4. /\ jitter' \in [incoming : S, reorder : S, last : Stamps \cup {0}]
             /\ jitter'.incoming = e /\ jitter'.reorder = r /\ jitter'.last = p.stamp
             BY <1>8, <1>10, <2>1, <2>2, <2>3
       <2> QED  BY <2>1, <2>2, <2>4
<1>12. /\ thread'[t].todo = <<"dispatch", "rearm">> /\ thread'[t].packet = p
       /\ thread'[t].gen = thread[t].gen /\ thread'[t].conn = thread[t].conn
       <2>1. thread' = [thread EXCEPT ![t].todo = <<"dispatch", "rearm">>, ![t].packet = p]
             BY <1>2, <1>4, <1>6 DEF Taken
       <2>2. DOMAIN thread = Threads /\ Fields(thread[t])  BY DEF IInv, Types
       <2> QED  BY <2>1, <2>2 DEF Fields
<1>13. p.number \in Numbers(b)  BY <1>5, <1>6 DEF Numbers
<1>14. \A j \in DOMAIN r : p.stamp <= r[j].stamp  BY <1>5, <1>6, <1>8
<1>15. Distinct(r) /\ Numbers(r) \subseteq Numbers(b) \ {p.number}  BY <1>3, <1>6, <1>8
<1>16. \A j \in DOMAIN b : p.stamp <= b[j].stamp  BY <1>5, <1>6
<1> QED  BY <1>2, <1>5, <1>6, <1>10, <1>11, <1>12, <1>13, <1>14, <1>15, <1>16

\* A packet that is popped was in the buffer.
LEMMA PopReadyKeeps ==
  ASSUME IInv, Bounded, Apart, NEW t \in Threads, PopReady(t)
  PROVE  Bounded' /\ Apart'
<1>0. mode \in Modes /\ session.generation \in Nat  BY DEF IInv, Types, SessionRecord
<1>1. /\ thread[t].todo = <<"pop">> /\ Only(t)
      /\ thread'[t].todo \in {<<"rearm">>, <<"dispatch", "rearm">>}
      BY PopReadySteps DEF Same
<1>2. UNCHANGED <<mode, session, puller, delivered>>  BY PopReadyCases
<1>3. Packets' = Packets  BY <1>2 DEF Packets
<1>4. /\ DrainIncoming \in Seq(Packets) /\ Distinct(DrainIncoming)
      /\ Numbers(DrainIncoming) \subseteq Numbers(jitter.reorder) \cup Numbers(jitter.incoming)
      BY <1>0, DrainedPackets
<1>5. 0 <= Capacity  BY SessionAssumption
<1>6. CASE Drained(t)
      <2>1. /\ jitter' \in [incoming : Seq(Packets), reorder : Seq(Packets), last : Stamps \cup {0}]
            /\ jitter'.incoming = <<>> /\ jitter'.reorder = DrainIncoming
            <3>1. PICK S : S = Seq(Packets)  OBVIOUS
            <3>2. PICK e, b : e = <<>> /\ e \in S /\ b = DrainIncoming /\ b \in S  BY <1>4, <3>1, NothingIn
            <3>3. jitter \in [incoming : S, reorder : S, last : Stamps \cup {0}]  BY <3>1 DEF Bounded
            <3>4. jitter' = [jitter EXCEPT !.incoming = e, !.reorder = b]  BY <1>6, <3>2 DEF Drained
            <3>5. /\ jitter' \in [incoming : S, reorder : S, last : Stamps \cup {0}]
                  /\ jitter'.incoming = e /\ jitter'.reorder = b
                  BY <3>2, <3>3, <3>4
            <3> QED  BY <3>1, <3>2, <3>5
      <2>2. Goes(t, <<"rearm">>)  BY <1>6 DEF Drained
      <2>3. Fit(t)  BY <1>2, <2>2, GoesFit
      <2>4. thread'[t].todo = <<"rearm">>  BY <1>1, <2>2, GoesFromOne DEF IInv
      <2>5. \A u \in Threads : /\ thread'[u].gen <= session'.generation
                               /\ thread'[u].conn \in 0 .. MaxOpens
                               /\ thread'[u].packet \in Packets \cup {None}
            BY <1>0, <1>1, <1>2, <2>3, OthersBounded
      <2>6. Bounded'  BY <1>2, <1>3, <1>5, <2>1, <2>5, NothingIn DEF Bounded, Attempts
      <2>7. ~Holds(t)'  BY <2>4, OnePlan DEF Holds
      <2>8. Given' \subseteq Given  BY <1>2, <1>4, <2>1, NothingIn DEF Given
      <2>9. \A u \in Threads : Holds(u)' => Holds(u) /\ thread'[u].packet = thread[u].packet
            BY <1>1, <2>7 DEF Only, Holds
      <2>10. Distinct(jitter'.reorder) /\ Distinct(jitter'.incoming)
             /\ Numbers(jitter'.incoming) = {}
             /\ Numbers(delivered) \cap Numbers(jitter'.reorder) = {}
             BY <1>4, <2>1, NothingIn DEF Apart
      <2>11. Apart'  BY <1>2, <1>3, <2>8, <2>9, <2>10 DEF Apart
      <2> QED  BY <2>6, <2>11
<1>7. CASE Taken(t)
      <2>1. PICK p \in Packets :
              /\ p.number \in Numbers(DrainIncoming)
              /\ jitter'.incoming = <<>>
              /\ jitter' \in [incoming : Seq(Packets), reorder : Seq(Packets), last : Stamps \cup {0}]
              /\ Distinct(jitter'.reorder)
              /\ Numbers(jitter'.reorder) \subseteq Numbers(DrainIncoming) \ {p.number}
              /\ thread'[t].packet = p
              /\ thread'[t].gen = thread[t].gen /\ thread'[t].conn = thread[t].conn
            BY <1>7, TakenPacket
      <2>2. Fit(t)  BY <1>2, <2>1 DEF Fit, Bounded
      <2>3. \A u \in Threads : /\ thread'[u].gen <= session'.generation
                               /\ thread'[u].conn \in 0 .. MaxOpens
                               /\ thread'[u].packet \in Packets \cup {None}
            BY <1>0, <1>1, <1>2, <2>2, OthersBounded
      <2>4. Bounded'  BY <1>2, <1>3, <1>5, <2>1, <2>3, NothingIn DEF Bounded, Attempts
      <2>5. Numbers(jitter'.incoming) = {} /\ Distinct(jitter'.incoming)  BY <2>1, NothingIn
      <2>6. p.number \in Given /\ p.number \notin Numbers(delivered)
            BY <1>4, <2>1 DEF Given, Apart
      <2>7. Given' \subseteq Given /\ p.number \notin Given'
            BY <1>2, <1>4, <2>1, <2>5, <2>6 DEF Given
      <2>8. Numbers(delivered) \cap Numbers(jitter'.reorder) = {}  BY <1>4, <2>1 DEF Apart
      <2>9. \A u \in Threads : Holds(u)' => u = t \/ (u # t /\ Holds(u) /\ thread'[u] = thread[u])
            BY <1>1 DEF Only, Holds
      <2>10. \A u \in Threads : Holds(u) => thread[u].packet.number # p.number  BY <2>6 DEF Apart
      <2>11. p.number <= puller.packets  BY <2>6 DEF Apart
      <2>12. ASSUME NEW u \in Threads, Holds(u)'
             PROVE  /\ thread'[u].packet \in Packets /\ thread'[u].packet.number <= puller'.packets
                    /\ thread'[u].packet.number \notin Given'
                    /\ \A v \in Threads : Holds(v)' /\ thread'[v].packet.number = thread'[u].packet.number
                                            => u = v
             <3>1. CASE u = t  BY <1>2, <2>1, <2>7, <2>9, <2>10, <2>11, <3>1
             <3>2. CASE u # t
                   <4>1. Holds(u) /\ thread'[u] = thread[u]  BY <2>9, <2>12, <3>2
                   <4>2. \A v \in Threads : Holds(v)' /\ thread'[v].packet.number = thread'[u].packet.number
                                            => u = v
                         BY <2>1, <2>9, <2>10, <4>1 DEF Apart
                   <4> QED  BY <1>2, <2>7, <4>1, <4>2 DEF Apart
             <3> QED  BY <3>1, <3>2
      <2>13. \A x \in Given' : x <= puller'.packets  BY <1>2, <2>7 DEF Apart
      <2>14. Apart'  BY <1>2, <1>3, <2>1, <2>5, <2>8, <2>12, <2>13 DEF Apart
      <2> QED  BY <2>4, <2>14
<1> QED  BY <1>6, <1>7, PopReadyCases

-----------------------------------------------------------------------------
(* The other steps move no packet                                          *)

\* One thread goes on without a new packet, and the rest is as it was.
LEMMA QuietGoes ==
  ASSUME IInv, Bounded, NEW t \in Threads, Only(t), Fit(t), UNCHANGED <<mode, delivered>>,
         jitter' = jitter \/ jitter' = EmptyBuffer,
         session'.generation = session.generation, session'.count <= Attempts,
         puller'.conn <= MaxOpens, puller'.opens <= MaxOpens, puller'.packets = puller.packets,
         thread'[t].packet \in {None, thread[t].packet},
         thread'[t].todo # <<>> => thread'[t].gen = thread[t].gen /\ thread'[t].packet = thread[t].packet,
         thread'[t].todo \in Holding => thread[t].todo \in Holding,
         thread'[t].todo \in Popped => thread[t].todo \in Popped
  PROVE  Quietly
<1>1. \A u \in Threads : u # t => thread'[u] = thread[u]  BY DEF Only
<1>2. session.generation \in Nat  BY DEF IInv, Types, SessionRecord
<1>3. \A u \in Threads : thread'[u].gen <= session'.generation /\ thread'[u].conn \in 0 .. MaxOpens
      BY <1>2, OthersBounded
<1>4. session'.generation <= mode.calls  BY DEF Bounded
<1>5. ASSUME NEW u \in Threads
      PROVE  /\ thread'[u].packet \in {None, thread[u].packet}
             /\ thread'[u].todo \in Holding =>
                  /\ thread[u].todo \in Holding
                  /\ thread'[u].packet = thread[u].packet /\ thread'[u].gen = thread[u].gen
             /\ thread'[u].todo \in Popped => thread[u].todo \in Popped
      BY <1>1, NoPlan
<1> QED  BY <1>3, <1>4, <1>5 DEF Quietly

\* What a thread does next holds no packet, or it is one that it held.
Lets(t) ==
  /\ thread'[t].todo \in Holding => thread[t].todo \in Holding
  /\ thread'[t].todo \in Popped => thread[t].todo \in Popped

\* A plan of one step holds no packet, but for the one just read; ...
LEMMA LetsOne ==
  ASSUME NEW t, NEW s, thread'[t].todo = <<s>>, s # "packet"
  PROVE  Lets(t)
BY OnePlan DEF Lets

\* ... nor does an idle thread.
LEMMA LetsNone ==
  ASSUME NEW t, thread'[t].todo = <<>>
  PROVE  Lets(t)
BY NoPlan DEF Lets

\* The connection is as it was, or closed; attempts are counted from nothing, or not.
Plainly(t) ==
  /\ \E steps : Goes(t, steps)
  /\ UNCHANGED <<mode, delivered>> /\ (jitter' = jitter \/ jitter' = EmptyBuffer)
  /\ session'.generation = session.generation /\ session'.count \in {0, session.count}
  /\ puller' = puller \/ puller' = Closed

\* Such a step moves no packet.
LEMMA PlainlyQuiet ==
  ASSUME IInv, Bounded, NEW t \in Threads, Only(t), Plainly(t), Lets(t)
  PROVE  Quietly
<1>1. PICK steps : Goes(t, steps)  BY DEF Plainly
<1>2. /\ thread'[t].packet \in {None, thread[t].packet}
      /\ thread'[t].todo # <<>> => thread'[t].gen = thread[t].gen /\ thread'[t].packet = thread[t].packet
      BY <1>1, GoesFields DEF IInv
<1>3. Fit(t)  BY <1>1, GoesFit DEF Plainly
<1>4. puller'.conn <= MaxOpens /\ puller'.opens <= MaxOpens /\ puller'.packets = puller.packets
      <2>1. 0 <= MaxOpens  BY SessionAssumption
      <2>2. CASE puller' = puller  BY <2>2 DEF Bounded
      <2>3. CASE puller' = Closed  BY <2>1, <2>3 DEF Bounded, Closed, IInv, Types, PullerRecord
      <2> QED  BY <2>2, <2>3 DEF Plainly
<1>5. session'.count <= Attempts
      <2>1. 0 <= Attempts  BY LimitTyped DEF IInv, Types
      <2> QED  BY <2>1 DEF Plainly, Bounded
<1> QED  BY <1>2, <1>3, <1>4, <1>5, QuietGoes DEF Plainly, Lets

\* These steps are of that kind.
LEMMA PlainActions ==
  ASSUME IInv, NEW t \in Threads,
         \/ Refused(t) \/ Opened(t) \/ MarkRunning(t) \/ ArmAll(t) \/ Halt(t) \/ Stopped(t)
         \/ Connect(t) \/ Reopened(t) \/ Lost(t) \/ HangUp(t) \/ NoData(t) \/ NextRound(t)
         \/ ReadStopped(t) \/ (ReadAnswered(t) /\ puller' = puller) \/ GotPacket(t) \/ Dispatch(t)
         \/ End(t) \/ Finished(t) \/ Decoder(t) \/ Rearm(t) \/ Watchdog(t)
  PROVE  Plainly(t)
<1>0. session \in SessionRecord  BY DEF IInv, Types
<1>1. CASE Refused(t)  BY <1>0, <1>1 DEF Refused, Plainly, SessionRecord
<1>2. CASE Opened(t)  BY <1>0, <1>2 DEF Opened, Plainly, SessionRecord
<1>3. CASE MarkRunning(t)  BY <1>0, <1>3 DEF MarkRunning, Plainly, SessionRecord
<1>4. CASE ArmAll(t)  BY <1>0, <1>4 DEF ArmAll, Plainly, SessionRecord
<1>5. CASE Halt(t)  BY <1>0, <1>5 DEF Halt, Plainly, SessionRecord
<1>6. CASE Stopped(t)  BY <1>0, <1>6 DEF Stopped, Plainly, SessionRecord
<1>7. CASE Connect(t)  BY <1>0, <1>7 DEF Connect, Plainly, SessionRecord
<1>8. CASE Reopened(t)  BY <1>0, <1>8 DEF Reopened, Plainly, SessionRecord
<1>9. CASE Lost(t)  BY <1>0, <1>9 DEF Lost, Plainly, SessionRecord
<1>10. CASE HangUp(t)  BY <1>0, <1>10 DEF HangUp, Plainly, SessionRecord
<1>11. CASE NoData(t)  BY <1>0, <1>11 DEF NoData, Plainly, SessionRecord
<1>12. CASE NextRound(t)  BY <1>0, <1>12 DEF NextRound, Plainly, SessionRecord
<1>13. CASE ReadStopped(t)  BY <1>0, <1>13 DEF ReadStopped, Plainly, SessionRecord
<1>14. CASE ReadAnswered(t) /\ puller' = puller
       <2>1. puller.packets \in Nat /\ puller \in PullerRecord  BY DEF IInv, Types, PullerRecord
       <2>2. puller' # [puller EXCEPT !.packets = @ + 1]  BY <1>14, <2>1 DEF PullerRecord
       <2>3. \E answer \in {"NoData", "lost", "end EOS", "end FatalError"} : Goes(t, <<answer>>)
             BY <1>14, <2>2 DEF ReadAnswered
       <2>4. UNCHANGED <<mode, delivered, jitter, session>>  BY <1>14 DEF ReadAnswered
       <2> QED  BY <1>0, <1>14, <2>3, <2>4 DEF Plainly
<1>15. CASE GotPacket(t)  BY <1>0, <1>15 DEF GotPacket, Plainly, SessionRecord
<1>16. CASE Dispatch(t)  BY <1>0, <1>16 DEF Dispatch, Plainly, SessionRecord
<1>17. CASE End(t)  BY <1>0, <1>17 DEF End, Plainly, SessionRecord
<1>18. CASE Finished(t)  BY <1>0, <1>18 DEF Finished, Plainly, SessionRecord
<1>19. CASE Decoder(t)  BY <1>0, <1>19 DEF Decoder, Plainly, SessionRecord
<1>20. CASE Rearm(t)  BY <1>0, <1>20 DEF Rearm, Plainly, SessionRecord
<1>21. CASE Watchdog(t)  BY <1>0, <1>21 DEF Watchdog, Plainly, SessionRecord
<1> QED  BY <1>1, <1>2, <1>3, <1>4, <1>5, <1>6, <1>7, <1>8, <1>9, <1>10, <1>11, <1>12, <1>13, <1>14,
            <1>15, <1>16, <1>17, <1>18, <1>19, <1>20, <1>21

\* Packets that were held are held on, or let go.
LEMMA PacketsLetGo ==
  ASSUME IInv, NEW t \in Threads,
         Steps(t) \/ ReadAnswered(t), ~PopReady(t), puller'.packets = puller.packets
  PROVE  Only(t) /\ Lets(t)
<1>1. CASE Open(t)
      <2>1. Same(t) /\ thread'[t].todo \in {<<"opened">>, <<"refused">>, <<"reopened">>, <<"lost">>}
            BY <1>1, OpenSteps
      <2> QED  BY <2>1, LetsOne DEF Same
<1>2. CASE Refused(t)  BY <1>2, RefusedSteps, LetsNone DEF Same
<1>3. CASE Opened(t)
      <2>1. Same(t) /\ thread'[t].todo \in {<<"run", "arm">>, <<>>}  BY <1>3, OpenedSteps
      <2>2. thread'[t].todo = <<"run", "arm">> => Lets(t)  BY TwoPlan DEF Lets, Delivering
      <2> QED  BY <2>1, <2>2, LetsNone DEF Same
<1>4. CASE MarkRunning(t)  BY <1>4, MarkRunningSteps, LetsOne DEF Same
<1>5. CASE ArmAll(t)  BY <1>5, ArmAllSteps, LetsNone DEF Same
<1>6. CASE Halt(t)  BY <1>6, HaltSteps, LetsOne DEF Same
<1>7. CASE Stopped(t)  BY <1>7, StoppedSteps, LetsNone DEF Same
<1>8. CASE Connect(t)  BY <1>8, ConnectSteps, LetsOne, LetsNone DEF Same
<1>9. CASE Reopened(t)  BY <1>9, ReopenedSteps, LetsOne, LetsNone DEF Same
<1>10. CASE Lost(t)
       <2>1. Same(t) /\ thread'[t].todo \in {<<"hangUp", "retry">>, <<>>}  BY <1>10, LostSteps
       <2>2. thread'[t].todo = <<"hangUp", "retry">> => Lets(t)  BY TwoPlan DEF Lets, Delivering
       <2> QED  BY <2>1, <2>2, LetsNone DEF Same
<1>11. CASE HangUp(t)  BY <1>11, HangUpSteps, LetsOne DEF Same
<1>12. CASE Retry(t)  BY <1>12, RetrySteps, LetsNone DEF Same
<1>13. CASE ReadLoop(t)  BY <1>13, ReadLoopSteps, LetsOne, LetsNone DEF Same
<1>14. CASE ReadStopped(t)  BY <1>14, ReadStoppedSteps, LetsOne DEF Same
<1>15. CASE NoData(t) \/ NextRound(t)  BY <1>15, NextRoundSteps, LetsNone DEF Same
<1>16. CASE GotPacket(t)
       <2>1. /\ thread[t].todo = <<"packet">> /\ Same(t)
             /\ thread'[t].todo \in {<<"enqueue", "again">>, <<"dispatch", "again">>, <<>>}
             BY <1>16, GotPacketSteps
       <2>2. thread'[t].todo \in {<<"enqueue", "again">>, <<"dispatch", "again">>} => thread'[t].todo \notin Popped
             BY TwoPlan
       <2>3. thread[t].todo \in Holding  BY <2>1, OnePlan
       <2> QED  BY <2>1, <2>2, <2>3, LetsNone DEF Same, Lets
<1>17. CASE Dispatch(t)
       <2>1. /\ Same(t)
             /\ \/ thread[t].todo = <<"enqueue", "again">> /\ thread'[t].todo \in {<<"push", "again">>, <<"again">>}
                \/ thread[t].todo = <<"dispatch", "again">> /\ thread'[t].todo \in {<<"callback", "again">>, <<"again">>}
                \/ thread[t].todo = <<"dispatch", "rearm">> /\ thread'[t].todo \in {<<"callback", "rearm">>, <<"rearm">>}
             BY <1>17, DispatchSteps
       <2>2. thread[t].todo \in Holding  BY <2>1, TwoPlan DEF Delivering
       <2>3. thread'[t].todo \in Popped => thread[t].todo \in Popped  BY <2>1, OnePlan, TwoPlan
       <2> QED  BY <2>1, <2>2, <2>3 DEF Same, Lets
<1>18. CASE Callback(t)  BY <1>18, CallbackSteps, LetsOne DEF Same
<1>19. CASE End(t)  BY <1>19, EndSteps, LetsOne, LetsNone DEF Same
<1>20. CASE Finished(t)  BY <1>20, FinishedSteps, LetsNone DEF Same
<1>21. CASE Push(t)  BY <1>21, PushSteps, LetsOne DEF Same
<1>22. CASE Decoder(t)  BY <1>22, DecoderSteps, LetsOne, LetsNone DEF Same
<1>23. CASE Rearm(t)  BY <1>23, RearmSteps, LetsNone DEF Same
<1>24. CASE Watchdog(t)  BY <1>24, WatchdogSteps, LetsOne, LetsNone DEF Same
<1>25. CASE ReadAnswered(t)
       <2>1. /\ thread[t].todo = <<"reading">> /\ Same(t)
             /\ thread'[t].todo \in {<<"NoData">>, <<"lost">>, <<"end EOS">>, <<"end FatalError">>, <<"packet">>}
             BY <1>25, ReadAnsweredSteps
       <2>2. puller.packets \in Nat /\ puller \in PullerRecord  BY DEF IInv, Types, PullerRecord
       <2>3. puller' # [puller EXCEPT !.packets = @ + 1]  BY <2>2 DEF PullerRecord
       <2>4. PICK answer \in {"NoData", "lost", "end EOS", "end FatalError"} : Goes(t, <<answer>>)
             BY <1>25, <2>3 DEF ReadAnswered
       <2>5. thread'[t].todo = <<answer>>  BY <2>1, <2>4, GoesFromOne DEF IInv
       <2> QED  BY <2>1, <2>5, LetsOne DEF Same
<1> QED  BY <1>1, <1>2, <1>3, <1>4, <1>5, <1>6, <1>7, <1>8, <1>9, <1>10, <1>11, <1>12, <1>13, <1>14,
            <1>15, <1>16, <1>17, <1>18, <1>19, <1>20, <1>21, <1>22, <1>23, <1>24, <1>25 DEF Steps

\* A retry moves no packet, ...
LEMMA RetryQuiet ==
  ASSUME IInv, Bounded, NEW t \in Threads, Retry(t)
  PROVE  Quietly
<1>1. Only(t) /\ Lets(t)  BY RetrySteps, LetsNone DEF Same
<1>2. Goes(t, <<>>) /\ UNCHANGED <<mode, puller, jitter, delivered>>  BY DEF Retry
<1>3. session.count \in Nat /\ session \in SessionRecord  BY DEF IInv, Types, SessionRecord
<1>4. session'.generation = session.generation /\ session'.count <= Attempts
      <2>1. CASE AttemptsUsedUp
            <3>1. session' = [session EXCEPT !.running = FALSE, !.state = "ERROR"]  BY <2>1 DEF Retry
            <3> QED  BY <1>3, <3>1 DEF SessionRecord, Bounded
      <2>2. CASE ~AttemptsUsedUp
            <3>1. session' = Counted  BY <2>2 DEF Retry
            <3> QED  BY <2>2, <3>1, CountedTyped DEF Bounded
      <2> QED  BY <2>1, <2>2
<1>5. /\ thread'[t].packet \in {None, thread[t].packet}
      /\ thread'[t].todo # <<>> => thread'[t].gen = thread[t].gen /\ thread'[t].packet = thread[t].packet
      BY <1>2, GoesFields DEF IInv
<1>6. Fit(t)  BY <1>2, <1>4, GoesFit
<1> QED  BY <1>1, <1>2, <1>4, <1>5, <1>6, QuietGoes DEF Bounded, Lets

\* ... nor does an open, ...
LEMMA OpenQuiet ==
  ASSUME IInv, Bounded, NEW t \in Threads, Open(t)
  PROVE  Quietly
<1>1. Only(t) /\ Lets(t)
      <2>1. Same(t) /\ thread'[t].todo \in {<<"opened">>, <<"refused">>, <<"reopened">>, <<"lost">>}
            BY OpenSteps
      <2> QED  BY <2>1, LetsOne DEF Same
<1>2. UNCHANGED <<mode, session, jitter, delivered>>  BY DEF Open
<1>3. PICK steps : Goes(t, steps)  BY DEF Open
<1>4. puller'.conn <= MaxOpens /\ puller'.opens <= MaxOpens /\ puller'.packets = puller.packets
      <2>1. MaxOpens \in Nat  BY SessionAssumption
      <2>2. puller \in PullerRecord /\ puller.opens \in Nat  BY DEF IInv, Types, PullerRecord
      <2>3. CASE puller' = Closed  BY <2>1, <2>2, <2>3 DEF Bounded, Closed, PullerRecord
      <2>4. CASE /\ puller.opens < MaxOpens
                 /\ puller' = [puller EXCEPT !.conn = puller.opens + 1, !.opens = @ + 1]
            <3>1. puller'.conn = puller.opens + 1 /\ puller'.opens = puller.opens + 1
                  /\ puller'.packets = puller.packets
                  BY <2>2, <2>4 DEF PullerRecord
            <3> QED  BY <2>1, <2>2, <2>4, <3>1
      <2> QED  BY <2>3, <2>4 DEF Open
<1>5. /\ thread'[t].packet \in {None, thread[t].packet}
      /\ thread'[t].todo # <<>> => thread'[t].gen = thread[t].gen /\ thread'[t].packet = thread[t].packet
      BY <1>3, GoesFields DEF IInv
<1>6. Fit(t)  BY <1>2, <1>3, GoesFit
<1> QED  BY <1>1, <1>2, <1>4, <1>5, <1>6, QuietGoes DEF Bounded, Lets

\* ... nor the begin of a read.
LEMMA ReadLoopQuiet ==
  ASSUME IInv, Bounded, NEW t \in Threads, ReadLoop(t)
  PROVE  Quietly
<1>1. Only(t) /\ Lets(t)  BY ReadLoopSteps, LetsOne, LetsNone DEF Same
<1>2. UNCHANGED <<mode, session, puller, jitter, delivered>>  BY DEF ReadLoop
<1>3. DOMAIN thread = Threads /\ Fields(thread[t])  BY DEF IInv, Types
<1>4. \/ /\ thread'[t].todo = <<"reading">> /\ thread'[t].gen = thread[t].gen
         /\ thread'[t].packet = thread[t].packet /\ thread'[t].conn = puller.conn
      \/ thread'[t] = Resting
      <2>1. CASE Mine(t)
            <3>1. thread' = [thread EXCEPT ![t] = [@ EXCEPT !.todo = <<"reading">>, !.conn = puller.conn]]
                  BY <2>1 DEF ReadLoop
            <3> QED  BY <1>3, <3>1 DEF Fields
      <2>2. CASE ~Mine(t)
            <3>1. thread' = [thread EXCEPT ![t] = Resting]  BY <2>2 DEF ReadLoop
            <3> QED  BY <1>3, <3>1
      <2> QED  BY <2>1, <2>2
<1>5. /\ puller.conn \in 0 .. MaxOpens /\ 0 \in 0 .. MaxOpens
      /\ session.generation \in Nat /\ 0 <= session.generation
      BY SessionAssumption DEF Bounded, IInv, Types, PullerRecord, SessionRecord
<1>6. Resting.todo = <<>> /\ Resting.gen = 0 /\ Resting.conn = 0 /\ Resting.packet = None  BY DEF Resting
<1>7. /\ thread'[t].packet \in {None, thread[t].packet}
      /\ thread'[t].todo # <<>> => thread'[t].gen = thread[t].gen /\ thread'[t].packet = thread[t].packet
      BY <1>4, <1>6
<1>8. Fit(t)  BY <1>2, <1>4, <1>5, <1>6 DEF Fit, Bounded
<1> QED  BY <1>1, <1>2, <1>7, <1>8, QuietGoes DEF Bounded, Lets

\* A step of a thread, as far as packets go.
LEMMA ThreadKeeps ==
  ASSUME IInv, Bounded, Apart, NEW t \in Threads, Steps(t) \/ ReadAnswered(t)
  PROVE  /\ Bounded' /\ Apart'
         /\ ~mode.watchdog /\ ~mode.jitter /\ Ascending => Ascending'
<1>1. CASE Quietly  BY <1>1, QuietBounded, QuietApart, QuietAscending
<1>2. CASE Callback(t)  BY <1>2, CallbackKeeps
<1>3. CASE Push(t)  BY <1>3, PushKeeps
<1>4. CASE ReadAnswered(t) /\ puller' # puller  BY <1>4, PacketKeeps
<1>5. CASE PopReady(t)
      <2>1. thread[t].todo = <<"pop">> /\ <<"pop">> \in DecoderPlans  BY <1>5, PopReadySteps, OneStep
      <2>2. mode.jitter  BY <2>1, PoppedWithJitter
      <2> QED  BY <1>5, <2>2, PopReadyKeeps
<1>6. CASE Open(t) \/ Retry(t) \/ ReadLoop(t)  BY <1>1, <1>6, OpenQuiet, RetryQuiet, ReadLoopQuiet
<1>7. CASE \/ Refused(t) \/ Opened(t) \/ MarkRunning(t) \/ ArmAll(t) \/ Halt(t) \/ Stopped(t)
           \/ Connect(t) \/ Reopened(t) \/ Lost(t) \/ HangUp(t) \/ NoData(t) \/ NextRound(t)
           \/ ReadStopped(t) \/ (ReadAnswered(t) /\ puller' = puller) \/ GotPacket(t) \/ Dispatch(t)
           \/ End(t) \/ Finished(t) \/ Decoder(t) \/ Rearm(t) \/ Watchdog(t)
      <2>1. Plainly(t)  BY <1>7, PlainActions
      <2>2. puller'.packets = puller.packets  BY <2>1 DEF Plainly, Closed, IInv, Types, PullerRecord
      <2>3. CASE PopReady(t)  BY <1>5, <2>3
      <2>4. CASE ~PopReady(t)
            <3>1. Only(t) /\ Lets(t)  BY <2>2, <2>4, PacketsLetGo
            <3> QED  BY <1>1, <2>1, <3>1, PlainlyQuiet
      <2> QED  BY <2>3, <2>4
<1> QED  BY <1>2, <1>3, <1>4, <1>5, <1>6, <1>7 DEF Steps

\* Timers, the io_context and the callers move no packet.
LEMMA CallQuiet ==
  ASSUME IInv, Bounded, NEW t \in Threads, Only(t), UNCHANGED <<mode, puller, jitter, delivered>>,
         NEW g \in Nat, session'.generation = g, g >= session.generation, g <= mode.calls,
         session'.count = session.count,
         thread'[t].gen \in Nat, thread'[t].gen <= g,
         thread'[t].conn = thread[t].conn, thread'[t].packet = thread[t].packet,
         thread'[t].todo \notin Holding
  PROVE  Quietly
<1>1. \A u \in Threads : u # t => thread'[u] = thread[u]  BY DEF Only
<1>2. session.generation \in Nat  BY DEF IInv, Types, SessionRecord
<1>3. Fit(t)  BY DEF Fit, Bounded
<1>4. \A u \in Threads : thread'[u].gen <= session'.generation /\ thread'[u].conn \in 0 .. MaxOpens
      BY <1>2, <1>3, OthersBounded
<1>5. thread'[t].todo \notin Popped  BY KindsOfPlans
<1>6. ASSUME NEW u \in Threads
      PROVE  /\ thread'[u].packet \in {None, thread[u].packet}
             /\ thread'[u].todo \in Holding =>
                  /\ thread[u].todo \in Holding
                  /\ thread'[u].packet = thread[u].packet /\ thread'[u].gen = thread[u].gen
             /\ thread'[u].todo \in Popped => thread[u].todo \in Popped
      BY <1>1, <1>5
<1>7. session'.count <= Attempts /\ puller'.conn <= MaxOpens /\ puller'.opens <= MaxOpens
      BY DEF Bounded
<1> QED  BY <1>4, <1>6, <1>7 DEF Quietly

\* Run hands the first handler to an idle thread, ...
LEMMA RunFirst ==
  ASSUME IInv, NEW t \in Threads, Run(t)
  PROVE  \E h \in [do : Timers \cup {"read"}, gen : Nat] :
           /\ h = ready[1] /\ 1 \in DOMAIN ready /\ thread[t].todo = <<>>
           /\ Only(t) /\ thread'[t].todo = <<h.do>> /\ thread'[t].gen = h.gen
           /\ thread'[t].conn = thread[t].conn /\ thread'[t].packet = thread[t].packet
           /\ \A i \in DOMAIN ready' : i \in Int /\ i + 1 \in DOMAIN ready /\ i + 1 # 1
                                       /\ ready'[i] = ready[i + 1]
<1>1. PICK S : S = [do : Timers \cup {"read"}, gen : Nat]  OBVIOUS
<1>2. ready \in Seq(S) /\ ready # <<>>  BY <1>1 DEF Run, IInv, Types
<1>3. PICK h, q : h = ready[1] /\ q = Tail(ready)  OBVIOUS
<1>4. /\ h = Head(ready) /\ h \in S /\ 1 \in DOMAIN ready
      /\ \A i \in DOMAIN q : i \in Int /\ i + 1 \in DOMAIN ready /\ i + 1 # 1 /\ q[i] = ready[i + 1]
      BY <1>2, <1>3, TakeFirst
<1>5. ready' = q /\ thread[t].todo = <<>>  BY <1>3 DEF Run, Idle
<1>6. /\ Only(t) /\ thread'[t].todo = <<h.do>> /\ thread'[t].gen = h.gen
      /\ thread'[t].conn = thread[t].conn /\ thread'[t].packet = thread[t].packet
      <2>1. thread' = [thread EXCEPT ![t].todo = <<h.do>>, ![t].gen = h.gen]
            BY <1>4 DEF Run
      <2>2. DOMAIN thread = Threads /\ Fields(thread[t])  BY DEF IInv, Types
      <2> QED  BY <2>1, <2>2 DEF Only, Fields
<1> QED  BY <1>1, <1>3, <1>4, <1>5, <1>6

\* ... and moves no packet, ...
LEMMA RunQuiet ==
  ASSUME IInv, Bounded, NEW t \in Threads, Run(t)
  PROVE  Quietly
<1>1. PICK h \in [do : Timers \cup {"read"}, gen : Nat] :
        /\ h = ready[1] /\ 1 \in DOMAIN ready
        /\ Only(t) /\ thread'[t].todo = <<h.do>> /\ thread'[t].gen = h.gen
        /\ thread'[t].conn = thread[t].conn /\ thread'[t].packet = thread[t].packet
      BY RunFirst
<1>2. UNCHANGED <<mode, session, puller, jitter, delivered>>  BY DEF Run
<1>3. PICK g \in Nat : g = session.generation  BY DEF IInv, Types, SessionRecord
<1>4. h.gen \in Nat /\ h.gen <= g
      <2>1. h.gen \in 1 .. Newest  BY <1>1 DEF IInv, Ages
      <2> QED  BY <1>3, <2>1 DEF Newest
<1>5. thread'[t].todo \notin Holding
      <2>1. h.do # "packet"  BY DEF Timers
      <2> QED  BY <1>1, <2>1, OnePlan
<1>6. session'.generation = g /\ g >= session.generation /\ g <= mode.calls /\ session'.count = session.count
      BY <1>2, <1>3 DEF Bounded
<1>7. thread'[t].gen \in Nat /\ thread'[t].gen <= g  BY <1>1, <1>4
<1> QED  BY <1>1, <1>2, <1>5, <1>6, <1>7, CallQuiet

\* ... as Start and Stop move none, ...
LEMMA CallersQuiet ==
  ASSUME IInv, Bounded, NEW t \in Threads, Start(t) \/ Stop(t)
  PROVE  Quietly
<1>1. PICK n \in Nat : n = session.generation  BY DEF IInv, Types, SessionRecord
<1>2. PICK g \in Nat : g = n + 1  OBVIOUS
<1>3. /\ UNCHANGED <<mode, puller, jitter, delivered>>
      /\ session'.generation = g /\ session'.count = session.count /\ n < mode.calls
      <2>1. session \in SessionRecord  BY DEF IInv, Types
      <2> QED  BY <1>1, <1>2, <2>1 DEF Start, Stop, SessionRecord
<1>4. g >= session.generation /\ g <= mode.calls
      <2>1. mode.calls \in Nat  BY SessionAssumption DEF IInv, Types
      <2> QED  BY <1>1, <1>2, <1>3, <2>1
<1>5. DOMAIN thread = Threads /\ Fields(thread[t]) /\ thread[t].gen \in Nat /\ thread[t].gen <= n
      BY <1>1 DEF IInv, Types, Bounded
<1>6. CASE Start(t)
      <2>1. thread' = [thread EXCEPT ![t].todo = <<"open">>, ![t].gen = g]  BY <1>1, <1>2, <1>6 DEF Start
      <2>2. /\ Only(t) /\ thread'[t].todo = <<"open">> /\ thread'[t].gen = g
            /\ thread'[t].conn = thread[t].conn /\ thread'[t].packet = thread[t].packet
            BY <1>5, <2>1 DEF Only, Fields
      <2>3. thread'[t].todo \notin Holding  BY <2>2, OnePlan
      <2>4. thread'[t].gen \in Nat /\ thread'[t].gen <= g  BY <2>2
      <2> QED  BY <1>3, <1>4, <2>2, <2>3, <2>4, CallQuiet
<1>7. CASE Stop(t)
      <2>1. thread' = [thread EXCEPT ![t].todo = <<"halt", "stopped">>]  BY <1>7 DEF Stop
      <2>2. /\ Only(t) /\ thread'[t].todo = <<"halt", "stopped">> /\ thread'[t].gen = thread[t].gen
            /\ thread'[t].conn = thread[t].conn /\ thread'[t].packet = thread[t].packet
            BY <1>5, <2>1 DEF Only, Fields
      <2>3. thread'[t].todo \notin Holding  BY <2>2, TwoPlan DEF Delivering
      <2>4. thread'[t].gen \in Nat /\ thread'[t].gen <= g  BY <1>2, <1>5, <2>2
      <2> QED  BY <1>3, <1>4, <2>2, <2>3, <2>4, CallQuiet
<1> QED  BY <1>6, <1>7

\* ... and steps that leave all threads alone.
LEMMA StillQuiet ==
  ASSUME IInv, Bounded, UNCHANGED <<mode, session, puller, jitter, thread, delivered>>
  PROVE  Quietly
BY DEF Bounded, Quietly

\* A step, as far as packets go.
LEMMA PacketsKept ==
  ASSUME IInv, Bounded, Apart, [Next]_vars
  PROVE  /\ Bounded' /\ Apart'
         /\ ~mode.watchdog /\ ~mode.jitter /\ Ascending => Ascending'
<1>1. CASE Quietly  BY <1>1, QuietBounded, QuietApart, QuietAscending
<1>2. CASE \E x \in Timers : Expire(x)
      <2>1. UNCHANGED <<mode, session, puller, jitter, thread, delivered>>  BY <1>2 DEF Expire
      <2> QED  BY <1>1, <2>1, StillQuiet
<1>3. CASE UNCHANGED vars
      <2>1. UNCHANGED <<mode, session, puller, jitter, thread, delivered>>  BY <1>3 DEF vars
      <2> QED  BY <1>1, <2>1, StillQuiet
<1>4. ASSUME NEW t \in Threads, Run(t) \/ Start(t) \/ Stop(t)  PROVE Quietly
      BY <1>4, RunQuiet, CallersQuiet
<1>5. ASSUME NEW t \in Threads, Steps(t) \/ ReadAnswered(t)
      PROVE  /\ Bounded' /\ Apart'
             /\ ~mode.watchdog /\ ~mode.jitter /\ Ascending => Ascending'
      BY <1>5, ThreadKeeps
<1> QED  BY <1>1, <1>2, <1>3, <1>4, <1>5 DEF Next

-----------------------------------------------------------------------------
(* The first connection of the first start: which plan comes after which   *)

Moves(t) ==
  LET now == thread[t].todo
      next == thread'[t].todo
  IN  /\ next \in Feeding => now \in Feeding \cup {<<"reopened">>}
      /\ next \in Arming => now \in Arming \cup {<<"reopened">>}
      /\ next \in DecoderPlans => now \in DecoderPlans
      /\ next \in EndPlans => now \in ReaderPlans \cup EndPlans
      /\ next = <<"reopened">> => now = <<"reopen">>
      /\ mode.jitter /\ next \in Straight => now \in Straight

\* A thread that has no more to do moves to no plan, ...
LEMMA MovesNone ==
  ASSUME NEW t, thread'[t].todo = <<>>
  PROVE  Moves(t)
<1>1. <<>> # <<"reopened">>  BY Tails
<1> QED  BY <1>1, NoPlan, NoStep DEF Moves

\* The next step is not one that feeds, pops, ends or reopens.
LEMMA MovesAway ==
  ASSUME NEW t, NEW s, thread'[t].todo = <<s>>,
         s \in {"refused", "lost", "reopen", "retry", "stopped"}
  PROVE  Moves(t)
<1> DEFINE next == thread'[t].todo
<1>1. next = <<"reopened">> => s = "reopened"  BY DifferentPlans
<1>2. next \notin Feeding /\ next \notin Arming /\ next \notin Straight  BY OnePlan
<1>3. next \notin EndPlans /\ next \notin DecoderPlans  BY OneStep DEF Ends
<1> QED  BY <1>1, <1>2, <1>3 DEF Moves

\* ... or it goes on with a plan of one step ...
LEMMA MovesOn ==
  ASSUME NEW t, NEW s, thread'[t].todo = <<s>>,
         \/ s \in {"reading", "NoData", "packet", "again"} /\ thread[t].todo \in Feeding
         \/ s \in {"opened", "arm"} /\ thread[t].todo \in Arming \cup {<<"reopened">>}
         \/ s \in {"pop", "rearm"} /\ thread[t].todo \in DecoderPlans
         \/ s \in Ends \cup {"finished", "failed"} /\ thread[t].todo \in ReaderPlans \cup EndPlans
         \/ s = "reopened" /\ thread[t].todo = <<"reopen">>
  PROVE  Moves(t)
<1> DEFINE next == thread'[t].todo
<1>1. next \notin Straight  BY OnePlan
<1>7. next = <<"reopened">> => s = "reopened"  BY DifferentPlans
<1>8. s \in Ends \cup {"finished", "failed"} <=>
        s \in {"end Stopped", "end EOS", "end FatalError", "finished", "failed"}
      BY DEF Ends
<1>2. CASE s \in {"reading", "NoData", "packet", "again"} /\ thread[t].todo \in Feeding
      <2>1. next \notin Arming /\ next # <<"reopened">>  BY <1>2, <1>7, OnePlan
      <2>2. next \notin DecoderPlans /\ next \notin EndPlans  BY <1>2, <1>8, OneStep
      <2> QED  BY <1>1, <1>2, <2>1, <2>2 DEF Moves
<1>3. CASE s \in {"opened", "arm"} /\ thread[t].todo \in Arming \cup {<<"reopened">>}
      <2>1. next # <<"reopened">>  BY <1>3, <1>7
      <2>2. next \notin DecoderPlans /\ next \notin EndPlans  BY <1>3, <1>8, OneStep
      <2> QED  BY <1>1, <1>3, <2>1, <2>2, KindsOfPlans DEF Moves
<1>4. CASE s \in {"pop", "rearm"} /\ thread[t].todo \in DecoderPlans
      <2>1. next \notin Feeding /\ next \notin Arming /\ next # <<"reopened">>  BY <1>4, <1>7, OnePlan
      <2>2. next \notin EndPlans  BY <1>4, <1>8, OneStep
      <2> QED  BY <1>1, <1>4, <2>1, <2>2 DEF Moves
<1>5. CASE s \in Ends \cup {"finished", "failed"} /\ thread[t].todo \in ReaderPlans \cup EndPlans
      <2>1. next \notin Feeding /\ next \notin Arming /\ next # <<"reopened">>
            BY <1>5, <1>7, <1>8, OnePlan
      <2>2. next \notin DecoderPlans  BY <1>5, <1>8, OneStep
      <2> QED  BY <1>1, <1>5, <2>1, <2>2 DEF Moves
<1>6. CASE s = "reopened" /\ thread[t].todo = <<"reopen">>
      <2>1. next \notin Feeding /\ next \notin Arming /\ next \notin DecoderPlans /\ next \notin EndPlans
            BY <1>6, OnePlan, OneStep DEF Ends
      <2> QED  BY <1>1, <1>6, <2>1 DEF Moves
<1> QED  BY <1>2, <1>3, <1>4, <1>5, <1>6

\* ... or of two.
LEMMA MovesTwo ==
  ASSUME NEW t, NEW s, NEW r, thread'[t].todo = <<s, r>>,
         \/ s = "run" /\ r = "arm" /\ thread[t].todo \in Arming
         \/ s = "hangUp" /\ r = "retry"
         \/ s \in {"enqueue", "push"} /\ r = "again" /\ thread[t].todo \in Feeding
         \/ s \in {"dispatch", "callback"} /\ r = "again" /\ thread[t].todo \in Feeding
            /\ (mode.jitter => thread[t].todo \in Straight)
         \/ s \in {"dispatch", "callback"} /\ r = "rearm" /\ thread[t].todo \in DecoderPlans
  PROVE  Moves(t)
<1> DEFINE next == thread'[t].todo
<1>1. next \notin EndPlans /\ next # <<"reopened">>  BY TwoSteps, DifferentPlans
<1>2. CASE s = "run" /\ r = "arm" /\ thread[t].todo \in Arming
      <2>1. next \notin DecoderPlans /\ next \notin Straight  BY <1>2, TwoSteps, TwoPlan
      <2> QED  BY <1>1, <1>2, <2>1, KindsOfPlans DEF Moves
<1>3. CASE s = "hangUp" /\ r = "retry"
      <2>1. next \notin DecoderPlans /\ next \notin Straight /\ next \notin Feeding /\ next \notin Arming
            BY <1>3, TwoSteps, TwoPlan DEF Delivering
      <2> QED  BY <1>1, <2>1 DEF Moves
<1>4. CASE s \in {"enqueue", "push"} /\ r = "again" /\ thread[t].todo \in Feeding
      <2>1. next \notin DecoderPlans /\ next \notin Straight /\ next \notin Arming
            BY <1>4, TwoSteps, TwoPlan
      <2> QED  BY <1>1, <1>4, <2>1 DEF Moves
<1>5. CASE /\ s \in {"dispatch", "callback"} /\ r = "again" /\ thread[t].todo \in Feeding
           /\ mode.jitter => thread[t].todo \in Straight
      <2>1. next \notin DecoderPlans /\ next \notin Arming  BY <1>5, TwoSteps, TwoPlan
      <2> QED  BY <1>1, <1>5, <2>1 DEF Moves
<1>6. CASE s \in {"dispatch", "callback"} /\ r = "rearm" /\ thread[t].todo \in DecoderPlans
      <2>1. next \notin Straight /\ next \notin Feeding /\ next \notin Arming
            BY <1>6, TwoSteps, TwoPlan
      <2> QED  BY <1>1, <1>6, <2>1 DEF Moves
<1> QED  BY <1>2, <1>3, <1>4, <1>5, <1>6

\* Without the watchdog its step is never taken.
LEMMA NoWatchdog ==
  ASSUME IInv, ~mode.watchdog, NEW t \in Threads
  PROVE  ~Watchdog(t)
<1> SUFFICES ASSUME thread[t].todo = <<"watchdog">>  PROVE FALSE
    BY WatchdogSteps
<1>1. Plan(thread[t].todo)  BY DEF IInv, Types
<1>2. /\ <<"watchdog">> \notin ReaderPlans /\ <<"watchdog">> \notin EndPlans /\ <<"watchdog">> \notin StopPlans
      /\ <<"watchdog">> \notin DecoderPlans /\ <<"watchdog">> # <<>>
      BY OneStep DEF ReaderOnes, Ends
<1> QED  BY <1>1, <1>2 DEF Plan

\* Every step of a thread moves from plan to plan in this way.
LEMMA ThreadMoves ==
  ASSUME IInv, ~mode.watchdog, NEW t \in Threads, Steps(t) \/ ReadAnswered(t)
  PROVE  Moves(t)
<1> DEFINE now == thread[t].todo
<1>1. CASE Open(t)
      <2>1. \/ now = <<"open">> /\ thread'[t].todo = <<"opened">>
            \/ now = <<"reopen">> /\ thread'[t].todo = <<"reopened">>
            \/ thread'[t].todo = <<"refused">>
            \/ thread'[t].todo = <<"lost">>
            BY <1>1, OpenSteps
      <2>2. <<"open">> \in Arming  BY OnePlan
      <2>3. CASE now = <<"open">> /\ thread'[t].todo = <<"opened">>  BY <2>2, <2>3, MovesOn
      <2>4. CASE now = <<"reopen">> /\ thread'[t].todo = <<"reopened">>  BY <2>4, MovesOn
      <2>5. CASE thread'[t].todo = <<"refused">> \/ thread'[t].todo = <<"lost">>  BY <2>5, MovesAway
      <2> QED  BY <2>1, <2>3, <2>4, <2>5
<1>2. CASE Refused(t)  BY <1>2, RefusedSteps, MovesNone
<1>3. CASE Opened(t)
      <2>1. now = <<"opened">> /\ thread'[t].todo \in {<<"run", "arm">>, <<>>}  BY <1>3, OpenedSteps
      <2>2. <<"opened">> \in Arming  BY OnePlan
      <2>3. CASE thread'[t].todo = <<"run", "arm">>  BY <2>1, <2>2, <2>3, MovesTwo
      <2> QED  BY <2>1, <2>3, MovesNone
<1>4. CASE MarkRunning(t)
      <2>1. now = <<"run", "arm">> /\ thread'[t].todo = <<"arm">>  BY <1>4, MarkRunningSteps
      <2>2. <<"run", "arm">> \in Arming  BY DEF Arming
      <2> QED  BY <2>1, <2>2, MovesOn
<1>5. CASE ArmAll(t)  BY <1>5, ArmAllSteps, MovesNone
<1>6. CASE Halt(t)  BY <1>6, HaltSteps, MovesAway
<1>7. CASE Stopped(t)  BY <1>7, StoppedSteps, MovesNone
<1>8. CASE Connect(t)
      <2>1. thread'[t].todo \in {<<"reopen">>, <<>>}  BY <1>8, ConnectSteps
      <2> QED  BY <2>1, MovesAway, MovesNone
<1>9. CASE Reopened(t)
      <2>1. now = <<"reopened">> /\ thread'[t].todo \in {<<"arm">>, <<>>}  BY <1>9, ReopenedSteps
      <2>2. CASE thread'[t].todo = <<"arm">>  BY <2>1, <2>2, MovesOn
      <2> QED  BY <2>1, <2>2, MovesNone
<1>10. CASE Lost(t)
       <2>1. thread'[t].todo \in {<<"hangUp", "retry">>, <<>>}  BY <1>10, LostSteps
       <2>2. CASE thread'[t].todo = <<"hangUp", "retry">>  BY <2>2, MovesTwo
       <2> QED  BY <2>1, <2>2, MovesNone
<1>11. CASE HangUp(t)  BY <1>11, HangUpSteps, MovesAway
<1>12. CASE Retry(t)  BY <1>12, RetrySteps, MovesNone
<1>13. CASE ReadLoop(t)
       <2>1. now = <<"read">> /\ thread'[t].todo \in {<<"reading">>, <<>>}  BY <1>13, ReadLoopSteps
       <2>2. <<"read">> \in Feeding  BY OnePlan
       <2>3. CASE thread'[t].todo = <<"reading">>  BY <2>1, <2>2, <2>3, MovesOn
       <2> QED  BY <2>1, <2>3, MovesNone
<1>14. CASE ReadStopped(t) \/ ReadAnswered(t)
       <2>1. now = <<"reading">> /\ thread'[t].todo \in {<<"end Stopped">>, <<"NoData">>, <<"lost">>,
                                      <<"end EOS">>, <<"end FatalError">>, <<"packet">>}
             BY <1>14, ReadStoppedSteps, ReadAnsweredSteps
       <2>2. <<"reading">> \in Feeding /\ <<"reading">> \in ReaderPlans  BY OnePlan, OneStep DEF ReaderOnes
       <2>3. CASE thread'[t].todo = <<"lost">>  BY <2>3, MovesAway
       <2>4. CASE thread'[t].todo \in {<<"NoData">>, <<"packet">>}  BY <2>1, <2>2, <2>4, MovesOn
       <2>5. CASE thread'[t].todo \in {<<"end Stopped">>, <<"end EOS">>, <<"end FatalError">>}
             BY <2>1, <2>2, <2>5, MovesOn DEF Ends
       <2> QED  BY <2>1, <2>3, <2>4, <2>5
<1>15. CASE NoData(t) \/ NextRound(t)  BY <1>15, NextRoundSteps, MovesNone
<1>16. CASE GotPacket(t)
       <2>1. now = <<"packet">> /\ thread'[t].todo \in {<<"enqueue", "again">>, <<"dispatch", "again">>, <<>>}
             BY <1>16, GotPacketSteps
       <2>2. <<"packet">> \in Feeding  BY OnePlan
       <2>3. CASE thread'[t].todo = <<"enqueue", "again">>  BY <2>1, <2>2, <2>3, MovesTwo
       <2>4. CASE thread'[t].todo = <<"dispatch", "again">>
             <3>1. ~mode.jitter
                   <4> SUFFICES ASSUME mode.jitter  PROVE FALSE
                       OBVIOUS
                   <4>1. Goes(t, <<"enqueue", "again">>) \/ Goes(t, <<>>)  BY <1>16 DEF GotPacket
                   <4>2. thread'[t].todo = <<"enqueue", "again">> \/ thread'[t].todo = <<>>
                         BY <2>1, <4>1, GoesFromOne DEF IInv
                   <4> QED  BY <2>4, <4>2, DifferentPlans
             <3> QED  BY <2>1, <2>2, <2>4, <3>1, MovesTwo
       <2> QED  BY <2>1, <2>3, <2>4, MovesNone
<1>17. CASE Dispatch(t)
       <2>1. \/ now = <<"enqueue", "again">> /\ thread'[t].todo \in {<<"push", "again">>, <<"again">>}
             \/ now = <<"dispatch", "again">> /\ thread'[t].todo \in {<<"callback", "again">>, <<"again">>}
             \/ now = <<"dispatch", "rearm">> /\ thread'[t].todo \in {<<"callback", "rearm">>, <<"rearm">>}
             BY <1>17, DispatchSteps
       <2>2. /\ <<"enqueue", "again">> \in Feeding /\ <<"dispatch", "again">> \in Feeding
             /\ <<"dispatch", "again">> \in Straight /\ <<"dispatch", "rearm">> \in DecoderPlans
             BY TwoPlan, TwoSteps DEF Delivering
       <2>3. CASE now = <<"enqueue", "again">> /\ thread'[t].todo \in {<<"push", "again">>, <<"again">>}
             BY <2>2, <2>3, MovesOn, MovesTwo
       <2>4. CASE now = <<"dispatch", "again">> /\ thread'[t].todo \in {<<"callback", "again">>, <<"again">>}
             BY <2>2, <2>4, MovesOn, MovesTwo
       <2>5. CASE now = <<"dispatch", "rearm">> /\ thread'[t].todo \in {<<"callback", "rearm">>, <<"rearm">>}
             BY <2>2, <2>5, MovesOn, MovesTwo
       <2> QED  BY <2>1, <2>3, <2>4, <2>5
<1>18. CASE Callback(t)
       <2>1. \/ now = <<"callback", "again">> /\ thread'[t].todo = <<"again">>
             \/ now = <<"callback", "rearm">> /\ thread'[t].todo = <<"rearm">>
             BY <1>18, CallbackSteps
       <2>2. <<"callback", "again">> \in Feeding /\ <<"callback", "rearm">> \in DecoderPlans
             BY TwoPlan, TwoSteps DEF Delivering
       <2> QED  BY <2>1, <2>2, MovesOn
<1>19. CASE End(t)
       <2>1. /\ now \in {<<"end Stopped">>, <<"end EOS">>, <<"end FatalError">>}
             /\ thread'[t].todo \in {<<"failed">>, <<"finished">>, <<>>}
             BY <1>19, EndSteps
       <2>2. now \in EndPlans  BY <2>1, OneStep DEF Ends
       <2>3. CASE thread'[t].todo \in {<<"failed">>, <<"finished">>}  BY <2>2, <2>3, MovesOn
       <2> QED  BY <2>1, <2>3, MovesNone
<1>20. CASE Finished(t)  BY <1>20, FinishedSteps, MovesNone
<1>21. CASE Push(t)
       <2>1. now = <<"push", "again">> /\ thread'[t].todo = <<"again">>  BY <1>21, PushSteps
       <2>2. <<"push", "again">> \in Feeding  BY TwoPlan DEF Delivering
       <2> QED  BY <2>1, <2>2, MovesOn
<1>22. CASE Decoder(t)
       <2>1. now = <<"decoder">> /\ thread'[t].todo \in {<<"pop">>, <<>>}  BY <1>22, DecoderSteps
       <2>2. <<"decoder">> \in DecoderPlans  BY OneStep
       <2>3. CASE thread'[t].todo = <<"pop">>  BY <2>1, <2>2, <2>3, MovesOn
       <2> QED  BY <2>1, <2>3, MovesNone
<1>23. CASE PopReady(t)
       <2>1. now = <<"pop">> /\ thread'[t].todo \in {<<"rearm">>, <<"dispatch", "rearm">>}
             BY <1>23, PopReadySteps
       <2>2. <<"pop">> \in DecoderPlans  BY OneStep
       <2>3. CASE thread'[t].todo = <<"rearm">>  BY <2>1, <2>2, <2>3, MovesOn
       <2>4. CASE thread'[t].todo = <<"dispatch", "rearm">>  BY <2>1, <2>2, <2>4, MovesTwo
       <2> QED  BY <2>1, <2>3, <2>4
<1>24. CASE Rearm(t)  BY <1>24, RearmSteps, MovesNone
<1>25. ~Watchdog(t)  BY NoWatchdog
<1> QED  BY <1>1, <1>2, <1>3, <1>4, <1>5, <1>6, <1>7, <1>8, <1>9, <1>10, <1>11, <1>12, <1>13, <1>14,
            <1>15, <1>16, <1>17, <1>18, <1>19, <1>20, <1>21, <1>22, <1>23, <1>24, <1>25 DEF Steps

-----------------------------------------------------------------------------
(* The first connection of the first start: what a step does besides       *)

First == {<<"open">>, <<"reopen">>, <<"refused">>}

\* The other plans of one step are not these, ...
LEMMA NotFirstOne ==
  ASSUME NEW t, NEW s, thread[t].todo = <<s>>, s \notin {"open", "reopen", "refused"}
  PROVE  thread[t].todo \notin First
BY DifferentPlans DEF First

\* ... nor are those of two.
LEMMA NotFirstTwo ==
  ASSUME NEW t, NEW s, NEW r, thread[t].todo = <<s, r>>
  PROVE  thread[t].todo \notin First
BY DifferentPlans DEF First

\* Only Open and Refused begin with one of them.
LEMMA ThreadFirst ==
  ASSUME IInv, NEW t \in Threads, Steps(t) \/ ReadAnswered(t), ~Open(t), ~Refused(t)
  PROVE  thread[t].todo \notin First
<1>1. CASE Opened(t)  BY <1>1, OpenedSteps, NotFirstOne
<1>2. CASE MarkRunning(t)  BY <1>2, MarkRunningSteps, NotFirstTwo
<1>3. CASE ArmAll(t)  BY <1>3, ArmAllSteps, NotFirstOne
<1>4. CASE Halt(t)  BY <1>4, HaltSteps, NotFirstTwo
<1>5. CASE Stopped(t)  BY <1>5, StoppedSteps, NotFirstOne
<1>6. CASE Connect(t)  BY <1>6, ConnectSteps, NotFirstOne
<1>7. CASE Reopened(t)  BY <1>7, ReopenedSteps, NotFirstOne
<1>8. CASE Lost(t)  BY <1>8, LostSteps, NotFirstOne
<1>9. CASE HangUp(t)  BY <1>9, HangUpSteps, NotFirstTwo
<1>10. CASE Retry(t)  BY <1>10, RetrySteps, NotFirstOne
<1>11. CASE ReadLoop(t)  BY <1>11, ReadLoopSteps, NotFirstOne
<1>12. CASE ReadStopped(t) \/ ReadAnswered(t)
       <2>1. thread[t].todo = <<"reading">>  BY <1>12, ReadStoppedSteps, ReadAnsweredSteps
       <2> QED  BY <2>1, NotFirstOne
<1>14. CASE NoData(t) \/ NextRound(t)  BY <1>14, NextRoundSteps, NotFirstOne
<1>15. CASE GotPacket(t)  BY <1>15, GotPacketSteps, NotFirstOne
<1>16. CASE Dispatch(t)  BY <1>16, DispatchSteps, NotFirstTwo
<1>17. CASE Callback(t)  BY <1>17, CallbackSteps, NotFirstTwo
<1>18. CASE End(t)
       <2>1. thread[t].todo \in {<<"end Stopped">>, <<"end EOS">>, <<"end FatalError">>}  BY <1>18, EndSteps
       <2>2. thread[t].todo \in EndPlans  BY <2>1, OneStep DEF Ends
       <2>3. \A p \in First : p \in ReaderPlans  BY OneStep DEF First, ReaderOnes
       <2> QED  BY <2>2, <2>3, Kinds
<1>19. CASE Finished(t)  BY <1>19, FinishedSteps, NotFirstOne
<1>20. CASE Push(t)  BY <1>20, PushSteps, NotFirstTwo
<1>21. CASE Decoder(t)  BY <1>21, DecoderSteps, NotFirstOne
<1>22. CASE PopReady(t)  BY <1>22, PopReadySteps, NotFirstOne
<1>23. CASE Rearm(t)  BY <1>23, RearmSteps, NotFirstOne
<1>24. CASE Watchdog(t)  BY <1>24, WatchdogSteps, NotFirstOne
<1> QED  BY <1>1, <1>2, <1>3, <1>4, <1>5, <1>6, <1>7, <1>8, <1>9, <1>10, <1>11, <1>12, <1>14,
            <1>15, <1>16, <1>17, <1>18, <1>19, <1>20, <1>21, <1>22, <1>23, <1>24 DEF Steps

\* There is one connection more, or as many as before.
Opens(t) ==
  /\ puller'.opens \in {puller.opens, puller.opens + 1}
  /\ thread'[t].todo = <<"reopened">> => puller'.opens = puller.opens + 1
  /\ thread[t].todo = <<"open">> => thread'[t].todo = <<"refused">> \/ puller'.opens = puller.opens + 1
  /\ thread[t].todo = <<"refused">> => thread'[t].todo = <<>>

\* A step of another plan that opens nothing counts nothing.
LEMMA OpensNone ==
  ASSUME IInv, NEW t \in Threads, Moves(t), thread[t].todo \notin First, puller'.opens = puller.opens
  PROVE  Opens(t)
BY DEF Opens, Moves, First

\* Connections are counted by Open alone.
LEMMA ThreadOpens ==
  ASSUME IInv, ~mode.watchdog, NEW t \in Threads, Steps(t) \/ ReadAnswered(t)
  PROVE  Opens(t)
<1>0. puller \in PullerRecord  BY DEF IInv, Types
<1>1. CASE Open(t)
      <2>1. \/ /\ puller' = [puller EXCEPT !.conn = puller.opens + 1, !.opens = @ + 1]
               /\ \/ thread[t].todo = <<"open">> /\ thread'[t].todo = <<"opened">>
                  \/ thread[t].todo = <<"reopen">> /\ thread'[t].todo = <<"reopened">>
            \/ /\ puller' = Closed
               /\ \/ thread[t].todo = <<"open">> /\ thread'[t].todo = <<"refused">>
                  \/ thread[t].todo = <<"reopen">> /\ thread'[t].todo = <<"lost">>
            BY <1>1, OpenSteps
      <2>2. /\ <<"open">> # <<"refused">> /\ <<"reopen">> # <<"refused">> /\ <<"reopen">> # <<"open">>
            /\ <<"refused">> # <<"reopened">> /\ <<"lost">> # <<"reopened">>
            BY DifferentPlans
      <2>3. CASE puller' = Closed
            <3>1. puller'.opens = puller.opens  BY <1>0, <2>3 DEF Closed, PullerRecord
            <3>2. thread'[t].todo # <<"reopened">>
                  \/ puller' = [puller EXCEPT !.conn = puller.opens + 1, !.opens = @ + 1]
                  BY <2>1, <2>2
            <3>4. PICK q : q = [puller EXCEPT !.conn = puller.opens + 1, !.opens = @ + 1]  OBVIOUS
            <3>5. q.opens = puller.opens + 1 /\ puller.opens \in Nat  BY <1>0, <3>4 DEF PullerRecord
            <3>3. puller' # [puller EXCEPT !.conn = puller.opens + 1, !.opens = @ + 1]
                  <4> SUFFICES ASSUME puller' = q  PROVE FALSE
                      BY <3>4
                  <4>1. puller'.opens = puller.opens + 1  BY <3>5
                  <4> QED  BY <3>1, <3>5, <4>1
            <3> QED  BY <2>1, <2>2, <3>1, <3>2, <3>3 DEF Opens
      <2>4. CASE puller' = [puller EXCEPT !.conn = puller.opens + 1, !.opens = @ + 1]
            <3>1. puller'.opens = puller.opens + 1  BY <1>0, <2>4 DEF PullerRecord
            <3>2. thread[t].todo # <<"refused">>  BY <2>1, <2>2
            <3> QED  BY <3>1, <3>2 DEF Opens
      <2> QED  BY <2>1, <2>3, <2>4
<1>2. Moves(t)  BY ThreadMoves
<1>3. CASE Refused(t)
      <2>1. thread[t].todo = <<"refused">> /\ thread'[t].todo = <<>>  BY <1>3, RefusedSteps
      <2>2. <<"refused">> # <<"open">> /\ <<>> # <<"reopened">>  BY DifferentPlans, Tails
      <2>3. puller' = puller  BY <1>3 DEF Refused
      <2> QED  BY <2>1, <2>2, <2>3 DEF Opens
<1>4. CASE ~Open(t) /\ ~Refused(t)
      <2>1. thread[t].todo \notin First  BY <1>4, ThreadFirst
      <2>2. puller'.opens = puller.opens
            <3>1. CASE puller' = puller \/ puller' = Closed  BY <1>0, <3>1 DEF Closed, PullerRecord
            <3>2. CASE Plainly(t)  BY <3>1, <3>2 DEF Plainly
            <3>3. CASE Retry(t)  BY <3>1, <3>3 DEF Retry
            <3>4. CASE ReadLoop(t)  BY <3>1, <3>4 DEF ReadLoop
            <3>5. CASE Callback(t)  BY <3>1, <3>5 DEF Callback
            <3>6. CASE Push(t)  BY <3>1, <3>6 DEF Push
            <3>7. CASE PopReady(t)  BY <3>1, <3>7 DEF PopReady
            <3>8. CASE ReadAnswered(t)
                  <4>1. CASE puller' = [puller EXCEPT !.packets = @ + 1]  BY <1>0, <4>1 DEF PullerRecord
                  <4> QED  BY <3>1, <3>8, <4>1 DEF ReadAnswered
            <3> QED  BY <1>4, <3>2, <3>3, <3>4, <3>5, <3>6, <3>7, <3>8, PlainActions DEF Steps
      <2> QED  BY <1>2, <2>1, <2>2, OpensNone
<1> QED  BY <1>1, <1>3, <1>4

\* Waits begin and handlers are queued at the ends of a plan; only the callback is given packets.
Times(t) ==
  /\ timer'.decoder \in {0, timer.decoder}
     \/ (thread[t].todo \in {<<"arm">>, <<"rearm">>} /\ thread'[t].todo = <<>>)
  /\ timer'.reconnect \in {0, timer.reconnect}
     \/ (thread[t].todo = <<"retry">> /\ thread'[t].todo = <<>>)
  /\ ready' # ready => thread[t].todo \in Feeding /\ thread'[t].todo = <<>>
  /\ delivered' # delivered => Callback(t)

\* Every step of a thread treats timers, handlers and the callback in this way, ...
LEMMA ThreadTimes ==
  ASSUME IInv, ~mode.watchdog, NEW t \in Threads, Steps(t) \/ ReadAnswered(t)
  PROVE  Times(t)
<1>0. timer \in [Timers -> Nat] /\ "decoder" \in Timers /\ "reconnect" \in Timers  BY DEF IInv, Types, Timers
<1>1. CASE UNCHANGED <<timer, ready, delivered>>  BY <1>1 DEF Times
<1>2. CASE UNCHANGED <<timer, ready>> /\ Callback(t)  BY <1>2 DEF Times
<1>3. CASE ArmAll(t)
      <2>1. thread[t].todo = <<"arm">> /\ thread'[t].todo = <<>>  BY <1>3, ArmAllSteps
      <2>2. <<"arm">> \in Feeding  BY OnePlan
      <2>3. delivered' = delivered  BY <1>3 DEF ArmAll
      <2>4. timer'.reconnect = timer.reconnect  BY <1>0, <1>3 DEF ArmAll
      <2> QED  BY <2>1, <2>2, <2>3, <2>4 DEF Times
<1>4. CASE Halt(t)
      <2>1. timer' = [x \in Timers |-> 0] /\ UNCHANGED <<ready, delivered>>  BY <1>4 DEF Halt
      <2>2. timer'.decoder = 0 /\ timer'.reconnect = 0  BY <1>0, <2>1
      <2> QED  BY <2>1, <2>2 DEF Times
<1>5. CASE HangUp(t)
      <2>1. timer' = [timer EXCEPT !.decoder = 0] /\ UNCHANGED <<ready, delivered>>  BY <1>5 DEF HangUp
      <2>2. timer'.decoder = 0 /\ timer'.reconnect = timer.reconnect  BY <1>0, <2>1
      <2> QED  BY <2>1, <2>2 DEF Times
<1>6. CASE Retry(t)
      <2>1. thread[t].todo = <<"retry">> /\ thread'[t].todo = <<>>  BY <1>6, RetrySteps
      <2>2. UNCHANGED <<ready, delivered>> /\ (timer' = timer \/ timer' = [timer EXCEPT !.reconnect = thread[t].gen])
            BY <1>6 DEF Retry
      <2>3. timer'.decoder = timer.decoder  BY <1>0, <2>2
      <2> QED  BY <2>1, <2>2, <2>3 DEF Times
<1>7. CASE NoData(t) \/ NextRound(t)
      <2>1. thread[t].todo \in {<<"NoData">>, <<"again">>} /\ thread'[t].todo = <<>>  BY <1>7, NextRoundSteps
      <2>2. <<"NoData">> \in Feeding /\ <<"again">> \in Feeding  BY OnePlan
      <2>3. UNCHANGED <<timer, delivered>>  BY <1>7 DEF NoData, NextRound
      <2> QED  BY <2>1, <2>2, <2>3 DEF Times
<1>8. CASE Rearm(t)
      <2>1. thread[t].todo = <<"rearm">> /\ thread'[t].todo = <<>>  BY <1>8, RearmSteps
      <2>2. UNCHANGED <<ready, delivered>>  BY <1>8 DEF Rearm
      <2>3. timer'.reconnect = timer.reconnect  BY <1>0, <1>8 DEF Rearm, ArmIf
      <2> QED  BY <2>1, <2>2, <2>3 DEF Times
<1>9. CASE \/ Open(t) \/ Refused(t) \/ Opened(t) \/ MarkRunning(t) \/ Stopped(t) \/ Connect(t)
           \/ Reopened(t) \/ Lost(t) \/ ReadLoop(t) \/ ReadStopped(t)
      BY <1>1, <1>9 DEF Open, Refused, Opened, MarkRunning, Stopped, Connect, Reopened, Lost, ReadLoop, ReadStopped
<1>10. CASE \/ ReadAnswered(t) \/ GotPacket(t) \/ Dispatch(t) \/ End(t) \/ Finished(t) \/ Push(t)
            \/ Decoder(t) \/ PopReady(t)
       BY <1>1, <1>10 DEF ReadAnswered, GotPacket, Dispatch, End, Finished, Push, Decoder, PopReady
<1>11. CASE Callback(t)  BY <1>2, <1>11 DEF Callback
<1>12. ~Watchdog(t)  BY NoWatchdog
<1> QED  BY <1>3, <1>4, <1>5, <1>6, <1>7, <1>8, <1>9, <1>10, <1>11, <1>12 DEF Steps

\* The buffer is filled, drained or cleared.
Clearing == {<<"run", "arm">>, <<"reopened">>, <<"hangUp", "retry">>, <<"halt", "stopped">>} \cup EndPlans
Clears(t) == jitter' = EmptyBuffer /\ thread[t].todo \in Clearing

\* ... and the buffer in this.
LEMMA ThreadClears ==
  ASSUME IInv, ~mode.watchdog, NEW t \in Threads, Steps(t) \/ ReadAnswered(t)
  PROVE  jitter' = jitter \/ Clears(t) \/ Push(t) \/ PopReady(t)
<1>1. CASE MarkRunning(t)  BY <1>1, MarkRunningSteps DEF MarkRunning, Clears, Clearing
<1>2. CASE Halt(t)  BY <1>2, HaltSteps DEF Halt, Clears, Clearing
<1>3. CASE Reopened(t)
      <2>1. thread[t].todo \in Clearing  BY <1>3, ReopenedSteps DEF Clearing
      <2> QED  BY <1>3, <2>1 DEF Reopened, Clears
<1>4. CASE HangUp(t)  BY <1>4, HangUpSteps DEF HangUp, Clears, Clearing
<1>5. CASE End(t)
      <2>1. thread[t].todo \in EndPlans
            <3>1. thread[t].todo \in {<<"end Stopped">>, <<"end EOS">>, <<"end FatalError">>}  BY <1>5, EndSteps
            <3> QED  BY <3>1, OneStep DEF Ends
      <2>2. jitter' = jitter \/ jitter' = EmptyBuffer  BY <1>5 DEF End
      <2> QED  BY <2>1, <2>2 DEF Clears, Clearing
<1>6. CASE \/ Open(t) \/ Refused(t) \/ Opened(t) \/ ArmAll(t) \/ Stopped(t) \/ Connect(t)
           \/ Lost(t) \/ Retry(t) \/ ReadLoop(t) \/ ReadStopped(t) \/ NoData(t) \/ NextRound(t)
      BY <1>6 DEF Open, Refused, Opened, ArmAll, Stopped, Connect, Lost, Retry, ReadLoop, ReadStopped, NoData,
                  NextRound
<1>7. CASE \/ ReadAnswered(t) \/ GotPacket(t) \/ Dispatch(t) \/ Callback(t) \/ Finished(t)
           \/ Decoder(t) \/ Rearm(t) \/ Watchdog(t)
      BY <1>7 DEF ReadAnswered, GotPacket, Dispatch, Callback, Finished, Decoder, Rearm, Watchdog
<1> QED  BY <1>1, <1>2, <1>3, <1>4, <1>5, <1>6, <1>7 DEF Steps

-----------------------------------------------------------------------------
(* The first connection of the first start: who there can be               *)

\* Who takes a step has one to take.
LEMMA NotIdle ==
  ASSUME NEW t \in Threads, Steps(t) \/ ReadAnswered(t)
  PROVE  thread[t].todo # <<>>
<1>1. CASE \/ Open(t) \/ Refused(t) \/ Opened(t) \/ MarkRunning(t) \/ ArmAll(t) \/ Halt(t) \/ Stopped(t)
           \/ Connect(t) \/ Reopened(t) \/ Lost(t) \/ HangUp(t) \/ Retry(t) \/ ReadLoop(t)
      BY <1>1 DEF Open, Refused, Opened, MarkRunning, ArmAll, Halt, Stopped, Connect, Reopened, Lost, HangUp,
                  Retry, ReadLoop, At, Idle
<1>2. CASE \/ ReadStopped(t) \/ NoData(t) \/ GotPacket(t) \/ Dispatch(t) \/ Callback(t) \/ NextRound(t)
           \/ End(t) \/ Finished(t) \/ Push(t) \/ Decoder(t) \/ PopReady(t) \/ Rearm(t) \/ Watchdog(t)
           \/ ReadAnswered(t)
      BY <1>2 DEF ReadStopped, NoData, GotPacket, Dispatch, Callback, NextRound, End, Finished, Push, Decoder,
                  PopReady, Rearm, Watchdog, ReadAnswered, At, Idle
<1> QED  BY <1>1, <1>2 DEF Steps

\* Before the second start and the first stop everything is of the first generation.
LEMMA EarlyAges ==
  ASSUME IInv, session.generation <= 1
  PROVE  /\ session.generation \in Nat
         /\ \A t \in Threads : thread[t].todo \notin StopPlans
         /\ \A t \in Threads : thread[t].todo # <<>> => thread[t].gen = 1 /\ session.generation = 1
         /\ \A i \in DOMAIN ready : ready[i].gen = 1
         /\ \A x \in Timers : timer[x] \in {0, 1}
<1>1. session.generation \in Nat  BY DEF IInv, Types, SessionRecord
<1>2. lastCall # "stop"  BY <1>1 DEF IInv, Ages
<1>3. Newest = session.generation  BY <1>2 DEF Newest
<1>4. \A t \in Threads : thread[t].todo \notin StopPlans  BY <1>1 DEF IInv, Ages
<1>5. \A t \in Threads : thread[t].todo # <<>> => thread[t].gen \in 1 .. session.generation
      BY <1>3, <1>4 DEF IInv, Ages
<1>6. /\ \A i \in DOMAIN ready : ready[i].gen \in 1 .. session.generation
      /\ \A x \in Timers : timer[x] \in 0 .. session.generation
      BY <1>3 DEF IInv, Ages
<1>7. \A n \in 1 .. session.generation : n = 1 /\ session.generation = 1  BY <1>1
<1>8. \A n \in 0 .. session.generation : n \in {0, 1}  BY <1>1
<1> QED  BY <1>1, <1>4, <1>5, <1>6, <1>7, <1>8

\* ... and there is one reader, or a handler that will read, or a wait for the next attempt.
LEMMA OneEarlyReader ==
  ASSUME IInv, ~mode.watchdog, session.generation <= 1
  PROVE  /\ \A t, u \in Threads : Reads(t) /\ Reads(u) => t = u
         /\ \A t \in Threads : Reads(t) => timer.reconnect = 0 /\ \A i \in DOMAIN ready : ~WillRead(ready[i])
<1>1. OneReader  BY DEF IInv
<1>2. \A t \in Threads : Reads(t) => thread[t].gen = 1  BY EarlyAges, Kinds DEF Reads
<1>3. "reconnect" \in Timers  BY DEF Timers
<1>4. timer.reconnect \in {0, 1} /\ \A i \in DOMAIN ready : ready[i].gen = 1  BY <1>3, EarlyAges
<1> QED  BY <1>1, <1>2, <1>4 DEF OneReader

\* A turn leaves the handlers there are, and may add one that reads.
LEMMA TurnHandlers ==
  ASSUME IInv, NEW t \in Threads, Turn(t)
  PROVE  \A i \in DOMAIN ready' : \/ i \in DOMAIN ready /\ ready'[i] = ready[i]
                                  \/ ready'[i].do = "read" /\ ready' # ready
<1>1. CASE ready' = ready  BY <1>1
<1>2. CASE ready' # ready
      <2>1. PICK h : h = Handler("read", thread[t].gen)  OBVIOUS
      <2>2. h \in [do : Timers \cup {"read"}, gen : Nat] /\ h.do = "read"  BY <2>1, ReadHandlerTyped DEF IInv
      <2>3. ready' = Append(ready, h)  BY <1>2, <2>1 DEF Turn, Posts
      <2>4. /\ ready'[Len(ready) + 1] = h
            /\ \A i \in DOMAIN ready : ready'[i] = ready[i]
            /\ \A i \in DOMAIN ready' : i \in DOMAIN ready \/ i = Len(ready) + 1
            BY <2>2, <2>3, TurnReady DEF IInv
      <2> QED  BY <1>2, <2>2, <2>4
<1> QED  BY <1>1, <1>2

\* What a step of a thread does to the order of delivery.
Moved(t) ==
  /\ Turn(t) /\ thread[t].todo # <<>> /\ Moves(t) /\ Opens(t) /\ Times(t)
  /\ jitter' = jitter \/ Clears(t) \/ Push(t) \/ PopReady(t)

\* Every step of a thread is one of these.
LEMMA ThreadMoved ==
  ASSUME IInv, ~mode.watchdog, NEW t \in Threads, Steps(t) \/ ReadAnswered(t)
  PROVE  Moved(t)
<1>1. Turn(t)
      BY OpenTurns, RefusedTurns, OpenedTurns, MarkRunningTurns, ArmAllTurns, HaltTurns, StoppedTurns,
         ConnectTurns, ReopenedTurns, LostTurns, HangUpTurns, RetryTurns, ReadLoopTurns, ReadStoppedTurns,
         ReadAnsweredTurns, NextRoundTurns, GotPacketTurns, DispatchTurns, CallbackTurns, EndTurns,
         FinishedTurns, PushTurns, DecoderTurns, PopReadyTurns, RearmTurns, WatchdogTurns
      DEF Steps
<1> QED  BY <1>1, NotIdle, ThreadMoves, ThreadOpens, ThreadTimes, ThreadClears DEF Moved

\* With the jitter buffer nobody delivers past it.
LEMMA MovedStraight ==
  ASSUME mode.jitter, NotStraight, NEW t \in Threads, Moved(t)
  PROVE  NotStraight'
BY DEF NotStraight, Moved, Turn, Same, Only, Moves

\* Before there was a connection.
LEMMA MovedFirst ==
  ASSUME IInv, ~mode.watchdog, AtFirst, NEW t \in Threads, Moved(t)
  PROVE  AtFirst'
<1>1. session'.generation = session.generation /\ session.generation \in Nat /\ puller.opens \in Nat
      BY DEF Moved, Turn, IInv, Types, SessionRecord, PullerRecord
<1>2. session.generation # 0
      <2> SUFFICES ASSUME session.generation = 0  PROVE FALSE
          OBVIOUS
      <2>1. session.generation <= 1  BY <1>1
      <2> QED  BY <2>1, EarlyAges DEF Moved
<1> SUFFICES ASSUME session'.generation <= 1, puller'.opens = 0
             PROVE  /\ delivered' = <<>> /\ jitter' = EmptyBuffer
                    /\ ready' = <<>> /\ timer'.decoder = 0 /\ timer'.reconnect = 0
                    /\ \A u \in Threads : thread'[u].todo \in {<<>>, <<"open">>, <<"refused">>}
    BY <1>1, <1>2 DEF AtFirst
<1>3. puller.opens = 0 /\ puller'.opens # puller.opens + 1  BY <1>1 DEF Moved, Opens
<1>4. /\ delivered = <<>> /\ jitter = EmptyBuffer
      /\ ready = <<>> /\ timer.decoder = 0 /\ timer.reconnect = 0
      /\ \A u \in Threads : thread[u].todo \in {<<>>, <<"open">>, <<"refused">>}
      BY <1>1, <1>3 DEF AtFirst
<1>5. \/ thread[t].todo = <<"open">> /\ thread'[t].todo = <<"refused">>
      \/ thread[t].todo = <<"refused">> /\ thread'[t].todo = <<>>
      BY <1>3, <1>4 DEF Moved, Opens
<1>6. /\ <<"refused">> \notin Feeding /\ <<"refused">> # <<>>
      /\ thread[t].todo \notin {<<"arm">>, <<"rearm">>} /\ thread[t].todo # <<"retry">>
      /\ thread[t].todo # <<"pop">> /\ thread[t].todo \notin {<<"push", "again">>}
      /\ thread[t].todo \notin {<<"callback", "again">>, <<"callback", "rearm">>}
      BY <1>5, OnePlan, DifferentPlans
<1>7. ready' = ready /\ timer'.decoder = 0 /\ timer'.reconnect = 0
      BY <1>4, <1>5, <1>6 DEF Moved, Times
<1>8. delivered' = delivered  BY <1>6, CallbackSteps DEF Moved, Times
<1>9. jitter' = EmptyBuffer  BY <1>4, <1>6, PushSteps, PopReadySteps DEF Moved, Clears
<1>10. \A u \in Threads : thread'[u].todo \in {<<>>, <<"open">>, <<"refused">>}
       BY <1>4, <1>5 DEF Moved, Turn, Same, Only
<1> QED  BY <1>4, <1>7, <1>8, <1>9, <1>10

-----------------------------------------------------------------------------
(* The first connection of the first start: a step of a thread             *)

\* Who empties the buffer.
LEMMA MovedDecoder ==
  ASSUME IInv, ~mode.watchdog, session.generation <= 1, NotStraight, OneDecoder, OneLife,
         NEW t \in Threads, Moved(t)
  PROVE  OneDecoder'
<1>0. \A u \in Threads : u # t => thread'[u] = thread[u]  BY DEF Moved, Turn, Same, Only
<1>1. \A u \in Threads : thread'[u].todo \in DecoderPlans => thread[u].todo \in DecoderPlans
      BY <1>0 DEF Moved, Moves
<1>2. \A i \in DOMAIN ready' : Pops(ready'[i]) => i \in DOMAIN ready /\ Pops(ready[i])
      BY TurnHandlers DEF Moved, Pops
<1>3. \A u \in Threads : thread'[u].todo \in Arming => thread[u].todo \in Arming
      BY <1>0 DEF Moved, Moves, OneLife
<1>4. <<"arm">> \in Arming /\ <<"rearm">> \in DecoderPlans  BY OnePlan, OneStep
<1>5. timer'.decoder # 0 =>
        /\ \A u \in Threads : thread'[u].todo \notin DecoderPlans
        /\ \A i \in DOMAIN ready' : ~Pops(ready'[i])
      <2>1. CASE timer'.decoder = timer.decoder  BY <1>1, <1>2, <2>1 DEF OneDecoder
      <2>2. CASE thread[t].todo = <<"arm">>
            BY <1>1, <1>2, <1>4, <2>2 DEF OneDecoder
      <2>3. CASE thread[t].todo = <<"rearm">> /\ thread'[t].todo = <<>>
            <3>1. \A u \in Threads : thread[u].todo \in DecoderPlans => u = t
                  BY <1>4, <2>3 DEF OneDecoder
            <3>2. \A i \in DOMAIN ready : ~Pops(ready[i])  BY <1>4, <2>3 DEF OneDecoder
            <3> QED  BY <1>1, <1>2, <2>3, <3>1, <3>2, NoStep
      <2> QED  BY <2>1, <2>2, <2>3 DEF Moved, Times
<1>6. ASSUME NEW u \in Threads, thread'[u].todo \in Arming
      PROVE  /\ delivered' = <<>> /\ timer'.decoder = 0
             /\ \A v \in Threads : thread'[v].todo \notin DecoderPlans
             /\ \A i \in DOMAIN ready' : ~Pops(ready'[i])
      <2>1. /\ thread[u].todo \in Arming /\ delivered = <<>> /\ timer.decoder = 0
            /\ \A v \in Threads : thread[v].todo \notin DecoderPlans
            /\ \A i \in DOMAIN ready : ~Pops(ready[i])
            BY <1>3, <1>6 DEF OneDecoder
      <2>2. delivered' = delivered
            <3> SUFFICES ASSUME Callback(t)  PROVE FALSE
                BY DEF Moved, Times
            <3>1. thread[t].todo \in {<<"callback", "again">>, <<"callback", "rearm">>}  BY CallbackSteps
            <3>2. <<"callback", "again">> \in Straight /\ <<"callback", "rearm">> \in DecoderPlans
                  BY TwoPlan, TwoSteps
            <3> QED  BY <2>1, <3>1, <3>2 DEF NotStraight
      <2>3. timer'.decoder = 0
            <3> SUFFICES ASSUME thread[t].todo \in {<<"arm">>, <<"rearm">>}, thread'[t].todo = <<>>
                         PROVE  FALSE
                BY <2>1 DEF Moved, Times
            <3>1. thread[t].todo = <<"arm">>  BY <1>4, <2>1
            <3>2. u # t  BY <1>6, NoPlan
            <3>3. Reads(t) /\ Reads(u)  BY <1>4, <2>1, <3>1, KindsOfPlans DEF Reads
            <3> QED  BY <3>2, <3>3, OneEarlyReader
      <2> QED  BY <1>1, <1>2, <2>1, <2>2, <2>3
<1> QED  BY <1>1, <1>2, <1>5, <1>6 DEF OneDecoder

\* Who reads.
LEMMA MovedLife ==
  ASSUME IInv, ~mode.watchdog, session.generation <= 1, puller'.opens <= 1, AtFirst, OneLife,
         NEW t \in Threads, Moved(t)
  PROVE  OneLife'
<1>0. \A u \in Threads : u # t => thread'[u] = thread[u]  BY DEF Moved, Turn, Same, Only
<1>1. thread'[t].todo # <<"reopened">>
      <2> SUFFICES ASSUME thread'[t].todo = <<"reopened">>  PROVE FALSE
          OBVIOUS
      <2>1. thread[t].todo = <<"reopen">> /\ puller'.opens = puller.opens + 1  BY DEF Moved, Moves, Opens
      <2>2. puller.opens = 0  BY <2>1 DEF IInv, Types, PullerRecord
      <2>3. thread[t].todo \in {<<>>, <<"open">>, <<"refused">>}  BY <2>2 DEF AtFirst
      <2> QED  BY <2>1, <2>3, DifferentPlans
<1>2. ASSUME NEW u \in Threads, thread'[u].todo \in EndPlans
      PROVE  /\ timer'.reconnect = 0
             /\ \A v \in Threads : ~Reads(v)'
             /\ \A i \in DOMAIN ready' : ~WillRead(ready'[i])
      <2>1. CASE thread[u].todo \in EndPlans
            <3>1. /\ timer.reconnect = 0 /\ \A v \in Threads : ~Reads(v)
                  /\ \A i \in DOMAIN ready : ~WillRead(ready[i])
                  BY <2>1 DEF OneLife
            <3>2. ~HandsOver(t)  BY <3>1 DEF HandsOver, Reads
            <3>3. timer'.reconnect = 0 /\ ready' = ready  BY <3>1, <3>2 DEF Moved, Turn
            <3>4. \A v \in Threads : ~Reads(v)'
                  BY <1>0, <3>1 DEF Reads, Moved, Turn, PlanGoesOn
            <3> QED  BY <3>1, <3>3, <3>4
      <2>2. CASE thread[u].todo \notin EndPlans
            <3>1. u = t /\ Reads(t)  BY <1>0, <1>2, <2>2 DEF Moved, Moves, Reads
            <3>2. timer.reconnect = 0 /\ \A i \in DOMAIN ready : ~WillRead(ready[i])
                  BY <3>1, OneEarlyReader
            <3>3. \A v \in Threads : Reads(v) => v = t  BY <3>1, OneEarlyReader
            <3>4. thread'[t].todo # <<>> /\ ~Reads(t)'  BY <1>2, <3>1, Kinds, NoStep DEF Reads
            <3>5. timer'.reconnect = 0 /\ ready' = ready  BY <3>2, <3>4 DEF Moved, Times
            <3>6. \A v \in Threads : ~Reads(v)'  BY <1>0, <3>3, <3>4 DEF Reads
            <3> QED  BY <3>2, <3>5, <3>6
      <2> QED  BY <2>1, <2>2
<1>3. \A u \in Threads : thread'[u].todo # <<"reopened">>  BY <1>0, <1>1 DEF OneLife
<1> QED  BY <1>2, <1>3 DEF OneLife, WillRead

\* What a thread has popped it goes on with, or it has just been popped.
LEMMA ThreadPops ==
  ASSUME IInv, NEW t \in Threads, Steps(t) \/ ReadAnswered(t), thread'[t].todo \in Popped, ~PopReady(t)
  PROVE  thread[t].todo \in Popped /\ thread'[t].packet = thread[t].packet
<1>1. \A s : thread'[t].todo # <<s>>  BY OnePlan
<1>2. thread'[t].todo # <<>>  BY NoPlan
<1>3. CASE Plainly(t) /\ Lets(t)
      <2>1. PICK steps : Goes(t, steps)  BY <1>3 DEF Plainly
      <2> QED  BY <1>2, <1>3, <2>1, GoesFields DEF Lets, IInv
<1>4. CASE \/ Refused(t) \/ Opened(t) \/ MarkRunning(t) \/ ArmAll(t) \/ Halt(t) \/ Stopped(t)
           \/ Connect(t) \/ Reopened(t) \/ Lost(t) \/ HangUp(t) \/ NoData(t) \/ NextRound(t)
           \/ ReadStopped(t) \/ (ReadAnswered(t) /\ puller' = puller) \/ GotPacket(t) \/ Dispatch(t)
           \/ End(t) \/ Finished(t) \/ Decoder(t) \/ Rearm(t) \/ Watchdog(t)
      <2>1. Plainly(t)  BY <1>4, PlainActions
      <2>2. puller'.packets = puller.packets  BY <2>1 DEF Plainly, Closed, IInv, Types, PullerRecord
      <2> QED  BY <1>3, <2>1, <2>2, PacketsLetGo
<1>5. CASE Open(t)  BY <1>1, <1>5, OpenSteps
<1>6. CASE Retry(t)  BY <1>2, <1>6, RetrySteps
<1>7. CASE ReadLoop(t)  BY <1>1, <1>2, <1>7, ReadLoopSteps
<1>8. CASE Callback(t)  BY <1>1, <1>8, CallbackSteps
<1>9. CASE Push(t)  BY <1>1, <1>9, PushSteps
<1>10. CASE ReadAnswered(t)  BY <1>1, <1>10, ReadAnsweredSteps
<1> QED  BY <1>4, <1>5, <1>6, <1>7, <1>8, <1>9, <1>10 DEF Steps

\* A buffer that is empty for good stays empty.
NoneFeeds ==
  /\ \A t \in Threads : thread[t].todo \notin Feeding
  /\ \A i \in DOMAIN ready : ~Reading(ready[i])

\* Who does not feed it does not begin to.
LEMMA MovedFeeds ==
  ASSUME IInv, OneLife, NoneFeeds, NEW t \in Threads, Moved(t)
  PROVE  NoneFeeds'
<1>0. \A u \in Threads : u # t => thread'[u] = thread[u]  BY DEF Moved, Turn, Same, Only
<1>1. thread'[t].todo \notin Feeding  BY DEF Moved, Moves, OneLife, NoneFeeds
<1>2. ready' = ready  BY DEF Moved, Times, NoneFeeds
<1> QED  BY <1>0, <1>1, <1>2 DEF NoneFeeds

\* Stamps are naturals.
LEMMA StampsHere ==
  ASSUME IInv, Bounded
  PROVE  /\ jitter.last \in Nat
         /\ \A i \in DOMAIN delivered : delivered[i].stamp \in Nat
         /\ \A i \in DOMAIN jitter.reorder : jitter.reorder[i].stamp \in Nat
         /\ delivered \in Seq(Packets) /\ jitter.reorder \in Seq(Packets)
<1>1. mode \in Modes  BY DEF IInv, Types
<1>2. /\ jitter.last \in Stamps \cup {0} /\ delivered \in Seq(Packets)
      /\ jitter.reorder \in Seq(Packets)
      <2>1. PICK S : S = Seq(Packets)  OBVIOUS
      <2>2. jitter \in [incoming : S, reorder : S, last : Stamps \cup {0}]  BY <2>1 DEF Bounded
      <2> QED  BY <2>1, <2>2 DEF Bounded
<1>3. \A p \in Packets : p.stamp \in Nat  BY <1>1, PacketsTyped
<1>4. \A s \in Seq(Packets) : \A i \in DOMAIN s : s[i] \in Packets  OBVIOUS
<1> QED  BY <1>2, <1>3, <1>4, StampsTyped

\* The callback is given what was popped last.
LEMMA CallbackReleases ==
  ASSUME IInv, Bounded, Apart, NotStraight, OneDecoder, OneLife, Released,
         NEW t \in Threads, Moved(t), Callback(t)
  PROVE  Released'
<1>0. \A u \in Threads : u # t => thread'[u] = thread[u]  BY DEF Moved, Turn, Same, Only
<1>1. thread[t].todo = <<"callback", "rearm">> /\ thread'[t].todo = <<"rearm">>
      <2>1. <<"callback", "again">> \in Straight  BY TwoPlan
      <2> QED  BY <2>1, CallbackSteps DEF NotStraight
<1>2. thread[t].todo \in Popped /\ thread[t].todo \in DecoderPlans  BY <1>1, TwoPlan, TwoSteps
<1>3. \A u \in Threads : thread'[u].todo \notin Popped
      <2> SUFFICES ASSUME NEW u \in Threads, thread'[u].todo \in Popped  PROVE FALSE
          OBVIOUS
      <2>1. u # t  BY <1>1, OnePlan
      <2>2. thread[u].todo \in DecoderPlans  BY <1>0, <2>1, KindsOfPlans
      <2> QED  BY <1>2, <2>1, <2>2 DEF OneDecoder
<1>4. Holds(t)  BY <1>2, KindsOfPlans DEF Holds
<1>5. PICK p \in Packets : p = thread[t].packet  BY <1>4 DEF Apart
<1>6. PICK d \in Seq(Packets) : d = delivered  BY DEF Bounded
<1>7. PICK r : r = delivered'  OBVIOUS
<1>8. r = Append(d, p)  BY <1>5, <1>6, <1>7 DEF Callback
<1>9. /\ DOMAIN r = 1 .. (Len(d) + 1) /\ DOMAIN d = 1 .. Len(d) /\ Len(d) \in Nat
      /\ r[Len(d) + 1] = p /\ \A i \in DOMAIN d : r[i] = d[i]
      /\ \A i \in DOMAIN r : i \in DOMAIN d \/ i = Len(d) + 1
      BY <1>8
<1>10. jitter' = jitter  BY DEF Callback
<1>11. \A i, j \in DOMAIN r : i < j => r[i].stamp <= r[j].stamp
       <2> SUFFICES ASSUME NEW i \in DOMAIN r, NEW j \in DOMAIN r, i < j
                    PROVE  r[i].stamp <= r[j].stamp
           OBVIOUS
       <2>1. i \in DOMAIN d /\ r[i] = d[i]  BY <1>9
       <2>2. CASE j \in DOMAIN d  BY <1>6, <1>9, <2>1, <2>2 DEF Released
       <2>3. CASE j = Len(d) + 1  BY <1>2, <1>5, <1>6, <1>9, <2>1, <2>3 DEF Released
       <2> QED  BY <1>9, <2>2, <2>3
<1>12. CASE RunDry
       <2>1. NoneFeeds'  BY <1>12, MovedFeeds DEF RunDry, NoneFeeds
       <2> QED  BY <1>3, <1>7, <1>10, <1>11, <1>12, <2>1 DEF Released, RunDry, NoneFeeds
<1>13. CASE InStep
       <2>1. \A i \in DOMAIN r : r[i].stamp <= jitter.last
             BY <1>2, <1>5, <1>6, <1>9, <1>13 DEF InStep
       <2>2. InStep'  BY <1>3, <1>7, <1>10, <1>13, <2>1 DEF InStep
       <2> QED  BY <1>3, <1>7, <1>11, <2>2 DEF Released
<1> QED  BY <1>12, <1>13 DEF Released

\* The oldest packet of the buffer is popped.
LEMMA PopReleases ==
  ASSUME IInv, Bounded, Apart, OneDecoder, OneLife, Released, NEW t \in Threads, Moved(t), PopReady(t)
  PROVE  Released'
<1>0. \A u \in Threads : u # t => thread'[u] = thread[u]  BY DEF Moved, Turn, Same, Only
<1>1. delivered' = delivered /\ mode \in Modes /\ (Drained(t) \/ Taken(t))
      BY PopReadyCases DEF IInv, Types
<1>2. thread[t].todo \in DecoderPlans
      <2>1. thread[t].todo = <<"pop">>  BY PopReadySteps
      <2> QED  BY <2>1, OneStep
<1>3. \A u \in Threads : thread'[u].todo \in Popped => u = t
      <2> SUFFICES ASSUME NEW u \in Threads, thread'[u].todo \in Popped, u # t  PROVE FALSE
          OBVIOUS
      <2>1. thread[u].todo \in DecoderPlans  BY <1>0, KindsOfPlans
      <2> QED  BY <1>2, <2>1 DEF OneDecoder
<1>4. PICK b : b = DrainIncoming  OBVIOUS
<1>5. /\ InStep => \A i \in DOMAIN b : jitter.last <= b[i].stamp
      /\ RunDry => b = <<>>
      BY <1>1, <1>4, DrainedPackets DEF InStep, RunDry
<1>6. CASE Drained(t)
      <2>1. jitter'.incoming = <<>> /\ jitter'.reorder = b /\ jitter'.last = jitter.last
            <3>1. jitter' = [jitter EXCEPT !.incoming = <<>>, !.reorder = b]  BY <1>4, <1>6 DEF Drained
            <3>2. PICK S : S = Seq(Packets)  OBVIOUS
            <3>3. jitter \in [incoming : S, reorder : S, last : Stamps \cup {0}]  BY <3>2 DEF Bounded
            <3> QED  BY <3>1, <3>3
      <2>2. thread'[t].todo \notin Popped
            <3>1. Goes(t, <<"rearm">>) /\ thread[t].todo = <<"pop">>  BY <1>6, PopReadySteps DEF Drained
            <3>2. thread'[t].todo = <<"rearm">>  BY <3>1, GoesFromOne DEF IInv
            <3> QED  BY <3>2, OnePlan
      <2>3. \A u \in Threads : thread'[u].todo \notin Popped  BY <1>3, <2>2
      <2>4. CASE RunDry
            <3>1. NoneFeeds'  BY <2>4, MovedFeeds DEF RunDry, NoneFeeds
            <3> QED  BY <1>1, <1>5, <2>1, <2>3, <2>4, <3>1 DEF Released, RunDry, NoneFeeds
      <2>5. CASE InStep
            <3>1. InStep'  BY <1>1, <1>5, <2>1, <2>3, <2>5 DEF InStep
            <3> QED  BY <1>1, <2>3, <3>1 DEF Released
      <2> QED  BY <2>4, <2>5 DEF Released
<1>7. CASE Taken(t)
      <2>1. PICK p \in Packets :
              /\ \E i \in DOMAIN b : p = b[i]
              /\ jitter'.last = p.stamp
              /\ \A i \in DOMAIN jitter'.reorder : p.stamp <= jitter'.reorder[i].stamp
              /\ thread'[t].packet = p
            BY <1>4, <1>7, TakenPacket
      <2>2. InStep  BY <1>4, <1>5, <1>7 DEF Released, Taken
      <2>3. jitter.last <= p.stamp  BY <1>5, <2>1, <2>2
      <2>4. jitter.last \in Nat /\ p.stamp \in Nat /\ \A i \in DOMAIN delivered : delivered[i].stamp \in Nat
            BY <1>1, StampsHere, PacketsTyped
      <2>5. \A i \in DOMAIN delivered : delivered[i].stamp <= p.stamp  BY <2>2, <2>3, <2>4 DEF InStep
      <2>6. InStep'
            <3>1. \A u \in Threads : thread'[u].todo \in Popped => thread'[u].packet.stamp <= jitter'.last
                  BY <1>3, <2>1, <2>4
            <3> QED  BY <1>1, <2>1, <2>5, <3>1 DEF InStep
      <2> QED  BY <1>1, <1>3, <2>1, <2>5, <2>6 DEF Released
<1> QED  BY <1>1, <1>6, <1>7

\* The other steps deliver nothing and pop nothing.
LEMMA ClearReleases ==
  ASSUME IInv, ~mode.watchdog, session.generation <= 1, OneDecoder, OneLife,
         NEW t \in Threads, Moved(t), Clears(t), delivered' = delivered,
         \A u \in Threads : thread'[u].todo \in Popped => thread[u].todo \in Popped
  PROVE  RunDry' \/ InStep'
<1>0. \A u \in Threads : u # t => thread'[u] = thread[u]  BY DEF Moved, Turn, Same, Only
<1>1. jitter'.incoming = <<>> /\ jitter'.reorder = <<>>  BY EmptyBufferFields DEF Clears
<1>2. CASE thread[t].todo = <<"run", "arm">>
      <2>1. thread[t].todo \in Arming  BY <1>2, TwoPlan
      <2>2. delivered = <<>> /\ \A u \in Threads : thread[u].todo \notin DecoderPlans
            BY <2>1 DEF OneDecoder
      <2>3. \A u \in Threads : thread'[u].todo \notin Popped  BY <2>2, KindsOfPlans
      <2> QED  BY <1>1, <2>2, <2>3 DEF InStep
<1>3. ASSUME NoneFeeds  PROVE RunDry'
      <2>1. NoneFeeds'  BY <1>3, MovedFeeds
      <2> QED  BY <1>1, <2>1 DEF RunDry, NoneFeeds
<1>4. \A p \in Feeding : p \in ReaderPlans  BY KindsOfPlans
<1>5. CASE thread[t].todo = <<"hangUp", "retry">>
      <2>1. Reads(t) /\ thread[t].todo \notin Feeding  BY <1>5, TwoSteps, TwoPlan DEF Reads, Delivering
      <2>2. NoneFeeds  BY <1>4, <2>1, OneEarlyReader DEF NoneFeeds, Reads, WillRead, Reading
      <2> QED  BY <1>3, <2>2
<1>6. CASE thread[t].todo \in EndPlans
      <2>1. NoneFeeds  BY <1>4, <1>6 DEF NoneFeeds, OneLife, Reads, WillRead, Reading
      <2> QED  BY <1>3, <2>1
<1>7. thread[t].todo # <<"reopened">> /\ thread[t].todo # <<"halt", "stopped">>
      <2>1. <<"halt", "stopped">> \in StopPlans  BY DEF StopPlans
      <2> QED  BY <2>1, EarlyAges DEF OneLife
<1> QED  BY <1>2, <1>5, <1>6, <1>7 DEF Clears, Clearing

\* A step of a thread keeps the stamps in order.
LEMMA MovedReleases ==
  ASSUME IInv, Bounded, Apart, ~mode.watchdog, session.generation <= 1, NotStraight, OneDecoder, OneLife,
         Released, NEW t \in Threads, Steps(t) \/ ReadAnswered(t), Moved(t)
  PROVE  Released'
<1>0. \A u \in Threads : u # t => thread'[u] = thread[u]  BY DEF Moved, Turn, Same, Only
<1>1. CASE Callback(t)  BY <1>1, CallbackReleases
<1>2. CASE PopReady(t)  BY <1>2, PopReleases
<1>3. CASE ~Callback(t) /\ ~PopReady(t)
      <2>1. delivered' = delivered  BY <1>3 DEF Moved, Times
      <2>2. \A u \in Threads : thread'[u].todo \in Popped =>
              thread[u].todo \in Popped /\ thread'[u].packet = thread[u].packet
            BY <1>0, <1>3, ThreadPops
      <2>3. RunDry' \/ InStep'
            <3>1. CASE Clears(t)  BY <2>1, <2>2, <3>1, ClearReleases
            <3>2. CASE InStep /\ jitter'.reorder = jitter.reorder /\ jitter'.last = jitter.last
                  BY <2>1, <2>2, <3>2 DEF InStep
            <3>3. CASE RunDry /\ jitter' = jitter
                  <4>1. NoneFeeds'  BY <3>3, MovedFeeds DEF RunDry, NoneFeeds
                  <4> QED  BY <3>3, <4>1 DEF RunDry, NoneFeeds
            <3>4. CASE Push(t)
                  <4>1. thread[t].todo = <<"push", "again">>  BY <3>4, PushSteps
                  <4>2. thread[t].todo \in Feeding  BY <4>1, TwoPlan DEF Delivering
                  <4>3. InStep  BY <4>2 DEF Released, RunDry
                  <4>4. jitter'.reorder = jitter.reorder /\ jitter'.last = jitter.last
                        <5>1. PICK S : S = Seq(Packets)  OBVIOUS
                        <5>2. jitter \in [incoming : S, reorder : S, last : Stamps \cup {0}]
                              BY <5>1 DEF Bounded
                        <5>3. PICK q : q = Append(jitter.incoming, thread[t].packet)  OBVIOUS
                        <5>4. jitter' = jitter \/ jitter' = [jitter EXCEPT !.incoming = q]
                              BY <3>4, <5>3 DEF Push
                        <5> QED  BY <5>2, <5>4
                  <4> QED  BY <3>2, <4>3, <4>4
            <3> QED  BY <1>3, <3>1, <3>2, <3>3, <3>4 DEF Moved, Released
      <2> QED  BY <2>1, <2>2, <2>3 DEF Released
<1> QED  BY <1>1, <1>2, <1>3

\* A step of a thread keeps all of the order with the jitter buffer.
LEMMA ThreadOrderly ==
  ASSUME IInv, Bounded, Apart, ~mode.watchdog, mode.jitter, Orderly,
         NEW t \in Threads, Steps(t) \/ ReadAnswered(t)
  PROVE  Orderly'
<1>1. Moved(t)  BY ThreadMoved
<1>2. NotStraight' /\ AtFirst'  BY <1>1, MovedStraight, MovedFirst DEF Orderly
<1>3. ASSUME Early'  PROVE OneDecoder' /\ OneLife' /\ Released'
      <2>1. session'.generation = session.generation /\ puller.opens \in Nat
            /\ puller'.opens \in {puller.opens, puller.opens + 1}
            BY <1>1 DEF Moved, Turn, Opens, IInv, Types, PullerRecord
      <2>2. session.generation <= 1 /\ puller.opens <= 1 /\ puller'.opens <= 1  BY <1>3, <2>1 DEF Early
      <2>3. NotStraight /\ AtFirst /\ OneDecoder /\ OneLife /\ Released  BY <2>2 DEF Orderly, Early
      <2> QED  BY <1>1, <2>2, <2>3, MovedDecoder, MovedLife, MovedReleases
<1> QED  BY <1>2, <1>3 DEF Orderly

-----------------------------------------------------------------------------
(* The first connection of the first start: timers, the io_context and the *)
(* callers                                                                 *)

\* A wait that is over, ...
LEMMA ExpireOrderly ==
  ASSUME IInv, ~mode.watchdog, Orderly, NEW x \in Timers, Expire(x)
  PROVE  Orderly'
<1>1. /\ UNCHANGED <<mode, session, puller, jitter, thread, delivered>> /\ timer[x] # 0
      /\ timer' = [timer EXCEPT ![x] = 0]
      BY DEF Expire
<1>2. x \in {"decoder", "reconnect"} /\ timer \in [Timers -> Nat]
      BY <1>1 DEF IInv, Types, TimersWanted, Wanted, Timers
<1>3. /\ timer'[x] = 0 /\ \A y \in Timers : timer'[y] \in {0, timer[y]}
      BY <1>1, <1>2
<1>4. PICK h : h = [do |-> x, gen |-> timer[x]]  OBVIOUS
<1>5. h \in [do : Timers \cup {"read"}, gen : Nat] /\ h.do = x /\ h = Handler(x, timer[x])
      BY <1>2, <1>4 DEF Handler
<1>6. ready' = Append(ready, h)  BY <1>5 DEF Expire, Post
<1>7. \A i \in DOMAIN ready' : (i \in DOMAIN ready /\ ready'[i] = ready[i]) \/ (i = Len(ready) + 1 /\ ready'[i] = h)
      BY <1>5, <1>6, TurnReady DEF IInv
<1>8. NotStraight'  BY <1>1 DEF Orderly, NotStraight
<1>9. ~(session.generation <= 1 /\ puller.opens = 0)  BY <1>1, <1>2 DEF Orderly, AtFirst
<1>10. AtFirst'  BY <1>1, <1>9 DEF Orderly, AtFirst
<1>11. ASSUME Early  PROVE OneDecoder' /\ OneLife' /\ Released'
       <2>1. OneDecoder /\ OneLife /\ Released  BY <1>11 DEF Orderly
       <2>2. x = "decoder" =>
               /\ \A i \in DOMAIN ready : ~Pops(ready[i])
               /\ \A t \in Threads : thread[t].todo \notin DecoderPlans /\ thread[t].todo \notin Arming
             BY <1>1, <2>1 DEF OneDecoder
       <2>3. Pops(h) <=> x = "decoder"  BY <1>5 DEF Pops
       <2>4. timer'["decoder"] # 0 => timer["decoder"] # 0 /\ x # "decoder"  BY <1>3 DEF Timers
       <2>5. OneDecoder'
             <3>1. \A i, j \in DOMAIN ready' : Pops(ready'[i]) /\ Pops(ready'[j]) => i = j
                   BY <1>7, <2>1, <2>2, <2>3 DEF OneDecoder
             <3>2. \A t \in Threads : thread[t].todo \in DecoderPlans => \A i \in DOMAIN ready' : ~Pops(ready'[i])
                   BY <1>7, <2>1, <2>2, <2>3 DEF OneDecoder
             <3>3. timer'["decoder"] # 0 => /\ \A t \in Threads : thread[t].todo \notin DecoderPlans
                                            /\ \A i \in DOMAIN ready' : ~Pops(ready'[i])
                   BY <1>7, <2>1, <2>3, <2>4 DEF OneDecoder
             <3>4. \A t \in Threads : thread[t].todo \in Arming =>
                     timer'["decoder"] = 0 /\ \A i \in DOMAIN ready' : ~Pops(ready'[i])
                   BY <1>7, <2>1, <2>2, <2>3, <2>4 DEF OneDecoder
             <3> QED  BY <1>1, <2>1, <3>1, <3>2, <3>3, <3>4 DEF OneDecoder, Pops
       <2>6. OneLife'
             <3>1. WillRead(h) => x = "reconnect"  BY <1>2, <1>5 DEF WillRead
             <3>2. timer'["reconnect"] \in {0, timer["reconnect"]}  BY <1>3 DEF Timers
             <3>3. ASSUME NEW t \in Threads, thread[t].todo \in EndPlans
                   PROVE  /\ timer'["reconnect"] = 0 /\ \A u \in Threads : ~Reads(u)
                          /\ \A i \in DOMAIN ready' : ~WillRead(ready'[i])
                   <4>1. /\ timer["reconnect"] = 0 /\ \A u \in Threads : ~Reads(u)
                         /\ \A i \in DOMAIN ready : ~WillRead(ready[i])
                         BY <2>1, <3>3 DEF OneLife
                   <4>2. ~WillRead(h)  BY <1>1, <3>1, <4>1
                   <4> QED  BY <1>7, <3>2, <4>1, <4>2
             <3> QED  BY <1>1, <2>1, <3>3 DEF OneLife, Reads, WillRead
       <2>7. Released'
             <3>1. ASSUME RunDry  PROVE RunDry'
                   <4>1. ~Reading(h)  BY <1>2, <1>5 DEF Reading
                   <4>2. \A i \in DOMAIN ready' : ~Reading(ready'[i])  BY <1>7, <3>1, <4>1 DEF RunDry
                   <4> QED  BY <1>1, <3>1, <4>2 DEF RunDry, Reading
             <3>2. InStep => InStep'  BY <1>1 DEF InStep
             <3> QED  BY <1>1, <2>1, <3>1, <3>2 DEF Released
       <2> QED  BY <2>5, <2>6, <2>7
<1> QED  BY <1>1, <1>8, <1>10, <1>11 DEF Orderly, Early

\* ... a handler that is run, ...
LEMMA RunOrderly ==
  ASSUME IInv, ~mode.watchdog, Orderly, NEW t \in Threads, Run(t)
  PROVE  Orderly'
<1>1. PICK h \in [do : Timers \cup {"read"}, gen : Nat] :
        /\ h = ready[1] /\ 1 \in DOMAIN ready /\ thread[t].todo = <<>>
        /\ Only(t) /\ thread'[t].todo = <<h.do>>
        /\ \A i \in DOMAIN ready' : i \in Int /\ i + 1 \in DOMAIN ready /\ i + 1 # 1 /\ ready'[i] = ready[i + 1]
      BY RunFirst
<1>2. UNCHANGED <<mode, session, puller, jitter, timer, delivered>> /\ ready # <<>>  BY DEF Run
<1>3. \A u \in Threads : u # t => thread'[u] = thread[u]  BY <1>1 DEF Only
<1>4. h.do \in {"reconnect", "watchdog", "decoder", "read"}  BY DEF Timers
<1>5. /\ thread'[t].todo \notin Straight /\ thread'[t].todo \notin Popped /\ thread'[t].todo \notin Arming
      /\ thread'[t].todo # <<"reopened">>
      /\ thread'[t].todo \in Feeding => Reading(h)
      BY <1>1, <1>4, OnePlan, DifferentPlans DEF Reading
<1>6. /\ thread'[t].todo \in DecoderPlans => Pops(h)
      /\ thread'[t].todo \notin EndPlans
      /\ thread'[t].todo \in ReaderPlans => WillRead(h)
      <2>1. <<h.do>> \in DecoderPlans => h.do = "decoder"  BY <1>4, OneStep
      <2>2. <<h.do>> \notin EndPlans  BY <1>4, OneStep DEF Ends
      <2>3. <<h.do>> \in ReaderPlans => h.do \in {"read", "reconnect"}  BY <1>4, OneStep DEF ReaderOnes
      <2> QED  BY <1>1, <2>1, <2>2, <2>3 DEF Pops, WillRead
<1>7. NotStraight'  BY <1>3, <1>5 DEF Orderly, NotStraight
<1>8. ~(session.generation <= 1 /\ puller.opens = 0)  BY <1>2 DEF Orderly, AtFirst
<1>9. AtFirst'  BY <1>2, <1>8 DEF Orderly, AtFirst
<1>10. ASSUME Early  PROVE OneDecoder' /\ OneLife' /\ Released'
       <2>1. OneDecoder /\ OneLife /\ Released  BY <1>10 DEF Orderly
       <2>2. OneDecoder'
             <3>1. \A u, v \in Threads : thread'[u].todo \in DecoderPlans /\ thread'[v].todo \in DecoderPlans => u = v
                   BY <1>1, <1>3, <1>6, <2>1 DEF OneDecoder
             <3>2. \A i, j \in DOMAIN ready' : Pops(ready'[i]) /\ Pops(ready'[j]) => i = j
                   <4> SUFFICES ASSUME NEW i \in DOMAIN ready', NEW j \in DOMAIN ready',
                                       Pops(ready'[i]), Pops(ready'[j])
                                PROVE  i = j
                       OBVIOUS
                   <4>1. i + 1 = j + 1  BY <1>1, <2>1 DEF OneDecoder
                   <4> QED  BY <1>1, <4>1
             <3>3. \A u \in Threads : thread'[u].todo \in DecoderPlans => \A i \in DOMAIN ready' : ~Pops(ready'[i])
                   <4> SUFFICES ASSUME NEW u \in Threads, thread'[u].todo \in DecoderPlans,
                                       NEW i \in DOMAIN ready', Pops(ready'[i])
                                PROVE  FALSE
                       OBVIOUS
                   <4>1. i + 1 \in DOMAIN ready /\ i + 1 # 1 /\ Pops(ready[i + 1])  BY <1>1
                   <4>2. CASE u = t  BY <1>1, <1>6, <2>1, <4>1, <4>2 DEF OneDecoder
                   <4>3. CASE u # t  BY <1>3, <2>1, <4>1, <4>3 DEF OneDecoder
                   <4> QED  BY <4>2, <4>3
             <3>4. timer.decoder # 0 => /\ \A u \in Threads : thread'[u].todo \notin DecoderPlans
                                        /\ \A i \in DOMAIN ready' : ~Pops(ready'[i])
                   BY <1>1, <1>3, <1>6, <2>1 DEF OneDecoder
             <3>5. ASSUME NEW u \in Threads, thread'[u].todo \in Arming
                   PROVE  /\ delivered = <<>> /\ timer.decoder = 0
                          /\ \A v \in Threads : thread'[v].todo \notin DecoderPlans
                          /\ \A i \in DOMAIN ready' : ~Pops(ready'[i])
                   <4>1. thread[u].todo \in Arming  BY <1>3, <1>5, <3>5
                   <4> QED  BY <1>1, <1>3, <1>6, <2>1, <4>1 DEF OneDecoder
             <3> QED  BY <1>2, <3>1, <3>2, <3>3, <3>4, <3>5 DEF OneDecoder, Pops
       <2>3. OneLife'
             <3>1. ASSUME NEW u \in Threads, thread'[u].todo \in EndPlans
                   PROVE  /\ timer.reconnect = 0 /\ \A v \in Threads : ~Reads(v)'
                          /\ \A i \in DOMAIN ready' : ~WillRead(ready'[i])
                   <4>1. thread[u].todo \in EndPlans  BY <1>3, <1>6, <3>1
                   <4>2. /\ timer.reconnect = 0 /\ \A v \in Threads : ~Reads(v)
                         /\ \A i \in DOMAIN ready : ~WillRead(ready[i])
                         BY <2>1, <4>1 DEF OneLife
                   <4> QED  BY <1>1, <1>3, <1>6, <4>2 DEF Reads
             <3> QED  BY <1>2, <1>3, <1>5, <2>1, <3>1 DEF OneLife, WillRead
       <2>4. Released'
             <3>1. \A u \in Threads : thread'[u].todo \in Popped =>
                     thread[u].todo \in Popped /\ thread'[u].packet = thread[u].packet
                   BY <1>3, <1>5
             <3>2. ASSUME RunDry  PROVE RunDry'
                   <4>1. ~Reading(h) /\ \A i \in DOMAIN ready' : ~Reading(ready'[i])  BY <1>1, <3>2 DEF RunDry
                   <4>2. \A u \in Threads : thread'[u].todo \notin Feeding  BY <1>3, <1>5, <3>2, <4>1 DEF RunDry
                   <4> QED  BY <1>2, <3>2, <4>1, <4>2 DEF RunDry, Reading
             <3>3. InStep => InStep'  BY <1>2, <3>1 DEF InStep
             <3> QED  BY <1>2, <2>1, <3>1, <3>2, <3>3 DEF Released
       <2> QED  BY <2>2, <2>3, <2>4
<1> QED  BY <1>2, <1>7, <1>9, <1>10 DEF Orderly, Early

\* ... a Start, which is the first or comes after a Stop, ...
LEMMA StartOrderly ==
  ASSUME IInv, Orderly, NEW t \in Threads, Start(t)
  PROVE  Orderly'
<1>1. PICK n \in Nat : n = session.generation  BY DEF IInv, Types, SessionRecord
<1>2. PICK g \in Nat : g = n + 1  OBVIOUS
<1>3. UNCHANGED <<mode, puller, jitter, timer, ready, delivered>> /\ session'.generation = g
      BY <1>1, <1>2 DEF Start, IInv, Types, SessionRecord
<1>4. Only(t) /\ thread'[t].todo = <<"open">>
      <2>1. thread' = [thread EXCEPT ![t].todo = <<"open">>, ![t].gen = g]  BY <1>1, <1>2 DEF Start
      <2>2. DOMAIN thread = Threads /\ Fields(thread[t])  BY DEF IInv, Types
      <2> QED  BY <2>1, <2>2 DEF Only, Fields
<1>5. \A u \in Threads : u # t => thread'[u] = thread[u]  BY <1>4 DEF Only
<1>6. NotStraight'  BY <1>4, <1>5, OnePlan DEF Orderly, NotStraight
<1>7. CASE n # 0
      <2>1. ~(g = 0) /\ ~(g <= 1)  BY <1>2, <1>7
      <2> QED  BY <1>3, <1>6, <2>1 DEF Orderly, AtFirst, Early
<1>8. CASE n = 0
      <2>1. puller.opens = 0 /\ session.generation <= 1  BY <1>1, <1>8 DEF Orderly, AtFirst
      <2>2. /\ delivered = <<>> /\ jitter = EmptyBuffer
            /\ ready = <<>> /\ timer.decoder = 0 /\ timer.reconnect = 0
            BY <2>1 DEF Orderly, AtFirst
      <2>3. \A u \in Threads : thread[u].todo = <<>>  BY <1>1, <1>8, <2>1, EarlyAges
      <2>4. \A u \in Threads : thread'[u].todo \in {<<>>, <<"open">>}  BY <1>4, <1>5, <2>3
      <2>5. AtFirst'  BY <1>2, <1>3, <1>8, <2>2, <2>4 DEF AtFirst
      <2>6. \A u \in Threads : /\ thread'[u].todo \notin DecoderPlans /\ thread'[u].todo \notin EndPlans
                               /\ thread'[u].todo # <<"reopened">> /\ thread'[u].todo \notin Popped
            <3>1. <<"open">> \notin DecoderPlans /\ <<"open">> \notin EndPlans
                  <4>1. <<"open">> \in ReaderPlans  BY OneStep DEF ReaderOnes
                  <4> QED  BY <4>1, Kinds
            <3>2. <<"open">> # <<"reopened">> /\ <<>> # <<"reopened">>  BY DifferentPlans, Tails
            <3> QED  BY <2>4, <3>1, <3>2, NoStep, NoPlan, KindsOfPlans
      <2>7. DOMAIN ready' = {} /\ DOMAIN delivered' = {} /\ jitter' = EmptyBuffer /\ DOMAIN jitter'.reorder = {}
            BY <1>3, <2>2, EmptyBufferFields
      <2>8. OneDecoder' /\ OneLife'  BY <1>3, <2>2, <2>6, <2>7 DEF OneDecoder, OneLife
      <2>9. Released'  BY <2>6, <2>7 DEF Released, InStep
      <2> QED  BY <1>6, <2>5, <2>8, <2>9 DEF Orderly
<1> QED  BY <1>7, <1>8

\* ... a Stop, which ends the first start, ...
LEMMA StopOrderly ==
  ASSUME IInv, Orderly, NEW t \in Threads, Stop(t)
  PROVE  Orderly'
<1>1. PICK n \in Nat : n = session.generation /\ n >= 1
      <2>1. session.state # "IDLE"  BY DEF Stop
      <2> QED  BY <2>1 DEF IInv, Types, SessionRecord, Ages
<1>2. session'.generation = n + 1  BY <1>1 DEF Stop, IInv, Types, SessionRecord
<1>3. Only(t) /\ thread'[t].todo = <<"halt", "stopped">>
      <2>1. thread' = [thread EXCEPT ![t].todo = <<"halt", "stopped">>]  BY DEF Stop
      <2>2. DOMAIN thread = Threads /\ Fields(thread[t])  BY DEF IInv, Types
      <2> QED  BY <2>1, <2>2 DEF Only, Fields
<1>4. NotStraight'
      <2>1. thread'[t].todo \notin Straight  BY <1>3, TwoPlan
      <2> QED  BY <1>3, <2>1 DEF Only, Orderly, NotStraight
<1>5. ~(n + 1 = 0) /\ ~(n + 1 <= 1)  BY <1>1
<1> QED  BY <1>2, <1>4, <1>5 DEF Orderly, AtFirst, Early

\* ... and a step of nobody keep it.
LEMMA StutterOrderly ==
  ASSUME Orderly, UNCHANGED vars
  PROVE  Orderly'
<1>1. UNCHANGED <<mode, session, puller, jitter, timer, ready, thread, delivered>>  BY DEF vars
<1>2. NotStraight' /\ AtFirst'  BY <1>1 DEF Orderly, NotStraight, AtFirst
<1>3. ASSUME Early  PROVE OneDecoder' /\ OneLife' /\ Released'
      <2>1. OneDecoder /\ OneLife /\ Released  BY <1>3 DEF Orderly
      <2>2. OneDecoder'  BY <1>1, <2>1 DEF OneDecoder, Pops
      <2>3. OneLife'  BY <1>1, <2>1 DEF OneLife, Reads, WillRead
      <2>4. Released'  BY <1>1, <2>1 DEF Released, RunDry, InStep, Reading
      <2> QED  BY <2>2, <2>3, <2>4
<1> QED  BY <1>1, <1>2, <1>3 DEF Orderly, Early

-----------------------------------------------------------------------------
(* What was read is delivered in order                                     *)

\* The invariant holds in the beginning, ...
LEMMA InitOrdered ==
  ASSUME Init
  PROVE  OInv
<1>1. IInv /\ mode \in Modes  BY InitHolds DEF Init
<1>2. /\ session.generation = 0 /\ session.count = 0 /\ puller.conn = 0 /\ puller.opens = 0 /\ puller.packets = 0
      /\ jitter = EmptyBuffer /\ ready = <<>> /\ DOMAIN ready = {} /\ delivered = <<>> /\ DOMAIN delivered = {}
      /\ timer.decoder = 0 /\ timer.reconnect = 0
      BY DEF Init, Timers
<1>3. \A u \in Threads : thread[u].todo = <<>> /\ thread[u].gen = 0 /\ thread[u].conn = 0 /\ thread[u].packet = None
      BY DEF Init, Resting
<1>4. \A u \in Threads : ~Holds(u)  BY <1>3, NoPlan DEF Holds
<1>5. /\ mode.calls \in Nat /\ mode.packets \in Nat /\ Attempts \in Nat /\ MaxOpens \in Nat /\ Capacity \in Nat
      BY <1>1, SessionAssumption, LimitTyped
<1>6. Bounded
      <2>1. Len(jitter.incoming) <= Capacity  BY <1>2, <1>5, EmptyBufferFields, NothingIn
      <2>2. delivered \in Seq(Packets)  BY <1>2, NothingIn
      <2>3. jitter \in [incoming : Seq(Packets), reorder : Seq(Packets), last : Stamps \cup {0}]
            BY <1>2, EmptyBufferTyped
      <2> QED  BY <1>2, <1>3, <1>5, <2>1, <2>2, <2>3 DEF Bounded
<1>7. Apart
      <2>1. jitter.incoming = <<>> /\ jitter.reorder = <<>>  BY <1>2, EmptyBufferFields
      <2>2. Given = {}  BY <1>2, <2>1, NothingIn DEF Given
      <2> QED  BY <1>2, <1>4, <2>1, <2>2, NothingIn DEF Apart
<1>8. Ascending  BY <1>2, <1>4 DEF Ascending
<1>9. Orderly
      <2>1. \A u \in Threads : /\ thread[u].todo \notin Straight /\ thread[u].todo \notin DecoderPlans
                               /\ thread[u].todo \notin EndPlans /\ thread[u].todo \notin Arming
                               /\ thread[u].todo \notin Popped /\ thread[u].todo # <<"reopened">>
            <3>1. <<>> # <<"reopened">>  BY Tails
            <3> QED  BY <1>3, <3>1, NoStep, NoPlan
      <2>2. NotStraight /\ AtFirst  BY <1>2, <1>3, <2>1 DEF NotStraight, AtFirst
      <2>3. OneDecoder /\ OneLife  BY <1>2, <2>1 DEF OneDecoder, OneLife
      <2>4. DOMAIN jitter.reorder = {}  BY <1>2, EmptyBufferFields
      <2>5. Released  BY <1>2, <2>1, <2>4 DEF Released, InStep
      <2> QED  BY <2>2, <2>3, <2>5 DEF Orderly
<1> QED  BY <1>1, <1>6, <1>7, <1>8, <1>9 DEF OInv

\* ... every step keeps it, ...
LEMMA OrderKept ==
  ASSUME OInv, [Next]_vars
  PROVE  OInv'
<1>1. IInv /\ Bounded /\ Apart  BY DEF OInv
<1>2. IInv'
      <2>1. CASE \E x \in Timers : Expire(x)  BY <1>1, <2>1, ExpireHolds
      <2>2. ASSUME NEW t \in Threads, Run(t) \/ Start(t) \/ Stop(t) \/ Steps(t) \/ ReadAnswered(t)
            PROVE  IInv'
            BY <1>1, <2>2, RunHolds, StartHolds, StopHolds, ThreadTurns
      <2>3. CASE UNCHANGED vars  BY <1>1, <2>3, StutterHolds
      <2> QED  BY <2>1, <2>2, <2>3 DEF Next
<1>3. Bounded' /\ Apart' /\ (~mode.watchdog /\ ~mode.jitter /\ Ascending => Ascending')
      BY <1>1, PacketsKept
<1>4. ASSUME ~mode.watchdog, mode.jitter  PROVE Orderly'
      <2>0. Orderly  BY <1>4 DEF OInv
      <2>1. CASE \E x \in Timers : Expire(x)  BY <1>1, <1>4, <2>0, <2>1, ExpireOrderly
      <2>2. ASSUME NEW t \in Threads, Run(t) \/ Start(t) \/ Stop(t) \/ Steps(t) \/ ReadAnswered(t)
            PROVE  Orderly'
            BY <1>1, <1>4, <2>0, <2>2, RunOrderly, StartOrderly, StopOrderly, ThreadOrderly
      <2>3. CASE UNCHANGED vars  BY <2>0, <2>3, StutterOrderly
      <2> QED  BY <2>1, <2>2, <2>3 DEF Next
<1>5. mode' = mode
      <2>1. CASE \E x \in Timers : Expire(x)  BY <2>1 DEF Expire
      <2>2. ASSUME NEW t \in Threads, Run(t) \/ Start(t) \/ Stop(t)  PROVE mode' = mode
            BY <2>2 DEF Run, Start, Stop
      <2>3. ASSUME NEW t \in Threads, Steps(t) \/ ReadAnswered(t)  PROVE mode' = mode
            <3>1. CASE Plainly(t)  BY <3>1 DEF Plainly
            <3>2. CASE \/ Open(t) \/ Retry(t) \/ ReadLoop(t) \/ Callback(t) \/ Push(t) \/ PopReady(t)
                       \/ ReadAnswered(t)
                  BY <3>2 DEF Open, Retry, ReadLoop, Callback, Push, PopReady, ReadAnswered
            <3> QED  BY <1>1, <2>3, <3>1, <3>2, PlainActions DEF Steps
      <2>4. CASE UNCHANGED vars  BY <2>4 DEF vars
      <2> QED  BY <2>1, <2>2, <2>3, <2>4 DEF Next
<1> QED  BY <1>1, <1>2, <1>3, <1>4, <1>5 DEF OInv

\* ... it implies the types and bounds ...
LEMMA TypesOrdered ==
  ASSUME OInv
  PROVE  TypeOK
<1>0. IInv /\ Bounded /\ Types  BY DEF OInv, IInv
<1>1. PICK n \in Nat : n = mode.calls  BY <1>0, SessionAssumption DEF Types
<1>2. session.generation \in Nat /\ session.generation <= n  BY <1>0, <1>1 DEF Types, SessionRecord, Bounded
<1>3. session \in [state : States, running : BOOLEAN, generation : 0 .. mode.calls,
                   count : 0 .. Attempts, fresh : BOOLEAN]
      <2>1. session.count \in 0 .. Attempts
            BY <1>0, LimitTyped DEF Types, SessionRecord, Bounded
      <2>2. session.generation \in 0 .. mode.calls  BY <1>1, <1>2
      <2> QED  BY <1>0, <2>1, <2>2 DEF Types, SessionRecord
<1>4. puller \in [conn : 0 .. MaxOpens, opens : 0 .. MaxOpens, packets : 0 .. mode.packets]
      <2>1. /\ puller.conn \in Nat /\ puller.opens \in Nat /\ puller.packets \in Nat
            /\ puller.conn <= MaxOpens /\ puller.opens <= MaxOpens /\ puller.packets <= mode.packets
            BY <1>0 DEF Types, PullerRecord, Bounded
      <2>2. MaxOpens \in Nat /\ mode.packets \in Nat  BY <1>0, SessionAssumption DEF Types
      <2>3. puller.conn \in 0 .. MaxOpens /\ puller.opens \in 0 .. MaxOpens /\ puller.packets \in 0 .. mode.packets
            BY <2>1, <2>2
      <2> QED  BY <1>0, <2>3 DEF Types, PullerRecord
<1>5. timer \in [Timers -> 0 .. mode.calls]
      <2>1. \A x \in Timers : timer[x] \in 0 .. n  BY <1>0, <1>2, NewestBefore
      <2> QED  BY <1>0, <1>1, <2>1 DEF Types
<1>6. \A i \in 1 .. Len(ready) : ready[i].do \in Timers \cup {"read"}
      <2>1. PICK S : S = [do : Timers \cup {"read"}, gen : Nat]  OBVIOUS
      <2>2. ready \in Seq(S)  BY <1>0, <2>1 DEF Types
      <2>3. \A i \in 1 .. Len(ready) : ready[i] \in S  BY <2>2
      <2> QED  BY <2>1, <2>3
<1>7. \A t \in Threads : /\ thread[t].gen \in 0 .. mode.calls
                         /\ thread[t].conn \in 0 .. MaxOpens
                         /\ thread[t].packet \in Packets \cup {None}
      <2> TAKE t \in Threads
      <2>1. thread[t].gen \in Nat /\ thread[t].gen <= session.generation  BY <1>0 DEF Types, Bounded
      <2>2. thread[t].gen \in 0 .. mode.calls  BY <1>1, <1>2, <2>1
      <2> QED  BY <1>0, <2>2 DEF Bounded
<1>8. /\ jitter \in [incoming : Seq(Packets), reorder : Seq(Packets), last : Stamps \cup {0}]
      /\ Len(jitter.incoming) <= Capacity /\ delivered \in Seq(Packets) /\ mode \in Modes
      BY <1>0 DEF Bounded, Types
<1> QED  BY <1>3, <1>4, <1>5, <1>6, <1>7, <1>8 DEF TypeOK

\* ... and the order of delivery.
LEMMA InOrder ==
  ASSUME OInv
  PROVE  DeliveredInOrder
<1>1. DOMAIN delivered = 1 .. Len(delivered) /\ \A i \in 1 .. Len(delivered) : i \in Int
      <2>1. delivered \in Seq(Packets)  BY DEF OInv, Bounded
      <2> QED  BY <2>1
<1>2. Distinct(delivered)  BY DEF OInv, Apart
<1> SUFFICES ASSUME NEW i \in 1 .. Len(delivered), NEW j \in 1 .. Len(delivered), i < j
             PROVE  /\ delivered[i].number # delivered[j].number
                    /\ ~mode.watchdog /\ delivered[i].gen = delivered[j].gen =>
                         IF mode.jitter
                         THEN puller.opens = 1 /\ session.generation = 1 => delivered[i].stamp <= delivered[j].stamp
                         ELSE delivered[i].number < delivered[j].number
    BY DEF DeliveredInOrder
<1>3. delivered[i].number # delivered[j].number  BY <1>1, <1>2 DEF Distinct
<1>4. ASSUME ~mode.watchdog, mode.jitter, puller.opens = 1, session.generation = 1
      PROVE  delivered[i].stamp <= delivered[j].stamp
      <2>1. Early /\ Orderly  BY <1>4 DEF OInv, Early
      <2> QED  BY <1>1, <2>1 DEF Orderly, Released
<1>5. ASSUME ~mode.watchdog, ~mode.jitter, delivered[i].gen = delivered[j].gen
      PROVE  delivered[i].number < delivered[j].number
      BY <1>1, <1>5 DEF OInv, Ascending
<1> QED  BY <1>3, <1>4, <1>5

\* What is read reaches the callback once; without a watchdog that of a start in the order it was
\* read, or through the jitter buffer, as long as its first connection lasts, by its stamps.
THEOREM DeliveredWell == Spec => []Delivery
<1>1. Init => OInv  BY InitOrdered
<1>2. OInv /\ [Next]_vars => OInv'  BY OrderKept
<1>3. OInv => Delivery  BY TypesOrdered, InOrder DEF Delivery
<1> QED  BY <1>1, <1>2, <1>3, PTL DEF Spec

=============================================================================
