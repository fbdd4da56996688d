----------------------------- MODULE StreamSession -----------------------------
(***************************************************************************)
(* MediaStreamSession (src/media/stream/stream_session.cpp) with its       *)
(* AdaptiveJitterBuffer: a puller that is opened, read and reopened by     *)
(* handlers on an io_context which several threads run, and Start and Stop *)
(* called from other threads.                                              *)
(*                                                                         *)
(* There is no strand and no lock over the session: state_, running_ and   *)
(* generation_ are three atomics, and a handler that has passed            *)
(* isGenerationActive acts on what was true then.  Every thread has a      *)
(* sequence of the steps it still has to take; between two of them any     *)
(* other thread may run.                                                   *)
(*                                                                         *)
(* The puller is the interface IPuller: it may refuse to open, and a read  *)
(* may answer anything the interface allows.  Statistics, texts and the    *)
(* adaptive delay itself are left out: a packet of the jitter buffer may   *)
(* be due or not.                                                          *)
(***************************************************************************)
EXTENDS Integers, FiniteSets, SequencesExt

CONSTANTS
  Workers,           \* threads that run the io_context
  Starters, Stoppers,\* threads that call Start, and that call Stop
  Modes,             \* initial values: jitter and watchdog, whether their intervals are
                     \* positive; reconnects, max_reconnect_count_, negative for no limit;
                     \* calls and packets, bounds of a behaviour
  Capacity,          \* capacity_packets of the jitter buffer
  MaxOpens,          \* bound: connections
  Stamps             \* bound: decoding time stamps

ASSUME SessionAssumption ==
  /\ Workers \cap (Starters \cup Stoppers) = {}
  /\ Modes \subseteq [jitter : BOOLEAN, watchdog : BOOLEAN, reconnects : Int, calls : Nat, packets : Nat]
  /\ {Capacity, MaxOpens} \subseteq Nat
  /\ Stamps \subseteq Nat \ {0} /\ Stamps # {}

VARIABLES
  mode,      \* jitter_buffer_interval_ms_, watchdog_interval_ms_, max_reconnect_count_, and the bounds
  session,   \* state_, running_, generation_, reconnect_count_, and whether a packet was
             \* read since the watchdog was armed (last_read_time_)
  puller,    \* the open connection, 0 if none, how many there were, and packets read
  jitter,    \* incoming_, reorder_buffer_ and last_released_dts_
  timer,     \* per timer the generation of the wait, 0 if none
  ready,     \* handlers the io_context has to run
  thread,    \* per thread: steps to take, generation, and what it holds of the puller
  delivered, \* history: packets given to the callback
  lastCall   \* history: the call that has changed generation_ last

vars == <<mode, session, puller, jitter, timer, ready, thread, delivered, lastCall>>

Callers == Starters \cup Stoppers
Threads == Workers \cup Callers
Timers == {"reconnect", "watchdog", "decoder"}
States == {"IDLE", "CONNECTING", "CONNECTED", "RECONNECTING", "STOPPED", "ERROR"}
None == [number |-> 0]
Resting == [todo |-> <<>>, gen |-> 0, conn |-> 0, packet |-> None]
EmptyBuffer == [incoming |-> <<>>, reorder |-> <<>>, last |-> 0]

Init ==
  /\ mode \in Modes
  /\ session = [state |-> "IDLE", running |-> FALSE, generation |-> 0, count |-> 0, fresh |-> FALSE]
  /\ puller = [conn |-> 0, opens |-> 0, packets |-> 0]
  /\ jitter = EmptyBuffer
  /\ timer = [x \in Timers |-> 0]
  /\ ready = <<>>
  /\ thread = [t \in Threads |-> Resting]
  /\ delivered = <<>> /\ lastCall = "none"

Active(g) == session.running /\ session.generation = g
Mine(t) == Active(thread[t].gen)
Idle(t) == thread[t].todo = <<>>
At(t, step) == ~Idle(t) /\ Head(thread[t].todo) = step
\* Thread t goes on with steps in place of the one it has taken.
Goes(t, steps) ==
  LET todo == steps \o Tail(thread[t].todo)
  IN  thread' = [thread EXCEPT ![t] = IF todo = <<>> THEN Resting ELSE [@ EXCEPT !.todo = todo]]
Handler(do, g) == [do |-> do, gen |-> g]
Post(do, g) == ready' = Append(ready, Handler(do, g))
\* A timer is armed if its interval is positive and the generation is active.
ArmIf(wanted, x, g) == IF wanted /\ Active(g) THEN [timer EXCEPT ![x] = g] ELSE timer
Closed == [puller EXCEPT !.conn = 0]

-----------------------------------------------------------------------------
(* The io_context *)

\* A wait is over; a later cancel comes too late for its handler.
Expire(x) ==
  /\ timer[x] # 0
  /\ Post(x, timer[x])
  /\ timer' = [timer EXCEPT ![x] = 0]
  /\ UNCHANGED <<mode, session, puller, jitter, thread, delivered, lastCall>>

Run(t) ==
  /\ t \in Workers /\ Idle(t) /\ ready # <<>>
  /\ thread' = [thread EXCEPT ![t].todo = <<Head(ready).do>>, ![t].gen = Head(ready).gen]
  /\ ready' = Tail(ready)
  /\ UNCHANGED <<mode, session, puller, jitter, timer, delivered, lastCall>>

-----------------------------------------------------------------------------
(* Start and Stop *)

\* A session is started when the calls before have returned, and stopped once at a time, but at
\* any moment of a Start: while it waits in Open, and between its last look at the generation and
\* its end.
BetweenCalls == \A t \in Callers : Idle(t)

Start(t) ==
  /\ t \in Starters /\ BetweenCalls /\ session.generation < mode.calls
  /\ session.state \notin {"CONNECTING", "CONNECTED", "RECONNECTING"}
  /\ session' = [session EXCEPT !.generation = @ + 1, !.running = TRUE, !.state = "CONNECTING"]
  /\ thread' = [thread EXCEPT ![t].todo = <<"open">>, ![t].gen = session.generation + 1]
  /\ lastCall' = "start"
  /\ UNCHANGED <<mode, puller, jitter, timer, ready, delivered>>

\* Open of the puller closes what was open, and succeeds or not.
Open(t) ==
  /\ At(t, "open") \/ At(t, "reopen")
  /\ \/ /\ puller.opens < MaxOpens
        /\ puller' = [puller EXCEPT !.conn = puller.opens + 1, !.opens = @ + 1]
        /\ Goes(t, IF At(t, "open") THEN <<"opened">> ELSE <<"reopened">>)
     \/ /\ puller' = Closed
        /\ Goes(t, IF At(t, "open") THEN <<"refused">> ELSE <<"lost">>)
  /\ UNCHANGED <<mode, session, jitter, timer, ready, delivered, lastCall>>

Refused(t) ==
  /\ At(t, "refused")
  /\ session' = IF Mine(t) THEN [session EXCEPT !.running = FALSE, !.state = "ERROR"] ELSE session
  /\ Goes(t, <<>>)
  /\ UNCHANGED <<mode, puller, jitter, timer, ready, delivered, lastCall>>

Opened(t) ==
  /\ At(t, "opened")
  /\ IF Mine(t) THEN Goes(t, <<"run", "arm">>) /\ UNCHANGED puller
               ELSE Goes(t, <<>>) /\ puller' = Closed
  /\ UNCHANGED <<mode, session, jitter, timer, ready, delivered, lastCall>>

\* running_ is set again, without another look at the generation.
MarkRunning(t) ==
  /\ At(t, "run")
  /\ session' = [session EXCEPT !.running = TRUE, !.count = 0, !.fresh = mode.watchdog]
  /\ jitter' = EmptyBuffer
  /\ Goes(t, <<>>)
  /\ UNCHANGED <<mode, puller, timer, ready, delivered, lastCall>>

\* Connected: the read loop is posted, watchdog and decoder timer are armed.
ArmAll(t) ==
  /\ At(t, "arm")
  /\ session' = [session EXCEPT !.state = "CONNECTED", !.fresh = FALSE]
  /\ Post("read", thread[t].gen)
  /\ timer' = [timer EXCEPT !.watchdog = IF mode.watchdog /\ Mine(t) THEN thread[t].gen ELSE @,
                            !.decoder = IF mode.jitter /\ Mine(t) THEN thread[t].gen ELSE @]
  /\ Goes(t, <<>>)
  /\ UNCHANGED <<mode, puller, jitter, delivered, lastCall>>

Stop(t) ==
  /\ t \in Stoppers /\ session.generation < mode.calls
  /\ \A u \in Stoppers : Idle(u)
  /\ session.state \notin {"IDLE", "STOPPED"}
  /\ session' = [session EXCEPT !.generation = @ + 1, !.running = FALSE]
  /\ thread' = [thread EXCEPT ![t].todo = <<"halt", "stopped">>]
  /\ lastCall' = "stop"
  /\ UNCHANGED <<mode, puller, jitter, timer, ready, delivered>>

\* Timers are cancelled, the buffer is cleared, the puller is closed.
Halt(t) ==
  /\ At(t, "halt")
  /\ timer' = [x \in Timers |-> 0]
  /\ jitter' = EmptyBuffer
  /\ puller' = Closed
  /\ Goes(t, <<>>)
  /\ UNCHANGED <<mode, session, ready, delivered, lastCall>>

Stopped(t) ==
  /\ At(t, "stopped")
  /\ session' = [session EXCEPT !.state = "STOPPED"]
  /\ Goes(t, <<>>)
  /\ UNCHANGED <<mode, puller, jitter, timer, ready, delivered, lastCall>>

-----------------------------------------------------------------------------
(* connect and doReconnect *)

Connect(t) ==
  /\ At(t, "reconnect")
  /\ Goes(t, IF Mine(t) THEN <<"reopen">> ELSE <<>>)
  /\ UNCHANGED <<mode, session, puller, jitter, timer, ready, delivered, lastCall>>

\* Defect: a connection reopened after Stop stays open.
ReopenedUnchecked(t) ==
  /\ At(t, "reopened")
  /\ session' = [session EXCEPT !.count = 0, !.fresh = mode.watchdog]
  /\ jitter' = EmptyBuffer
  /\ Goes(t, <<"arm">>)
  /\ UNCHANGED <<mode, puller, timer, ready, delivered, lastCall>>

Reopened(t) ==
  /\ At(t, "reopened")
  /\ IF Mine(t)
     THEN /\ session' = [session EXCEPT !.count = 0, !.fresh = mode.watchdog]
          /\ jitter' = EmptyBuffer
          /\ Goes(t, <<"arm">>)
          /\ UNCHANGED puller
     ELSE /\ puller' = Closed
          /\ Goes(t, <<>>)
          /\ UNCHANGED <<session, jitter>>
  /\ UNCHANGED <<mode, timer, ready, delivered, lastCall>>

Lost(t) ==
  /\ At(t, "lost")
  /\ session' = IF Mine(t) THEN [session EXCEPT !.state = "RECONNECTING"] ELSE session
  /\ Goes(t, IF Mine(t) THEN <<"hangUp", "retry">> ELSE <<>>)
  /\ UNCHANGED <<mode, puller, jitter, timer, ready, delivered, lastCall>>

HangUp(t) ==
  /\ At(t, "hangUp")
  /\ timer' = [timer EXCEPT !.decoder = 0]
  /\ jitter' = EmptyBuffer
  /\ puller' = Closed
  /\ Goes(t, <<>>)
  /\ UNCHANGED <<mode, session, ready, delivered, lastCall>>

\* The limit, if there is one; without one nothing reads the count and it stays at zero.
Attempts == IF mode.reconnects < 0 THEN 0 ELSE mode.reconnects
AttemptsUsedUp == mode.reconnects >= 0 /\ session.count >= Attempts
Counted == IF mode.reconnects < 0 THEN session ELSE [session EXCEPT !.count = @ + 1]

\* Defect: the wait before the next attempt is forgotten when the count is at its limit.
RetryForgets(t) ==
  /\ At(t, "retry")
  /\ session' = IF AttemptsUsedUp THEN [session EXCEPT !.state = "ERROR"] ELSE Counted
  /\ timer' = IF AttemptsUsedUp THEN timer ELSE [timer EXCEPT !.reconnect = thread[t].gen]
  /\ Goes(t, <<>>)
  /\ UNCHANGED <<mode, puller, jitter, ready, delivered, lastCall>>

Retry(t) ==
  /\ At(t, "retry")
  /\ IF AttemptsUsedUp
     THEN /\ session' = [session EXCEPT !.running = FALSE, !.state = "ERROR"]
          /\ UNCHANGED timer
     ELSE /\ session' = Counted
          /\ timer' = [timer EXCEPT !.reconnect = thread[t].gen]
  /\ Goes(t, <<>>)
  /\ UNCHANGED <<mode, puller, jitter, ready, delivered, lastCall>>

-----------------------------------------------------------------------------
(* readLoop *)

ReadLoop(t) ==
  /\ At(t, "read")
  /\ thread' = [thread EXCEPT ![t] = IF Mine(t) THEN [@ EXCEPT !.todo = <<"reading">>, !.conn = puller.conn]
                                     ELSE Resting]
  /\ UNCHANGED <<mode, session, puller, jitter, timer, ready, delivered, lastCall>>

\* Only the jitter buffer looks at stamps.
StampsOf == IF mode.jitter THEN Stamps ELSE {CHOOSE s \in Stamps : TRUE}

\* The connection this read is on has been closed: FFmpegPuller answers Stopped.
ReadStopped(t) ==
  /\ At(t, "reading") /\ (thread[t].conn = 0 \/ puller.conn # thread[t].conn)
  /\ Goes(t, <<"end Stopped">>)
  /\ UNCHANGED <<mode, session, puller, jitter, timer, ready, delivered, lastCall>>

ReadAnswered(t) ==
  /\ At(t, "reading") /\ thread[t].conn # 0 /\ puller.conn = thread[t].conn
  /\ \/ /\ \E answer \in {"NoData", "lost", "end EOS", "end FatalError"} : Goes(t, <<answer>>)
        /\ UNCHANGED puller
     \/ /\ puller.packets < mode.packets
        /\ puller' = [puller EXCEPT !.packets = @ + 1]
        /\ \E s \in StampsOf :
             thread' = [thread EXCEPT ![t].todo = <<"packet">>,
                          ![t].packet = [number |-> puller.packets + 1, stamp |-> s,
                                         conn |-> puller.conn, gen |-> thread[t].gen]]
  /\ UNCHANGED <<mode, session, jitter, timer, ready, delivered, lastCall>>

\* Every round of the loop is a handler of its own.
Again(t) == Post("read", thread[t].gen)

NoData(t) ==
  /\ At(t, "NoData")
  /\ Goes(t, <<>>)
  /\ IF Mine(t) THEN Again(t) ELSE UNCHANGED ready
  /\ UNCHANGED <<mode, session, puller, jitter, timer, delivered, lastCall>>

GotPacket(t) ==
  /\ At(t, "packet")
  /\ session' = IF Mine(t) THEN [session EXCEPT !.fresh = mode.watchdog] ELSE session
  /\ Goes(t, IF Mine(t) THEN <<IF mode.jitter THEN "enqueue" ELSE "dispatch", "again">> ELSE <<>>)
  /\ UNCHANGED <<mode, puller, jitter, timer, ready, delivered, lastCall>>

\* dispatchPacket and enqueuePacket look at the generation once more, and then act.
Dispatch(t) ==
  /\ At(t, "dispatch") \/ At(t, "enqueue")
  /\ Goes(t, IF Mine(t) THEN <<IF At(t, "dispatch") THEN "callback" ELSE "push">> ELSE <<>>)
  /\ UNCHANGED <<mode, session, puller, jitter, timer, ready, delivered, lastCall>>

Callback(t) ==
  /\ At(t, "callback")
  /\ delivered' = Append(delivered, thread[t].packet)
  /\ Goes(t, <<>>)
  /\ UNCHANGED <<mode, session, puller, jitter, timer, ready, lastCall>>

NextRound(t) ==
  /\ At(t, "again")
  /\ Again(t)
  /\ Goes(t, <<>>)
  /\ UNCHANGED <<mode, session, puller, jitter, timer, delivered, lastCall>>

Ends == {"end Stopped", "end EOS", "end FatalError"}

\* The loop ends: running_ is cleared and the puller closed; the state follows.
End(t) ==
  /\ \E e \in Ends : At(t, e)
  /\ IF Mine(t)
     THEN /\ session' = [session EXCEPT !.running = FALSE]
          /\ puller' = IF At(t, "end Stopped") THEN puller ELSE Closed
          /\ jitter' = IF At(t, "end EOS") THEN EmptyBuffer ELSE jitter
          /\ Goes(t, <<IF At(t, "end FatalError") THEN "failed" ELSE "finished">>)
     ELSE /\ Goes(t, <<>>)
          /\ UNCHANGED <<session, puller, jitter>>
  /\ UNCHANGED <<mode, timer, ready, delivered, lastCall>>

Finished(t) ==
  /\ At(t, "finished") \/ At(t, "failed")
  /\ session' = [session EXCEPT !.state = IF At(t, "failed") THEN "ERROR" ELSE "STOPPED"]
  /\ Goes(t, <<>>)
  /\ UNCHANGED <<mode, puller, jitter, timer, ready, delivered, lastCall>>

-----------------------------------------------------------------------------
(* The jitter buffer, the decoder timer and the watchdog *)

Push(t) ==
  /\ At(t, "push")
  /\ jitter' = IF Len(jitter.incoming) < Capacity
               THEN [jitter EXCEPT !.incoming = Append(@, thread[t].packet)] ELSE jitter
  /\ Goes(t, <<>>)
  /\ UNCHANGED <<mode, session, puller, timer, ready, delivered, lastCall>>

Decoder(t) ==
  /\ At(t, "decoder")
  /\ Goes(t, IF Mine(t) /\ session.state = "CONNECTED" THEN <<"pop">> ELSE <<>>)
  /\ UNCHANGED <<mode, session, puller, jitter, timer, ready, delivered, lastCall>>

\* Defect: late packets are kept.
DrainAll == jitter.reorder \o jitter.incoming

\* DrainIncoming, one packet after the other: one whose turn has passed is dropped.
DrainIncoming ==
  LET incoming == jitter.incoming
      drained[n \in 0 .. Len(incoming)] ==
        IF n = 0 THEN jitter.reorder
        ELSE IF incoming[n].stamp >= jitter.last THEN Append(drained[n - 1], incoming[n])
        ELSE drained[n - 1]
  IN  drained[Len(incoming)]

\* The first by stamp, then by arrival.
Oldest(buffer) ==
  CHOOSE i \in 1 .. Len(buffer) :
    \A j \in 1 .. Len(buffer) :
      buffer[i].stamp < buffer[j].stamp \/ (buffer[i].stamp = buffer[j].stamp /\ i <= j)

\* PopReady: the oldest packet if it has been here for the target delay.
PopReady(t) ==
  /\ At(t, "pop")
  /\ LET buffer == DrainIncoming
     IN  \/ /\ jitter' = [jitter EXCEPT !.incoming = <<>>, !.reorder = buffer]
            /\ Goes(t, <<"rearm">>)
         \/ /\ buffer # <<>>
            /\ LET i == Oldest(buffer)
               IN  /\ jitter' = [incoming |-> <<>>, reorder |-> RemoveAt(buffer, i),
                                 last |-> buffer[i].stamp]
                   /\ thread' = [thread EXCEPT ![t].todo = <<"dispatch", "rearm">>,
                                               ![t].packet = buffer[i]]
  /\ UNCHANGED <<mode, session, puller, timer, ready, delivered, lastCall>>

Rearm(t) ==
  /\ At(t, "rearm")
  /\ timer' = ArmIf(TRUE, "decoder", thread[t].gen)
  /\ Goes(t, <<>>)
  /\ UNCHANGED <<mode, session, puller, jitter, ready, delivered, lastCall>>

\* Nothing read since the watchdog was armed: reconnect, and connect arms it again.
Watchdog(t) ==
  /\ At(t, "watchdog")
  /\ \/ /\ Mine(t) /\ ~session.fresh
        /\ Goes(t, <<"lost">>)
        /\ UNCHANGED <<session, timer>>
     \/ /\ timer' = ArmIf(TRUE, "watchdog", thread[t].gen)
        /\ session' = [session EXCEPT !.fresh = ~Mine(t) /\ @]
        /\ Goes(t, <<>>)
  /\ UNCHANGED <<mode, puller, jitter, ready, delivered, lastCall>>

-----------------------------------------------------------------------------
Steps(t) ==
  \/ Open(t) \/ Refused(t) \/ Opened(t) \/ MarkRunning(t) \/ ArmAll(t)
  \/ Halt(t) \/ Stopped(t)
  \/ Connect(t) \/ Reopened(t) \/ Lost(t) \/ HangUp(t) \/ Retry(t)
  \/ ReadLoop(t) \/ ReadStopped(t) \/ NoData(t) \/ GotPacket(t) \/ Dispatch(t) \/ Callback(t)
  \/ NextRound(t) \/ End(t) \/ Finished(t)
  \/ Push(t) \/ Decoder(t) \/ PopReady(t) \/ Rearm(t) \/ Watchdog(t)

Next ==
  \/ \E x \in Timers : Expire(x)
  \/ \E t \in Threads : Run(t) \/ Start(t) \/ Stop(t) \/ Steps(t) \/ ReadAnswered(t)

\* Threads run and timers expire.  A read may wait for ever, and nobody has to call anything.
Fairness ==
  /\ \A x \in Timers : WF_vars(Expire(x))
  /\ \A t \in Threads : WF_vars(Run(t)) /\ WF_vars(Steps(t))

Spec == Init /\ [][Next]_vars /\ Fairness

-----------------------------------------------------------------------------
(* Properties *)

Packets == [number : 1 .. mode.packets, stamp : Stamps, conn : 1 .. MaxOpens,
            gen : 1 .. mode.calls]

TypeOK ==
  /\ mode \in Modes
  /\ session \in [state : States, running : BOOLEAN, generation : 0 .. mode.calls,
                  count : 0 .. Attempts, fresh : BOOLEAN]
  /\ puller \in [conn : 0 .. MaxOpens, opens : 0 .. MaxOpens, packets : 0 .. mode.packets]
  /\ jitter \in [incoming : Seq(Packets), reorder : Seq(Packets), last : Stamps \cup {0}]
  /\ Len(jitter.incoming) <= Capacity
  /\ timer \in [Timers -> 0 .. mode.calls]
  /\ \A i \in 1 .. Len(ready) : ready[i].do \in Timers \cup {"read"}
  /\ \A t \in Threads : /\ thread[t].gen \in 0 .. mode.calls
                        /\ thread[t].conn \in 0 .. MaxOpens
                        /\ thread[t].packet \in Packets \cup {None}
  /\ delivered \in Seq(Packets)

InReadLoop(t) ==
  ToSet(thread[t].todo) \cap
    ({"read", "reading", "packet", "NoData", "enqueue", "push", "again"}
       \cup (IF mode.jitter THEN {} ELSE {"dispatch", "callback"})) # {}

\* Whatever is stopped, restarted and reconnected meanwhile, a session has one reader: of the
\* active generation one read handler is queued or runs (stream_session.cpp:239-243).  Without
\* the watchdog; it reconnects while a reader waits in its callback.
OneReadLoop ==
  session.running /\ ~mode.watchdog =>
    Cardinality({t \in Workers : InReadLoop(t) /\ thread[t].gen = session.generation})
      + Cardinality({i \in 1 .. Len(ready) :
                       ready[i] = Handler("read", session.generation)}) <= 1

Quiet == \A t \in Threads : Idle(t)

\* Stop, wherever in a start, a reconnect or a read it comes, leaves no connection behind
\* (stream_session.cpp:130, 218: the look at the generation after Open).
StopCloses == Quiet /\ lastCall = "stop" => puller.conn = 0

\* Packets of a generation reach the callback in the order they were read, or through the jitter
\* buffer, as long as the first connection of the first start lasts, in the order of their stamps.
DeliveredInOrder ==
  \A i, j \in 1 .. Len(delivered) :
    LET p == delivered[i]  q == delivered[j]
    IN  i < j => /\ p.number # q.number
                 /\ ~mode.watchdog /\ p.gen = q.gen =>
                      IF mode.jitter
                      THEN puller.opens = 1 /\ session.generation = 1 => p.stamp <= q.stamp
                      ELSE p.number < q.number

\* A session that runs without a connection gets one, tries again, or stops running
\* (stream_session.cpp:418-456), however many attempts it has, unless a retry or the end of a
\* Start goes on for a generation that is over: the first cancels the wait of the session that
\* was started since (448), the second sets running_ for a session that was stopped (148).
NobodyLate == \A t \in Threads : At(t, "retry") \/ At(t, "run") => Mine(t)
TriesToConnect == \E t \in Threads : At(t, "reopen")
NoDeadAir ==
  []NobodyLate =>
    (session.running /\ puller.conn = 0 ~> ~session.running \/ puller.conn # 0 \/ TriesToConnect)

\* As long as nobody has stopped the session and it is connected, the jitter buffer is emptied:
\* a decoder timer is pending, its handler is queued, or a thread will arm it.
DecoderDriven ==
  mode.jitter /\ ~mode.watchdog /\ session.running /\ session.state = "CONNECTED" /\ session.generation = 1 =>
    \/ timer.decoder # 0
    \/ \E i \in 1 .. Len(ready) : ready[i].do = "decoder"
    \/ \E t \in Threads : {"decoder", "rearm", "pop", "arm", "lost", "hangUp"}
                             \cap ToSet(thread[t].todo) # {}

\* Without the watchdog the active generation has one reader and, in the first start, somebody to
\* empty its jitter buffer; after Stop, with or without it, there is no connection.
ConnectionTended == OneReadLoop /\ DecoderDriven /\ StopCloses

\* What was read is delivered in order.
Delivery == TypeOK /\ DeliveredInOrder

=============================================================================
