------------------------------ MODULE RtspServer ------------------------------
(***************************************************************************)
(* The RTSP server: RtspServerProtocol, RtspSessionManager,                *)
(* RtspClientSession and RtspConnection (src/media/protocol).              *)
(*                                                                         *)
(* Everything that touches a session or a socket runs on one io thread;    *)
(* Write is called by a thread of the pipeline, Start and Stop by an       *)
(* owner.  Three things cross the threads: started_ and                    *)
(* lifecycle_generation_ under mutex_, the registry of sessions under the  *)
(* mutex of its manager, and tasks posted to the io_context, which         *)
(* survive a stop and are found by the next lifecycle.                     *)
(*                                                                         *)
(* One video track.  A request is its method and whether it passes         *)
(* authentication; parsing, SDP, the contents of RTP and reports are left  *)
(* out, and every item of a write queue has the same size.                 *)
(***************************************************************************)
EXTENDS Integers, FiniteSets, SequencesExt

CONSTANTS
  Addresses,          \* addresses of clients
  Modes,              \* transports a client may ask for: a subset of {"tcp", "udp", "multicast"}
  MaxQueue,           \* max_write_queue_bytes, in items
  MaxSessions,        \* max_connections
  MaxPerAddress,      \* max_connections_per_address
  MaxAuthFailures,    \* auth_failures_per_address, 0 for no limit
  MaxConnections,     \* bound: connections made to the server
  MaxRequests,        \* bound: requests of all clients
  MaxMedia,           \* bound: access units written
  MaxLifecycles       \* bound: calls of Start

ASSUME ServerAssumption ==
  /\ Addresses # {} /\ Modes \subseteq {"tcp", "udp", "multicast"}
  /\ {MaxQueue, MaxSessions, MaxPerAddress, MaxAuthFailures, MaxConnections, MaxRequests, MaxMedia,
      MaxLifecycles} \subseteq Nat

VARIABLES
  server,   \* started_, lifecycle_generation_, whether an accept is pending, lifecycles so far
  stop,     \* what is left of the call of Stop, and the sessions it found
  manager,  \* sessions_, active_connections and auth_failures per address, next_session_id_
  session,  \* per session id: its address, state, playing_ and the transport of its track
  conn,     \* per session id: closed_ or close_after_write_ ("closing"), and write_queue_, whose
            \* first item is being written
  expired,  \* sessions whose idle timer has expired: OnIdleTimeout is queued
  tasks,    \* tasks posted to the io_context
  io,       \* what the io thread still has to do
  feed,     \* access units written, the generation a running Write has taken (or 0), requests made
  received  \* per client, history: the last answer that says whether media follows, the last
            \* media, and whether all media came after an answer that announced it

vars == <<server, stop, manager, session, conn, expired, tasks, io, feed, received>>

Ids == 1 .. MaxConnections
\* A session is unborn, open, closed, or destroyed without having been closed.
SessionStates == {"unborn", "open", "closed", "lost"}

Init ==
  /\ server = [started |-> FALSE, gen |-> 0, accepting |-> FALSE, lifecycles |-> 0]
  /\ stop = [todo |-> "none", found |-> {}]
  /\ manager = [sessions |-> {}, active |-> [a \in Addresses |-> 0],
                failures |-> [a \in Addresses |-> 0], next |-> 1]
  /\ session = [c \in Ids |-> [state |-> "unborn", address |-> CHOOSE a \in Addresses : TRUE,
                               playing |-> FALSE, track |-> "none"]]
  /\ conn = [c \in Ids |-> [state |-> "closed", queue |-> <<>>]]
  /\ expired = {}
  /\ tasks = <<>> /\ io = <<>>
  /\ feed = [media |-> 0, writing |-> 0, requests |-> 0]
  /\ received = [c \in Ids |-> [answer |-> "none", number |-> 0, announced |-> TRUE]]

IoFree == io = <<>>
Open(c) == session[c].state = "open"
Reply(m) == [kind |-> "reply", method |-> m]
Rtp(g, n) == [kind |-> "rtp", gen |-> g, number |-> n]

-----------------------------------------------------------------------------
(* RtspConnection, RtspClientSession: what one handler does to both.  A    *)
(* world is the part of the state the io thread owns.                      *)

World == [manager |-> manager, session |-> session, conn |-> conn]
Become(w) ==
  /\ manager' = w.manager /\ session' = w.session /\ conn' = w.conn

\* Defect: the sessions go, their places do not.
UnregisterOnly(w, cs) == [w EXCEPT !.manager.sessions = @ \ cs]

\* RtspSessionManager::Remove, once for each session; Stop may have cleared the registry before.
Unregister(w, cs) ==
  LET m == w.manager
      Places(a) == Cardinality({c \in cs \cap m.sessions : w.session[c].address = a})
      Left(a) == IF m.active[a] > Places(a) THEN m.active[a] - Places(a) ELSE 0
  IN  [w EXCEPT !.manager = [m EXCEPT !.sessions = @ \ cs, !.active = [a \in Addresses |-> Left(a)]]]

\* RtspConnection::CloseOnExecutor: nothing of the queue is written any more.
CloseConnections(w, cs) ==
  [w EXCEPT !.conn = [c \in Ids |-> IF c \in cs THEN [state |-> "closed", queue |-> <<>>] ELSE @[c]]]

\* RtspClientSession::Close and OnConnectionClosed end in the same state, whichever comes first.
EndSessions(w, cs) ==
  [w EXCEPT !.session =
     [c \in Ids |-> IF c \in cs
                    THEN [@[c] EXCEPT !.state = "closed", !.playing = FALSE, !.track = "none"]
                    ELSE @[c]]]

CloseBoth(w, cs) ==
  LET open == {c \in cs : w.session[c].state = "open"}
  IN  Unregister(EndSessions(CloseConnections(w, cs), open), open)

\* EnqueueWrite for each of cs: beyond the limit the client is too slow, and is closed.
EnqueueWrite(w, cs, item) ==
  LET alive == {c \in cs : w.conn[c].state # "closed"}
      slow == {c \in alive : Len(w.conn[c].queue) >= MaxQueue}
      fed == [c \in Ids |-> IF c \in alive \ slow
                            THEN [w.conn[c] EXCEPT !.queue = Append(@, item)] ELSE w.conn[c]]
  IN  CloseBoth([w EXCEPT !.conn = fed], slow)

\* CloseAfterFlushOnExecutor, after something was enqueued.
CloseAfterFlush(w, c) ==
  IF w.conn[c].state = "closed" THEN w
  ELSE IF w.conn[c].queue = <<>> THEN CloseBoth(w, {c})
  ELSE [w EXCEPT !.conn[c].state = "closing"]

\* SETUP replaces the transport of the track and stops the media until the next PLAY.
SetUp(w, c, m) ==
  EnqueueWrite([w EXCEPT !.session[c] = [@ EXCEPT !.track = m, !.playing = FALSE]], {c}, Reply("SETUP"))

\* A session that neither the registry nor a task holds is destroyed; the read that is pending keeps
\* its connection.
Forget(w, ts) ==
  [w EXCEPT !.session = [c \in Ids |->
     IF @[c].state = "open" /\ c \notin w.manager.sessions /\ \A i \in 1 .. Len(ts) : c \notin ts[i].to
     THEN [@[c] EXCEPT !.state = "lost", !.playing = FALSE, !.track = "none"] ELSE @[c]]]

-----------------------------------------------------------------------------
(* The owner and the pipeline *)

Start ==
  /\ ~server.started /\ stop.todo = "none" /\ server.lifecycles < MaxLifecycles
  /\ server' = [started |-> TRUE, gen |-> server.gen + 1, accepting |-> TRUE,
                lifecycles |-> server.lifecycles + 1]
  /\ manager' = [manager EXCEPT !.sessions = {}, !.active = [a \in Addresses |-> 0],
                                !.failures = [a \in Addresses |-> 0]]
  /\ UNCHANGED <<stop, session, conn, expired, tasks, io, feed, received>>

\* started_ and the generation change; a pending accept is cancelled.
StopGate ==
  /\ server.started /\ stop.todo = "none"
  /\ server' = [server EXCEPT !.started = FALSE, !.gen = @ + 1, !.accepting = FALSE]
  /\ stop' = [stop EXCEPT !.todo = "snapshot"]
  /\ UNCHANGED <<manager, session, conn, expired, tasks, io, feed, received>>

\* The barrier: the sessions found now are closed on the io thread.
StopSnapshot ==
  /\ stop.todo = "snapshot"
  /\ stop' = [todo |-> "wait", found |-> manager.sessions]
  /\ tasks' = Append(tasks, [do |-> "close", gen |-> server.gen, number |-> 0,
                             to |-> manager.sessions])
  /\ UNCHANGED <<server, manager, session, conn, expired, io, feed, received>>

\* The io thread is joined after the handler it is in, and the registry is cleared.
StopEnds ==
  /\ stop.todo = "closed" /\ IoFree
  /\ Become(Forget([World EXCEPT !.manager.sessions = {},
                                 !.manager.active = [a \in Addresses |-> 0]], tasks))
  /\ stop' = [stop EXCEPT !.todo = "none"]
  /\ UNCHANGED <<server, expired, tasks, io, feed, received>>

\* Write takes the generation under mutex_ ...
WriteBegins ==
  /\ server.started /\ feed.writing = 0 /\ feed.media < MaxMedia
  /\ feed' = [feed EXCEPT !.media = @ + 1, !.writing = server.gen]
  /\ UNCHANGED <<server, stop, manager, session, conn, expired, tasks, io, received>>

\* ... packetizes, takes the sessions of the manager it found - which Stop clears - and posts.
WritePosts ==
  /\ feed.writing # 0
  /\ feed' = [feed EXCEPT !.writing = 0]
  /\ tasks' = Append(tasks, [do |-> "media", gen |-> feed.writing, number |-> feed.media,
                             to |-> IF server.gen <= feed.writing + 1 THEN manager.sessions ELSE {}])
  /\ UNCHANGED <<server, stop, manager, session, conn, expired, io, received>>

-----------------------------------------------------------------------------
(* The io thread: between Start and the end of Stop *)

IoRuns == server.started \/ stop.todo # "none"

\* A client connects; the handler of the accept is queued.
Incoming ==
  /\ server.accepting /\ manager.next <= MaxConnections
  /\ \E a \in Addresses :
       tasks' = Append(tasks, [do |-> "accept", gen |-> server.gen, number |-> 0, to |-> {a}])
  /\ server' = [server EXCEPT !.accepting = FALSE]
  /\ UNCHANGED <<stop, manager, session, conn, expired, io, feed, received>>

Doing(what) == ~IoFree /\ Head(io).do = what
NextTask(what) == IoRuns /\ IoFree /\ tasks # <<>> /\ Head(tasks).do = what /\ tasks' = Tail(tasks)

\* Defect: the gate of the media does not compare generations.
GateStarted(g) == server.started

\* The gate of the media: the server runs, in the lifecycle of the Write.
Gate(g) == server.started /\ server.gen = g

\* A handler takes mutex_ for its gate once and then works on: OnAccepted looks at started_ ...
OnAccepted ==
  /\ NextTask("accept")
  /\ io' = IF server.started THEN <<Head(tasks)>> ELSE <<>>
  /\ UNCHANGED <<server, stop, manager, session, conn, expired, feed, received>>

\* ... and has Create refuse the client over a limit, or register and start it.  AcceptNext.
CreateSession ==
  /\ Doing("accept") /\ io' = <<>>
  /\ LET a == CHOOSE a \in Addresses : a \in Head(io).to
         c == manager.next
     IN  IF Cardinality(manager.sessions) >= MaxSessions \/ manager.active[a] >= MaxPerAddress
         THEN UNCHANGED <<manager, session, conn>>
         ELSE /\ manager' = [manager EXCEPT !.sessions = @ \cup {c}, !.active[a] = @ + 1,
                                            !.next = @ + 1]
              /\ session' = [session EXCEPT ![c] = [@ EXCEPT !.state = "open", !.address = a]]
              /\ conn' = [conn EXCEPT ![c].state = "open"]
  /\ server' = [server EXCEPT !.accepting = server.started]
  /\ UNCHANGED <<stop, expired, tasks, feed, received>>

\* The media of a Write; that of another lifecycle is dropped, and what only it held with it.
MediaGate ==
  /\ NextTask("media")
  /\ IF Gate(Head(tasks).gen)
     THEN io' = <<Head(tasks)>> /\ UNCHANGED <<manager, session, conn>>
     ELSE io' = <<>> /\ Become(Forget(World, Tail(tasks)))
  /\ UNCHANGED <<server, stop, expired, feed, received>>

\* Defect: media goes to a session that has not asked to PLAY.
SendToAnyone(w, cs, item) == EnqueueWrite(w, {c \in cs : w.session[c].track = "tcp"}, item)

\* SendRtpPayload, which goes into the write queue of a session that plays over its connection;
\* multicast goes out once for all.
SendTo(w, cs, item) ==
  EnqueueWrite(w, {c \in cs : w.session[c].playing /\ w.session[c].track = "tcp"}, item)

SendMedia ==
  /\ Doing("media") /\ io' = <<>>
  /\ Become(SendTo(World, Head(io).to, Rtp(Head(io).gen, Head(io).number)))
  /\ UNCHANGED <<server, stop, expired, tasks, feed, received>>

\* The barrier of Stop.
CloseFound ==
  /\ NextTask("close")
  /\ Become(CloseBoth(World, Head(tasks).to))
  /\ stop' = [stop EXCEPT !.todo = "closed"]
  /\ UNCHANGED <<server, expired, io, feed, received>>

\* An event of the sockets and timers: handled at once, by the io thread.
Event == IoRuns /\ IoFree

\* What the client has sent is read - not after CloseAfterFlush - and ProcessReadBuffer goes on while
\* there is something to parse and the connection is not closed.
Parsed(c) ==
  /\ \/ Event /\ conn[c].state = "open" /\ Open(c)
     \/ Doing("parse") /\ c \in Head(io).to /\ conn[c].state # "closed"
  /\ feed.requests < MaxRequests /\ feed' = [feed EXCEPT !.requests = @ + 1]
  /\ UNCHANGED <<server, stop, expired, tasks, received>>

MoreToParse(c) == io' \in {<<>>, <<[do |-> "parse", gen |-> 0, number |-> 0, to |-> {c}]>>}

ReadOver ==
  /\ Doing("parse") /\ io' = <<>>
  /\ UNCHANGED <<server, stop, manager, session, conn, expired, tasks, feed, received>>

\* A request that passes authentication.
Request(c) ==
  /\ Parsed(c) /\ MoreToParse(c)
  /\ LET Answered(w, m) == EnqueueWrite(w, {c}, Reply(m))
         Playing(p) == [World EXCEPT !.session[c].playing = p]
     IN  \/ Become(Answered(World, "other"))  \* OPTIONS, DESCRIBE, or refused: 404, 455, 461
         \/ session[c].track # "none" /\ Become(Answered(Playing(TRUE), "PLAY"))
         \/ Become(Answered(Playing(FALSE), "PAUSE"))
         \/ \E m \in Modes : Become(SetUp(World, c, m))
         \/ Become(CloseBoth(Answered(Playing(FALSE), "other"), {c}))  \* TEARDOWN

\* SETUP of a transport that cannot be made: the old one is gone, playing_ is as it was.
SetupFails(c) ==
  /\ Parsed(c) /\ MoreToParse(c)
  /\ Become(EnqueueWrite([World EXCEPT !.session[c].track = "none"], {c}, Reply("other")))

\* A request that fails authentication: 401, and after too many the connection is closed.  The
\* count begins anew when the window of its address is over.
Unauthorized(c) ==
  /\ Parsed(c) /\ MoreToParse(c) /\ MaxAuthFailures > 0
  /\ \E failures \in {0, manager.failures[session[c].address]} :
       LET counts == c \in manager.sessions  \* its manager is still there
           w == EnqueueWrite(IF counts THEN [World EXCEPT
                               !.manager.failures[session[c].address] = failures + 1] ELSE World,
                             {c}, Reply("other"))
       IN  Become(IF counts /\ failures + 1 >= MaxAuthFailures THEN CloseAfterFlush(w, c) ELSE w)

\* What cannot be parsed: no more media, 400, and the connection closes when it is written.
ParseError(c) ==
  /\ Parsed(c) /\ io' = <<>>
  /\ Become(CloseAfterFlush(
       EnqueueWrite([World EXCEPT !.session[c].playing = FALSE], {c}, Reply("other")), c))

\* What the client makes of an item.
Receive(r, item) ==
  IF item.kind = "reply"
  THEN IF item.method = "other" THEN r ELSE [r EXCEPT !.answer = item.method]
  ELSE [r EXCEPT !.number = item.number,
                 !.announced = @ /\ r.answer = "PLAY" /\ r.number < item.number]

\* async_write of the front buffer is over; DoWrite goes on with the next.
WriteDone(c) ==
  /\ Event /\ conn[c].queue # <<>>
  /\ received' = [received EXCEPT ![c] = Receive(@, Head(conn[c].queue))]
  /\ LET rest == Tail(conn[c].queue)
         w == [World EXCEPT !.conn[c].queue = rest]
     IN  Become(IF rest = <<>> /\ conn[c].state = "closing" THEN CloseBoth(w, {c}) ELSE w)
  /\ UNCHANGED <<server, stop, expired, tasks, io, feed>>

\* A read or a write of the socket fails: the client is gone.
SocketFails(c) ==
  /\ Event /\ (conn[c].state = "open" \/ conn[c].queue # <<>>)
  /\ Become(CloseBoth(World, {c}))
  /\ UNCHANGED <<server, stop, expired, tasks, io, feed, received>>

\* The timer, armed anew by every request and packet, runs out; a handler that is queued stays so.
IdleExpires(c) ==
  /\ Open(c) /\ expired' = expired \cup {c} /\ c \notin expired
  /\ UNCHANGED <<server, stop, manager, session, conn, tasks, io, feed, received>>

\* OnIdleTimeout: a session that plays stays, and its timer is armed again.
OnIdleTimeout(c) ==
  /\ Event /\ c \in expired /\ expired' = expired \ {c}
  /\ Become(IF Open(c) /\ ~session[c].playing THEN CloseBoth(World, {c}) ELSE World)
  /\ UNCHANGED <<server, stop, tasks, io, feed, received>>

-----------------------------------------------------------------------------
TaskStep == OnAccepted \/ CreateSession \/ MediaGate \/ SendMedia \/ CloseFound \/ ReadOver

StopStep == StopSnapshot \/ StopEnds

Next ==
  \/ Start \/ StopGate \/ WriteBegins \/ WritePosts \/ Incoming \/ TaskStep \/ StopStep
  \/ \E c \in Ids : \/ Request(c) \/ SetupFails(c) \/ Unauthorized(c) \/ ParseError(c)
                    \/ WriteDone(c) \/ SocketFails(c) \/ IdleExpires(c) \/ OnIdleTimeout(c)

Spec == Init /\ [][Next]_vars

-----------------------------------------------------------------------------
(* Properties *)

Items == [kind : {"reply"}, method : {"PLAY", "PAUSE", "SETUP", "other"}]
         \cup [kind : {"rtp"}, gen : 1 .. 2 * MaxLifecycles, number : 1 .. MaxMedia]

\* Types, and the limit of the write queue.
TypeOK ==
  /\ server \in [started : BOOLEAN, gen : 0 .. 2 * MaxLifecycles, accepting : BOOLEAN,
                 lifecycles : 0 .. MaxLifecycles]
  /\ stop \in [todo : {"none", "snapshot", "wait", "closed"}, found : SUBSET Ids]
  /\ manager \in [sessions : SUBSET Ids, active : [Addresses -> Nat],
                  failures : [Addresses -> Nat], next : 1 .. MaxConnections + 1]
  /\ session \in [Ids -> [state : SessionStates, address : Addresses, playing : BOOLEAN,
                          track : Modes \cup {"none"}]]
  /\ \A c \in Ids : /\ conn[c].state \in {"open", "closing", "closed"}
                    /\ conn[c].queue \in Seq(Items) /\ Len(conn[c].queue) <= MaxQueue
                    /\ conn[c].state = "closing" => conn[c].queue # <<>>
  /\ expired \subseteq Ids
  /\ Len(io) <= 1

\* Whatever way a session ends - TEARDOWN, a slow or vanished client, the idle timer, Stop, or two
\* of them at once - it leaves the registry and gives back its place, once: the registry holds open
\* sessions only, and every address counts its own (rtsp_session.cpp:1291-1315).
PlacesCounted ==
  /\ \A c \in manager.sessions : Open(c)
  /\ \A a \in Addresses :
       manager.active[a] = Cardinality({c \in manager.sessions : session[c].address = a})

\* On its TCP connection a client receives media only after the answer to PLAY, never after the
\* answer to PAUSE or SETUP that follows, and once: what was queued before is written before
\* (rtsp_session.cpp:551-588).
MediaAsAnswered == \A c \in Ids : received[c].announced

\* When Stop has returned, every session it found is closed, with its socket; a session that is
\* left was accepted while Stop ran (rtsp_server_protocol.cpp:397-455).
StopClosesFound ==
  stop.todo = "none" => \A c \in stop.found : session[c].state = "closed" /\ conn[c].state = "closed"

\* The registry, the sessions and their sockets agree, whoever closed what.
RegistryAgrees == TypeOK /\ PlacesCounted /\ StopClosesFound

\* What a Write that ran into a Stop, or into the next Start, has posted reaches no client: media is
\* enqueued in the lifecycle it was written in, at most while Stop closes what it found
\* (rtsp_server_protocol.cpp:275-301, 330-336).
MediaOfLifecycle ==
  [][\A c \in Ids :
       Len(conn'[c].queue) > Len(conn[c].queue) /\ Last(conn'[c].queue).kind = "rtp" =>
         Last(conn'[c].queue).gen = IF server.started THEN server.gen ELSE server.gen - 1]_vars

=============================================================================
