------------------------------ MODULE RtspSamples ------------------------------
(***************************************************************************)
(* What clients send in the small instances of RtspMessages, of            *)
(* RtspCredentials, of RtspTracks and of RtspMulticast: messages that are  *)
(* at a limit or one beyond it, that use what the grammar allows rarely,   *)
(* or that break it in one place.                                          *)
(***************************************************************************)
EXTENDS Integers, SequencesExt

Line(text) == text \o <<"CR", "LF">>
RequestLine(uri) == <<"PLAY", " ">> \o uri \o <<" ", "RTSP/", "1", ".", "0">>
Plain == <<"rtsp", ":", "cam">>
Escaped == <<"rtsp", ":", "%", "2", "f">>

Field(name, value) == [name |-> <<name>>, value |-> value]

\* A request as it is written, and what it means.
RequestOf(uri, lines, headers, body) ==
  [bytes |-> Line(RequestLine(uri)) \o lines \o Line(<<>>) \o body,
   means |-> [kind |-> "request", method |-> <<"PLAY">>, uri |-> uri, version |-> <<1, 0>>,
              headers |-> headers, body |-> body]]

Malformed(bytes) == [bytes |-> bytes, means |-> [kind |-> "malformed"]]
Fields(lines) == Malformed(Line(RequestLine(Plain)) \o lines \o Line(<<>>))

Session(value) == <<"Session", ":">> \o value
Length(name, value) == <<name, ":">> \o value

\* The least a client may send: an empty frame.
EmptyFrame == [bytes |-> <<"$", "1", "0", "0">>, means |-> [kind |-> "nothing"]]
OnlyEmptyFrame == <<EmptyFrame>>

WellFormed == {
  RequestOf(Plain, <<>>, <<>>, <<>>),
  RequestOf(<<"*">>, Line(Session(<<>>)), <<Field("Session", <<>>)>>, <<>>),
  RequestOf(Escaped, Line(Session(<<" ", "1", "HT">>)), <<Field("Session", <<"1">>)>>, <<>>),
  RequestOf(Plain, Line(Length("Content-Length", <<" ", "3">>)),
          <<Field("Content-Length", <<"3">>)>>, <<"$", "CR", "LF">>),
  RequestOf(Plain, Line(Length("Content-Length", <<"1">>)) \o Line(Length("CONTENT-LENGTH", <<"0", "1", " ">>)),
          <<Field("Content-Length", <<"1">>), Field("CONTENT-LENGTH", <<"0", "1">>)>>, <<"LF">>),
  RequestOf(Plain, Line(Session(<<>>)) \o Line(<<" ">>) \o Line(<<"HT", "1">>),
          <<Field("Session", <<"1">>)>>, <<>>),
  RequestOf(Plain, Line(Session(<<"1">>)) \o Line(<<" ", "2", " ">>), <<Field("Session", <<"1", " ", "2">>)>>,
          <<>>),
  [bytes |-> <<"$", "1", "0", "3", "CR", "LF", "$">>,
   means |-> [kind |-> "frame", channel |-> "1", payload |-> <<"CR", "LF", "$">>]],
  EmptyFrame }

BadlyFormed == {
  Malformed(RequestLine(Plain) \o <<"LF">>),
  Malformed(<<"LF">>),
  Malformed(RequestLine(Plain) \o <<"CR", "CR">>),
  Malformed(Line(RequestLine(Plain \o <<" ">>))),
  Malformed(Line(RequestLine(<<"rtsp", ":", "%", "f">>))),
  Malformed(Line(RequestLine(<<"cam">>))),
  Malformed(Line(RequestLine(Escaped \o <<"/">>))),
  Fields(Line(<<"Session">>)),
  Fields(Line(<<"Session", " ", ":", "1">>)),
  Fields(Line(<<" ", "1">>)),
  Fields(Line(Session(<<"NUL">>))),
  Fields(Line(Session(<<"1", "2", "3", "0">>))),
  Fields(Line(Session(<<"1">>)) \o Line(Session(<<"1">>)) \o Line(Session(<<"1">>))),
  Fields(Line(Session(<<"1">>)) \o Line(Session(<<>>)) \o Line(Session(<<>>))),
  Fields(Line(Length("Content-Length", <<"1", "0">>))),
  Fields(Line(Length("Content-Length", <<>>))),
  Fields(Line(Length("Content-Length", <<"1">>)) \o Line(Length("CONTENT-LENGTH", <<"2">>))) }

SampleStreams ==
  {<<m>> : m \in WellFormed \cup BadlyFormed}
  \cup {<<m, n>> : m \in WellFormed, n \in WellFormed \cup BadlyFormed}

-----------------------------------------------------------------------------
(* Credentials *)

\* RFC 4648: three bytes are four digits; 64 is "=".
Sextets(bytes, k) ==
  LET byte(i) == IF i <= Len(bytes) THEN bytes[i] ELSE 0
      number == byte(3 * k - 2) * 65536 + byte(3 * k - 1) * 256 + byte(3 * k)
  IN  [i \in 1 .. 4 |-> IF 3 * k + i - 4 <= Len(bytes) THEN (number \div 64 ^ (4 - i)) % 64 ELSE 64]
Base64(bytes) == FlattenSeq([k \in 1 .. (Len(bytes) + 2) \div 3 |-> Sextets(bytes, k)])

BasicConfig(username, password) == [mode |-> "basic", username |-> username, password |-> password]
\* "a" with the passwords "b", "b:" and ":b" and a last byte; 58 is ":".
BasicConfigs ==
  {BasicConfig(<<97>>, <<98>>), BasicConfig(<<97>>, <<98, 58>>), BasicConfig(<<97>>, <<58, 98, 255>>)}
DigestConfig == [mode |-> "digest", username |-> <<>>, password |-> <<>>]
SampleConfigs == BasicConfigs \cup {DigestConfig}

Basic(text, means) == [text |-> text, means |-> means]
SampleBasicHeaders ==
  {Basic(Base64(c.username \o <<58>> \o c.password), <<c.username, c.password>>) : c \in BasicConfigs}
  \cup {Basic(Base64(<<97, 58>>), <<<<97>>, <<>>>>), Basic(Base64(<<97, 98, 99>>), <<>>),
        Basic(Base64(<<97, 58, 98, 0, 0, 0>>), <<<<97>>, <<98, 0, 0, 0>>>>),
        Basic(<<>>, <<>>), Basic(<<24, 19, 41>>, <<>>), Basic(<<24, 19, 41, 65>>, <<>>),
        Basic(<<64, 64, 64, 64>>, <<>>), Basic(<<24, 19, 40, 64, 24, 19, 41, 34>>, <<>>)}

-----------------------------------------------------------------------------
(* Transport headers *)

Alternative(protocol, flag, params) == [protocol |-> protocol, flags |-> {flag}, params |-> params]
TcpOn(params) == <<Alternative("rtp/avp/tcp", "unicast", params)>>
UdpTo(params) == Alternative("rtp/avp/udp", "unicast", params)
MulticastWith(ttl) == Alternative("rtp/avp", "multicast", "ttl" :> <<ttl>>)

\* Destination 2 is of the family of the client's address, 3 is not.
SampleTransports == {
  TcpOn(<<>>), TcpOn("interleaved" :> <<2, 3>>), TcpOn("interleaved" :> <<255, 256>>),
  <<UdpTo(<<>>), UdpTo(("client_port" :> <<50, 51>>) @@ ("destination" :> <<2>>))>>,
  <<UdpTo(("client_port" :> <<50, 51>>) @@ ("destination" :> <<3>>))>>,
  <<MulticastWith(256), MulticastWith(255)>> }

SampleGroup == [mode |-> "multicast", channels |-> <<0, 1>>, client |-> <<0, 0>>, server |-> <<60, 61>>,
                ttl |-> 16, destination |-> 7, source |-> 0]

-----------------------------------------------------------------------------
(* Multicast *)

GroupAsked(destination, port, ttl) ==
  [destination |-> destination, rtp |-> port, rtcp |-> port, ttl |-> ttl]
SampleOptions == GroupAsked("group", 1, 0)
SampleGroupsAsked == {GroupAsked("", 0, 0), GroupAsked("other group", 2, 1), GroupAsked("host", 0, 0)}

\* An RTCP packet whose report count is that of its blocks, and whose length is right.
Rtcp(type, header, reporter, about) ==
  [version |-> 2, type |-> type, count |-> Len(about), size |-> header + 24 * Len(about),
   reporter |-> reporter, about |-> about]
Rr(reporter, about) == Rtcp("RR", 8, reporter, about)
Sr(reporter, about) == Rtcp("SR", 28, reporter, about)
Datagram(packets) ==
  [packets |-> packets, bytes |-> FoldLeft(LAMBDA n, p : n + p.size, 0, packets)]

SampleDatagrams == {
  Datagram(<<Rr("a", <<"stream", "else">>), Rr("b", <<"stream">>)>>),
  Datagram(<<Sr("b", <<"stream">>), Rtcp("BYE", 8, "b", <<>>)>>),
  [Datagram(<<Rr("a", <<"stream">>), Rr("b", <<"stream">>)>>) EXCEPT !.bytes = 60],
  Datagram(<<[Rr("b", <<"stream", "stream">>) EXCEPT !.size = 32]>>),
  Datagram(<<[Rr("b", <<"stream">>) EXCEPT !.version = 1], Rr("b", <<"stream">>)>>) }

=============================================================================
