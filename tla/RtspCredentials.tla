---------------------------- MODULE RtspCredentials ----------------------------
(***************************************************************************)
(* Whom an RTSP session lets in (src/media/protocol/rtsp/rtsp_session.cpp): *)
(* the Authorization header of each request, as Basic credentials or as    *)
(* the answer to a Digest challenge, whose nonce the session makes, lets   *)
(* age and counts the uses of.                                             *)
(*                                                                         *)
(* The text of a Digest header is a sequence of symbols, a word being one; *)
(* MD5 is a constructor, so that two digests are equal when what they are  *)
(* of is.  Basic credentials are bytes, and their Base64 text is digits.   *)
(***************************************************************************)
EXTENDS Integers, FiniteSets, SequencesExt

CONSTANTS
  Configs,        \* auth_mode ("basic" or "digest"), auth_username and auth_password as bytes
  Methods, Uris,  \* what is asked for
  BasicHeaders,   \* credentials as clients write them: the text, and what it means
  DigestForms,    \* how clients answer a challenge, see Written
  Ttl,            \* auth_nonce_ttl_ms, in ticks
  MaxTicks, MaxWaiting,  \* bounds: the clock, and the requests not yet answered
  MaxRequests, MaxOdd    \* bounds: requests, and those that are not a plain right answer

VARIABLES
  config,    \* the one of Configs the server has
  session,   \* auth_nonce_ (0 when there is none), when it was made, digest_nonce_count_; whether
             \* the connection is open
  made,      \* when each nonce was made
  requests,  \* requests that have not been handled, in order
  answers,   \* answers the client has not read, in order
  client,    \* the nonce it was challenged with last, and how often it has used it
  judged,    \* history: the requests and their verdicts
  clock,
  asked      \* requests, and odd ones, so far

credentialVars == <<config, session, made, requests, answers, client, judged, clock, asked>>

\* What cannot be decoded, and a Digest header that cannot be parsed.
Malformed == <<>>

-----------------------------------------------------------------------------
(* Basic *)

Pad == 64
NoDigit == 65
Bytes(number) == <<number \div 65536, (number \div 256) % 256, number % 256>>

\* ConstantTimeEquals: the shorter text goes on with NULs, and of the lengths one byte is compared.
ByteAt(v, i) == IF i \in DOMAIN v THEN v[i] ELSE 0
ConstantTimeEquals(v, w) ==
  /\ Len(v) % 256 = Len(w) % 256
  /\ \A i \in DOMAIN v \cup DOMAIN w : ByteAt(v, i) = ByteAt(w, i)

\* Four digits.  A "=" may stand in the last place only: one in the third is refused before the
\* fourth is looked at.
GroupBytes(g) ==
  LET digit(i) == IF g[i] = Pad THEN 0 ELSE g[i]
      three == Bytes(digit(1) * 262144 + digit(2) * 4096 + digit(3) * 64 + digit(4))
  IN  IF g[4] = Pad THEN SubSeq(three, 1, 2) ELSE three

Group(text, k) == SubSeq(text, 4 * k - 3, 4 * k)

DecodeBase64(text) ==
  IF /\ text # <<>> /\ Len(text) % 4 = 0
     /\ \A i \in DOMAIN text : text[i] # NoDigit /\ (text[i] = Pad => i = Len(text))
  THEN FlattenSeq([k \in 1 .. Len(text) \div 4 |-> GroupBytes(Group(text, k))])
  ELSE Malformed

Colon == 58

AcceptsBasic(header) ==
  LET decoded == DecodeBase64(header)
      colon == SelectInSeq(decoded, LAMBDA c : c = Colon)
  IN  /\ decoded # Malformed /\ colon # 0
      /\ ConstantTimeEquals(SubSeq(decoded, 1, colon - 1), config.username)
      /\ ConstantTimeEquals(SubSeq(decoded, colon + 1, Len(decoded)), config.password)

-----------------------------------------------------------------------------
(* The text of a Digest header *)

Blanks == {" ", "HT"}
Separators == Blanks \cup {","}

\* The first place from i on with a symbol of S, or not of S; one past the end when there is none.
FirstOf(v, i, S) == Min({j \in i .. Len(v) : v[j] \in S} \cup {Len(v) + 1})
FirstNotOf(v, i, S) == Min({j \in i .. Len(v) : v[j] \notin S} \cup {Len(v) + 1})

LowerCase(key) == [i \in DOMAIN key |-> IF key[i] = "NC" THEN "nc" ELSE key[i]]

NoValue == [value |-> <<>>, next |-> 0]

\* What stands between the quotation mark at i and the next one that has no backslash.
RECURSIVE QuotedValue(_, _, _)
QuotedValue(v, i, value) ==
  CASE i > Len(v) -> NoValue
    [] v[i] = "quote" -> [value |-> value, next |-> i + 1]
    [] v[i] = "backslash" -> IF i = Len(v) THEN NoValue
                             ELSE QuotedValue(v, i + 2, Append(value, v[i + 1]))
    [] OTHER -> QuotedValue(v, i + 1, Append(value, v[i]))

\* Up to the next comma, without the blanks before it.
TokenValue(v, i) ==
  LET comma == FirstOf(v, i, {","})
      ink == {j \in i .. comma - 1 : v[j] \notin Blanks}
  IN  IF ink = {} THEN NoValue ELSE [value |-> SubSeq(v, i, Max(ink)), next |-> comma]

Value(v, i) ==
  IF i <= Len(v) /\ v[i] = "quote" THEN QuotedValue(v, i + 1, <<>>) ELSE TokenValue(v, i)

\* From offset i on, with the parameters found before.
RECURSIVE ParametersFrom(_, _, _)
ParametersFrom(v, i, parameters) ==
  LET begin == FirstNotOf(v, i, Separators)
      end == FirstOf(v, begin, Separators \cup {"="})
      key == LowerCase(SubSeq(v, begin, end - 1))
      equals == FirstNotOf(v, end, Blanks)
      value == Value(v, FirstNotOf(v, equals + 1, Blanks))
      after == FirstNotOf(v, value.next, Blanks)
  IN  CASE begin > Len(v) -> parameters
        [] end = begin -> Malformed
        [] equals > Len(v) \/ v[equals] # "=" -> Malformed
        [] value = NoValue -> Malformed
        [] key \in DOMAIN parameters -> Malformed
        [] after <= Len(v) /\ v[after] # "," -> Malformed
        [] OTHER -> ParametersFrom(v, after, parameters @@ (key :> value.value))

ParseDigestParameters(v) == ParametersFrom(v, 1, <<>>)

-----------------------------------------------------------------------------
(* Digest *)

Nonces == <<"n1", "n2", "n3", "n4">>
Counts == <<"00000001", "00000002", "00000003", "00000004", "00000005">>

Md5Hex(v) == <<"MD5">> \o v

\* What a client sends that answers nonce n for the k-th time.
Response(method, uri, secret, n, k) ==
  Md5Hex(<<"admin", "realm", secret, Nonces[n], Counts[k], "c0", "auth", method, uri>>)
Parameters(n, k, uri, response) ==
  << <<"username", <<"admin">>>>, <<"realm", <<"realm">>>>, <<"nonce", <<Nonces[n]>>>>,
     <<"uri", <<uri>>>>, <<"qop", <<"auth">>>>, <<"nc", <<Counts[k]>>>>, <<"cnonce", <<"c0">>>>,
     <<"response", response>> >>

Quoted(value) == <<"quote">> \o value \o <<"quote">>
Plain(p) == <<p[1], "=">> \o Quoted(p[2])
Spaced(p) == <<IF p[1] = "nc" THEN "NC" ELSE p[1], " ", "=", "HT">> \o p[2] \o <<" ">>
Escaped(p) == Plain(<<p[1], <<"backslash">> \o p[2]>>)
InLine(separator, fields) ==
  FoldLeft(LAMBDA line, field : line \o separator \o field, Head(fields), Tail(fields))
Listed(write(_), ps) == InLine(<<",", " ">>, [i \in DOMAIN ps |-> write(ps[i])])

\* The header a client writes of the parameters of its request, in one of its ways.
Written(form, ps) ==
  CASE form = "spaced" -> Listed(Spaced, ps)
    [] form = "escaped" -> Listed(Escaped, ps)
    [] form = "doubled" -> Listed(Plain, Append(ps, ps[1]))
    [] form = "shortened" -> Listed(Plain, Tail(ps))
    [] form = "open quote" -> Listed(Plain, ps) \o <<",", "algorithm", "=", "quote", "MD5">>
    [] form = "no comma" -> InLine(<<" ">>, [i \in DOMAIN ps |-> Plain(ps[i])])
    [] OTHER -> Listed(Plain, ps)

\* Those that state what is asked for, "again" with a count that has been sent before.
RightForms == {"plain", "spaced", "escaped", "again"}

Required == {<<w>> : w \in {"username", "realm", "nonce", "uri", "response", "qop", "nc", "cnonce"}}

\* ValidateDigestAuthorization up to the nonce.
WellStated(r, p) ==
  /\ Required \subseteq DOMAIN p
  /\ p[<<"username">>] = <<"admin">> /\ p[<<"realm">>] = <<"realm">> /\ p[<<"uri">>] = <<r.uri>>
  /\ p[<<"qop">>] = <<"auth">> /\ p[<<"cnonce">>] # <<>>
  /\ \E k \in DOMAIN Counts : p[<<"nc">>] = <<Counts[k]>>
  /\ p[<<"response">>] # <<>> /\ Head(p[<<"response">>]) = "MD5"

Expired(s) == clock - s.born >= Ttl

\* The verdict, whether the nonce is to be called stale, and digest_nonce_count_ after it.
ValidateDigest(r) ==
  LET p == ParseDigestParameters(r.header)
      current == session.nonce # 0 /\ p[<<"nonce">>] = <<Nonces[session.nonce]>>
      count == SelectInSeq(Counts, LAMBDA c : p[<<"nc">>] = <<c>>)
      refused(stale) == [authorized |-> FALSE, stale |-> stale, count |-> session.count]
  IN  IF ~WellStated(r, p) THEN refused(FALSE)
      ELSE IF ~current \/ Expired(session) THEN refused(current)
      ELSE IF count <= session.count
              \/ p[<<"response">>] # Response(r.method, r.uri, "secret", session.nonce, count)
           THEN refused(FALSE)
      ELSE [authorized |-> TRUE, stale |-> FALSE, count |-> count]

\* AuthenticateRequest: one Authorization header, of the scheme that is configured.
Verdict(r) ==
  IF r.headers # 1 THEN [authorized |-> FALSE, stale |-> FALSE, count |-> session.count]
  ELSE IF config.mode = "digest" THEN ValidateDigest(r)
  ELSE [authorized |-> AcceptsBasic(r.header), stale |-> FALSE, count |-> session.count]

\* Defect: the uses of the old nonce are held against the new one.
EnsureDigestNonceKeepsCount ==
  IF session.nonce # 0 /\ ~Expired(session) THEN session
  ELSE [session EXCEPT !.nonce = Len(made) + 1, !.born = clock]

\* The session once there is a nonce to challenge with.
EnsureDigestNonce ==
  IF session.nonce # 0 /\ ~Expired(session) THEN session
  ELSE [session EXCEPT !.nonce = Len(made) + 1, !.born = clock, !.count = 0]

-----------------------------------------------------------------------------
(* The session *)

Init ==
  /\ config \in Configs
  /\ session = [nonce |-> 0, born |-> 0, count |-> 0, open |-> TRUE]
  /\ made = <<>> /\ requests = <<>> /\ answers = <<>>
  /\ client = [nonce |-> 0, used |-> 0]
  /\ judged = <<>> /\ clock = 0 /\ asked = [all |-> 0, odd |-> 0]

Judgement(r, v) ==
  [right |-> r.right, again |-> r.again, alone |-> r.alone, nonce |-> r.nonce, count |-> r.count,
   at |-> clock, authorized |-> v.authorized, stale |-> v.stale]

\* HandleRequest up to the method: the request goes on, or is challenged; after too many failures
\* of its address the connection is closed once the challenge is written.
HandleRequest(mayContinue) ==
  /\ session.open /\ requests # <<>> /\ requests' = Tail(requests)
  /\ LET r == Head(requests)
         v == Verdict(r)
     IN  /\ judged' = Append(judged, Judgement(r, v))
         /\ IF v.authorized
            THEN /\ mayContinue /\ session' = [session EXCEPT !.count = v.count]
                 /\ answers' = Append(answers, [status |-> 200]) /\ UNCHANGED made
            ELSE LET s == IF config.mode = "digest" THEN EnsureDigestNonce ELSE session
                 IN  /\ session' = [s EXCEPT !.open = mayContinue]
                     /\ made' = IF s.nonce = session.nonce THEN made ELSE Append(made, clock)
                     /\ answers' = Append(answers, [status |-> 401, nonce |-> s.nonce])
  /\ UNCHANGED <<config, client, clock, asked>>

-----------------------------------------------------------------------------
(* The client *)

Ask(r, odd) ==
  /\ asked' = [all |-> asked.all + 1, odd |-> asked.odd + odd]
  /\ asked'.all <= MaxRequests /\ asked'.odd <= MaxOdd
  /\ Len(requests) + Len(answers) < MaxWaiting
  /\ requests' = Append(requests, r)
  /\ UNCHANGED <<config, session, made, answers, judged, clock>>

Waits == requests \o answers # <<>>
Bare == [method |-> "OPTIONS", uri |-> "*", headers |-> 0, header |-> <<>>, nonce |-> 0, count |-> 0,
         right |-> FALSE, again |-> FALSE, alone |-> ~Waits]

AskBare == Ask(Bare, 0) /\ UNCHANGED client

AskBasic(b) ==
  /\ config.mode = "basic" /\ UNCHANGED client
  /\ Ask([Bare EXCEPT !.headers = 1, !.header = b.text,
                      !.right = b.means = <<config.username, config.password>>], 1)

\* Each form but "again" uses the nonce once more.
AskDigest(method, uri, form) ==
  LET k == IF form = "again" THEN client.used ELSE client.used + 1
      n == client.nonce
      response == Response(IF form = "other method" THEN "OPTIONS" ELSE method, uri,
                           IF form = "wrong secret" THEN "guess" ELSE "secret", n, k)
      ps == Parameters(n, k, IF form = "other uri" THEN "*" ELSE uri, response)
  IN  /\ config.mode = "digest" /\ n # 0 /\ k # 0
      /\ client' = [client EXCEPT !.used = k]
      /\ Ask([method |-> method, uri |-> uri, headers |-> IF form = "twice" THEN 2 ELSE 1,
              header |-> Written(form, ps), nonce |-> n, count |-> k, right |-> form \in RightForms,
              again |-> form = "again", alone |-> ~Waits], IF form = "plain" THEN 0 ELSE 1)

ReadAnswer ==
  /\ answers # <<>> /\ answers' = Tail(answers)
  /\ LET a == Head(answers)
     IN  client' = IF config.mode = "digest" /\ a.status = 401 /\ a.nonce # client.nonce
                   THEN [nonce |-> a.nonce, used |-> 0] ELSE client
  /\ UNCHANGED <<config, session, made, requests, judged, clock, asked>>

Tick ==
  /\ clock < MaxTicks /\ clock' = clock + 1
  /\ UNCHANGED <<config, session, made, requests, answers, client, judged, asked>>

Next ==
  \/ \E mayContinue \in BOOLEAN : HandleRequest(mayContinue)
  \/ AskBare \/ ReadAnswer \/ Tick
  \/ \E b \in BasicHeaders : AskBasic(b)
  \/ \E method \in Methods, uri \in Uris, form \in DigestForms : AskDigest(method, uri, form)

Spec == Init /\ [][Next]_credentialVars

-----------------------------------------------------------------------------
(* Properties *)

\* A use of a nonce is good once: what is let in states the right credentials for this very request,
\* and each later request let in on the same nonce has a higher count (rtsp_session.cpp:1097-1116).
LetInOnce ==
  \A i \in DOMAIN judged : judged[i].authorized =>
    /\ judged[i].right
    /\ config.mode = "digest" =>
         /\ judged[i].at - made[judged[i].nonce] < Ttl
         /\ \A j \in 1 .. i - 1 :
              judged[j].authorized /\ judged[j].nonce = judged[i].nonce => judged[j].count < judged[i].count

\* The right answer to a challenge is let in for as long as its nonce lives, however many requests
\* are under way and whatever was refused before it; when it comes too late from a client that waits
\* for its answers, it is told that only the nonce was stale (rtsp_session.cpp:1093-1101, 1142-1152,
\* publisher-protocol-design.md:1423).
RightAnswerCounts ==
  config.mode = "digest" =>
    \A i \in DOMAIN judged : judged[i].right /\ ~judged[i].again /\ ~judged[i].authorized =>
      /\ judged[i].at - made[judged[i].nonce] >= Ttl
      /\ judged[i].alone => judged[i].stale

\* With Basic a request is refused only when its Authorization is missing or wrong
\* (publisher-protocol-design.md:1422).
RightPasswordLetIn ==
  config.mode = "basic" => \A i \in DOMAIN judged : judged[i].right => judged[i].authorized

\* It is so, unless the Base64 text of the credentials ends in two "=".
TwoPads == (Len(config.username) + 1 + Len(config.password)) % 3 = 1

CredentialsJudged == LetInOnce /\ RightAnswerCounts /\ (TwoPads \/ RightPasswordLetIn)

=============================================================================
