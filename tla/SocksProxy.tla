----------------------------- MODULE SocksProxy -----------------------------
(***************************************************************************)
(* The SOCKS5 proxy of one session (socks.ts, socks-protocol.ts): clients  *)
(* come through the relay, each is translated to one HTTP CONNECT through  *)
(* the session's Squid listener, then both streams are piped.              *)
(*                                                                         *)
(* A socket delivers what its peer sent in pieces of any size, and its end *)
(* when everything else has been read.  The clients, the relay and Squid   *)
(* are external: a client sends any of Scripts, Squid answers any of       *)
(* Answers or nothing; either side may end its stream or break at any      *)
(* time.  A connection's data is reset when its socket has closed, so that *)
(* c is a place that many connections take in turn.                        *)
(***************************************************************************)
EXTENDS Naturals, Sequences, FiniteSets

CONSTANTS
  Conns,           \* places of connections
  Scripts,         \* what a client may send: sequences of bytes
  Answers,         \* what Squid may send: sequences of tokens, see Status
  maxConnections,
  MaxClientBytes,  \* MAX_CLIENT_BYTES
  MaxHeader        \* MAX_HEADER_BYTES, in tokens

ASSUME ConstantsAssumption ==
  /\ Scripts \subseteq Seq(0..255)
  /\ Answers \subseteq Seq({"line", "status", "data"} \X (0..999))
  /\ maxConnections \in Nat \ {0} /\ MaxClientBytes \in Nat /\ MaxHeader \in Nat
  /\ IsFiniteSet(Conns)

VARIABLES
  server,    \* the listening socket
  closing, closer,  \* close() was called; how far it is
  clients,   \* this.clients
  phase, sock, input, headers, up,   \* of a connection; sock is its client's socket
  script, answer,       \* what the client sends, what Squid answers
  wire, rwire,          \* ... and what of it has not been read yet
  fin, seen,            \* the sides that ended their stream; whose end was forwarded
  toClient, toUp        \* what was written to the client, and piped to Squid

serverVars == <<server, closing, closer, clients>>
handshakeVars == <<phase, sock, input, headers, up>>
peerVars == <<script, answer, wire, rwire, fin, seen>>
outVars == <<toClient, toUp>>
vars == <<serverVars, handshakeVars, peerVars, outVars>>

Handshake == {"greeting", "request", "proxy"}
Phases == {"none", "closed", "stream"} \cup Handshake
Tokens == {"line", "status", "data"} \X (0..999)
Frames == ({"method", "reply"} \X (0..999)) \cup Tokens

TypeOK ==
  /\ server \in {"new", "opening", "listening", "stopped"}
  /\ closing \in BOOLEAN /\ closer \in {"none", "waiting", "draining", "done"}
  /\ (closer # "none") = closing
  /\ clients \subseteq Conns
  /\ phase \in [Conns -> Phases]
  /\ sock \in [Conns -> {"none", "open", "flushing", "destroyed"}]
  /\ input \in [Conns -> Seq(0..255)] /\ headers \in [Conns -> Seq(Tokens)]
  /\ up \in [Conns -> {"none", "connecting", "asked"}]
  /\ script \in [Conns -> Seq(0..255)] /\ answer \in [Conns -> Seq(Tokens)]
  /\ wire \in [Conns -> Seq(0..255)] /\ rwire \in [Conns -> Seq(Tokens)]
  /\ fin \in [Conns -> SUBSET {"client", "squid"}]
  /\ seen \in [Conns -> SUBSET {"client", "squid"}]
  /\ toClient \in [Conns -> Seq(Frames)] /\ toUp \in [Conns -> Seq(0..255)]

Init ==
  /\ server = "new" /\ closing = FALSE /\ closer = "none" /\ clients = {}
  /\ phase = [c \in Conns |-> "none"] /\ sock = [c \in Conns |-> "none"]
  /\ up = [c \in Conns |-> "none"]
  /\ fin = [c \in Conns |-> {}] /\ seen = [c \in Conns |-> {}]
  /\ input = [c \in Conns |-> <<>>] /\ headers = [c \in Conns |-> <<>>]
  /\ script = [c \in Conns |-> <<>>] /\ answer = [c \in Conns |-> <<>>]
  /\ wire = [c \in Conns |-> <<>>] /\ rwire = [c \in Conns |-> <<>>]
  /\ toClient = [c \in Conns |-> <<>>] /\ toUp = [c \in Conns |-> <<>>]

Rest(s, n) == SubSeq(s, n + 1, Len(s))
-----------------------------------------------------------------------------
(* The incremental parser.  A result says whether more is needed, where the  *)
(* message ends, or with which reply it is refused.                          *)
More == [is |-> "more", n |-> 0]
Ends(n) == [is |-> "end", n |-> n]
Refuse(code) == [is |-> "refuse", n |-> code]
NoMethod == [is |-> "method", n |-> 1]

greetingLength(s) ==
  IF Len(s) < 2 THEN More
  ELSE IF s[1] # 5 THEN Refuse(1)
  ELSE IF s[2] = 0 THEN NoMethod
  ELSE IF Len(s) < 2 + s[2] THEN More
  ELSE IF \A i \in 3..(2 + s[2]) : s[i] # 0 THEN NoMethod
  ELSE Ends(2 + s[2])

Alnum(b) == b \in 48..57 \cup 65..90 \cup 97..122
Dot == 46
\* Labels of letters, digits and inner hyphens, of at most 63 bytes.
HostName(h) ==
  /\ Len(h) > 0 /\ Alnum(h[1]) /\ Alnum(h[Len(h)])
  /\ \A i \in 1..Len(h) : Alnum(h[i]) \/ h[i] \in {45, Dot}
  /\ \A i \in 1..Len(h) : h[i] = Dot => Alnum(h[i-1]) /\ Alnum(h[i+1])
  /\ \A i \in 1..Len(h) : i + 63 <= Len(h) => \E j \in i..(i + 63) : h[j] = Dot
WithoutDot(h) == IF h[Len(h)] = Dot THEN SubSeq(h, 1, Len(h) - 1) ELSE h

domainAddress(s) ==
  IF Len(s) < 5 THEN More
  ELSE IF s[5] = 0 \/ s[5] > 253 THEN Refuse(8)
  ELSE IF Len(s) < 7 + s[5] THEN More
  ELSE IF ~HostName(WithoutDot(SubSeq(s, 6, 5 + s[5]))) THEN Refuse(8)
  ELSE Ends(7 + s[5])
fixedAddress(s, end) == IF Len(s) < end THEN More ELSE Ends(end)
address(s) ==
  CASE s[4] = 1 -> fixedAddress(s, 10)
    [] s[4] = 4 -> fixedAddress(s, 22)
    [] s[4] = 3 -> domainAddress(s)
    [] OTHER -> Refuse(8)

connectRequest(s) ==
  IF Len(s) < 4 THEN More
  ELSE IF s[1] # 5 \/ s[3] # 0 THEN Refuse(1)
  ELSE IF s[2] # 1 THEN Refuse(7)
  ELSE LET a == address(s)
       IN IF a.is # "end" THEN a
          ELSE IF s[a.n - 1] = 0 /\ s[a.n] = 0 THEN Refuse(1) ELSE a
-----------------------------------------------------------------------------
\* Writing to a socket that is not open is lost.
Written(c, frame) ==
  IF sock[c] = "open" THEN Append(toClient[c], frame) ELSE toClient[c]

UpAfterFail(c) == [up EXCEPT ![c] = "none"]
\* fail() after the frames in out: at most one frame more, none in a stream.
Frame_Always(c, ph, frame) == frame
Frame(c, ph, frame) == IF ph \in {"greeting", "stream"} THEN <<>> ELSE frame
FailAs(c, out, frame) ==
  /\ phase' = [phase EXCEPT ![c] = "closed"]
  /\ input' = [input EXCEPT ![c] = <<>>] /\ headers' = [headers EXCEPT ![c] = <<>>]
  /\ up' = UpAfterFail(c)
  /\ LET ends == frame # <<>> /\ sock[c] = "open"
     IN /\ toClient' = [toClient EXCEPT ![c] = IF ends THEN out \o frame ELSE out]
        /\ sock' = [sock EXCEPT ![c] = IF ends THEN "flushing" ELSE "destroyed"]
Reply(code) == <<<<"reply", code>>>>
Fail(c, code) == FailAs(c, toClient[c], Frame(c, phase[c], Reply(code)))
-----------------------------------------------------------------------------
\* listen() and its outcome.
Listen ==
  /\ server = "new" /\ ~closing /\ server' = "opening"
  /\ UNCHANGED <<closing, closer, clients, handshakeVars, peerVars, outVars>>
Listening ==
  /\ server = "opening" /\ server' \in {"listening", "stopped"}
  /\ UNCHANGED <<closing, closer, clients, handshakeVars, peerVars, outVars>>

\* close(): waits for listen(), destroys the clients, waits until they are gone.
Close ==
  /\ ~closing /\ closing' = TRUE /\ closer' = "waiting"
  /\ UNCHANGED <<server, clients, handshakeVars, peerVars, outVars>>
Settled_Assumed == TRUE
Settled == server # "opening"
CloseClients ==
  /\ closer = "waiting" /\ Settled
  /\ sock' = [c \in Conns |-> IF c \in clients THEN "destroyed" ELSE sock[c]]
  /\ server' = IF server = "listening" THEN "stopped" ELSE server
  /\ closer' = IF server = "listening" THEN "draining" ELSE "done"
  /\ UNCHANGED <<closing, clients, phase, input, headers, up, peerVars, outVars>>
Drained ==
  /\ closer = "draining" /\ \A c \in Conns : sock[c] = "none"
  /\ closer' = "done"
  /\ UNCHANGED <<server, closing, clients, handshakeVars, peerVars, outVars>>

\* accept(): refused while closing or at the limit.
Full == Cardinality(clients) >= maxConnections
Accept(c, s) ==
  /\ server = "listening" /\ sock[c] = "none"
  /\ IF closing \/ Full
       THEN /\ sock' = [sock EXCEPT ![c] = "destroyed"]
            /\ UNCHANGED <<clients, phase, script, wire>>
       ELSE /\ sock' = [sock EXCEPT ![c] = "open"]
            /\ clients' = clients \cup {c}
            /\ phase' = [phase EXCEPT ![c] = "greeting"]
            /\ script' = [script EXCEPT ![c] = s] /\ wire' = [wire EXCEPT ![c] = s]
  /\ UNCHANGED <<server, closing, closer, input, headers, up, answer, rwire, fin,
                 seen, outVars>>

\* A frame that was the last has been sent: destroySoon().
Flushed(c) ==
  /\ sock[c] = "flushing" /\ sock' = [sock EXCEPT ![c] = "destroyed"]
  /\ UNCHANGED <<serverVars, phase, input, headers, up, peerVars, outVars>>
\* The close event of a client's socket.
UpAfterClose(c) == [up EXCEPT ![c] = "none"]
ClientClosed(c) ==
  /\ \/ sock[c] = "destroyed"
     \/ sock[c] = "open" /\ seen[c] = {"client", "squid"}
  /\ clients' = clients \ {c} /\ up' = UpAfterClose(c)
  /\ sock' = [sock EXCEPT ![c] = "none"] /\ phase' = [phase EXCEPT ![c] = "none"]
  /\ fin' = [fin EXCEPT ![c] = {}] /\ seen' = [seen EXCEPT ![c] = {}]
  /\ input' = [input EXCEPT ![c] = <<>>] /\ headers' = [headers EXCEPT ![c] = <<>>]
  /\ script' = [script EXCEPT ![c] = <<>>] /\ wire' = [wire EXCEPT ![c] = <<>>]
  /\ answer' = [answer EXCEPT ![c] = <<>>] /\ rwire' = [rwire EXCEPT ![c] = <<>>]
  /\ toClient' = [toClient EXCEPT ![c] = <<>>] /\ toUp' = [toUp EXCEPT ![c] = <<>>]
  /\ UNCHANGED <<server, closing, closer>>
-----------------------------------------------------------------------------
\* clientData() with what has been read so far, and out already written.
Request(c, data, out) ==
  LET r == connectRequest(data)
  IN CASE r.is = "more" ->
            /\ phase' = [phase EXCEPT ![c] = "request"]
            /\ input' = [input EXCEPT ![c] = data]
            /\ toClient' = [toClient EXCEPT ![c] = out]
            /\ UNCHANGED <<sock, headers, up>>
       [] r.is = "end" ->
            /\ phase' = [phase EXCEPT ![c] = "proxy"]
            /\ input' = [input EXCEPT ![c] = Rest(data, r.n)]
            /\ up' = [up EXCEPT ![c] = "connecting"]
            /\ toClient' = [toClient EXCEPT ![c] = out]
            /\ UNCHANGED <<sock, headers>>
       [] OTHER -> FailAs(c, out, Reply(r.n))
Greeting(c, data) ==
  LET g == greetingLength(data)
  IN CASE g.is = "more" ->
            /\ input' = [input EXCEPT ![c] = data]
            /\ UNCHANGED <<phase, sock, headers, up, toClient>>
       [] g.is = "end" -> Request(c, Rest(data, g.n), Written(c, <<"method", 0>>))
       [] g.is = "method" -> FailAs(c, toClient[c], <<<<"method", 255>>>>)
       [] OTHER -> FailAs(c, toClient[c], <<>>)
TooMuch_Total(data) == Len(data) > MaxClientBytes + MaxHeader
TooMuch(data) == Len(data) > MaxClientBytes
\* A read of k bytes; the socket is paused from "proxy" on.
ClientData(c, k) ==
  /\ sock[c] = "open" /\ phase[c] \in {"greeting", "request"}
  /\ LET data == input[c] \o SubSeq(wire[c], 1, k)
     IN IF TooMuch(data) THEN Fail(c, 1)
        ELSE IF phase[c] = "greeting" THEN Greeting(c, data)
        ELSE Request(c, data, toClient[c])
  /\ wire' = [wire EXCEPT ![c] = Rest(@, k)]
  /\ UNCHANGED <<serverVars, script, answer, rwire, fin, seen, toUp>>
\* The end of the client's stream, in any phase before the stream; the socket is paused
\* while Squid is asked, so that the end is as a rule seen only later.
ClientEnd(c) ==
  /\ sock[c] = "open" /\ phase[c] \in Handshake /\ wire[c] = <<>>
  /\ "client" \in fin[c] /\ Fail(c, 1)
  /\ UNCHANGED <<serverVars, peerVars, toUp>>
ClientError(c) ==
  /\ sock[c] = "open" /\ c \in clients
  /\ phase' = [phase EXCEPT ![c] = "closed"] /\ up' = UpAfterFail(c)
  /\ sock' = [sock EXCEPT ![c] = "destroyed"]
  /\ UNCHANGED <<serverVars, input, headers, peerVars, outVars>>
-----------------------------------------------------------------------------
\* The connection to Squid: CONNECT is written when it is there.
Connected(c, a) ==
  /\ up[c] = "connecting" /\ up' = [up EXCEPT ![c] = "asked"]
  /\ answer' = [answer EXCEPT ![c] = a] /\ rwire' = [rwire EXCEPT ![c] = a]
  /\ UNCHANGED <<serverVars, phase, sock, input, headers, script, wire, fin, seen,
                 outVars>>
\* ECONNREFUSED, ENETUNREACH, EHOSTUNREACH, ETIMEDOUT, another error; a close.
UpError(c) ==
  /\ up[c] # "none"
  /\ \E code \in {1, 3, 4, 5, 6} : Fail(c, code)
  /\ UNCHANGED <<serverVars, peerVars, toUp>>
UpEnd(c) ==
  /\ up[c] = "asked" /\ phase[c] = "proxy" /\ "squid" \in fin[c] /\ rwire[c] = <<>>
  /\ Fail(c, 4)
  /\ UNCHANGED <<serverVars, peerVars, toUp>>

StatusReply(code) ==
  CASE code \in {403, 405, 407} -> 2
    [] code = 502 -> 4 [] code = 503 -> 3 [] code = 504 -> 6
    [] OTHER -> 1
\* The status token ends the header; 0 stands for one that cannot be parsed.
Ended(h) == {i \in 1..Len(h) : h[i][1] = "status"}
\* Coalesced bytes are put back into the streams they came from.
Unshifted_Dropped(rest, stream) == stream
Unshifted(rest, stream) == rest \o stream
Streams(c, rest, later) ==
  /\ phase' = [phase EXCEPT ![c] = "stream"]
  /\ toClient' = [toClient EXCEPT ![c] = Written(c, <<"reply", 0>>)]
  /\ wire' = [wire EXCEPT ![c] = Unshifted(input[c], @)]
  /\ rwire' = [rwire EXCEPT ![c] = Unshifted(rest, later)]
  /\ input' = [input EXCEPT ![c] = <<>>] /\ headers' = [headers EXCEPT ![c] = <<>>]
  /\ UNCHANGED <<sock, up>>
\* proxyData() with a read of k tokens.
ProxyData(c, k) ==
  /\ up[c] = "asked" /\ phase[c] = "proxy"
  /\ LET h == headers[c] \o SubSeq(rwire[c], 1, k)
         later == Rest(rwire[c], k)
         end == CHOOSE i \in Ended(h) : \A j \in Ended(h) : i <= j
         code == h[end][2]
         Fails(reply) == /\ Fail(c, reply) /\ UNCHANGED wire
                         /\ rwire' = [rwire EXCEPT ![c] = later]
     IN IF Len(h) > MaxHeader + MaxClientBytes THEN Fails(1)
        ELSE IF Ended(h) = {}
               THEN IF Len(h) > MaxHeader
                      THEN Fails(1)
                      ELSE /\ headers' = [headers EXCEPT ![c] = h]
                           /\ rwire' = [rwire EXCEPT ![c] = later]
                           /\ UNCHANGED <<phase, sock, input, up, wire, toClient>>
        ELSE IF end > MaxHeader THEN Fails(1)
        ELSE IF code # 200 THEN Fails(StatusReply(code))
        ELSE Streams(c, Rest(h, end), later)
  /\ UNCHANGED <<serverVars, script, answer, fin, seen, toUp>>
-----------------------------------------------------------------------------
\* The pipes, a byte at a time; the end of one stream ends the other's writing.
PipeUp(c) ==
  /\ phase[c] = "stream" /\ sock[c] = "open" /\ wire[c] # <<>>
  /\ toUp' = [toUp EXCEPT ![c] = Append(@, Head(wire[c]))]
  /\ wire' = [wire EXCEPT ![c] = Tail(@)]
  /\ UNCHANGED <<serverVars, handshakeVars, script, answer, rwire, fin, seen, toClient>>
PipeDown(c) ==
  /\ phase[c] = "stream" /\ up[c] = "asked" /\ rwire[c] # <<>>
  /\ toClient' = [toClient EXCEPT ![c] = Written(c, Head(rwire[c]))]
  /\ rwire' = [rwire EXCEPT ![c] = Tail(@)]
  /\ UNCHANGED <<serverVars, handshakeVars, script, answer, wire, fin, seen, toUp>>
PipeEnd(c) ==
  /\ phase[c] = "stream" /\ sock[c] = "open"
  /\ \E side \in fin[c] \ seen[c] :
       /\ (IF side = "client" THEN wire[c] = <<>> ELSE rwire[c] = <<>>)
       /\ seen' = [seen EXCEPT ![c] = @ \cup {side}]
  /\ UNCHANGED <<serverVars, handshakeVars, script, answer, wire, rwire, fin, outVars>>

\* The handshake timer, the idle timer: fail(6).
Timer_HandshakeOnly(c) == phase[c] \in Handshake
Timer(c) == phase[c] \in Handshake \cup {"stream"}
TimedOut(c) ==
  /\ Timer(c) /\ Fail(c, 6)
  /\ UNCHANGED <<serverVars, peerVars, toUp>>

\* A peer ends its stream after all it has sent.
PeerEnds(c, side) ==
  /\ c \in clients /\ side \notin fin[c] /\ (side = "squid" => up[c] = "asked")
  /\ fin' = [fin EXCEPT ![c] = @ \cup {side}]
  /\ UNCHANGED <<serverVars, handshakeVars, script, answer, wire, rwire, seen, outVars>>

Next ==
  \/ Listen \/ Listening \/ Close \/ CloseClients \/ Drained
  \/ \E c \in Conns :
       \/ \E s \in Scripts : Accept(c, s)
       \/ Flushed(c) \/ ClientClosed(c) \/ ClientEnd(c) \/ ClientError(c)
       \/ \E k \in 1..Len(wire[c]) : ClientData(c, k)
       \/ \E a \in Answers : Connected(c, a)
       \/ UpError(c) \/ UpEnd(c)
       \/ \E k \in 1..Len(rwire[c]) : ProxyData(c, k)
       \/ PipeUp(c) \/ PipeDown(c) \/ PipeEnd(c) \/ TimedOut(c)
       \/ \E side \in {"client", "squid"} : PeerEnds(c, side)

Spec == Init /\ [][Next]_vars

\* The event loop delivers a closed socket's event and a timer's; the kernel takes
\* a frame of ten bytes; listen() has an outcome.  Peers owe nothing.
FairSpec ==
  /\ Spec /\ WF_vars(Listening) /\ WF_vars(CloseClients) /\ WF_vars(Drained)
  /\ \A c \in Conns : /\ WF_vars(TimedOut(c)) /\ WF_vars(Flushed(c))
                      /\ WF_vars(ClientClosed(c))
-----------------------------------------------------------------------------
\* What the client sends after its request.
Payload(s) ==
  LET g == greetingLength(s)
      r == connectRequest(Rest(s, g.n))
  IN Rest(s, g.n + r.n)
\* What Squid sends after its header.
Banner(a) == Rest(a, CHOOSE i \in Ended(a) : \A j \in Ended(a) : i <= j)
IsPrefixOf(p, s) == Len(p) <= Len(s) /\ p = SubSeq(s, 1, Len(p))

\* The target gets the client's payload in order, each byte once, however the bytes
\* were coalesced with the handshake, and only after the client has been told of
\* success; an end that is passed on means that everything before it was
\* (clientData, proxyData, unshift, pipe).
PayloadInOrder ==
  \A c \in Conns :
    /\ toUp[c] # <<>> => /\ IsPrefixOf(toUp[c], Payload(script[c]))
                         /\ <<"reply", 0>> \in {toClient[c][i] : i \in DOMAIN toClient[c]}
    /\ "client" \in seen[c] => toUp[c] = Payload(script[c])

\* The client gets one method, then one reply, and what follows a success is what
\* the target sent, in order and without a failure's frame in it: a reply never
\* lands in the stream (fail, proxyData).
RepliesInOrder ==
  \A c \in Conns :
    \/ toClient[c] = <<>> \/ toClient[c] = <<<<"method", 255>>>>
    \/ /\ toClient[c][1] = <<"method", 0>>
       /\ \/ Len(toClient[c]) = 1
          \/ Len(toClient[c]) = 2 /\ toClient[c][2][1] = "reply"
          \/ /\ toClient[c][2] = <<"reply", 0>>
             /\ IsPrefixOf(Rest(toClient[c], 2), Banner(answer[c]))

\* A connection to Squid never outlives its client or a failure of its connection,
\* so that the limit on clients is one on connections to Squid too, and what is kept
\* of unfinished messages is bounded however they are cut (fail, the close event of
\* the client, clientData, proxyData).
UpstreamBounded ==
  /\ Cardinality(clients) <= maxConnections
  /\ \A c \in Conns : Len(input[c]) <= MaxClientBytes /\ Len(headers[c]) <= MaxHeader
  /\ \A c \in Conns : up[c] # "none" => c \in clients /\ phase[c] \in {"proxy", "stream"}

\* A client that holds a place gives it back, whatever it and Squid do or do not
\* do: a silent peer, a half-closed stream, a failed handshake (the timers).
PlaceFreed == \A c \in Conns : c \in clients ~> c \notin clients

\* close() returns, even during listen() and while connections arrive, and from then
\* on nothing listens and no connection is left (close, accept).
CloseReturns ==
  closing ~> [](closer = "done" /\ clients = {} /\ server \in {"new", "stopped"})
=============================================================================
