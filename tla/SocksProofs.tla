----------------------------- MODULE SocksProofs -----------------------------
(***************************************************************************)
(* The SOCKS proxy for any number of connections and any limits, whatever  *)
(* the clients and Squid send, cut into reads in whatever way.             *)
(***************************************************************************)
EXTENDS SocksProxy, SequenceTheorems, FiniteSetTheorems, TLAPS

Bytes == 0 .. 255
-----------------------------------------------------------------------------
(* Sequences.                                                               *)

LEMMA RestProperties ==
  ASSUME NEW S, NEW s \in Seq(S), NEW n \in Nat
  PROVE  /\ Rest(s, n) \in Seq(S)
         /\ Len(Rest(s, n)) = IF n <= Len(s) THEN Len(s) - n ELSE 0
         /\ \A i \in 1 .. Len(s) - n : Rest(s, n)[i] = s[n + i]
<1>1. \A i \in n + 1 .. Len(s) : s[i] \in S
  BY ElementOfSeq
<1>2. Len(s) \in Nat /\ n + 1 \in Int /\ Len(s) - (n + 1) + 1 = Len(s) - n
  OBVIOUS
<1> QED
  BY <1>1, <1>2, SubSeqProperties DEF Rest

\* What follows a message does not depend on what is read later.
LEMMA RestOfConcat ==
  ASSUME NEW S, NEW s \in Seq(S), NEW t \in Seq(S), NEW n \in 0 .. Len(s)
  PROVE  Rest(s \o t, n) = Rest(s, n) \o t
<1> DEFINE u == s \o t
           v == Rest(s, n)
           m == Len(s)
           k == Len(t)
<1>0. m \in Nat /\ k \in Nat /\ n \in Nat /\ n <= m
  OBVIOUS
<1>1. u \in Seq(S) /\ Len(u) = m + k
  BY ConcatProperties
<1>2. \A i \in 1 .. m + k : u[i] = IF i <= m THEN s[i] ELSE t[i - m]
  BY ConcatProperties
<1>3. v \in Seq(S) /\ Len(v) = m - n /\ \A i \in 1 .. m - n : v[i] = s[n + i]
  BY <1>0, RestProperties
<1> HIDE DEF u, v
<1>4. /\ Rest(u, n) \in Seq(S) /\ Len(Rest(u, n)) = m + k - n
      /\ \A i \in 1 .. m + k - n : Rest(u, n)[i] = u[n + i]
  <2>1. /\ Rest(u, n) \in Seq(S)
        /\ Len(Rest(u, n)) = IF n <= Len(u) THEN Len(u) - n ELSE 0
        /\ \A i \in 1 .. Len(u) - n : Rest(u, n)[i] = u[n + i]
    BY <1>0, <1>1, RestProperties
  <2> HIDE DEF m, k
  <2> QED
    BY <1>0, <1>1, <2>1
<1>5. /\ v \o t \in Seq(S) /\ Len(v \o t) = m - n + k
      /\ \A i \in 1 .. m - n + k :
           (v \o t)[i] = IF i <= m - n THEN v[i] ELSE t[i - (m - n)]
  <2>1. /\ v \o t \in Seq(S) /\ Len(v \o t) = Len(v) + k
        /\ \A i \in 1 .. Len(v) + k :
             (v \o t)[i] = IF i <= Len(v) THEN v[i] ELSE t[i - Len(v)]
    BY <1>3, ConcatProperties
  <2> HIDE DEF m, k
  <2> QED
    BY <1>3, <2>1
<1> HIDE DEF m, k
<1>6. ASSUME NEW i \in 1 .. m + k - n
      PROVE  Rest(u, n)[i] = (v \o t)[i]
  <2>1. /\ n + i \in 1 .. m + k /\ i \in 1 .. m - n + k
        /\ n + i - m = i - (m - n) /\ (n + i <= m <=> i <= m - n)
    BY <1>0
  <2>2. Rest(u, n)[i] = IF i <= m - n THEN s[n + i] ELSE t[i - (m - n)]
    <3>1. Rest(u, n)[i] = u[n + i]
      BY <1>4
    <3>2. u[n + i] = IF n + i <= m THEN s[n + i] ELSE t[n + i - m]
      <4> DEFINE j == n + i
      <4>1. j \in 1 .. m + k
        BY <2>1
      <4> HIDE DEF j
      <4>2. u[j] = IF j <= m THEN s[j] ELSE t[j - m]
        BY <1>2, <4>1
      <4> QED
        BY <1>0, <2>1, <4>2 DEF j
    <3> QED
      BY <2>1, <3>1, <3>2
  <2>3. i <= m - n => i \in 1 .. m - n
    BY <1>0
  <2> QED
    BY <1>3, <1>5, <2>1, <2>2, <2>3
<1>7. m + k - n = m - n + k
  BY <1>0
<1>8. Rest(u, n) = v \o t
  BY <1>4, <1>5, <1>6, <1>7, SeqEqual
<1> QED
  BY <1>8 DEF u, v

\* A read takes the first bytes and leaves the rest.
LEMMA Cut ==
  ASSUME NEW S, NEW w \in Seq(S), NEW k \in 1 .. Len(w)
  PROVE  /\ SubSeq(w, 1, k) \in Seq(S) /\ Rest(w, k) \in Seq(S)
         /\ SubSeq(w, 1, k) \o Rest(w, k) = w
<1>1. SubSeq(w, 1, k) \in Seq(S)
  OBVIOUS
<1>2. Rest(w, k) \in Seq(S)
  BY RestProperties
<1>3. SubSeq(w, 1, k) \o Rest(w, k) = w
  BY ConcatAdjacentSubSeq, SubSeqFull DEF Rest
<1> QED
  BY <1>1, <1>2, <1>3

\* What has been read and what has not stay together.
LEMMA ReadMore ==
  ASSUME NEW S, NEW s \in Seq(S), NEW w \in Seq(S), NEW k \in 1 .. Len(w)
  PROVE  (s \o SubSeq(w, 1, k)) \o Rest(w, k) = s \o w
<1> DEFINE u == SubSeq(w, 1, k)
           v == Rest(w, k)
<1>1. u \in Seq(S) /\ v \in Seq(S)
  BY Cut
<1>2. u \o v = w
  BY Cut
<1> HIDE DEF u, v
<1>3. (s \o u) \o v = s \o (u \o v)
  BY <1>1, ConcatAssociative
<1> QED
  BY <1>2, <1>3 DEF u, v

\* A pipe moves the head of one stream to the end of the other.
LEMMA MoveHead ==
  ASSUME NEW S, NEW s \in Seq(S), NEW w \in Seq(S), w # <<>>
  PROVE  Append(s, Head(w)) \o Tail(w) = s \o w
<1> DEFINE x == Head(w)
           u == <<x>>
           v == Tail(w)
<1>1. x \in S /\ v \in Seq(S)
  BY HeadTailProperties
<1>2. u \in Seq(S)
  BY <1>1
<1>3. Append(s, x) = s \o u
  BY <1>1, AppendIsConcat
<1>4. u \o v = w
  <2> DEFINE n == Len(w)
  <2>1. n \in Nat /\ n >= 1 /\ 1 \in 1 .. n
    OBVIOUS
  <2>2. x = w[1] /\ v = SubSeq(w, 2, n) /\ SubSeq(w, 1, n) = w
    BY SubSeqFull
  <2>3. SubSeq(w, 1, n) = <<w[1]>> \o SubSeq(w, 1 + 1, n)
    BY <2>1, SubSeqRecursiveFirst
  <2> QED
    BY <2>2, <2>3
<1> HIDE DEF u, v, x
<1>5. (s \o u) \o v = s \o (u \o v)
  BY <1>1, <1>2, ConcatAssociative
<1> QED
  BY <1>3, <1>4, <1>5 DEF x, v

\* What has been taken from the front of a stream is a prefix of it.
LEMMA PrefixOfConcat ==
  ASSUME NEW S, NEW s \in Seq(S), NEW t \in Seq(S)
  PROVE  IsPrefixOf(s, s \o t)
<1>1. CASE s = <<>>
  BY <1>1 DEF IsPrefixOf
<1>2. CASE s # <<>>
  <2>1. Len(s) \in Nat \ {0} /\ Len(s \o t) = Len(s) + Len(t) /\ Len(t) \in Nat
    BY <1>2, ConcatProperties
  <2>2. SubSeq(s \o t, 1, Len(s)) = s
    BY <2>1, SubSeqOfConcat1, SubSeqFull
  <2> QED
    BY <2>1, <2>2 DEF IsPrefixOf
<1> QED
  BY <1>1, <1>2
-----------------------------------------------------------------------------
(* The parsers.  A message that is complete stays the same message when more *)
(* bytes come.                                                               *)

LEMMA ByteAt ==
  ASSUME NEW s \in Seq(Bytes), NEW i \in 1 .. Len(s)
  PROVE  s[i] \in Nat
<1>1. s[i] \in Bytes
  BY ElementOfSeq
<1>2. Bytes \subseteq Nat
  BY DEF Bytes
<1> QED
  BY <1>1, <1>2

LEMMA GreetingResult ==
  ASSUME NEW s \in Seq(Bytes)
  PROVE  LET g == greetingLength(s)
         IN /\ g.n \in Nat /\ g.is \in {"more", "end", "refuse", "method"}
            /\ g.is = "end" => g.n \in 2 .. Len(s)
<1>1. Len(s) \in Nat /\ (Len(s) >= 2 => s[2] \in Nat)
  <2>1. Len(s) \in Nat
    OBVIOUS
  <2>2. ASSUME Len(s) >= 2 PROVE s[2] \in Nat
    <3>1. 2 \in 1 .. Len(s)
      BY <2>1, <2>2
    <3> QED
      BY <3>1, ByteAt
  <2> QED
    BY <2>1, <2>2
<1> QED
  BY <1>1 DEF greetingLength, More, Refuse, NoMethod, Ends

LEMMA GreetingStays ==
  ASSUME NEW s \in Seq(Bytes), NEW t \in Seq(Bytes), greetingLength(s).is = "end"
  PROVE  greetingLength(s \o t) = greetingLength(s)
<1>1. /\ Len(s \o t) >= Len(s) /\ Len(s) \in Nat /\ Len(s \o t) \in Nat
      /\ \A i \in 1 .. Len(s) : (s \o t)[i] = s[i]
  BY ConcatProperties
<1>2. /\ Len(s) >= 2 /\ s[1] = 5 /\ s[2] # 0 /\ Len(s) >= 2 + s[2]
      /\ s[2] \in Nat /\ ~(\A i \in 3 .. (2 + s[2]) : s[i] # 0)
  <2>1. /\ Len(s) >= 2 /\ s[1] = 5 /\ s[2] # 0 /\ ~(Len(s) < 2 + s[2])
        /\ ~(\A i \in 3 .. (2 + s[2]) : s[i] # 0)
    BY <1>1 DEF greetingLength, More, Refuse, NoMethod, Ends
  <2>2. 2 \in 1 .. Len(s)
    BY <1>1, <2>1
  <2>3. s[2] \in Nat
    BY <2>2, ByteAt
  <2> QED
    BY <1>1, <2>1, <2>3
<1>3. /\ (s \o t)[1] = 5 /\ (s \o t)[2] = s[2]
      /\ ~(\A i \in 3 .. (2 + s[2]) : (s \o t)[i] # 0)
  BY <1>1, <1>2
<1> QED
  BY <1>1, <1>2, <1>3 DEF greetingLength

LEMMA RequestResult ==
  ASSUME NEW s \in Seq(Bytes)
  PROVE  LET r == connectRequest(s)
         IN /\ r.n \in Nat /\ r.is \in {"more", "end", "refuse"}
            /\ r.is = "refuse" => r.n \in {1, 7, 8}
            /\ r.is = "end" => r.n \in 4 .. Len(s)
<1>1. Len(s) \in Nat /\ (Len(s) >= 5 => s[5] \in Nat)
  <2>1. Len(s) \in Nat
    OBVIOUS
  <2>2. ASSUME Len(s) >= 5 PROVE s[5] \in Nat
    <3>1. 5 \in 1 .. Len(s)
      BY <2>1, <2>2
    <3> QED
      BY <3>1, ByteAt
  <2> QED
    BY <2>1, <2>2
<1>2. LET a == address(s)
      IN /\ a.n \in Nat /\ a.is \in {"more", "end", "refuse"}
         /\ a.is = "refuse" => a.n = 8
         /\ a.is = "end" => a.n \in 4 .. Len(s)
  <2>1. CASE s[4] = 1
    BY <1>1, <2>1 DEF address, fixedAddress, More, Ends
  <2>2. CASE s[4] = 4
    BY <1>1, <2>2 DEF address, fixedAddress, More, Ends
  <2>3. CASE s[4] = 3
    <3>1. address(s) = domainAddress(s)
      BY <2>3 DEF address
    <3> QED
      BY <1>1, <3>1 DEF domainAddress, More, Ends, Refuse
  <2>4. CASE s[4] \notin {1, 3, 4}
    BY <2>4 DEF address, Refuse
  <2> QED
    BY <2>1, <2>2, <2>3, <2>4
<1> QED
  BY <1>1, <1>2 DEF connectRequest, More, Refuse

LEMMA RequestStays ==
  ASSUME NEW s \in Seq(Bytes), NEW t \in Seq(Bytes), connectRequest(s).is = "end"
  PROVE  connectRequest(s \o t) = connectRequest(s)
<1>1. /\ Len(s \o t) >= Len(s) /\ Len(s) \in Nat /\ Len(s \o t) \in Nat
      /\ \A i \in 1 .. Len(s) : (s \o t)[i] = s[i]
  BY ConcatProperties
<1>2. /\ Len(s) >= 4 /\ s[1] = 5 /\ s[3] = 0 /\ s[2] = 1 /\ address(s).is = "end"
      /\ connectRequest(s) = address(s)
      /\ ~(s[address(s).n - 1] = 0 /\ s[address(s).n] = 0)
  BY DEF connectRequest, More, Refuse
<1>3. address(s \o t) = address(s) /\ address(s).n \in 4 .. Len(s)
  <2>0. (s \o t)[4] = s[4]
    BY <1>1, <1>2
  <2>1. CASE s[4] = 1
    BY <1>1, <1>2, <2>0, <2>1 DEF address, fixedAddress, More, Ends
  <2>2. CASE s[4] = 4
    BY <1>1, <1>2, <2>0, <2>2 DEF address, fixedAddress, More, Ends
  <2>3. CASE s[4] = 3
    <3>1. address(s) = domainAddress(s) /\ address(s \o t) = domainAddress(s \o t)
      BY <2>0, <2>3 DEF address
    <3>2. /\ Len(s) >= 5 /\ s[5] # 0 /\ ~(s[5] > 253) /\ Len(s) >= 7 + s[5]
          /\ s[5] \in Nat /\ HostName(WithoutDot(SubSeq(s, 6, 5 + s[5])))
          /\ domainAddress(s) = Ends(7 + s[5])
      <4>1. /\ ~(Len(s) < 5) /\ s[5] # 0 /\ ~(s[5] > 253) /\ ~(Len(s) < 7 + s[5])
            /\ HostName(WithoutDot(SubSeq(s, 6, 5 + s[5])))
            /\ domainAddress(s) = Ends(7 + s[5])
        BY <1>2, <3>1 DEF domainAddress, More, Refuse
      <4>2. 5 \in 1 .. Len(s)
        BY <1>1, <4>1
      <4>3. s[5] \in Nat
        BY <4>2, ByteAt
      <4> QED
        BY <1>1, <4>1, <4>3
    <3>3. (s \o t)[5] = s[5]
      BY <1>1, <3>2
    <3>4. SubSeq(s \o t, 6, 5 + s[5]) = SubSeq(s, 6, 5 + s[5])
      BY <1>1, <3>2, SubSeqOfConcat1
    <3>5. Len(s \o t) >= 7 + s[5] /\ Len(s \o t) >= 5 /\ 7 + s[5] \in 4 .. Len(s)
      BY <1>1, <3>2
    <3>6. domainAddress(s \o t) = Ends(7 + s[5])
      <4>1. ~(Len(s \o t) < 5) /\ ~(Len(s \o t) < 7 + s[5])
        BY <1>1, <3>2, <3>5
      <4> QED
        BY <3>2, <3>3, <3>4, <4>1 DEF domainAddress
    <3> QED
      BY <3>1, <3>2, <3>5, <3>6 DEF Ends
  <2>4. CASE s[4] \notin {1, 3, 4}
    BY <1>2, <2>4 DEF address, Refuse
  <2> QED
    BY <2>1, <2>2, <2>3, <2>4
<1>4. (s \o t)[address(s).n - 1] = s[address(s).n - 1]
      /\ (s \o t)[address(s).n] = s[address(s).n]
  BY <1>1, <1>3
<1> QED
  BY <1>1, <1>2, <1>3, <1>4 DEF connectRequest
-----------------------------------------------------------------------------
(* Squid's header.  It ends at its first status, which stays where it is     *)
(* when more is read.                                                        *)

\* A set of numbers has a least one: the intervals up to its members are ordered
\* by inclusion, which is well-founded on finite sets.
LEMMA Least ==
  ASSUME NEW T, T \subseteq Nat, T # {}
  PROVE  \E x \in T : \A y \in T : x <= y
<1> DEFINE U == {1 .. i : i \in T}
           R == StrictSubsetOrdering(Nat)
<1>1. \A i \in Nat : 1 .. i \in FiniteSubsetsOf(Nat)
  <2>1. \A i \in Nat : 1 .. i \in SUBSET Nat
    OBVIOUS
  <2>2. \A i \in Nat : IsFiniteSet(1 .. i)
    BY FS_Interval
  <2> QED
    BY <2>1, <2>2 DEF FiniteSubsetsOf
<1>2. U \subseteq FiniteSubsetsOf(Nat) /\ U # {}
  BY <1>1
<1>3. IsWellFoundedOn(R, FiniteSubsetsOf(Nat))
  BY FS_StrictSubsetOrderingWellFounded
<1> HIDE DEF U, R
<1>4. PICK X \in U : \A Y \in U : ~(<<Y, X>> \in R)
  BY <1>2, <1>3, WFMin
<1>5. PICK x \in T : X = 1 .. x
  BY DEF U
<1>6. ASSUME NEW y \in T, y < x
      PROVE  FALSE
  <2>1. 1 .. y \in U
    BY DEF U
  <2>2. 1 .. y \subseteq 1 .. x /\ x \in 1 .. x /\ x \notin 1 .. y
    BY <1>6
  <2>3. <<1 .. y, X>> \in R
    BY <1>5, <2>2 DEF R, StrictSubsetOrdering
  <2> QED
    BY <1>4, <2>1, <2>3
<1> QED
  BY <1>6

HeaderEnd(h) == CHOOSE i \in Ended(h) : \A j \in Ended(h) : i <= j

LEMMA HeaderEnds ==
  ASSUME NEW h \in Seq(Tokens), Ended(h) # {}
  PROVE  /\ HeaderEnd(h) \in Ended(h) /\ \A j \in Ended(h) : HeaderEnd(h) <= j
         /\ HeaderEnd(h) \in 1 .. Len(h) /\ h[HeaderEnd(h)] \in Tokens
<1>1. Ended(h) \subseteq Nat /\ Ended(h) \subseteq 1 .. Len(h)
  BY DEF Ended
<1>2. \E i \in Ended(h) : \A j \in Ended(h) : i <= j
  BY <1>1, Least
<1>3. HeaderEnd(h) \in Ended(h) /\ \A j \in Ended(h) : HeaderEnd(h) <= j
  BY <1>2 DEF HeaderEnd
<1>4. HeaderEnd(h) \in 1 .. Len(h)
  BY <1>1, <1>3
<1>5. h[HeaderEnd(h)] \in Tokens
  BY <1>4, ElementOfSeq
<1> QED
  BY <1>3, <1>4, <1>5

LEMMA HeaderStays ==
  ASSUME NEW h \in Seq(Tokens), NEW t \in Seq(Tokens), Ended(h) # {}
  PROVE  Banner(h \o t) = Rest(h, HeaderEnd(h)) \o t
<1> DEFINE e == HeaderEnd(h)
           f == HeaderEnd(h \o t)
<1>1. /\ h \o t \in Seq(Tokens) /\ Len(h \o t) = Len(h) + Len(t)
      /\ \A i \in 1 .. Len(h) : (h \o t)[i] = h[i]
  BY ConcatProperties
<1>2. e \in Ended(h) /\ e \in 1 .. Len(h) /\ \A j \in Ended(h) : e <= j
  BY HeaderEnds
<1>3. \A i \in 1 .. Len(h) : i \in Ended(h) <=> i \in Ended(h \o t)
  BY <1>1 DEF Ended
<1>4. f \in Ended(h \o t) /\ \A j \in Ended(h \o t) : f <= j
  <2>1. Ended(h \o t) # {}
    BY <1>2, <1>3
  <2> QED
    BY <1>1, <2>1, HeaderEnds
<1>5. f \in Nat /\ e \in Nat /\ f >= 1
  BY <1>1, <1>2, <1>4 DEF Ended
<1> HIDE DEF e, f
<1>6. f <= e
  BY <1>2, <1>3, <1>4
<1>7. e <= f
  BY <1>2, <1>3, <1>4, <1>5, <1>6
<1>8. f = e
  BY <1>5, <1>6, <1>7
<1>9. Banner(h \o t) = Rest(h \o t, e)
  BY <1>8 DEF Banner, HeaderEnd, e, f
<1>10. Rest(h \o t, e) = Rest(h, e) \o t
  BY <1>2, RestOfConcat
<1> QED
  BY <1>9, <1>10 DEF e
-----------------------------------------------------------------------------
(* Types.                                                                    *)

HandshakeOK ==
  /\ phase \in [Conns -> Phases]
  /\ sock \in [Conns -> {"none", "open", "flushing", "destroyed"}]
  /\ input \in [Conns -> Seq(Bytes)] /\ headers \in [Conns -> Seq(Tokens)]
  /\ up \in [Conns -> {"none", "connecting", "asked"}]
  /\ toClient \in [Conns -> Seq(Frames)]
ServerOK ==
  /\ server \in {"new", "opening", "listening", "stopped"}
  /\ closing \in BOOLEAN /\ closer \in {"none", "waiting", "draining", "done"}
  /\ (closer # "none") = closing
  /\ clients \subseteq Conns
PeerOK ==
  /\ script \in [Conns -> Seq(Bytes)] /\ answer \in [Conns -> Seq(Tokens)]
  /\ wire \in [Conns -> Seq(Bytes)] /\ rwire \in [Conns -> Seq(Tokens)]
  /\ fin \in [Conns -> SUBSET {"client", "squid"}]
  /\ seen \in [Conns -> SUBSET {"client", "squid"}]
  /\ toUp \in [Conns -> Seq(Bytes)]

LEMMA TypeParts == TypeOK <=> HandshakeOK /\ ServerOK /\ PeerOK
BY DEF TypeOK, HandshakeOK, ServerOK, PeerOK, Bytes

LEMMA ReplyType ==
  ASSUME NEW code \in 0 .. 999
  PROVE  Reply(code) \in Seq(Frames) /\ <<"method", code>> \in Frames
         /\ <<"reply", code>> \in Frames
<1>1. <<"method", code>> \in Frames /\ <<"reply", code>> \in Frames
  BY DEF Frames
<1>2. Reply(code) \in Seq(Frames)
  BY <1>1 DEF Reply
<1> QED
  BY <1>1, <1>2

LEMMA FailType ==
  ASSUME HandshakeOK, NEW c \in Conns, NEW out \in Seq(Frames),
         NEW frame \in Seq(Frames), FailAs(c, out, frame)
  PROVE  HandshakeOK'
<1>1. out \o frame \in Seq(Frames)
  BY ConcatProperties
<1>2. /\ <<>> \in Seq(Bytes) /\ <<>> \in Seq(Tokens) /\ "closed" \in Phases
  BY DEF Phases
<1> QED
  BY <1>1, <1>2 DEF FailAs, HandshakeOK, UpAfterFail

LEMMA FailsType ==
  ASSUME HandshakeOK, NEW c \in Conns, NEW code \in 0 .. 999, Fail(c, code)
  PROVE  HandshakeOK'
<1>0. <<>> \in Seq(Frames)
  OBVIOUS
<1>1. Reply(code) \in Seq(Frames)
  BY ReplyType
<1>2. toClient[c] \in Seq(Frames)
  BY DEF HandshakeOK
<1>3. Frame(c, phase[c], Reply(code)) \in Seq(Frames)
  BY <1>0, <1>1 DEF Frame
<1> QED
  BY <1>2, <1>3, FailType DEF Fail

LEMMA WrittenType ==
  ASSUME HandshakeOK, NEW c \in Conns, NEW frame \in Frames
  PROVE  Written(c, frame) \in Seq(Frames)
BY AppendProperties DEF Written, HandshakeOK

LEMMA RequestType ==
  ASSUME HandshakeOK, NEW c \in Conns, NEW data \in Seq(Bytes),
         NEW out \in Seq(Frames), Request(c, data, out)
  PROVE  HandshakeOK'
<1> DEFINE r == connectRequest(data)
<1>1. r.n \in Nat /\ r.is \in {"more", "end", "refuse"}
      /\ (r.is = "refuse" => r.n \in 0 .. 999)
  BY RequestResult
<1>2. Rest(data, r.n) \in Seq(Bytes) /\ "request" \in Phases /\ "proxy" \in Phases
  BY <1>1, RestProperties DEF Phases, Handshake
<1> HIDE DEF r
<1>3. CASE r.is = "more"
  BY <1>2, <1>3 DEF Request, HandshakeOK, r
<1>4. CASE r.is = "end"
  BY <1>2, <1>4 DEF Request, HandshakeOK, r
<1>5. CASE r.is = "refuse"
  <2>1. FailAs(c, out, Reply(r.n))
    BY <1>5 DEF Request, r
  <2> QED
    BY <1>1, <1>5, <2>1, ReplyType, FailType
<1> QED
  BY <1>1, <1>3, <1>4, <1>5

LEMMA GreetingType ==
  ASSUME HandshakeOK, NEW c \in Conns, NEW data \in Seq(Bytes), Greeting(c, data)
  PROVE  HandshakeOK'
<1> DEFINE g == greetingLength(data)
<1>1. g.n \in Nat /\ g.is \in {"more", "end", "refuse", "method"}
  BY GreetingResult
<1> HIDE DEF g
<1>2. toClient[c] \in Seq(Frames)
  BY DEF HandshakeOK
<1>3. CASE g.is = "more"
  BY <1>3 DEF Greeting, HandshakeOK, g
<1>4. CASE g.is = "end"
  <2>1. Request(c, Rest(data, g.n), Written(c, <<"method", 0>>))
    BY <1>4 DEF Greeting, g
  <2>2. Rest(data, g.n) \in Seq(Bytes)
    BY <1>1, RestProperties
  <2>3. <<"method", 0>> \in Frames
    BY DEF Frames
  <2>4. Written(c, <<"method", 0>>) \in Seq(Frames)
    BY <2>3, WrittenType
  <2> QED
    BY <2>1, <2>2, <2>4, RequestType
<1>5. CASE g.is = "method"
  <2>1. FailAs(c, toClient[c], <<<<"method", 255>>>>)
    BY <1>5 DEF Greeting, g
  <2>2. <<"method", 255>> \in Frames
    BY DEF Frames
  <2>3. <<<<"method", 255>>>> \in Seq(Frames)
    BY <2>2
  <2> QED
    BY <1>2, <2>1, <2>3, FailType
<1>6. CASE g.is = "refuse"
  <2>1. FailAs(c, toClient[c], <<>>)
    BY <1>6 DEF Greeting, g
  <2>2. <<>> \in Seq(Frames)
    OBVIOUS
  <2> QED
    BY <1>2, <2>1, <2>2, FailType
<1> QED
  BY <1>1, <1>3, <1>4, <1>5, <1>6

TypeInv == HandshakeOK /\ ServerOK /\ PeerOK

LEMMA ServerTypes ==
  ASSUME TypeInv, Listen \/ Listening \/ Close \/ CloseClients \/ Drained
  PROVE  TypeInv'
<1> USE DEF TypeInv, HandshakeOK, ServerOK, PeerOK, handshakeVars, peerVars, outVars
<1>1. CASE Listen
  BY <1>1 DEF Listen
<1>2. CASE Listening
  BY <1>2 DEF Listening
<1>3. CASE Close
  BY <1>3 DEF Close
<1>4. CASE CloseClients
  BY <1>4 DEF CloseClients
<1>5. CASE Drained
  BY <1>5 DEF Drained
<1> QED
  BY <1>1, <1>2, <1>3, <1>4, <1>5

\* The steps of a connection that change nothing of the handshake but by fail().
LEMMA FailTypes ==
  ASSUME TypeInv, NEW c \in Conns, ClientEnd(c) \/ UpError(c) \/ UpEnd(c) \/ TimedOut(c)
  PROVE  TypeInv'
<1>1. /\ \E code \in 0 .. 999 : Fail(c, code)
      /\ UNCHANGED <<serverVars, peerVars, toUp>>
  <2>1. CASE ClientEnd(c)
    BY <2>1 DEF ClientEnd
  <2>2. CASE UpError(c)
    BY <2>2 DEF UpError
  <2>3. CASE UpEnd(c)
    BY <2>3 DEF UpEnd
  <2>4. CASE TimedOut(c)
    BY <2>4 DEF TimedOut
  <2> QED
    BY <2>1, <2>2, <2>3, <2>4
<1>2. HandshakeOK'
  BY <1>1, FailsType DEF TypeInv
<1>3. ServerOK' /\ PeerOK'
  BY <1>1 DEF TypeInv, ServerOK, PeerOK, serverVars, peerVars
<1> QED
  BY <1>2, <1>3 DEF TypeInv

LEMMA PlaceTypes ==
  ASSUME ConstantsAssumption, TypeInv, NEW c \in Conns,
         \/ \E s \in Scripts : Accept(c, s)
         \/ Flushed(c) \/ ClientClosed(c) \/ ClientError(c)
         \/ \E a \in Answers : Connected(c, a)
         \/ \E side \in {"client", "squid"} : PeerEnds(c, side)
         \/ PipeEnd(c)
  PROVE  TypeInv'
<1> USE DEF TypeInv, HandshakeOK, ServerOK, PeerOK, serverVars, handshakeVars, peerVars, outVars
<1>0. /\ <<>> \in Seq(Bytes) /\ <<>> \in Seq(Tokens) /\ <<>> \in Seq(Frames)
      /\ {"none", "closed", "greeting"} \subseteq Phases
      /\ Scripts \subseteq Seq(Bytes) /\ Answers \subseteq Seq(Tokens)
  BY DEF ConstantsAssumption, Phases, Handshake, Bytes, Tokens
<1>1. ASSUME NEW s \in Scripts, Accept(c, s)
      PROVE  TypeInv'
  <2>1. s \in Seq(Bytes)
    BY <1>0
  <2>2. CASE closing \/ Full
    <3>1. /\ sock' = [sock EXCEPT ![c] = "destroyed"]
          /\ UNCHANGED <<clients, phase, script, wire>>
          /\ UNCHANGED <<server, closing, closer, input, headers, up, answer, rwire,
                         fin, seen, toClient, toUp>>
      BY <1>1, <2>2 DEF Accept
    <3> QED
      BY <3>1
  <2>3. CASE ~(closing \/ Full)
    <3>1. /\ sock' = [sock EXCEPT ![c] = "open"]
          /\ clients' = clients \cup {c}
          /\ phase' = [phase EXCEPT ![c] = "greeting"]
          /\ script' = [script EXCEPT ![c] = s] /\ wire' = [wire EXCEPT ![c] = s]
          /\ UNCHANGED <<server, closing, closer, input, headers, up, answer, rwire,
                         fin, seen, toClient, toUp>>
      BY <1>1, <2>3 DEF Accept
    <3>2. HandshakeOK'
      BY <1>0, <3>1
    <3>3. ServerOK'
      BY <3>1
    <3>4. PeerOK'
      BY <2>1, <3>1
    <3> QED
      BY <3>2, <3>3, <3>4
  <2> QED
    BY <2>2, <2>3
<1>2. CASE Flushed(c)
  BY <1>2 DEF Flushed
<1>3. CASE ClientClosed(c)
  BY <1>0, <1>3 DEF ClientClosed, UpAfterClose
<1>4. CASE ClientError(c)
  BY <1>0, <1>4 DEF ClientError, UpAfterFail
<1>5. ASSUME NEW a \in Answers, Connected(c, a)
      PROVE  TypeInv'
  BY <1>0, <1>5 DEF Connected
<1>6. ASSUME NEW side \in {"client", "squid"}, PeerEnds(c, side)
      PROVE  TypeInv'
  BY <1>6 DEF PeerEnds
<1>7. CASE PipeEnd(c)
  <2>1. PICK side \in fin[c] : seen' = [seen EXCEPT ![c] = @ \cup {side}]
    BY <1>7 DEF PipeEnd
  <2>2. side \in {"client", "squid"}
    BY <2>1
  <2>3. seen' \in [Conns -> SUBSET {"client", "squid"}]
    BY <2>1, <2>2
  <2> QED
    BY <1>7, <2>3 DEF PipeEnd
<1> QED
  BY <1>1, <1>2, <1>3, <1>4, <1>5, <1>6, <1>7

LEMMA ClientDataType ==
  ASSUME TypeInv, NEW c \in Conns, NEW k \in 1 .. Len(wire[c]), ClientData(c, k)
  PROVE  TypeInv'
<1> DEFINE data == input[c] \o SubSeq(wire[c], 1, k)
<1>1. input[c] \in Seq(Bytes) /\ wire[c] \in Seq(Bytes) /\ toClient[c] \in Seq(Frames)
  BY DEF TypeInv, HandshakeOK, PeerOK
<1>2. data \in Seq(Bytes) /\ Rest(wire[c], k) \in Seq(Bytes)
  BY <1>1, Cut, ConcatProperties
<1>3. \/ Fail(c, 1)
      \/ Greeting(c, data)
      \/ Request(c, data, toClient[c])
  BY DEF ClientData
<1> HIDE DEF data
<1>4. HandshakeOK'
  <2>0. HandshakeOK
    BY DEF TypeInv
  <2>1. CASE Fail(c, 1)
    BY <2>0, <2>1, FailsType
  <2>2. CASE Greeting(c, data)
    BY <1>2, <2>0, <2>2, GreetingType
  <2>3. CASE Request(c, data, toClient[c])
    BY <1>1, <1>2, <2>0, <2>3, RequestType
  <2> QED
    BY <1>3, <2>1, <2>2, <2>3
<1>5. ServerOK' /\ PeerOK'
  BY <1>2 DEF ClientData, TypeInv, ServerOK, PeerOK, serverVars
<1> QED
  BY <1>4, <1>5 DEF TypeInv

\* What proxyData() does with what it has read, h, and what it has not, later.
ProxyDataCases(c, h, later) ==
  \/ /\ \E code \in 0 .. 999 : Fail(c, code)
     /\ UNCHANGED wire /\ rwire' = [rwire EXCEPT ![c] = later]
  \/ /\ Ended(h) = {} /\ Len(h) <= MaxHeader
     /\ headers' = [headers EXCEPT ![c] = h] /\ rwire' = [rwire EXCEPT ![c] = later]
     /\ UNCHANGED <<phase, sock, input, up, wire, toClient>>
  \/ Ended(h) # {} /\ Streams(c, Rest(h, HeaderEnd(h)), later)

LEMMA ProxyDataSplit ==
  ASSUME ConstantsAssumption, TypeInv, NEW c \in Conns, NEW k \in 1 .. Len(rwire[c]),
         ProxyData(c, k)
  PROVE  LET h == headers[c] \o SubSeq(rwire[c], 1, k)
             later == Rest(rwire[c], k)
         IN /\ h \in Seq(Tokens) /\ later \in Seq(Tokens)
            /\ h \o later = headers[c] \o rwire[c]
            /\ ProxyDataCases(c, h, later)
<1> DEFINE h == headers[c] \o SubSeq(rwire[c], 1, k)
           later == Rest(rwire[c], k)
<1>1. headers[c] \in Seq(Tokens) /\ rwire[c] \in Seq(Tokens)
  BY DEF TypeInv, HandshakeOK, PeerOK
<1>2. h \in Seq(Tokens) /\ later \in Seq(Tokens) /\ h \o later = headers[c] \o rwire[c]
  <2> DEFINE s == headers[c]
             w == rwire[c]
  <2>1. s \in Seq(Tokens) /\ w \in Seq(Tokens) /\ k \in 1 .. Len(w)
    BY <1>1
  <2> HIDE DEF s, w, h, later
  <2>2. (s \o SubSeq(w, 1, k)) \o Rest(w, k) = s \o w
    BY <2>1, ReadMore
  <2>3. SubSeq(w, 1, k) \in Seq(Tokens) /\ Rest(w, k) \in Seq(Tokens)
    BY <2>1, Cut
  <2>4. s \o SubSeq(w, 1, k) \in Seq(Tokens)
    BY <2>1, <2>3, ConcatProperties
  <2> QED
    BY <2>2, <2>3, <2>4 DEF s, w, h, later
<1>3. Len(h) \in Nat /\ MaxHeader \in Nat /\ MaxClientBytes \in Nat
  BY <1>2 DEF ConstantsAssumption
<1> DEFINE end == HeaderEnd(h)
           Fails(reply) == /\ Fail(c, reply) /\ UNCHANGED wire
                           /\ rwire' = [rwire EXCEPT ![c] = later]
<1>4. IF Len(h) > MaxHeader + MaxClientBytes THEN Fails(1)
      ELSE IF Ended(h) = {}
             THEN IF Len(h) > MaxHeader
                    THEN Fails(1)
                    ELSE /\ headers' = [headers EXCEPT ![c] = h]
                         /\ rwire' = [rwire EXCEPT ![c] = later]
                         /\ UNCHANGED <<phase, sock, input, up, wire, toClient>>
      ELSE IF end > MaxHeader THEN Fails(1)
      ELSE IF h[end][2] # 200 THEN Fails(StatusReply(h[end][2]))
      ELSE Streams(c, Rest(h, end), later)
  BY DEF ProxyData, HeaderEnd
<1>5. StatusReply(h[end][2]) \in 0 .. 999 /\ 1 \in 0 .. 999
  BY DEF StatusReply
<1>6. ASSUME NEW code \in 0 .. 999, Fails(code)
      PROVE  ProxyDataCases(c, h, later)
  BY <1>6 DEF ProxyDataCases
<1> HIDE DEF h, later, end, Fails
<1>7. \/ Fails(1) \/ Fails(StatusReply(h[end][2]))
      \/ /\ Ended(h) = {} /\ ~(Len(h) > MaxHeader)
         /\ headers' = [headers EXCEPT ![c] = h] /\ rwire' = [rwire EXCEPT ![c] = later]
         /\ UNCHANGED <<phase, sock, input, up, wire, toClient>>
      \/ Ended(h) # {} /\ Streams(c, Rest(h, end), later)
  BY <1>4
<1>8. ProxyDataCases(c, h, later)
  <2>1. CASE Fails(1) \/ Fails(StatusReply(h[end][2]))
    BY <1>5, <1>6, <2>1
  <2>2. CASE /\ Ended(h) = {} /\ ~(Len(h) > MaxHeader)
             /\ headers' = [headers EXCEPT ![c] = h]
             /\ rwire' = [rwire EXCEPT ![c] = later]
             /\ UNCHANGED <<phase, sock, input, up, wire, toClient>>
    <3>1. Len(h) <= MaxHeader
      BY <1>3, <2>2
    <3> QED
      BY <2>2, <3>1 DEF ProxyDataCases
  <2>3. CASE Ended(h) # {} /\ Streams(c, Rest(h, end), later)
    BY <2>3 DEF ProxyDataCases, end
  <2> QED
    BY <1>7, <2>1, <2>2, <2>3
<1> QED
  BY <1>2, <1>8 DEF h, later

LEMMA ProxyDataType ==
  ASSUME ConstantsAssumption, TypeInv, NEW c \in Conns, NEW k \in 1 .. Len(rwire[c]),
         ProxyData(c, k)
  PROVE  TypeInv'
<1>1. PICK h \in Seq(Tokens), later \in Seq(Tokens) : ProxyDataCases(c, h, later)
  BY ProxyDataSplit
<1>2. UNCHANGED <<serverVars, script, answer, fin, seen, toUp>>
  BY DEF ProxyData
<1>3. ServerOK'
  BY <1>2 DEF TypeInv, ServerOK, serverVars
<1>4. ASSUME NEW code \in 0 .. 999, Fail(c, code), UNCHANGED wire,
             rwire' = [rwire EXCEPT ![c] = later]
      PROVE  HandshakeOK' /\ PeerOK'
  <2>1. HandshakeOK'
    BY <1>4, FailsType DEF TypeInv
  <2> QED
    BY <1>2, <1>4, <2>1 DEF TypeInv, PeerOK
<1>5. ASSUME headers' = [headers EXCEPT ![c] = h], rwire' = [rwire EXCEPT ![c] = later],
             UNCHANGED <<phase, sock, input, up, wire, toClient>>
      PROVE  HandshakeOK' /\ PeerOK'
  BY <1>2, <1>5 DEF TypeInv, HandshakeOK, PeerOK
<1>6. ASSUME Ended(h) # {}, Streams(c, Rest(h, HeaderEnd(h)), later)
      PROVE  HandshakeOK' /\ PeerOK'
  <2> DEFINE rest == Rest(h, HeaderEnd(h))
  <2>1. rest \in Seq(Tokens)
    <3>1. HeaderEnd(h) \in Nat
      BY <1>6, HeaderEnds
    <3> QED
      BY <3>1, RestProperties
  <2> HIDE DEF rest
  <2>2. rest \o later \in Seq(Tokens)
    BY <2>1, ConcatProperties
  <2>3. input[c] \o wire[c] \in Seq(Bytes)
    BY ConcatProperties DEF TypeInv, HandshakeOK, PeerOK
  <2>4. Written(c, <<"reply", 0>>) \in Seq(Frames)
    <3>1. <<"reply", 0>> \in Frames
      BY DEF Frames
    <3> QED
      BY <3>1, WrittenType DEF TypeInv
  <2>5. <<>> \in Seq(Bytes) /\ <<>> \in Seq(Tokens) /\ "stream" \in Phases
    BY DEF Phases
  <2>6. /\ phase' = [phase EXCEPT ![c] = "stream"]
        /\ toClient' = [toClient EXCEPT ![c] = Written(c, <<"reply", 0>>)]
        /\ wire' = [wire EXCEPT ![c] = input[c] \o @]
        /\ rwire' = [rwire EXCEPT ![c] = rest \o later]
        /\ input' = [input EXCEPT ![c] = <<>>] /\ headers' = [headers EXCEPT ![c] = <<>>]
        /\ UNCHANGED <<sock, up>>
    BY <1>6 DEF Streams, Unshifted, rest
  <2>7. HandshakeOK'
    BY <2>4, <2>5, <2>6 DEF TypeInv, HandshakeOK
  <2>8. PeerOK'
    BY <1>2, <2>2, <2>3, <2>6 DEF TypeInv, PeerOK
  <2> QED
    BY <2>7, <2>8
<1>7. HandshakeOK' /\ PeerOK'
  BY <1>1, <1>4, <1>5, <1>6 DEF ProxyDataCases
<1> QED
  BY <1>3, <1>7 DEF TypeInv

LEMMA PipeTypes ==
  ASSUME TypeInv, NEW c \in Conns, PipeUp(c) \/ PipeDown(c)
  PROVE  TypeInv'
<1> USE DEF TypeInv, ServerOK, serverVars, handshakeVars, peerVars, outVars
<1>0. wire[c] \in Seq(Bytes) /\ rwire[c] \in Seq(Tokens) /\ Tokens \subseteq Frames
  BY DEF PeerOK, Frames
<1>1. CASE PipeUp(c)
  <2>1. Head(wire[c]) \in Bytes /\ Tail(wire[c]) \in Seq(Bytes)
    BY <1>0, <1>1, HeadTailProperties DEF PipeUp
  <2>2. Append(toUp[c], Head(wire[c])) \in Seq(Bytes)
    BY <2>1, AppendProperties DEF PeerOK
  <2>3. HandshakeOK'
    BY <1>1 DEF PipeUp, HandshakeOK
  <2>4. PeerOK'
    BY <1>1, <2>1, <2>2 DEF PipeUp, PeerOK
  <2> QED
    BY <1>1, <2>3, <2>4 DEF PipeUp
<1>2. CASE PipeDown(c)
  <2>1. Head(rwire[c]) \in Frames /\ Tail(rwire[c]) \in Seq(Tokens)
    BY <1>0, <1>2, HeadTailProperties DEF PipeDown
  <2>2. Written(c, Head(rwire[c])) \in Seq(Frames)
    BY <2>1, WrittenType
  <2>3. HandshakeOK'
    BY <1>2, <2>2 DEF PipeDown, HandshakeOK
  <2>4. PeerOK'
    BY <1>2, <2>1 DEF PipeDown, PeerOK
  <2> QED
    BY <1>2, <2>3, <2>4 DEF PipeDown
<1> QED
  BY <1>1, <1>2

\* The steps of a connection.
Step(c) ==
  \/ \E s \in Scripts : Accept(c, s)
  \/ Flushed(c) \/ ClientClosed(c) \/ ClientEnd(c) \/ ClientError(c)
  \/ \E k \in 1..Len(wire[c]) : ClientData(c, k)
  \/ \E a \in Answers : Connected(c, a)
  \/ UpError(c) \/ UpEnd(c)
  \/ \E k \in 1..Len(rwire[c]) : ProxyData(c, k)
  \/ PipeUp(c) \/ PipeDown(c) \/ PipeEnd(c) \/ TimedOut(c)
  \/ \E side \in {"client", "squid"} : PeerEnds(c, side)

LEMMA NextSteps ==
  Next <=> \/ Listen \/ Listening \/ Close \/ CloseClients \/ Drained
           \/ \E c \in Conns : Step(c)
BY DEF Next, Step

LEMMA TypeInit == ConstantsAssumption /\ Init => TypeInv
<1>1. /\ <<>> \in Seq(Bytes) /\ <<>> \in Seq(Tokens) /\ <<>> \in Seq(Frames)
      /\ "none" \in Phases
  BY DEF Phases
<1>2. Init => HandshakeOK
  BY <1>1 DEF Init, HandshakeOK
<1>3. Init => ServerOK
  BY DEF Init, ServerOK
<1>4. Init => PeerOK
  BY <1>1 DEF Init, PeerOK
<1> QED
  BY <1>2, <1>3, <1>4 DEF TypeInv

LEMMA TypeStep == ConstantsAssumption /\ TypeInv /\ [Next]_vars => TypeInv'
<1> SUFFICES ASSUME ConstantsAssumption, TypeInv, [Next]_vars PROVE TypeInv'
  OBVIOUS
<1>1. CASE UNCHANGED vars
  BY <1>1 DEF vars, serverVars, handshakeVars, peerVars, outVars, TypeInv, HandshakeOK,
              ServerOK, PeerOK
<1>2. CASE Listen \/ Listening \/ Close \/ CloseClients \/ Drained
  BY <1>2, ServerTypes
<1>3. ASSUME NEW c \in Conns, Step(c)
      PROVE  TypeInv'
  <2>1. CASE ClientEnd(c) \/ UpError(c) \/ UpEnd(c) \/ TimedOut(c)
    BY <2>1, FailTypes
  <2>2. CASE \/ \E s \in Scripts : Accept(c, s)
             \/ Flushed(c) \/ ClientClosed(c) \/ ClientError(c)
             \/ \E a \in Answers : Connected(c, a)
             \/ \E side \in {"client", "squid"} : PeerEnds(c, side)
             \/ PipeEnd(c)
    BY <2>2, PlaceTypes
  <2>3. CASE \E k \in 1..Len(wire[c]) : ClientData(c, k)
    BY <2>3, ClientDataType
  <2>4. CASE \E k \in 1..Len(rwire[c]) : ProxyData(c, k)
    BY <2>4, ProxyDataType
  <2>5. CASE PipeUp(c) \/ PipeDown(c)
    BY <2>5, PipeTypes
  <2> QED
    BY <1>3, <2>1, <2>2, <2>3, <2>4, <2>5 DEF Step
<1> QED
  BY <1>1, <1>2, <1>3, NextSteps

\* Every variable has its type (TypeOK): what the parsers cut off are positions in
\* what has been read.
THEOREM Typing == Spec => []TypeOK
<1>1. Init => TypeInv
  BY ConstantsAssumption, TypeInit
<1>2. TypeInv /\ [Next]_vars => TypeInv'
  BY ConstantsAssumption, TypeStep
<1>3. TypeInv => TypeOK
  BY TypeParts DEF TypeInv
<1> QED
  BY <1>1, <1>2, <1>3, PTL DEF Spec
-----------------------------------------------------------------------------
(* What is true of a connection in each phase: where the client's bytes are, *)
(* where Squid's tokens are, and what either side has been told.             *)
M0 == <<"method", 0>>
R0 == <<"reply", 0>>
Told(c) == Len(toClient[c]) >= 2 /\ toClient[c][1] = M0 /\ toClient[c][2] = R0

PayloadAt(c) ==
  /\ toUp[c] # <<>> => /\ IsPrefixOf(toUp[c], Payload(script[c]))
                       /\ R0 \in {toClient[c][i] : i \in DOMAIN toClient[c]}
  /\ "client" \in seen[c] => toUp[c] = Payload(script[c])
RepliesAt(c) ==
  \/ toClient[c] = <<>> \/ toClient[c] = <<<<"method", 255>>>>
  \/ /\ toClient[c][1] = M0
     /\ \/ Len(toClient[c]) = 1
        \/ Len(toClient[c]) = 2 /\ toClient[c][2][1] = "reply"
        \/ /\ toClient[c][2] = R0
           /\ IsPrefixOf(Rest(toClient[c], 2), Banner(answer[c]))

Fresh(c) == toUp[c] = <<>> /\ seen[c] = {}
Blank(c) ==
  Fresh(c) /\ input[c] = <<>> /\ headers[c] = <<>> /\ toClient[c] = <<>>
InGreeting(c) ==
  /\ Fresh(c) /\ headers[c] = <<>> /\ toClient[c] = <<>>
  /\ input[c] \o wire[c] = script[c]
InRequest(c) ==
  /\ Fresh(c) /\ headers[c] = <<>> /\ toClient[c] = <<M0>>
  /\ greetingLength(script[c]).is = "end"
  /\ input[c] \o wire[c] = Rest(script[c], greetingLength(script[c]).n)
InProxy(c) ==
  /\ Fresh(c) /\ toClient[c] = <<M0>> /\ input[c] \o wire[c] = Payload(script[c])
  /\ Ended(headers[c]) = {}
  /\ up[c] = "connecting" => headers[c] = <<>>
  /\ up[c] = "asked" => headers[c] \o rwire[c] = answer[c]
InStream(c) ==
  /\ toUp[c] \o wire[c] = Payload(script[c])
  /\ "client" \in seen[c] => wire[c] = <<>>
  /\ toUp[c] # <<>> => Told(c)
  /\ sock[c] = "open" => Told(c) /\ Rest(toClient[c], 2) \o rwire[c] = Banner(answer[c])
  /\ RepliesAt(c)

Placed(c) ==
  /\ c \in clients <=> phase[c] # "none"
  /\ sock[c] = "none" => phase[c] = "none"
  /\ up[c] = "connecting" => phase[c] = "proxy"
  /\ up[c] = "asked" => phase[c] \in {"proxy", "stream"}
Bounded(c) == Len(input[c]) <= MaxClientBytes /\ Len(headers[c]) <= MaxHeader
InPhase(c) ==
  /\ phase[c] = "none" => Blank(c)
  /\ phase[c] = "greeting" => InGreeting(c)
  /\ phase[c] = "request" => InRequest(c)
  /\ phase[c] = "proxy" => InProxy(c)
  /\ phase[c] = "stream" => InStream(c)
  /\ phase[c] = "closed" => PayloadAt(c) /\ RepliesAt(c)
Good(c) == Placed(c) /\ Bounded(c) /\ InPhase(c)

\* The variables of a connection at their types.
TypeAt(c) ==
  /\ phase[c] \in Phases
  /\ input[c] \in Seq(Bytes) /\ headers[c] \in Seq(Tokens)
  /\ script[c] \in Seq(Bytes) /\ answer[c] \in Seq(Tokens)
  /\ wire[c] \in Seq(Bytes) /\ rwire[c] \in Seq(Tokens)
  /\ toClient[c] \in Seq(Frames) /\ toUp[c] \in Seq(Bytes)
  /\ up[c] \in {"none", "connecting", "asked"}

LEMMA TypesAt == ASSUME TypeInv, NEW c \in Conns PROVE TypeAt(c)
BY DEF TypeInv, HandshakeOK, PeerOK, TypeAt

LEMMA RestOfRest ==
  ASSUME NEW S, NEW s \in Seq(S), NEW n \in 0 .. Len(s), NEW m \in 0 .. Len(s) - n
  PROVE  Rest(Rest(s, n), m) = Rest(s, n + m)
<1> DEFINE v == Rest(s, n)
           x == Rest(v, m)
           y == Rest(s, n + m)
           l == Len(s)
<1>0. l \in Nat /\ n \in Nat /\ m \in Nat /\ n + m \in Nat /\ n + m <= l /\ n <= l
  OBVIOUS
<1>1. v \in Seq(S) /\ Len(v) = l - n /\ \A i \in 1 .. l - n : v[i] = s[n + i]
  BY <1>0, RestProperties
<1>2. y \in Seq(S) /\ Len(y) = l - (n + m) /\ \A i \in 1 .. l - (n + m) : y[i] = s[n + m + i]
  BY <1>0, RestProperties
<1> HIDE DEF v, y
<1>3. /\ x \in Seq(S) /\ Len(x) = IF m <= Len(v) THEN Len(v) - m ELSE 0
      /\ \A i \in 1 .. Len(v) - m : x[i] = v[m + i]
  BY <1>0, <1>1, RestProperties
<1> HIDE DEF x, l
<1>4. Len(x) = l - (n + m) /\ Len(x) = Len(y) /\ Len(v) - m = l - (n + m)
  BY <1>0, <1>1, <1>2, <1>3
<1>5. ASSUME NEW i \in 1 .. Len(x)
      PROVE  x[i] = y[i]
  <2>1. i \in 1 .. l - (n + m) /\ m + i \in 1 .. l - n /\ n + (m + i) = n + m + i
    BY <1>0, <1>4
  <2>2. x[i] = v[m + i]
    BY <1>3, <1>4, <2>1
  <2>3. v[m + i] = s[n + (m + i)]
    BY <1>1, <2>1
  <2>4. y[i] = s[n + m + i]
    BY <1>2, <2>1
  <2> QED
    BY <2>1, <2>2, <2>3, <2>4
<1>6. x = y
  BY <1>2, <1>3, <1>4, <1>5, SeqEqual
<1> QED
  BY <1>6 DEF x, y, v

\* Every phase means what the properties say.
LEMMA GoodMeans ==
  ASSUME TypeInv, NEW c \in Conns, Good(c)
  PROVE  PayloadAt(c) /\ RepliesAt(c)
<1>0. TypeAt(c)
  BY TypesAt
<1>1. CASE phase[c] \in {"none", "greeting"}
  BY <1>1 DEF Good, InPhase, Blank, InGreeting, Fresh, PayloadAt, RepliesAt
<1>2. CASE phase[c] \in {"request", "proxy"}
  <2>1. Fresh(c) /\ toClient[c] = <<M0>>
    BY <1>2 DEF Good, InPhase, InRequest, InProxy
  <2>2. toClient[c][1] = M0 /\ Len(toClient[c]) = 1
    BY <2>1
  <2> QED
    BY <2>1, <2>2 DEF Fresh, PayloadAt, RepliesAt
<1>3. CASE phase[c] = "stream"
  <2>1. InStream(c)
    BY <1>3 DEF Good, InPhase
  <2>2. IsPrefixOf(toUp[c], Payload(script[c]))
    BY <1>0, <2>1, PrefixOfConcat DEF InStream, TypeAt
  <2>3. Told(c) => R0 \in {toClient[c][i] : i \in DOMAIN toClient[c]}
    BY <1>0 DEF Told, TypeAt
  <2>4. "client" \in seen[c] => toUp[c] = Payload(script[c])
    <3>1. toUp[c] \o <<>> = toUp[c]
      BY <1>0, ConcatEmptySeq DEF TypeAt
    <3> QED
      BY <2>1, <3>1 DEF InStream
  <2> QED
    BY <2>1, <2>2, <2>3, <2>4 DEF InStream, PayloadAt
<1>4. CASE phase[c] = "closed"
  BY <1>4 DEF Good, InPhase
<1> QED
  BY <1>0, <1>1, <1>2, <1>3, <1>4 DEF TypeAt, Phases, Handshake
-----------------------------------------------------------------------------
(* The steps of a connection, at the connection that takes them.             *)

\* One frame after the method.
LEMMA OneReply ==
  ASSUME NEW y
  PROVE  /\ Len(<<M0>> \o <<y>>) = 2 /\ (<<M0>> \o <<y>>)[1] = M0
         /\ (<<M0>> \o <<y>>)[2] = y
<1> DEFINE m == <<M0>>
           z == <<y>>
           S == {M0, y}
<1>1. m \in Seq(S) /\ z \in Seq(S)
  OBVIOUS
<1>2. Len(m) = 1 /\ Len(z) = 1 /\ m[1] = M0 /\ z[1] = y
  OBVIOUS
<1> HIDE DEF m, z, S
<1>3. /\ m \o z \in Seq(S) /\ Len(m \o z) = Len(m) + Len(z)
      /\ \A i \in 1 .. Len(m) + Len(z) :
           (m \o z)[i] = IF i <= Len(m) THEN m[i] ELSE z[i - Len(m)]
  BY <1>1, ConcatProperties
<1>4. Len(m \o z) = 2 /\ (m \o z)[1] = M0 /\ (m \o z)[2] = y
  BY <1>2, <1>3
<1> QED
  BY <1>4 DEF m, z

\* A failure freezes what either side has been told.
LEMMA FailAsGood ==
  ASSUME ConstantsAssumption, TypeInv, NEW c \in Conns, Good(c), phase[c] # "none",
         NEW out, NEW frame, FailAs(c, out, frame), UNCHANGED clients,
         PayloadAt(c)', RepliesAt(c)'
  PROVE  Good(c)'
<1>1. /\ phase'[c] = "closed" /\ input'[c] = <<>> /\ headers'[c] = <<>>
      /\ up'[c] = "none" /\ sock'[c] # "none"
  BY DEF FailAs, UpAfterFail, TypeInv, HandshakeOK
<1>2. Placed(c)'
  BY <1>1 DEF Placed, Good
<1>3. Bounded(c)'
  BY <1>1 DEF Bounded, ConstantsAssumption
<1>4. InPhase(c)'
  BY <1>1 DEF InPhase
<1> QED
  BY <1>2, <1>3, <1>4 DEF Good

LEMMA FailGood ==
  ASSUME ConstantsAssumption, TypeInv, NEW c \in Conns, Good(c),
         phase[c] \notin {"none", "closed"}, NEW code \in 0 .. 999, Fail(c, code),
         UNCHANGED <<clients, script, answer, seen, toUp>>
  PROVE  Good(c)'
<1>0. TypeAt(c) /\ PayloadAt(c) /\ RepliesAt(c)
  BY TypesAt, GoodMeans
<1>1. \/ toClient'[c] = toClient[c]
      \/ toClient'[c] = toClient[c] \o Reply(code) /\ phase[c] \in {"request", "proxy"}
  BY <1>0 DEF Fail, FailAs, Frame, TypeAt, Phases, Handshake, TypeInv, HandshakeOK
<1>2. CASE toClient'[c] = toClient[c]
  <2>1. PayloadAt(c)' /\ RepliesAt(c)'
    BY <1>0, <1>2 DEF PayloadAt, RepliesAt
  <2> QED
    BY <2>1, FailAsGood DEF Fail
<1>3. CASE toClient'[c] = toClient[c] \o Reply(code) /\ phase[c] \in {"request", "proxy"}
  <2>1. Fresh(c) /\ toClient[c] = <<M0>>
    BY <1>3 DEF Good, InPhase, InRequest, InProxy
  <2>2. /\ Len(toClient'[c]) = 2 /\ toClient'[c][1] = M0
        /\ toClient'[c][2] = <<"reply", code>>
    BY <1>3, <2>1, OneReply DEF Reply
  <2>3. PayloadAt(c)'
    BY <2>1 DEF Fresh, PayloadAt
  <2>4. RepliesAt(c)'
    BY <2>2 DEF RepliesAt
  <2> QED
    BY <2>3, <2>4, FailAsGood DEF Fail
<1> QED
  BY <1>1, <1>2, <1>3

LEMMA FailingGood ==
  ASSUME ConstantsAssumption, TypeInv, NEW c \in Conns, Good(c),
         ClientEnd(c) \/ UpError(c) \/ UpEnd(c) \/ TimedOut(c)
  PROVE  Good(c)'
<1>1. phase[c] \notin {"none", "closed"}
  <2>1. CASE ClientEnd(c)
    BY <2>1 DEF ClientEnd, Handshake
  <2>2. CASE UpError(c)
    <3>1. up[c] \in {"connecting", "asked"}
      BY <2>2, TypesAt DEF UpError, TypeAt
    <3> QED
      BY <3>1 DEF Good, Placed
  <2>3. CASE UpEnd(c)
    BY <2>3 DEF UpEnd
  <2>4. CASE TimedOut(c)
    BY <2>4 DEF TimedOut, Timer, Handshake
  <2> QED
    BY <2>1, <2>2, <2>3, <2>4
<1>2. PICK code \in 0 .. 999 : Fail(c, code) /\ UNCHANGED <<serverVars, peerVars, toUp>>
  <2>1. CASE ClientEnd(c)
    BY <2>1 DEF ClientEnd
  <2>2. CASE UpError(c)
    <3>1. PICK code \in {1, 3, 4, 5, 6} : Fail(c, code)
      BY <2>2 DEF UpError
    <3>2. code \in 0 .. 999 /\ UNCHANGED <<serverVars, peerVars, toUp>>
      BY <2>2 DEF UpError
    <3> QED
      BY <3>1, <3>2
  <2>3. CASE UpEnd(c)
    BY <2>3 DEF UpEnd
  <2>4. CASE TimedOut(c)
    BY <2>4 DEF TimedOut
  <2> QED
    BY <2>1, <2>2, <2>3, <2>4
<1> QED
  BY <1>1, <1>2, FailGood DEF serverVars, peerVars

LEMMA PlaceGood ==
  ASSUME ConstantsAssumption, TypeInv, NEW c \in Conns, Good(c),
         \/ \E s \in Scripts : Accept(c, s)
         \/ Flushed(c) \/ ClientClosed(c) \/ ClientError(c)
  PROVE  Good(c)'
<1>0. TypeAt(c) /\ PayloadAt(c) /\ RepliesAt(c)
  BY TypesAt, GoodMeans
<1>1. ASSUME NEW s \in Scripts, Accept(c, s)
      PROVE  Good(c)'
  <2>0. s \in Seq(Bytes)
    BY DEF ConstantsAssumption, Bytes
  <2>1. phase[c] = "none" /\ Blank(c) /\ Placed(c) /\ Bounded(c)
    BY <1>1 DEF Accept, Good, Placed, InPhase
  <2>2. UNCHANGED <<input, headers, up, seen, toClient, toUp>>
    BY <1>1 DEF Accept, outVars
  <2>3. CASE closing \/ Full
    <3>1. sock'[c] = "destroyed" /\ phase'[c] = "none" /\ UNCHANGED clients
      BY <1>1, <2>1, <2>3 DEF Accept, TypeInv, HandshakeOK
    <3>2. Blank(c)'
      BY <2>1, <2>2 DEF Blank, Fresh
    <3> QED
      BY <2>1, <2>2, <3>1, <3>2 DEF Good, Placed, Bounded, InPhase
  <2>4. CASE ~(closing \/ Full)
    <3>1. /\ sock'[c] = "open" /\ phase'[c] = "greeting" /\ c \in clients'
          /\ script'[c] = s /\ wire'[c] = s
      BY <1>1, <2>4 DEF Accept, TypeInv, HandshakeOK, PeerOK
    <3>2. input'[c] \o wire'[c] = script'[c]
      <4>1. <<>> \o s = s
        BY <2>0, ConcatEmptySeq
      <4> QED
        BY <2>1, <2>2, <3>1, <4>1 DEF Blank
    <3>3. InGreeting(c)'
      BY <2>1, <2>2, <3>2 DEF InGreeting, Blank, Fresh
    <3>4. Placed(c)'
      BY <2>1, <2>2, <3>1 DEF Placed
    <3>5. Bounded(c)'
      BY <2>1, <2>2 DEF Bounded
    <3> QED
      BY <3>1, <3>3, <3>4, <3>5 DEF Good, InPhase
  <2> QED
    BY <2>3, <2>4
<1>2. CASE Flushed(c)
  <2>1. /\ sock[c] = "flushing" /\ sock'[c] = "destroyed"
        /\ UNCHANGED <<clients, phase, up, input, headers, script, answer, wire, rwire, seen,
                       toClient, toUp>>
    BY <1>2 DEF Flushed, serverVars, peerVars, outVars, TypeInv, HandshakeOK
  <2>2. InStream(c) => InStream(c)'
    BY <2>1 DEF InStream, Told, RepliesAt
  <2>3. InPhase(c)'
    BY <2>1, <2>2 DEF Good, InPhase, Blank, InGreeting, InRequest, InProxy, Fresh, PayloadAt,
                      RepliesAt
  <2> QED
    BY <2>1, <2>3 DEF Good, Placed, Bounded
<1>3. CASE ClientClosed(c)
  <2>1. /\ c \notin clients' /\ phase'[c] = "none" /\ up'[c] = "none"
        /\ seen'[c] = {} /\ input'[c] = <<>> /\ headers'[c] = <<>>
        /\ toClient'[c] = <<>> /\ toUp'[c] = <<>>
    BY <1>3 DEF ClientClosed, UpAfterClose, TypeInv, HandshakeOK, PeerOK
  <2>2. Blank(c)'
    BY <2>1 DEF Blank, Fresh
  <2> QED
    BY <2>1, <2>2 DEF Good, Placed, Bounded, InPhase, ConstantsAssumption
<1>4. CASE ClientError(c)
  <2>1. /\ c \in clients /\ phase'[c] = "closed" /\ up'[c] = "none"
        /\ sock'[c] = "destroyed"
        /\ UNCHANGED <<clients, input, headers, script, answer, seen, toClient, toUp>>
    BY <1>4 DEF ClientError, UpAfterFail, serverVars, peerVars, outVars, TypeInv, HandshakeOK
  <2>2. PayloadAt(c)' /\ RepliesAt(c)'
    BY <1>0, <2>1 DEF PayloadAt, RepliesAt
  <2> QED
    BY <2>1, <2>2 DEF Good, Placed, Bounded, InPhase
<1> QED
  BY <1>1, <1>2, <1>3, <1>4

LEMMA PeerGood ==
  ASSUME ConstantsAssumption, TypeInv, NEW c \in Conns, Good(c),
         \/ \E a \in Answers : Connected(c, a)
         \/ \E side \in {"client", "squid"} : PeerEnds(c, side)
         \/ PipeEnd(c)
  PROVE  Good(c)'
<1>0. TypeAt(c) /\ PayloadAt(c) /\ RepliesAt(c)
  BY TypesAt, GoodMeans
<1>1. ASSUME NEW a \in Answers, Connected(c, a)
      PROVE  Good(c)'
  <2>0. a \in Seq(Tokens) /\ <<>> \o a = a
    <3>1. a \in Seq(Tokens)
      BY DEF ConstantsAssumption, Tokens
    <3> QED
      BY <3>1, ConcatEmptySeq
  <2>1. /\ up[c] = "connecting" /\ up'[c] = "asked" /\ answer'[c] = a /\ rwire'[c] = a
        /\ UNCHANGED <<clients, phase, sock, input, headers, script, wire, seen, toClient,
                       toUp>>
    BY <1>1 DEF Connected, serverVars, outVars, TypeInv, HandshakeOK, PeerOK
  <2>2. phase[c] = "proxy" /\ InProxy(c)
    BY <2>1 DEF Good, Placed, InPhase
  <2>3. headers'[c] \o rwire'[c] = answer'[c]
    BY <2>0, <2>1, <2>2 DEF InProxy
  <2>4. InProxy(c)'
    BY <2>1, <2>2, <2>3 DEF InProxy, Fresh
  <2> QED
    BY <2>1, <2>2, <2>4 DEF Good, Placed, Bounded, InPhase
<1>2. ASSUME NEW side \in {"client", "squid"}, PeerEnds(c, side)
      PROVE  Good(c)'
  <2>1. UNCHANGED <<clients, phase, sock, up, input, headers, script, answer, wire, rwire,
                    seen, toClient, toUp>>
    BY <1>2 DEF PeerEnds, serverVars, handshakeVars, outVars
  <2>2. InPhase(c)'
    BY <2>1 DEF Good, InPhase, Blank, InGreeting, InRequest, InProxy, InStream, Fresh, Told,
                PayloadAt, RepliesAt
  <2> QED
    BY <2>1, <2>2 DEF Good, Placed, Bounded
<1>3. CASE PipeEnd(c)
  <2>1. PICK side \in fin[c] \ seen[c] :
          /\ (IF side = "client" THEN wire[c] = <<>> ELSE rwire[c] = <<>>)
          /\ seen' = [seen EXCEPT ![c] = @ \cup {side}]
    BY <1>3 DEF PipeEnd
  <2>2. /\ phase[c] = "stream"
        /\ UNCHANGED <<clients, phase, sock, up, input, headers, script, answer, wire, rwire,
                       toClient, toUp>>
    BY <1>3 DEF PipeEnd, serverVars, handshakeVars, outVars
  <2>3. InStream(c)
    BY <2>2 DEF Good, InPhase
  <2>4. "client" \in seen'[c] => wire'[c] = <<>>
    BY <2>1, <2>2, <2>3 DEF InStream, TypeInv, PeerOK
  <2>5. InStream(c)'
    BY <2>2, <2>3, <2>4 DEF InStream, Told, RepliesAt
  <2> QED
    BY <2>2, <2>5 DEF Good, Placed, Bounded, InPhase
<1> QED
  BY <1>1, <1>2, <1>3

\* The script after its greeting has been read as far as data, and w is left of it.
Greeted(c, data, w) ==
  /\ greetingLength(script[c]).is = "end"
  /\ data \o w = Rest(script[c], greetingLength(script[c]).n)
Only(out) == out = <<M0>>

\* clientData() once the greeting is complete: data has been read of the request, w
\* has not.
LEMMA RequestGood ==
  ASSUME ConstantsAssumption, TypeInv, NEW c \in Conns, Good(c),
         phase[c] \in {"greeting", "request"}, Fresh(c), headers[c] = <<>>,
         NEW data \in Seq(Bytes), NEW w \in Seq(Bytes), Len(data) <= MaxClientBytes,
         Greeted(c, data, w), NEW out, Only(out),
         Request(c, data, out), wire'[c] = w,
         UNCHANGED <<clients, script, answer, seen, toUp>>
  PROVE  Good(c)'
<1> DEFINE g == greetingLength(script[c])
           r == connectRequest(data)
<1>0. TypeAt(c) /\ Placed(c)
  BY TypesAt DEF Good
<1>1. r.n \in Nat /\ r.is \in {"more", "end", "refuse"}
      /\ (r.is = "refuse" => r.n \in {1, 7, 8}) /\ (r.is = "end" => r.n \in 4 .. Len(data))
  BY RequestResult
<1>2. g.n \in 2 .. Len(script[c])
  BY <1>0, GreetingResult DEF TypeAt, Greeted
<1>3. Fresh(c)' /\ up[c] = "none" /\ c \in clients' /\ sock[c] # "none"
  BY <1>0 DEF Fresh, Placed, TypeAt
<1> HIDE DEF r
<1>4. CASE r.is = "more"
  <2>1. /\ phase'[c] = "request" /\ input'[c] = data /\ toClient'[c] = <<M0>>
        /\ UNCHANGED <<sock, headers, up>>
    BY <1>4 DEF Request, TypeInv, HandshakeOK, r, Only
  <2>2. InRequest(c)'
    BY <1>3, <2>1 DEF InRequest, Greeted
  <2> QED
    BY <1>3, <2>1, <2>2 DEF Good, Placed, Bounded, InPhase
<1>5. CASE r.is = "end"
  <2>1. /\ phase'[c] = "proxy" /\ input'[c] = Rest(data, r.n) /\ toClient'[c] = <<M0>>
        /\ up'[c] = "connecting" /\ UNCHANGED <<sock, headers>>
    BY <1>5 DEF Request, TypeInv, HandshakeOK, r, Only
  <2>2. r.n \in Nat /\ r.n \in 0 .. Len(data) /\ Len(data) \in Nat
    BY <1>1, <1>5
  <2>3. Rest(data, r.n) \o w = Rest(data \o w, r.n)
    <3> DEFINE n == r.n
    <3>1. n \in 0 .. Len(data)
      BY <2>2
    <3> HIDE DEF n
    <3>2. Rest(data \o w, n) = Rest(data, n) \o w
      BY <3>1, RestOfConcat
    <3> QED
      BY <3>2 DEF n
  <2>4. connectRequest(data \o w) = r
    BY <1>5, RequestStays DEF r
  <2>5. Rest(Rest(script[c], g.n), r.n) = Rest(script[c], g.n + r.n)
    <3> DEFINE s == script[c]
               n == g.n
               m == r.n
    <3>1. s \in Seq(Bytes) /\ n \in 0 .. Len(s)
      BY <1>0, <1>2 DEF TypeAt
    <3>2. Len(Rest(s, n)) = Len(s) - n
      <4>1. n \in Nat /\ n <= Len(s)
        BY <3>1
      <4> HIDE DEF s, n
      <4> QED
        BY <3>1, <4>1, RestProperties
    <3>3. Len(data \o w) = Len(data) + Len(w) /\ Len(w) \in Nat
      BY ConcatProperties
    <3>4. data \o w = Rest(s, n)
      BY DEF Greeted
    <3> HIDE DEF s, n
    <3>5. m \in 0 .. Len(s) - n
      <4>1. Len(s) - n = Len(data) + Len(w)
        BY <3>2, <3>3, <3>4
      <4> HIDE DEF m
      <4> QED
        BY <2>2, <3>3, <4>1 DEF m
    <3> HIDE DEF m
    <3>6. Rest(Rest(s, n), m) = Rest(s, n + m)
      BY <3>1, <3>5, RestOfRest
    <3> QED
      BY <3>6 DEF s, n, m
  <2>6. Payload(script[c]) = Rest(script[c], g.n + r.n)
    BY <2>4 DEF Payload, Greeted
  <2>7. input'[c] \o wire'[c] = Payload(script'[c])
    BY <2>1, <2>3, <2>5, <2>6 DEF Greeted
  <2>8. Ended(headers'[c]) = {}
    BY <2>1 DEF Ended
  <2>9. InProxy(c)'
    BY <1>3, <2>1, <2>7, <2>8 DEF InProxy
  <2>10. Len(input'[c]) <= MaxClientBytes
    <3>1. Len(Rest(data, r.n)) = Len(data) - r.n
      BY <2>2, RestProperties
    <3> QED
      BY <2>1, <2>2, <3>1 DEF ConstantsAssumption
  <2> QED
    BY <1>3, <2>1, <2>9, <2>10 DEF Good, Placed, Bounded, InPhase
<1>6. CASE r.is = "refuse"
  <2> DEFINE y == <<"reply", r.n>>
  <2>1. FailAs(c, out, Reply(r.n))
    BY <1>6 DEF Request, r
  <2>2. toClient'[c] = <<M0>> \/ toClient'[c] = <<M0>> \o <<y>>
    BY <2>1 DEF FailAs, Reply, TypeInv, HandshakeOK, Only
  <2>3. PayloadAt(c)'
    BY <1>3 DEF Fresh, PayloadAt
  <2>4. RepliesAt(c)'
    <3>1. CASE toClient'[c] = <<M0>>
      <4>1. toClient'[c][1] = M0 /\ Len(toClient'[c]) = 1
        BY <3>1
      <4> QED
        BY <4>1 DEF RepliesAt
    <3>2. CASE toClient'[c] = <<M0>> \o <<y>>
      <4>1. y[1] = "reply"
        OBVIOUS
      <4> HIDE DEF y
      <4>2. Len(toClient'[c]) = 2 /\ toClient'[c][1] = M0 /\ toClient'[c][2] = y
        BY <3>2, OneReply
      <4> QED
        BY <4>1, <4>2 DEF RepliesAt
    <3> QED
      BY <2>2, <3>1, <3>2
  <2> QED
    BY <1>0, <2>1, <2>3, <2>4, FailAsGood
<1> QED
  BY <1>1, <1>4, <1>5, <1>6

LEMMA ClientDataGood ==
  ASSUME ConstantsAssumption, TypeInv, NEW c \in Conns, Good(c),
         NEW k \in 1 .. Len(wire[c]), ClientData(c, k)
  PROVE  Good(c)'
<1> DEFINE data == input[c] \o SubSeq(wire[c], 1, k)
           w == Rest(wire[c], k)
           g == greetingLength(data)
<1>0. TypeAt(c) /\ Placed(c) /\ Bounded(c)
  BY TypesAt DEF Good
<1>1. data \in Seq(Bytes) /\ w \in Seq(Bytes) /\ data \o w = input[c] \o wire[c]
  <2> DEFINE s == input[c]
             v == wire[c]
  <2>1. s \in Seq(Bytes) /\ v \in Seq(Bytes) /\ k \in 1 .. Len(v)
    BY <1>0 DEF TypeAt
  <2> HIDE DEF s, v, data, w
  <2>2. (s \o SubSeq(v, 1, k)) \o Rest(v, k) = s \o v
    BY <2>1, ReadMore
  <2>3. SubSeq(v, 1, k) \in Seq(Bytes) /\ Rest(v, k) \in Seq(Bytes)
    BY <2>1, Cut
  <2>4. s \o SubSeq(v, 1, k) \in Seq(Bytes)
    BY <2>1, <2>3, ConcatProperties
  <2> QED
    BY <2>2, <2>3, <2>4 DEF s, v, data, w
<1>2. /\ sock[c] = "open" /\ phase[c] \in {"greeting", "request"} /\ wire'[c] = w
      /\ UNCHANGED <<clients, script, answer, seen, toUp>>
  BY DEF ClientData, serverVars, TypeInv, PeerOK
<1>3. \/ Fail(c, 1)
      \/ Len(data) <= MaxClientBytes /\ phase[c] = "greeting" /\ Greeting(c, data)
      \/ Len(data) <= MaxClientBytes /\ phase[c] = "request"
           /\ Request(c, data, toClient[c])
  <2>1. Len(data) \in Nat /\ MaxClientBytes \in Nat
    BY <1>1 DEF ConstantsAssumption
  <2>2. IF Len(data) > MaxClientBytes THEN Fail(c, 1)
        ELSE IF phase[c] = "greeting" THEN Greeting(c, data)
        ELSE Request(c, data, toClient[c])
    BY DEF ClientData, TooMuch
  <2> HIDE DEF data
  <2>3. Len(data) > MaxClientBytes \/ Len(data) <= MaxClientBytes
    BY <2>1
  <2> QED
    BY <1>2, <2>1, <2>2, <2>3
<1> HIDE DEF data, w
<1>4. CASE Fail(c, 1)
  BY <1>2, <1>4, FailGood
<1>5. CASE Len(data) <= MaxClientBytes /\ phase[c] = "request"
           /\ Request(c, data, toClient[c])
  <2>1. InRequest(c)
    BY <1>5 DEF Good, InPhase
  <2>2. Greeted(c, data, w) /\ Only(toClient[c]) /\ Fresh(c) /\ headers[c] = <<>>
    BY <1>1, <2>1 DEF InRequest, Greeted, Only
  <2> QED
    BY <1>1, <1>2, <1>5, <2>2, RequestGood
<1>6. CASE Len(data) <= MaxClientBytes /\ phase[c] = "greeting" /\ Greeting(c, data)
  <2>1. InGreeting(c) /\ up[c] = "none"
    BY <1>0, <1>6 DEF Good, InPhase, Placed, TypeAt
  <2>2. data \o w = script[c] /\ Fresh(c)' /\ phase[c] # "none"
    BY <1>1, <1>2, <2>1 DEF InGreeting, Fresh
  <2>3. g.n \in Nat /\ g.is \in {"more", "end", "refuse", "method"}
        /\ (g.is = "end" => g.n \in 2 .. Len(data))
    BY <1>1, GreetingResult
  <2> HIDE DEF g
  <2>4. CASE g.is = "more"
    <3>1. input'[c] = data /\ UNCHANGED <<phase, sock, headers, up, toClient>>
      BY <1>6, <2>4 DEF Greeting, TypeInv, HandshakeOK, g
    <3>2. InGreeting(c)'
      BY <1>2, <2>1, <2>2, <3>1 DEF InGreeting
    <3> QED
      BY <1>0, <1>2, <1>6, <3>1, <3>2 DEF Good, Placed, Bounded, InPhase
  <2>5. CASE g.is = "end"
    <3> DEFINE d2 == Rest(data, g.n)
               out == Written(c, <<"method", 0>>)
    <3>1. Request(c, d2, out)
      BY <1>6, <2>5 DEF Greeting, g
    <3>2. out = <<M0>>
      BY <1>2, <2>1 DEF Written, InGreeting, M0
    <3>3. g.n \in 0 .. Len(data) /\ g.n \in Nat /\ Len(data) \in Nat
      BY <1>1, <2>3, <2>5
    <3>4. greetingLength(script[c]) = g
      <4>1. greetingLength(data).is = "end"
        BY <2>5 DEF g
      <4>2. greetingLength(data \o w) = greetingLength(data)
        BY <1>1, <4>1, GreetingStays
      <4> QED
        BY <2>2, <4>2 DEF g
    <3>5. d2 \o w = Rest(script[c], g.n)
      <4> DEFINE n == g.n
      <4>1. n \in 0 .. Len(data) /\ data \in Seq(Bytes) /\ w \in Seq(Bytes)
        BY <1>1, <3>3
      <4> HIDE DEF n
      <4>2. Rest(data \o w, n) = Rest(data, n) \o w
        BY <4>1, RestOfConcat
      <4> QED
        BY <2>2, <4>2 DEF n
    <3>6. d2 \in Seq(Bytes) /\ Len(d2) <= MaxClientBytes
      <4> DEFINE n == g.n
      <4>1. n \in Nat /\ n <= Len(data) /\ data \in Seq(Bytes)
        BY <1>1, <3>3
      <4> HIDE DEF n, d2
      <4>2. Rest(data, n) \in Seq(Bytes) /\ Len(Rest(data, n)) = Len(data) - n
        BY <4>1, RestProperties
      <4>3. d2 \in Seq(Bytes) /\ Len(d2) = Len(data) - n
        BY <4>2 DEF d2, n
      <4> QED
        BY <1>6, <3>3, <4>1, <4>3 DEF ConstantsAssumption
    <3> HIDE DEF d2, out
    <3>7. Fresh(c) /\ headers[c] = <<>>
      BY <2>1 DEF InGreeting
    <3>8. Greeted(c, d2, w) /\ Only(out)
      BY <2>5, <3>2, <3>4, <3>5 DEF Greeted, Only
    <3> QED
      BY <1>1, <1>2, <3>1, <3>6, <3>7, <3>8, RequestGood
  <2>6. CASE g.is \in {"method", "refuse"}
    <3>1. PICK frame \in {<<>>, <<<<"method", 255>>>>} : FailAs(c, toClient[c], frame)
      BY <1>6, <2>6 DEF Greeting, g
    <3>2. toClient'[c] = <<>> \/ toClient'[c] = <<>> \o frame
      BY <2>1, <3>1 DEF FailAs, InGreeting, TypeInv, HandshakeOK
    <3>3. <<>> \o frame = frame
      <4> DEFINE x == <<"method", 255>>
      <4>1. frame = <<>> \/ frame = <<x>>
        BY <3>1
      <4> HIDE DEF x
      <4>2. frame \in Seq({x})
        <5>1. <<>> \in Seq({x}) /\ <<x>> \in Seq({x})
          OBVIOUS
        <5> QED
          BY <4>1, <5>1
      <4> QED
        BY <4>2, ConcatEmptySeq
    <3>4. PayloadAt(c)' /\ RepliesAt(c)'
      BY <2>2, <3>1, <3>2, <3>3 DEF Fresh, PayloadAt, RepliesAt
    <3> QED
      BY <1>2, <2>2, <3>1, <3>4, FailAsGood
  <2> QED
    BY <2>3, <2>4, <2>5, <2>6
<1> QED
  BY <1>3, <1>4, <1>5, <1>6

LEMMA ProxyDataGood ==
  ASSUME ConstantsAssumption, TypeInv, NEW c \in Conns, Good(c),
         NEW k \in 1 .. Len(rwire[c]), ProxyData(c, k)
  PROVE  Good(c)'
<1>0. TypeAt(c) /\ Placed(c) /\ Bounded(c)
  BY TypesAt DEF Good
<1>1. PICK h \in Seq(Tokens), later \in Seq(Tokens) :
        h \o later = headers[c] \o rwire[c] /\ ProxyDataCases(c, h, later)
  BY ProxyDataSplit
<1>2. /\ up[c] = "asked" /\ phase[c] = "proxy"
      /\ UNCHANGED <<clients, script, answer, seen, toUp>>
  BY DEF ProxyData, serverVars
<1>3. InProxy(c) /\ c \in clients /\ sock[c] # "none"
  BY <1>2 DEF Good, InPhase, Placed
<1>4. h \o later = answer[c]
  BY <1>1, <1>2, <1>3 DEF InProxy
<1>5. ASSUME NEW code \in 0 .. 999, Fail(c, code)
      PROVE  Good(c)'
  BY <1>2, <1>5, FailGood
<1>6. ASSUME Ended(h) = {}, Len(h) <= MaxHeader, headers' = [headers EXCEPT ![c] = h],
             rwire' = [rwire EXCEPT ![c] = later],
             UNCHANGED <<phase, sock, input, up, wire, toClient>>
      PROVE  Good(c)'
  <2>1. headers'[c] = h /\ rwire'[c] = later
    BY <1>6 DEF TypeInv, HandshakeOK, PeerOK
  <2>2. InProxy(c)'
    BY <1>2, <1>3, <1>4, <1>6, <2>1 DEF InProxy, Fresh
  <2> QED
    BY <1>0, <1>2, <1>6, <2>1, <2>2 DEF Good, Placed, Bounded, InPhase
<1>7. ASSUME Ended(h) # {}, Streams(c, Rest(h, HeaderEnd(h)), later)
      PROVE  Good(c)'
  <2> DEFINE rest == Rest(h, HeaderEnd(h))
  <2>1. /\ phase'[c] = "stream" /\ input'[c] = <<>> /\ headers'[c] = <<>>
        /\ wire'[c] = input[c] \o wire[c] /\ rwire'[c] = rest \o later
        /\ toClient'[c] = Written(c, R0) /\ UNCHANGED <<sock, up>>
    BY <1>7 DEF Streams, Unshifted, TypeInv, HandshakeOK, PeerOK, R0
  <2>2. rest \in Seq(Tokens) /\ rest \o later \in Seq(Tokens)
    <3>1. HeaderEnd(h) \in Nat
      BY <1>7, HeaderEnds
    <3>2. rest \in Seq(Tokens)
      BY <3>1, RestProperties
    <3> QED
      BY <3>2, ConcatProperties
  <2>3. rest \o later = Banner(answer'[c])
    <3>1. Banner(h \o later) = rest \o later
      BY <1>7, HeaderStays
    <3> QED
      BY <1>2, <1>4, <3>1
  <2> HIDE DEF rest
  <2>4. toUp'[c] \o wire'[c] = Payload(script'[c])
    <3>1. wire'[c] = Payload(script'[c]) /\ toUp'[c] = <<>>
      BY <1>2, <1>3, <2>1 DEF InProxy, Fresh
    <3>2. input[c] \o wire[c] \in Seq(Bytes)
      BY <1>0, ConcatProperties DEF TypeAt
    <3>3. <<>> \o wire'[c] = wire'[c]
      BY <2>1, <3>2, ConcatEmptySeq
    <3> QED
      BY <3>1, <3>3
  <2>5. ASSUME sock[c] = "open"
        PROVE  Told(c)' /\ Rest(toClient'[c], 2) \o rwire'[c] = Banner(answer'[c])
    <3>1. toClient'[c] = Append(<<M0>>, R0)
      BY <1>3, <2>1, <2>5 DEF InProxy, Written
    <3>2. /\ toClient'[c] \in Seq({M0, R0}) /\ Len(toClient'[c]) = 2
          /\ toClient'[c][1] = M0 /\ toClient'[c][2] = R0
      <4>1. <<M0>> \in Seq({M0, R0}) /\ R0 \in {M0, R0} /\ Len(<<M0>>) = 1 /\ <<M0>>[1] = M0
        OBVIOUS
      <4> QED
        BY <3>1, <4>1, AppendProperties
    <3>3. Rest(toClient'[c], 2) = <<>>
      BY <3>2, SubSeqEmpty DEF Rest
    <3>4. <<>> \o rwire'[c] = rwire'[c]
      BY <2>1, <2>2, ConcatEmptySeq
    <3> QED
      BY <2>1, <2>3, <3>2, <3>3, <3>4 DEF Told
  <2>6. RepliesAt(c)'
    <3>1. CASE sock[c] = "open"
      <4>1. Len(toClient'[c]) = 2 /\ toClient'[c][1] = M0 /\ toClient'[c][2][1] = "reply"
        <5>1. toClient'[c] = Append(<<M0>>, R0)
          BY <1>3, <2>1, <3>1 DEF InProxy, Written
        <5>2. <<M0>> \in Seq({M0, R0}) /\ R0 \in {M0, R0} /\ Len(<<M0>>) = 1 /\ <<M0>>[1] = M0
          OBVIOUS
        <5>3. Len(toClient'[c]) = 2 /\ toClient'[c][1] = M0 /\ toClient'[c][2] = R0
          BY <5>1, <5>2, AppendProperties
        <5>4. R0[1] = "reply"
          BY DEF R0
        <5> QED
          BY <5>3, <5>4
      <4> QED
        BY <4>1 DEF RepliesAt
    <3>2. CASE sock[c] # "open"
      <4>1. toClient'[c] = <<M0>>
        BY <1>3, <2>1, <3>2 DEF InProxy, Written
      <4>2. toClient'[c][1] = M0 /\ Len(toClient'[c]) = 1
        BY <4>1
      <4> QED
        BY <4>2 DEF RepliesAt
    <3> QED
      BY <3>1, <3>2
  <2>7. InStream(c)'
    <3>1. seen'[c] = {} /\ toUp'[c] = <<>>
      BY <1>2, <1>3 DEF InProxy, Fresh
    <3>2. sock'[c] = "open" => Told(c)' /\ Rest(toClient'[c], 2) \o rwire'[c] = Banner(answer'[c])
      BY <2>1, <2>5
    <3> QED
      BY <2>4, <2>6, <3>1, <3>2 DEF InStream
  <2> QED
    BY <1>0, <1>2, <1>3, <2>1, <2>7 DEF Good, Placed, Bounded, InPhase, ConstantsAssumption
<1> QED
  BY <1>1, <1>5, <1>6, <1>7 DEF ProxyDataCases

LEMMA PipeUpGood ==
  ASSUME TypeInv, NEW c \in Conns, Good(c), PipeUp(c)
  PROVE  Good(c)'
<1> DEFINE u == toUp[c]
           w == wire[c]
<1>0. u \in Seq(Bytes) /\ w \in Seq(Bytes)
  BY TypesAt DEF TypeAt
<1>1. /\ phase[c] = "stream" /\ sock[c] = "open" /\ w # <<>>
      /\ toUp'[c] = Append(u, Head(w)) /\ wire'[c] = Tail(w)
      /\ UNCHANGED <<clients, phase, sock, up, input, headers, script, answer, rwire, seen,
                     toClient>>
  BY DEF PipeUp, serverVars, handshakeVars, TypeInv, PeerOK
<1>2. InStream(c)
  BY <1>1 DEF Good, InPhase
<1>3. toUp'[c] \o wire'[c] = u \o w
  <2> HIDE DEF u, w
  <2>1. Append(u, Head(w)) \o Tail(w) = u \o w
    BY <1>0, <1>1, MoveHead
  <2> QED
    BY <1>1, <2>1
<1>4. InStream(c)'
  BY <1>1, <1>2, <1>3 DEF InStream, Told, RepliesAt
<1> QED
  BY <1>1, <1>4 DEF Good, Placed, Bounded, InPhase

LEMMA PipeDownGood ==
  ASSUME TypeInv, NEW c \in Conns, Good(c), PipeDown(c)
  PROVE  Good(c)'
<1> DEFINE t == toClient[c]
           w == rwire[c]
           x == Head(w)
<1>0. t \in Seq(Frames) /\ w \in Seq(Frames)
  <2>1. t \in Seq(Frames) /\ w \in Seq(Tokens) /\ Tokens \subseteq Frames
    BY TypesAt DEF TypeAt, Frames
  <2> QED
    BY <2>1
<1>1. /\ phase[c] = "stream" /\ w # <<>>
      /\ toClient'[c] = Written(c, x) /\ rwire'[c] = Tail(w)
      /\ UNCHANGED <<clients, phase, sock, up, input, headers, script, answer, wire, seen, toUp>>
  BY DEF PipeDown, serverVars, handshakeVars, TypeInv, HandshakeOK, PeerOK
<1>2. InStream(c)
  BY <1>1 DEF Good, InPhase
<1>3. CASE sock[c] # "open"
  <2>1. toClient'[c] = t /\ sock'[c] # "open"
    BY <1>1, <1>3 DEF Written
  <2>2. InStream(c)'
    BY <1>1, <1>2, <2>1 DEF InStream, Told, RepliesAt
  <2> QED
    BY <1>1, <2>2 DEF Good, Placed, Bounded, InPhase
<1>4. CASE sock[c] = "open"
  <2>1. toClient'[c] = Append(t, x)
    BY <1>1, <1>4 DEF Written
  <2>2. x \in Frames /\ Tail(w) \in Seq(Frames)
    BY <1>0, <1>1, HeadTailProperties
  <2>3. Told(c) /\ Rest(t, 2) \o w = Banner(answer[c])
    BY <1>2, <1>4 DEF InStream
  <2>4. Len(t) \in Nat /\ Len(t) >= 2 /\ t[1] = M0 /\ t[2] = R0
    BY <1>0, <2>3 DEF Told
  <2> HIDE DEF t, w, x
  <2>5. /\ Len(toClient'[c]) = Len(t) + 1 /\ toClient'[c][1] = M0 /\ toClient'[c][2] = R0
    <3>1. /\ Len(Append(t, x)) = Len(t) + 1
          /\ \A i \in 1 .. Len(t) : Append(t, x)[i] = t[i]
      BY <1>0, <2>2, AppendProperties
    <3>2. 1 \in 1 .. Len(t) /\ 2 \in 1 .. Len(t)
      BY <2>4
    <3> QED
      BY <2>1, <2>4, <3>1, <3>2
  <2>6. Told(c)'
    BY <2>4, <2>5 DEF Told
  <2>7. Rest(Append(t, x), 2) = Append(Rest(t, 2), x)
    <3>1. 2 \in 0 .. Len(t) /\ <<x>> \in Seq(Frames) /\ Rest(t, 2) \in Seq(Frames)
      BY <1>0, <2>2, <2>4, RestProperties
    <3>2. Append(t, x) = t \o <<x>>
      BY <1>0, <2>2, AppendIsConcat
    <3>3. Rest(t \o <<x>>, 2) = Rest(t, 2) \o <<x>>
      BY <1>0, <3>1, RestOfConcat
    <3>4. Append(Rest(t, 2), x) = Rest(t, 2) \o <<x>>
      BY <2>2, <3>1, AppendIsConcat
    <3> QED
      BY <3>2, <3>3, <3>4
  <2>8. Append(Rest(t, 2), x) \o Tail(w) = Rest(t, 2) \o w
    <3>1. Rest(t, 2) \in Seq(Frames)
      BY <1>0, RestProperties
    <3> QED
      BY <1>0, <1>1, <3>1, MoveHead DEF x
  <2>9. Rest(toClient'[c], 2) \o rwire'[c] = Banner(answer'[c])
    BY <1>1, <2>1, <2>3, <2>7, <2>8
  <2>10. RepliesAt(c)'
    <3>1. Rest(toClient'[c], 2) \in Seq(Frames) /\ rwire'[c] \in Seq(Frames)
      <4>1. Append(t, x) \in Seq(Frames)
        BY <1>0, <2>2, AppendProperties
      <4> QED
        BY <1>1, <2>1, <2>2, <4>1, RestProperties
    <3>2. IsPrefixOf(Rest(toClient'[c], 2), Banner(answer'[c]))
      BY <2>9, <3>1, PrefixOfConcat
    <3> QED
      BY <2>5, <3>2 DEF RepliesAt
  <2>11. InStream(c)'
    BY <1>1, <1>2, <2>6, <2>9, <2>10 DEF InStream
  <2> QED
    BY <1>1, <2>11 DEF Good, Placed, Bounded, InPhase
<1> QED
  BY <1>3, <1>4
-----------------------------------------------------------------------------
(* A step leaves the other connections alone.                                *)

SameHandshake(d) ==
  /\ phase'[d] = phase[d] /\ sock'[d] = sock[d] /\ input'[d] = input[d]
  /\ headers'[d] = headers[d] /\ up'[d] = up[d] /\ toClient'[d] = toClient[d]
SamePeers(d) ==
  /\ script'[d] = script[d] /\ answer'[d] = answer[d]
  /\ wire'[d] = wire[d] /\ rwire'[d] = rwire[d]
  /\ seen'[d] = seen[d] /\ toUp'[d] = toUp[d] /\ (d \in clients' <=> d \in clients)

LEMMA SameGood ==
  ASSUME NEW d \in Conns, Good(d), SameHandshake(d), SamePeers(d)
  PROVE  Good(d)'
<1> USE DEF SameHandshake, SamePeers
<1>1. Placed(d)' /\ Bounded(d)'
  BY DEF Good, Placed, Bounded
<1>2. /\ PayloadAt(d) => PayloadAt(d)'
      /\ RepliesAt(d) => RepliesAt(d)'
      /\ Told(d) => Told(d)'
      /\ Fresh(d) => Fresh(d)'
  BY DEF PayloadAt, RepliesAt, Told, Fresh
<1>3. /\ Blank(d) => Blank(d)'
      /\ InGreeting(d) => InGreeting(d)'
      /\ InRequest(d) => InRequest(d)'
      /\ InProxy(d) => InProxy(d)'
  BY <1>2 DEF Blank, InGreeting, InRequest, InProxy
<1>4. InStream(d) => InStream(d)'
  BY <1>2 DEF InStream
<1>5. InPhase(d)'
  BY <1>2, <1>3, <1>4 DEF Good, InPhase
<1> QED
  BY <1>1, <1>5 DEF Good

LEMMA FailOthers ==
  ASSUME HandshakeOK, NEW c \in Conns, NEW d \in Conns, d # c,
         NEW out, NEW frame, FailAs(c, out, frame)
  PROVE  SameHandshake(d)
BY DEF FailAs, UpAfterFail, HandshakeOK, SameHandshake

LEMMA RequestOthers ==
  ASSUME HandshakeOK, NEW c \in Conns, NEW d \in Conns, d # c,
         NEW data \in Seq(Bytes), NEW out, Request(c, data, out)
  PROVE  SameHandshake(d)
<1> DEFINE r == connectRequest(data)
<1>1. r.is \in {"more", "end", "refuse"}
  BY RequestResult
<1> HIDE DEF r
<1>2. CASE r.is = "more"
  BY <1>2 DEF Request, HandshakeOK, SameHandshake, r
<1>3. CASE r.is = "end"
  BY <1>3 DEF Request, HandshakeOK, SameHandshake, r
<1>4. CASE r.is = "refuse"
  <2>1. FailAs(c, out, Reply(r.n))
    BY <1>4 DEF Request, r
  <2> QED
    BY <2>1, FailOthers
<1> QED
  BY <1>1, <1>2, <1>3, <1>4

LEMMA GreetingOthers ==
  ASSUME HandshakeOK, NEW c \in Conns, NEW d \in Conns, d # c,
         NEW data \in Seq(Bytes), Greeting(c, data)
  PROVE  SameHandshake(d)
<1> DEFINE g == greetingLength(data)
<1>1. g.n \in Nat /\ g.is \in {"more", "end", "refuse", "method"}
  BY GreetingResult
<1> HIDE DEF g
<1>2. CASE g.is = "more"
  BY <1>2 DEF Greeting, HandshakeOK, SameHandshake, g
<1>3. CASE g.is = "end"
  <2>1. Request(c, Rest(data, g.n), Written(c, <<"method", 0>>))
    BY <1>3 DEF Greeting, g
  <2>2. Rest(data, g.n) \in Seq(Bytes)
    BY <1>1, RestProperties
  <2> QED
    BY <2>1, <2>2, RequestOthers
<1>4. CASE g.is \in {"method", "refuse"}
  <2>1. PICK frame : FailAs(c, toClient[c], frame)
    BY <1>4 DEF Greeting, g
  <2> QED
    BY <2>1, FailOthers
<1> QED
  BY <1>1, <1>2, <1>3, <1>4

LEMMA Others ==
  ASSUME ConstantsAssumption, TypeInv, NEW c \in Conns, NEW d \in Conns, d # c, Step(c)
  PROVE  SameHandshake(d) /\ SamePeers(d)
<1>0. HandshakeOK /\ PeerOK /\ ServerOK
  BY DEF TypeInv
<1>1. CASE ClientEnd(c) \/ UpError(c) \/ UpEnd(c) \/ TimedOut(c)
  <2>1. PICK code : Fail(c, code) /\ UNCHANGED <<serverVars, peerVars, toUp>>
    <3>1. CASE ClientEnd(c)
      BY <3>1 DEF ClientEnd
    <3>2. CASE UpError(c)
      <4>1. PICK code : Fail(c, code)
        BY <3>2 DEF UpError
      <4> QED
        BY <3>2, <4>1 DEF UpError
    <3>3. CASE UpEnd(c)
      BY <3>3 DEF UpEnd
    <3>4. CASE TimedOut(c)
      BY <3>4 DEF TimedOut
    <3> QED
      BY <1>1, <3>1, <3>2, <3>3, <3>4
  <2>2. SameHandshake(d)
    BY <1>0, <2>1, FailOthers DEF Fail
  <2>3. SamePeers(d)
    BY <2>1 DEF SamePeers, serverVars, peerVars
  <2> QED
    BY <2>2, <2>3
<1>2. ASSUME NEW s \in Scripts, Accept(c, s)
      PROVE  SameHandshake(d) /\ SamePeers(d)
  <2>1. CASE closing \/ Full
    BY <1>0, <1>2, <2>1 DEF Accept, SameHandshake, SamePeers, HandshakeOK, outVars
  <2>2. CASE ~(closing \/ Full)
    BY <1>0, <1>2, <2>2 DEF Accept, SameHandshake, SamePeers, HandshakeOK, PeerOK, outVars
  <2> QED
    BY <2>1, <2>2
<1>3. CASE Flushed(c) \/ ClientClosed(c) \/ ClientError(c)
  <2>1. CASE Flushed(c)
    BY <1>0, <2>1 DEF Flushed, SameHandshake, SamePeers, HandshakeOK, serverVars, peerVars,
                      outVars
  <2>2. CASE ClientClosed(c)
    BY <1>0, <2>2 DEF ClientClosed, UpAfterClose, SameHandshake, SamePeers, HandshakeOK, PeerOK
  <2>3. CASE ClientError(c)
    BY <1>0, <2>3 DEF ClientError, UpAfterFail, SameHandshake, SamePeers, HandshakeOK,
                      serverVars, peerVars, outVars
  <2> QED
    BY <1>3, <2>1, <2>2, <2>3
<1>4. ASSUME NEW k \in 1..Len(wire[c]), ClientData(c, k)
      PROVE  SameHandshake(d) /\ SamePeers(d)
  <2> DEFINE data == input[c] \o SubSeq(wire[c], 1, k)
  <2>1. data \in Seq(Bytes)
    <3>1. input[c] \in Seq(Bytes) /\ wire[c] \in Seq(Bytes)
      BY <1>0 DEF HandshakeOK, PeerOK
    <3>2. SubSeq(wire[c], 1, k) \in Seq(Bytes)
      BY <3>1, Cut
    <3> QED
      BY <3>1, <3>2, ConcatProperties
  <2>2. Fail(c, 1) \/ Greeting(c, data) \/ Request(c, data, toClient[c])
    BY <1>4 DEF ClientData
  <2> HIDE DEF data
  <2>3. SameHandshake(d)
    <3>1. CASE Fail(c, 1)
      BY <1>0, <3>1, FailOthers DEF Fail
    <3>2. CASE Greeting(c, data)
      BY <1>0, <2>1, <3>2, GreetingOthers
    <3>3. CASE Request(c, data, toClient[c])
      BY <1>0, <2>1, <3>3, RequestOthers
    <3> QED
      BY <2>2, <3>1, <3>2, <3>3
  <2>4. SamePeers(d)
    BY <1>0, <1>4 DEF ClientData, SamePeers, PeerOK, serverVars
  <2> QED
    BY <2>3, <2>4
<1>5. ASSUME NEW k \in 1..Len(rwire[c]), ProxyData(c, k)
      PROVE  SameHandshake(d) /\ SamePeers(d)
  <2>1. PICK h, later : ProxyDataCases(c, h, later)
    BY <1>5, ProxyDataSplit
  <2>2. UNCHANGED <<serverVars, script, answer, seen, toUp>>
    BY <1>5 DEF ProxyData
  <2>3. ASSUME NEW code, Fail(c, code), UNCHANGED wire,
               rwire' = [rwire EXCEPT ![c] = later]
        PROVE  SameHandshake(d) /\ SamePeers(d)
    <3>1. SameHandshake(d)
      BY <1>0, <2>3, FailOthers DEF Fail
    <3> QED
      BY <1>0, <2>2, <2>3, <3>1 DEF SamePeers, PeerOK, serverVars
  <2>4. ASSUME headers' = [headers EXCEPT ![c] = h], rwire' = [rwire EXCEPT ![c] = later],
               UNCHANGED <<phase, sock, input, up, wire, toClient>>
        PROVE  SameHandshake(d) /\ SamePeers(d)
    BY <1>0, <2>2, <2>4 DEF SameHandshake, SamePeers, HandshakeOK, PeerOK, serverVars
  <2>5. ASSUME Streams(c, Rest(h, HeaderEnd(h)), later)
        PROVE  SameHandshake(d) /\ SamePeers(d)
    BY <1>0, <2>2, <2>5 DEF Streams, SameHandshake, SamePeers, HandshakeOK, PeerOK, serverVars
  <2> QED
    BY <2>1, <2>3, <2>4, <2>5 DEF ProxyDataCases
<1>6. ASSUME NEW a \in Answers, Connected(c, a)
      PROVE  SameHandshake(d) /\ SamePeers(d)
  BY <1>0, <1>6 DEF Connected, SameHandshake, SamePeers, HandshakeOK, PeerOK, serverVars,
                    outVars
<1>7. CASE PipeUp(c) \/ PipeDown(c) \/ PipeEnd(c)
  <2>1. CASE PipeUp(c)
    BY <1>0, <2>1 DEF PipeUp, SameHandshake, SamePeers, PeerOK, serverVars, handshakeVars
  <2>2. CASE PipeDown(c)
    BY <1>0, <2>2 DEF PipeDown, SameHandshake, SamePeers, HandshakeOK, PeerOK, serverVars,
                      handshakeVars
  <2>3. CASE PipeEnd(c)
    BY <1>0, <2>3 DEF PipeEnd, SameHandshake, SamePeers, PeerOK, serverVars, handshakeVars,
                      outVars
  <2> QED
    BY <1>7, <2>1, <2>2, <2>3
<1>8. ASSUME NEW side \in {"client", "squid"}, PeerEnds(c, side)
      PROVE  SameHandshake(d) /\ SamePeers(d)
  BY <1>8 DEF PeerEnds, SameHandshake, SamePeers, serverVars, handshakeVars, outVars
<1> QED
  BY <1>1, <1>2, <1>3, <1>4, <1>5, <1>6, <1>7, <1>8 DEF Step
-----------------------------------------------------------------------------
(* The invariant.                                                            *)

IInv == TypeInv /\ Cardinality(clients) <= maxConnections /\ \A c \in Conns : Good(c)

LEMMA StepGood ==
  ASSUME ConstantsAssumption, TypeInv, NEW c \in Conns, Good(c), Step(c)
  PROVE  Good(c)'
BY FailingGood, PlaceGood, PeerGood, ClientDataGood, ProxyDataGood, PipeUpGood, PipeDownGood
   DEF Step

LEMMA ServerGood ==
  ASSUME TypeInv, NEW d \in Conns, Good(d),
         Listen \/ Listening \/ Close \/ CloseClients \/ Drained
  PROVE  Good(d)'
<1>1. CASE Listen \/ Listening \/ Close \/ Drained
  <2>1. UNCHANGED <<clients, handshakeVars, peerVars, outVars>>
    BY <1>1 DEF Listen, Listening, Close, Drained
  <2>2. SameHandshake(d) /\ SamePeers(d)
    BY <2>1 DEF SameHandshake, SamePeers, handshakeVars, peerVars, outVars
  <2> QED
    BY <2>2, SameGood
<1>2. CASE CloseClients
  <2>1. /\ UNCHANGED <<clients, phase, input, headers, up, peerVars, outVars>>
        /\ sock'[d] = IF d \in clients THEN "destroyed" ELSE sock[d]
    BY <1>2 DEF CloseClients
  <2>2. sock'[d] # "open" \/ sock'[d] = sock[d]
    BY <2>1
  <2>3. Placed(d)' /\ Bounded(d)'
    BY <2>1 DEF Good, Placed, Bounded
  <2>4. /\ PayloadAt(d) => PayloadAt(d)'
        /\ RepliesAt(d) => RepliesAt(d)'
        /\ Told(d) => Told(d)'
        /\ Fresh(d) => Fresh(d)'
    BY <2>1 DEF PayloadAt, RepliesAt, Told, Fresh, peerVars, outVars
  <2>5. /\ Blank(d) => Blank(d)'
        /\ InGreeting(d) => InGreeting(d)'
        /\ InRequest(d) => InRequest(d)'
        /\ InProxy(d) => InProxy(d)'
    BY <2>1, <2>4 DEF Blank, InGreeting, InRequest, InProxy, peerVars, outVars
  <2>6. InStream(d) => InStream(d)'
    BY <2>1, <2>2, <2>4 DEF InStream, peerVars, outVars
  <2>7. InPhase(d)'
    BY <2>1, <2>4, <2>5, <2>6 DEF Good, InPhase
  <2> QED
    BY <2>3, <2>7 DEF Good
<1> QED
  BY <1>1, <1>2

\* accept() counts the clients before it adds one.
LEMMA CountStep ==
  ASSUME ConstantsAssumption, TypeInv, Cardinality(clients) <= maxConnections, [Next]_vars
  PROVE  Cardinality(clients') <= maxConnections
<1>0. IsFiniteSet(clients) /\ Cardinality(clients) \in Nat /\ maxConnections \in Nat
  BY FS_Subset, FS_CardinalityType DEF ConstantsAssumption, TypeInv, ServerOK
<1>1. \/ clients' = clients
      \/ \E c \in Conns : clients' = clients \ {c}
      \/ \E c \in Conns : ~Full /\ clients' = clients \cup {c}
  <2>1. CASE UNCHANGED vars
    BY <2>1 DEF vars, serverVars
  <2>2. CASE Listen \/ Listening \/ Close \/ CloseClients \/ Drained
    BY <2>2 DEF Listen, Listening, Close, CloseClients, Drained
  <2>3. ASSUME NEW c \in Conns, Step(c), ~\E s \in Scripts : Accept(c, s), ~ClientClosed(c)
        PROVE  clients' = clients
    BY <2>3 DEF Step, Flushed, ClientEnd, ClientError, ClientData, Connected, UpError, UpEnd,
                ProxyData, PipeUp, PipeDown, PipeEnd, TimedOut, PeerEnds, serverVars
  <2>4. ASSUME NEW c \in Conns, NEW s \in Scripts, Accept(c, s)
        PROVE  \/ clients' = clients
               \/ ~Full /\ clients' = clients \cup {c}
    <3>1. CASE closing \/ Full
      BY <2>4, <3>1 DEF Accept
    <3>2. CASE ~(closing \/ Full)
      BY <2>4, <3>2 DEF Accept
    <3> QED
      BY <3>1, <3>2
  <2>5. ASSUME NEW c \in Conns, ClientClosed(c)
        PROVE  clients' = clients \ {c}
    BY <2>5 DEF ClientClosed
  <2> QED
    BY <2>1, <2>2, <2>3, <2>4, <2>5, NextSteps
<1>2. CASE clients' = clients
  BY <1>2
<1>3. ASSUME NEW c \in Conns, clients' = clients \ {c}
      PROVE  Cardinality(clients') <= maxConnections
  <2>1. Cardinality(clients') <= Cardinality(clients) /\ Cardinality(clients') \in Nat
    BY <1>0, <1>3, FS_Subset, FS_CardinalityType
  <2> QED
    BY <1>0, <2>1
<1>4. ASSUME NEW c \in Conns, ~Full, clients' = clients \cup {c}
      PROVE  Cardinality(clients') <= maxConnections
  <2>1. Cardinality(clients') = IF c \in clients THEN Cardinality(clients)
                                ELSE Cardinality(clients) + 1
    BY <1>0, <1>4, FS_AddElement
  <2> QED
    BY <1>0, <1>4, <2>1 DEF Full
<1> QED
  BY <1>1, <1>2, <1>3, <1>4

LEMMA InvInit == ConstantsAssumption /\ Init => IInv
<1> SUFFICES ASSUME ConstantsAssumption, Init PROVE IInv
  OBVIOUS
<1>1. TypeInv
  BY TypeInit
<1>2. Cardinality(clients) <= maxConnections
  BY FS_EmptySet DEF Init, ConstantsAssumption
<1>3. ASSUME NEW c \in Conns
      PROVE  Good(c)
  BY DEF Init, Good, Placed, Bounded, InPhase, Blank, Fresh, ConstantsAssumption
<1> QED
  BY <1>1, <1>2, <1>3 DEF IInv

LEMMA InvStep == ConstantsAssumption /\ IInv /\ [Next]_vars => IInv'
<1> SUFFICES ASSUME ConstantsAssumption, IInv, [Next]_vars PROVE IInv'
  OBVIOUS
<1>0. TypeInv /\ Cardinality(clients) <= maxConnections /\ \A c \in Conns : Good(c)
  BY DEF IInv
<1>1. TypeInv'
  BY <1>0, TypeStep
<1>2. Cardinality(clients') <= maxConnections
  BY <1>0, CountStep
<1>3. ASSUME NEW d \in Conns
      PROVE  Good(d)'
  <2>1. CASE UNCHANGED vars
    <3>1. SameHandshake(d) /\ SamePeers(d)
      BY <2>1 DEF vars, serverVars, handshakeVars, peerVars, outVars, SameHandshake, SamePeers
    <3> QED
      BY <1>0, <3>1, SameGood
  <2>2. CASE Listen \/ Listening \/ Close \/ CloseClients \/ Drained
    BY <1>0, <2>2, ServerGood
  <2>3. ASSUME NEW c \in Conns, Step(c), c # d
        PROVE  Good(d)'
    <3>1. SameHandshake(d) /\ SamePeers(d)
      BY <1>0, <2>3, Others
    <3> QED
      BY <1>0, <3>1, SameGood
  <2>4. CASE Step(d)
    BY <1>0, <2>4, StepGood
  <2> QED
    BY <2>1, <2>2, <2>3, <2>4, NextSteps
<1> QED
  BY <1>1, <1>2, <1>3 DEF IInv

LEMMA Invariant == Spec => []IInv
<1>1. Init => IInv
  BY ConstantsAssumption, InvInit
<1>2. IInv /\ [Next]_vars => IInv'
  BY ConstantsAssumption, InvStep
<1> QED
  BY <1>1, <1>2, PTL DEF Spec

\* UpstreamBounded for any limits and any number of connections: accept() never goes
\* over the limit, nothing that is kept of an unfinished message does, and a connection
\* to Squid belongs to a client in its handshake's last phase or in its stream.
THEOREM Bounds == Spec => []UpstreamBounded
<1>1. IInv => UpstreamBounded
  <2> SUFFICES ASSUME IInv PROVE UpstreamBounded
    OBVIOUS
  <2>1. ASSUME NEW c \in Conns, up[c] # "none"
        PROVE  c \in clients /\ phase[c] \in {"proxy", "stream"}
    <3>1. TypeAt(c) /\ Placed(c)
      BY TypesAt DEF IInv, Good
    <3> QED
      BY <2>1, <3>1 DEF TypeAt, Placed
  <2> QED
    BY <2>1 DEF IInv, UpstreamBounded, Good, Bounded
<1> QED
  BY <1>1, Invariant, PTL

\* PayloadInOrder whatever a client sends and however it is cut into reads: the bytes
\* that came with the handshake reach Squid before the later ones, each once.
THEOREM Payloads == Spec => []PayloadInOrder
<1>1. IInv => PayloadInOrder
  BY GoodMeans DEF IInv, PayloadInOrder, PayloadAt, R0
<1> QED
  BY <1>1, Invariant, PTL

\* RepliesInOrder whatever Squid answers: one method, one reply, then what Squid sent
\* after its header and nothing else.
THEOREM Replies == Spec => []RepliesInOrder
<1>1. IInv => RepliesInOrder
  BY GoodMeans DEF IInv, RepliesInOrder, RepliesAt, M0, R0
<1> QED
  BY <1>1, Invariant, PTL
-----------------------------------------------------------------------------
(* Clients leave, and close() leaves nothing behind: the safety halves of    *)
(* PlaceFreed and CloseReturns.                                              *)

\* A step of a connection keeps its socket and its phase open, or breaks the socket.
Keeps(c) == UNCHANGED <<clients, sock>> /\ (phase'[c] = "closed" => phase[c] = "closed")
Breaks(c) ==
  /\ UNCHANGED clients /\ sock[c] # "none"
  /\ \/ sock' = [sock EXCEPT ![c] = "destroyed"]
     \/ sock' = [sock EXCEPT ![c] = "flushing"] /\ sock[c] = "open"

LEMMA FailBreaks ==
  ASSUME NEW c \in Conns, Placed(c), phase[c] # "none", NEW out, NEW frame,
         FailAs(c, out, frame), UNCHANGED clients
  PROVE  Breaks(c)
BY DEF FailAs, Breaks, Placed

LEMMA RequestOutcome ==
  ASSUME TypeInv, NEW c \in Conns, Placed(c), phase[c] # "none", UNCHANGED clients,
         NEW data \in Seq(Bytes), NEW out, Request(c, data, out)
  PROVE  Keeps(c) \/ Breaks(c)
<1> DEFINE r == connectRequest(data)
<1>1. r.is \in {"more", "end", "refuse"}
  BY RequestResult
<1> HIDE DEF r
<1>2. CASE r.is = "more"
  BY <1>2 DEF Request, r, Keeps, TypeInv, HandshakeOK
<1>3. CASE r.is = "end"
  BY <1>3 DEF Request, r, Keeps, TypeInv, HandshakeOK
<1>4. CASE r.is = "refuse"
  <2>1. FailAs(c, out, Reply(r.n))
    BY <1>4 DEF Request, r
  <2> QED
    BY <2>1, FailBreaks
<1> QED
  BY <1>1, <1>2, <1>3, <1>4

LEMMA ClientDataOutcome ==
  ASSUME ConstantsAssumption, TypeInv, NEW c \in Conns, Placed(c),
         NEW k \in 1 .. Len(wire[c]), ClientData(c, k)
  PROVE  Keeps(c) \/ Breaks(c)
<1> DEFINE data == input[c] \o SubSeq(wire[c], 1, k)
           g == greetingLength(data)
<1>1. data \in Seq(Bytes)
  <2>1. input[c] \in Seq(Bytes) /\ wire[c] \in Seq(Bytes)
    BY DEF TypeInv, HandshakeOK, PeerOK
  <2>2. SubSeq(wire[c], 1, k) \in Seq(Bytes)
    BY <2>1, Cut
  <2> QED
    BY <2>1, <2>2, ConcatProperties
<1>2. phase[c] # "none" /\ UNCHANGED clients
  BY DEF ClientData, serverVars
<1>3. Fail(c, 1) \/ Greeting(c, data) \/ Request(c, data, toClient[c])
  BY DEF ClientData
<1> HIDE DEF data
<1>4. CASE Fail(c, 1)
  BY <1>2, <1>4, FailBreaks DEF Fail
<1>5. CASE Request(c, data, toClient[c])
  BY <1>1, <1>2, <1>5, RequestOutcome
<1>6. CASE Greeting(c, data)
  <2>1. g.n \in Nat /\ g.is \in {"more", "end", "refuse", "method"}
    BY <1>1, GreetingResult
  <2> HIDE DEF g
  <2>2. CASE g.is = "more"
    BY <1>2, <1>6, <2>2 DEF Greeting, g, Keeps
  <2>3. CASE g.is = "end"
    <3>1. Request(c, Rest(data, g.n), Written(c, <<"method", 0>>))
      BY <1>6, <2>3 DEF Greeting, g
    <3>2. Rest(data, g.n) \in Seq(Bytes)
      BY <1>1, <2>1, RestProperties
    <3> QED
      BY <1>2, <3>1, <3>2, RequestOutcome
  <2>4. CASE g.is \in {"method", "refuse"}
    <3>1. PICK frame : FailAs(c, toClient[c], frame)
      BY <1>6, <2>4 DEF Greeting, g
    <3> QED
      BY <1>2, <3>1, FailBreaks
  <2> QED
    BY <2>1, <2>2, <2>3, <2>4
<1> QED
  BY <1>3, <1>4, <1>5, <1>6

LEMMA ProxyDataOutcome ==
  ASSUME ConstantsAssumption, TypeInv, NEW c \in Conns, Placed(c),
         NEW k \in 1 .. Len(rwire[c]), ProxyData(c, k)
  PROVE  Keeps(c) \/ Breaks(c)
<1>1. PICK h, later : ProxyDataCases(c, h, later)
  BY ProxyDataSplit
<1>2. phase[c] = "proxy" /\ UNCHANGED clients
  BY DEF ProxyData, serverVars
<1>3. ASSUME NEW code, Fail(c, code) PROVE Breaks(c)
  BY <1>2, <1>3, FailBreaks DEF Fail
<1>4. ASSUME UNCHANGED <<phase, sock>> PROVE Keeps(c)
  BY <1>2, <1>4 DEF Keeps
<1>5. ASSUME Streams(c, Rest(h, HeaderEnd(h)), later) PROVE Keeps(c)
  BY <1>2, <1>5 DEF Streams, Keeps, TypeInv, HandshakeOK
<1> QED
  BY <1>1, <1>3, <1>4, <1>5 DEF ProxyDataCases

LEMMA StepOutcome ==
  ASSUME ConstantsAssumption, TypeInv, NEW c \in Conns, Placed(c), Step(c)
  PROVE  /\ UNCHANGED <<server, closing, closer>>
         /\ (\E s \in Scripts : Accept(c, s)) \/ ClientClosed(c) \/ Keeps(c) \/ Breaks(c)
<1>0. up[c] \in {"none", "connecting", "asked"}
  BY DEF TypeInv, HandshakeOK
<1>1. CASE \E s \in Scripts : Accept(c, s)
  BY <1>1 DEF Accept
<1>2. CASE ClientClosed(c)
  BY <1>2 DEF ClientClosed
<1>3. CASE Flushed(c) \/ ClientError(c)
  BY <1>3 DEF Flushed, ClientError, Breaks, serverVars
<1>4. CASE ClientEnd(c) \/ UpError(c) \/ UpEnd(c) \/ TimedOut(c)
  <2>1. phase[c] # "none"
    BY <1>0, <1>4 DEF Placed, ClientEnd, UpError, UpEnd, TimedOut, Timer, Handshake
  <2>2. UNCHANGED <<server, closing, closer, clients>>
    BY <1>4 DEF ClientEnd, UpError, UpEnd, TimedOut, serverVars
  <2>3. PICK code : Fail(c, code)
    BY <1>4 DEF ClientEnd, UpError, UpEnd, TimedOut
  <2> QED
    BY <2>1, <2>2, <2>3, FailBreaks DEF Fail
<1>5. ASSUME NEW k \in 1 .. Len(wire[c]), ClientData(c, k)
      PROVE  UNCHANGED <<server, closing, closer>> /\ (Keeps(c) \/ Breaks(c))
  BY <1>5, ClientDataOutcome DEF ClientData, serverVars
<1>6. ASSUME NEW k \in 1 .. Len(rwire[c]), ProxyData(c, k)
      PROVE  UNCHANGED <<server, closing, closer>> /\ (Keeps(c) \/ Breaks(c))
  BY <1>6, ProxyDataOutcome DEF ProxyData, serverVars
<1>7. ASSUME NEW a \in Answers, Connected(c, a)
      PROVE  UNCHANGED <<server, closing, closer>> /\ Keeps(c)
  BY <1>7 DEF Connected, Keeps, serverVars
<1>8. CASE PipeUp(c) \/ PipeDown(c) \/ PipeEnd(c)
  BY <1>8 DEF PipeUp, PipeDown, PipeEnd, Keeps, serverVars, handshakeVars
<1>9. ASSUME NEW side \in {"client", "squid"}, PeerEnds(c, side)
      PROVE  UNCHANGED <<server, closing, closer>> /\ Keeps(c)
  BY <1>9 DEF PeerEnds, Keeps, serverVars, handshakeVars
<1> QED
  BY <1>1, <1>2, <1>3, <1>4, <1>5, <1>6, <1>7, <1>8, <1>9 DEF Step

\* A connection that failed has a socket on its way to its close event, and a socket that
\* is still in use belongs to a client.
Leaving(c) ==
  /\ phase[c] = "closed" => sock[c] \in {"flushing", "destroyed"}
  /\ sock[c] \in {"open", "flushing"} => c \in clients
\* How far the server is on its way down.
Down ==
  /\ closer \in {"draining", "done"} => server \in {"new", "stopped"}
  /\ server \in {"new", "opening"} \/ (server = "stopped" /\ closer # "draining") =>
       \A c \in Conns : sock[c] = "none"
  /\ closer = "draining" => \A c \in Conns : sock[c] \in {"none", "destroyed"}
LeaveInv == Down /\ \A c \in Conns : Leaving(c)

LEMMA LeavingStep ==
  ASSUME ConstantsAssumption, IInv, LeaveInv, [Next]_vars, NEW d \in Conns
  PROVE  Leaving(d)'
<1>0. TypeInv /\ Leaving(d) /\ Placed(d)
  BY DEF IInv, LeaveInv, Good
<1>1. ASSUME NEW c \in Conns, Step(c), c # d PROVE Leaving(d)'
  BY <1>0, <1>1, Others DEF SameHandshake, SamePeers, Leaving
<1>2. CASE Step(d)
  <2>1. ASSUME NEW s \in Scripts, Accept(d, s) PROVE Leaving(d)'
    <3>1. sock[d] = "none" /\ phase[d] = "none"
      BY <1>0, <2>1 DEF Accept, Placed
    <3>2. CASE closing \/ Full
      <4>1. sock'[d] = "destroyed" /\ phase'[d] = "none"
        BY <1>0, <2>1, <3>1, <3>2 DEF Accept, TypeInv, HandshakeOK
      <4> QED
        BY <4>1 DEF Leaving
    <3>3. CASE ~(closing \/ Full)
      <4>1. sock'[d] = "open" /\ phase'[d] = "greeting" /\ d \in clients'
        BY <1>0, <2>1, <3>3 DEF Accept, TypeInv, HandshakeOK
      <4> QED
        BY <4>1 DEF Leaving
    <3> QED
      BY <3>2, <3>3
  <2>2. CASE ClientClosed(d)
    BY <1>0, <2>2 DEF ClientClosed, Leaving, TypeInv, HandshakeOK
  <2>3. CASE Keeps(d)
    BY <1>0, <2>3 DEF Keeps, Leaving
  <2>4. CASE Breaks(d)
    BY <1>0, <2>4 DEF Breaks, Leaving, TypeInv, HandshakeOK
  <2> QED
    BY <1>0, <1>2, <2>1, <2>2, <2>3, <2>4, StepOutcome
<1>3. CASE Listen \/ Listening \/ Close \/ Drained \/ UNCHANGED vars
  BY <1>0, <1>3 DEF Listen, Listening, Close, Drained, vars, serverVars, handshakeVars, Leaving
<1>4. CASE CloseClients
  BY <1>0, <1>4 DEF CloseClients, Leaving
<1> QED
  BY <1>1, <1>2, <1>3, <1>4, NextSteps

LEMMA DownStep ==
  ASSUME ConstantsAssumption, IInv, LeaveInv, [Next]_vars
  PROVE  Down'
<1>0. TypeInv /\ ServerOK /\ Down /\ \A c \in Conns : Leaving(c) /\ Placed(c)
  BY DEF IInv, LeaveInv, Good, TypeInv
<1>1. ASSUME NEW c \in Conns, Step(c) PROVE Down'
  <2>1. UNCHANGED <<server, closing, closer>>
    BY <1>0, <1>1, StepOutcome
  <2>2. ASSUME server \in {"new", "opening"} \/ (server = "stopped" /\ closer # "draining"),
               NEW d \in Conns
        PROVE  sock'[d] = "none"
    <3>1. \A e \in Conns : sock[e] = "none"
      BY <1>0, <2>2 DEF Down
    <3>2. Keeps(c)
      BY <1>0, <1>1, <2>2, <3>1, StepOutcome DEF Accept, ClientClosed, Breaks
    <3> QED
      BY <3>1, <3>2 DEF Keeps
  <2>3. ASSUME closer = "draining", NEW d \in Conns
        PROVE  sock'[d] \in {"none", "destroyed"}
    <3>1. server \in {"new", "stopped"} /\ \A e \in Conns : sock[e] \in {"none", "destroyed"}
      BY <1>0, <2>3 DEF Down
    <3>2. ClientClosed(c) \/ Keeps(c) \/ sock' = [sock EXCEPT ![c] = "destroyed"]
      BY <1>0, <1>1, <3>1, StepOutcome DEF Accept, Breaks
    <3> QED
      BY <1>0, <3>1, <3>2 DEF ClientClosed, Keeps, TypeInv, HandshakeOK
  <2> QED
    BY <1>0, <2>1, <2>2, <2>3 DEF Down
<1>2. CASE Listen \/ Close \/ UNCHANGED vars
  BY <1>0, <1>2 DEF Listen, Close, vars, serverVars, handshakeVars, Down, ServerOK
<1>3. CASE Listening
  BY <1>0, <1>3 DEF Listening, handshakeVars, Down, ServerOK
<1>4. CASE CloseClients
  <2>1. CASE server = "listening"
    <3>1. /\ server' = "stopped" /\ closer' = "draining"
          /\ \A c \in Conns : sock'[c] = IF c \in clients THEN "destroyed" ELSE sock[c]
      BY <1>4, <2>1 DEF CloseClients
    <3>2. \A c \in Conns : sock[c] \in {"none", "open", "flushing", "destroyed"}
      BY <1>0 DEF TypeInv, HandshakeOK
    <3> QED
      BY <1>0, <3>1, <3>2 DEF Down, Leaving
  <2>2. CASE server # "listening"
    <3>1. /\ server' = server /\ closer' = "done" /\ server \in {"new", "stopped"}
          /\ closer = "waiting"
          /\ \A c \in Conns : sock'[c] = IF c \in clients THEN "destroyed" ELSE sock[c]
      BY <1>0, <1>4, <2>2 DEF CloseClients, Settled, ServerOK
    <3>2. \A c \in Conns : sock[c] = "none"
      BY <1>0, <3>1 DEF Down
    <3>3. \A c \in Conns : c \notin clients
      <4>1. ASSUME NEW c \in Conns PROVE c \notin clients
        BY <1>0, <3>2, <4>1 DEF Placed
      <4> QED
        BY <4>1
    <3> QED
      BY <3>1, <3>2, <3>3 DEF Down
  <2> QED
    BY <2>1, <2>2
<1>5. CASE Drained
  <2>1. /\ closer = "draining" /\ closer' = "done" /\ \A c \in Conns : sock[c] = "none"
        /\ UNCHANGED <<server, sock>>
    BY <1>5 DEF Drained, handshakeVars
  <2> QED
    BY <1>0, <2>1 DEF Down
<1> QED
  BY <1>1, <1>2, <1>3, <1>4, <1>5, NextSteps

LEMMA Leave == Spec => []LeaveInv
<1>1. Init => LeaveInv
  BY DEF Init, LeaveInv, Down, Leaving
<1>2. IInv /\ LeaveInv /\ [Next]_vars => LeaveInv'
  BY ConstantsAssumption, LeavingStep, DownStep DEF LeaveInv
<1> QED
  BY <1>1, <1>2, Invariant, PTL DEF Spec

\* Every client that holds a place has a timer that will fail it, or a socket that is on
\* its way to its close event.
EveryoneLeaves == \A c \in clients : Timer(c) \/ sock[c] \in {"flushing", "destroyed"}

\* The safety half of PlaceFreed, for any number of clients and whatever they and Squid
\* send: no phase is without a way out (the handshake and idle timers, fail).
THEOREM NobodyStays == Spec => []EveryoneLeaves
<1>1. IInv /\ LeaveInv => EveryoneLeaves
  <2> SUFFICES ASSUME IInv, LeaveInv, NEW c \in clients
               PROVE  Timer(c) \/ sock[c] \in {"flushing", "destroyed"}
    BY DEF EveryoneLeaves
  <2>1. c \in Conns
    BY DEF IInv, TypeInv, ServerOK
  <2>2. phase[c] \in Phases /\ Leaving(c) /\ Placed(c)
    BY <2>1 DEF IInv, LeaveInv, TypeInv, HandshakeOK, Good
  <2> QED
    BY <2>1, <2>2 DEF Placed, Leaving, Timer, Phases
<1> QED
  BY <1>1, Invariant, Leave, PTL

\* close() has returned: nothing listens and no socket is left.
Gone == closer = "done" => /\ server \in {"new", "stopped"} /\ clients = {}
                           /\ \A c \in Conns : sock[c] = "none"

\* The safety half of CloseReturns: whatever was in progress when close() was called,
\* listen() included, once close() has returned nothing is left, and it stays so
\* (close, accept).
THEOREM CloseLeavesNothing == Spec => []Gone /\ [][closer = "done" => closer' = "done"]_vars
<1>1. IInv /\ LeaveInv => Gone
  <2> SUFFICES ASSUME IInv, LeaveInv, closer = "done"
               PROVE  server \in {"new", "stopped"} /\ clients = {}
                      /\ \A c \in Conns : sock[c] = "none"
    BY DEF Gone
  <2>1. server \in {"new", "stopped"} /\ \A c \in Conns : sock[c] = "none"
    BY DEF LeaveInv, Down
  <2>2. ASSUME NEW c \in Conns PROVE c \notin clients
    BY <2>1 DEF IInv, Good, Placed
  <2>3. clients \subseteq Conns
    BY DEF IInv, TypeInv, ServerOK
  <2> QED
    BY <2>1, <2>2, <2>3
<1>2. IInv /\ [Next]_vars => [closer = "done" => closer' = "done"]_vars
  <2> SUFFICES ASSUME IInv, Next, closer = "done" PROVE closer' = "done"
    BY DEF vars, serverVars
  <2>1. TypeInv /\ ServerOK /\ \A c \in Conns : Placed(c)
    BY DEF IInv, Good, TypeInv
  <2>2. ASSUME NEW c \in Conns, Step(c) PROVE closer' = "done"
    BY <2>1, <2>2, ConstantsAssumption, StepOutcome
  <2>3. CASE Listen \/ Listening \/ Close \/ CloseClients \/ Drained
    BY <2>1, <2>3 DEF Listen, Listening, Close, CloseClients, Drained, ServerOK
  <2> QED
    BY <2>2, <2>3, NextSteps
<1> QED
  BY <1>1, <1>2, Invariant, Leave, PTL DEF Spec
==============================================================================
