---------------------------- MODULE MCSocksProxy ----------------------------
(* SocksProxy with a place more than connections; the clients' requests and *)
(* Squid's answers that take every way through the parsers.                 *)
EXTENDS SocksProxy

Hello == <<5, 1, 0>>
Name(b, port) == <<5, 1, 0, 3, 1, b, 0, port>>
MCScripts == {
  Hello \o Name(97, 80) \o <<7, 8>>,                        \* a, and a payload
  <<5, 2, 2, 0, 5, 1, 0, 1, 10, 0, 0, 1, 1, 187>>,          \* an IPv4 address
  Hello \o Name(45, 80), Hello \o Name(97, 0),              \* bad name, port 0
  Hello \o <<5, 2, 0, 1>>, Hello \o <<5, 1, 0, 9>>,         \* BIND, bad address
  Hello \o <<4, 1, 0, 1>>, <<4, 1>>, <<5, 0>>, <<5, 1, 2>>,
  Hello \o <<5, 1, 0, 3, 9>> \o [i \in 1..9 |-> 97],         \* never complete
  <<5>>} \* bad versions, methods

Line == <<"line", 0>>
Status(code) == <<"status", code>>
MCAnswers == {
  <<Line, Status(200), <<"data", 1>>, <<"data", 2>>>>, <<Status(200)>>,
  <<Status(403)>>, <<Status(502)>>, <<Status(0)>>,
  <<Line, Line, Status(200)>>, <<Line, Line, Line>>, <<>>}
=============================================================================
