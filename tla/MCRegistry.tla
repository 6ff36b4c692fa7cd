----------------------------- MODULE MCRegistry -----------------------------
(* Two sessions that compete for two names and three listeners.            *)
EXTENDS Registry, TLC

Plain == [socks |-> FALSE, min |-> 1, max |-> 2, default |-> 2, limit |-> 2]
WithSocks == [Plain EXCEPT !.socks = TRUE, !.default = 1]
Strict == [Plain EXCEPT !.max = 1, !.default = 1, !.limit = 1]
\* Hours that the environment does not allow.
Wide == [Plain EXCEPT !.max = 3]

Symmetry == Permutations(Ids) \cup Permutations(Names)

Narrowing == {WithSocks, Strict}
Widening == {Plain, Wide}
=============================================================================
