----------------------------- MODULE MCConsole -----------------------------
(* Console with two browsers and two requests at once. *)
EXTENDS Console, TLC

CONSTANTS admin, op, ext, new, new2, t1, s1, s2

\* What an administrator may make of an account: an operator of the tunnel.
MCAccounts == {admin, op, ext, new, new2}
MCLocal == {admin, op}
MCSubjects == {s1, s2}
MCBindings == ext :> s1
MCTunnels == {t1}
MCProfiles == {[role |-> "operator", off |-> FALSE, grants |-> {t1}]}
MCMaxRev == [k \in Kinds |->
               IF k \in {"login", "external", "job", "user", "provider"} THEN 3 ELSE 2]
Symmetry == Permutations(Browsers) \cup Permutations(Tokens)
              \cup Permutations(Requests)
=============================================================================
