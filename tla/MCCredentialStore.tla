-------------------------- MODULE MCCredentialStore --------------------------
(* Two managers that take over from each other and three logins.           *)
EXTENDS CredentialStore, TLC

Symmetry == Permutations(Managers)
=============================================================================
