---------------------------- MODULE MCLeadership ----------------------------
(* Leadership on two or three replicas of two deployments.                 *)
EXTENDS Leadership, TLC

CONSTANTS a, b, c, A, B

\* One replica per deployment.
Single == a :> A @@ b :> B
\* Two replicas of deployment B.
Twin == a :> A @@ b :> B @@ c :> B
=============================================================================
