----------------------------- MODULE AuditLedger -----------------------------
(***************************************************************************)
(* What the registry of sessions promises to whoever reads the audit log   *)
(* (images/hub/src/state.ts, squid.ts auditRecord): a listener or a tunnel *)
(* name that was given to a session belongs to that session forever, and   *)
(* nobody relies on an assignment that a crash could still undo.           *)
(***************************************************************************)
CONSTANTS Owners, Resources

VARIABLES
  ledger,  \* the assignments on record, pairs of an owner and a resource
  relied   \* those that the outside has seen: acknowledged, or served

vars == <<ledger, relied>>

OneOwner(l) == \A a, b \in l : a[2] = b[2] => a[1] = b[1]

Init == ledger = {} /\ relied = {}

\* Assignments are added to the record and never withdrawn or handed on.
Next ==
  /\ ledger' \subseteq Owners \X Resources /\ OneOwner(ledger')
  /\ ledger \subseteq ledger'
  /\ relied \subseteq relied' /\ relied' \subseteq ledger'

Spec == Init /\ [][Next]_vars
=============================================================================
