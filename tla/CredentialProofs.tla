-------------------------- MODULE CredentialProofs --------------------------
(***************************************************************************)
(* The safety of the login of a session, for any managers that take over   *)
(* from each other and any number of logins.                               *)
(***************************************************************************)
EXTENDS CredentialStore, TLAPS

Busy(m) == task[m] # "none"
Active(m) == Busy(m) \/ conn = m
\* The runtime can still get to a checkpoint.
Usable(m) == (Busy(m) /\ runtime[m] # "failed") \/ (conn = m /\ runtime[m] = "open")
Held(m) == {ring[m], home[m]} \ {0}

\* What a manager's own variables say of each other.
Shape ==
  \A m \in Managers :
    /\ pc[m] # "up" => runtime[m] = "none"
    /\ runtime[m] = "none" => ring[m] = 0 /\ home[m] = 0
    /\ ring[m] # home[m] => task[m] \in {"cli", "stopping"} /\ runtime[m] # "failed"
    /\ runtime[m] = "failed" => task[m] \in {"none", "stopping"}
    /\ task[m] = "commit" => packed[m] = home[m]

\* The marker is there while the holder of the lock is in a credential operation.
Marked == \A m \in Managers : conn = m /\ Busy(m) => row.dirty

\* Whoever may still change a login shares it with nobody, nor with a clean row.
Apart ==
  /\ \A m, n \in Managers :
       m # n /\ Active(m) /\ Active(n) => Held(m) \cap Held(n) = {}
  /\ ~row.dirty => \A m \in Managers : Busy(m) => row.package \notin Held(m)

\* What is spent is neither on its way to the database nor in a clean row, unless a
\* keyring fell back to it.
Fresh ==
  /\ 0 \notin spent
  /\ \A m \in Managers : Usable(m) /\ ring[m] \in spent => ring[m] \in lost
  /\ ~row.dirty /\ row.package \in spent => row.package \in lost

\* What open() has read of desired stays true of the marker until it resumes.
Resumable ==
  \A m \in Managers :
    conn = m /\ pc[m] \in {"loaded", "ready"} /\ wants[m] => ~row.dirty

LoginInv == Shape /\ Marked /\ Resumable /\ Apart /\ Fresh

\* Every step keeps the types; a new login is one more than the last.
LEMMA TypeStep ==
  ASSUME TypeOK, [Next]_vars
  PROVE  TypeOK'
<1> USE DEF managerVars, loginVars
<1> USE DEF TypeOK, Logins
<1>1. CASE UNCHANGED vars
  BY <1>1 DEF vars
<1>2. CASE DropConnection
  BY <1>2 DEF DropConnection
<1>3. ASSUME NEW m \in Managers, Load(m) PROVE TypeOK'
  BY <1>3 DEF Load, ReadDesired
<1>4. ASSUME NEW m \in Managers, Ready(m) PROVE TypeOK'
  BY <1>4 DEF Ready
<1>5. ASSUME NEW m \in Managers, Resume(m) PROVE TypeOK'
  BY <1>5 DEF Resume
<1>6. ASSUME NEW m \in Managers, SetDesired(m) PROVE TypeOK'
  BY <1>6 DEF SetDesired
<1>7. ASSUME NEW m \in Managers, Save(m) PROVE TypeOK'
  BY <1>7 DEF Save
<1>8. ASSUME NEW m \in Managers, OpenRuntime(m) PROVE TypeOK'
  BY <1>8 DEF OpenRuntime, Restored
<1>9. ASSUME NEW m \in Managers, CloseRuntime(m) PROVE TypeOK'
  BY <1>9 DEF CloseRuntime
<1>10. ASSUME NEW m \in Managers, RuntimeClosed(m) PROVE TypeOK'
  BY <1>10 DEF RuntimeClosed, Idle
<1>11. ASSUME NEW m \in Managers, Exit(m) PROVE TypeOK'
  BY <1>11 DEF Exit, To
<1>12. ASSUME NEW m \in Managers, BeginAuth(m) PROVE TypeOK'
  BY <1>12 DEF BeginAuth, From, To
<1>13. ASSUME NEW m \in Managers, OpenServices(m) PROVE TypeOK'
  BY <1>13 DEF OpenServices, From, To
<1>14. ASSUME NEW m \in Managers, OpenServicesFails(m) PROVE TypeOK'
  BY <1>14 DEF OpenServicesFails, From, To
<1>15. ASSUME NEW m \in Managers, Use(m) PROVE TypeOK'
  <2>1. issued' \in Logins' /\ issued' \in 0 .. MaxIssued /\ Logins \subseteq Logins'
    BY <1>15, ConstantsAssumption DEF Use, ConstantsAssumption
  <2>2. ring' \in [Managers -> Logins']
    BY <1>15, <2>1 DEF Use
  <2>3. spent' \subseteq Logins'
    BY <1>15, <2>1 DEF Use
  <2> QED
    BY <1>15, <2>1, <2>2, <2>3 DEF Use
<1>16. ASSUME NEW m \in Managers, Flush(m) PROVE TypeOK'
  BY <1>16 DEF Flush, From
<1>17. ASSUME NEW m \in Managers, CliEnds(m) PROVE TypeOK'
  BY <1>17 DEF CliEnds, From, To
<1>18. ASSUME NEW m \in Managers, ServiceDies(m) PROVE TypeOK'
  BY <1>18 DEF ServiceDies, To
<1>19. ASSUME NEW m \in Managers, ServiceDiesUnnoticed(m) PROVE TypeOK'
  BY <1>19 DEF ServiceDiesUnnoticed, FallsBack, From
<1>20. ASSUME NEW m \in Managers, StopServices(m) PROVE TypeOK'
  BY <1>20 DEF StopServices, From, To, HomeAfterStop
<1>21. ASSUME NEW m \in Managers, ServicesFailed(m) PROVE TypeOK'
  BY <1>21 DEF ServicesFailed, From, To
<1>22. ASSUME NEW m \in Managers, ForcedExit(m) PROVE TypeOK'
  BY <1>22 DEF ForcedExit, FallsBack, From, To
<1>23. ASSUME NEW m \in Managers, Pack(m) PROVE TypeOK'
  BY <1>23 DEF Pack, From, To
<1>24. ASSUME NEW m \in Managers, CheckpointFails(m) PROVE TypeOK'
  BY <1>24 DEF CheckpointFails, To
<1>25. ASSUME NEW m \in Managers, Checkpoint(m) PROVE TypeOK'
  BY <1>25 DEF Checkpoint, From, To
<1> QED
  BY <1>1, <1>2, <1>3, <1>4, <1>5, <1>6, <1>7, <1>8, <1>9, <1>10, <1>11, <1>12,
     <1>13, <1>14, <1>15, <1>16, <1>17, <1>18, <1>19, <1>20, <1>21, <1>22,
     <1>23, <1>24, <1>25 DEF Next

\* The login moves from the keyring to the home, the package and the row.
LEMMA ShapeStep ==
  ASSUME TypeOK, Shape, [Next]_vars
  PROVE  Shape'
<1> USE DEF managerVars, loginVars
<1> USE DEF TypeOK, Shape
<1>1. CASE UNCHANGED vars
  BY <1>1 DEF vars
<1>2. CASE DropConnection
  BY <1>2 DEF DropConnection
<1>3. ASSUME NEW m \in Managers, Load(m) PROVE Shape'
  BY <1>3 DEF Load, ReadDesired
<1>4. ASSUME NEW m \in Managers, Ready(m) PROVE Shape'
  BY <1>4 DEF Ready
<1>5. ASSUME NEW m \in Managers, Resume(m) PROVE Shape'
  BY <1>5 DEF Resume
<1>6. ASSUME NEW m \in Managers, SetDesired(m) PROVE Shape'
  BY <1>6 DEF SetDesired
<1>7. ASSUME NEW m \in Managers, Save(m) PROVE Shape'
  BY <1>7 DEF Save
<1>8. ASSUME NEW m \in Managers, OpenRuntime(m) PROVE Shape'
  BY <1>8 DEF OpenRuntime, Restored
<1>9. ASSUME NEW m \in Managers, CloseRuntime(m) PROVE Shape'
  BY <1>9 DEF CloseRuntime
<1>10. ASSUME NEW m \in Managers, RuntimeClosed(m) PROVE Shape'
  BY <1>10 DEF RuntimeClosed, Idle
<1>11. ASSUME NEW m \in Managers, Exit(m) PROVE Shape'
  BY <1>11 DEF Exit, To
<1>12. ASSUME NEW m \in Managers, BeginAuth(m) PROVE Shape'
  BY <1>12 DEF BeginAuth, From, To
<1>13. ASSUME NEW m \in Managers, OpenServices(m) PROVE Shape'
  BY <1>13 DEF OpenServices, From, To
<1>14. ASSUME NEW m \in Managers, OpenServicesFails(m) PROVE Shape'
  BY <1>14 DEF OpenServicesFails, From, To
<1>15. ASSUME NEW m \in Managers, Use(m) PROVE Shape'
  BY <1>15 DEF Use
<1>16. ASSUME NEW m \in Managers, Flush(m) PROVE Shape'
  BY <1>16 DEF Flush, From
<1>17. ASSUME NEW m \in Managers, CliEnds(m) PROVE Shape'
  BY <1>17 DEF CliEnds, From, To
<1>18. ASSUME NEW m \in Managers, ServiceDies(m) PROVE Shape'
  BY <1>18 DEF ServiceDies, To
<1>19. ASSUME NEW m \in Managers, ServiceDiesUnnoticed(m) PROVE Shape'
  BY <1>19 DEF ServiceDiesUnnoticed, FallsBack, From
<1>20. ASSUME NEW m \in Managers, StopServices(m) PROVE Shape'
  BY <1>20 DEF StopServices, From, To, HomeAfterStop
<1>21. ASSUME NEW m \in Managers, ServicesFailed(m) PROVE Shape'
  BY <1>21 DEF ServicesFailed, From, To
<1>22. ASSUME NEW m \in Managers, ForcedExit(m) PROVE Shape'
  BY <1>22 DEF ForcedExit, FallsBack, From, To
<1>23. ASSUME NEW m \in Managers, Pack(m) PROVE Shape'
  BY <1>23 DEF Pack, From, To
<1>24. ASSUME NEW m \in Managers, CheckpointFails(m) PROVE Shape'
  BY <1>24 DEF CheckpointFails, To
<1>25. ASSUME NEW m \in Managers, Checkpoint(m) PROVE Shape'
  BY <1>25 DEF Checkpoint, From, To
<1> QED
  BY <1>1, <1>2, <1>3, <1>4, <1>5, <1>6, <1>7, <1>8, <1>9, <1>10, <1>11, <1>12,
     <1>13, <1>14, <1>15, <1>16, <1>17, <1>18, <1>19, <1>20, <1>21, <1>22,
     <1>23, <1>24, <1>25 DEF Next

\* The marker is set before a task begins and cleared as it ends.
LEMMA MarkedStep ==
  ASSUME TypeOK, Shape, Marked, [Next]_vars
  PROVE  Marked'
<1> USE DEF managerVars, loginVars
<1> USE DEF TypeOK, Shape, Marked, Busy
<1>1. CASE UNCHANGED vars
  BY <1>1 DEF vars
<1>2. CASE DropConnection
  BY <1>2, ConstantsAssumption DEF DropConnection, ConstantsAssumption
<1>3. ASSUME NEW m \in Managers, Load(m) PROVE Marked'
  BY <1>3 DEF Load, ReadDesired
<1>4. ASSUME NEW m \in Managers, Ready(m) PROVE Marked'
  BY <1>4 DEF Ready
<1>5. ASSUME NEW m \in Managers, Resume(m) PROVE Marked'
  BY <1>5 DEF Resume
<1>6. ASSUME NEW m \in Managers, SetDesired(m) PROVE Marked'
  BY <1>6 DEF SetDesired
<1>7. ASSUME NEW m \in Managers, Save(m) PROVE Marked'
  BY <1>7 DEF Save
<1>8. ASSUME NEW m \in Managers, OpenRuntime(m) PROVE Marked'
  BY <1>8 DEF OpenRuntime, Restored
<1>9. ASSUME NEW m \in Managers, CloseRuntime(m) PROVE Marked'
  BY <1>9 DEF CloseRuntime
<1>10. ASSUME NEW m \in Managers, RuntimeClosed(m) PROVE Marked'
  BY <1>10 DEF RuntimeClosed, Idle
<1>11. ASSUME NEW m \in Managers, Exit(m) PROVE Marked'
  BY <1>11, ConstantsAssumption DEF Exit, To, ConstantsAssumption
<1>12. ASSUME NEW m \in Managers, BeginAuth(m) PROVE Marked'
  BY <1>12 DEF BeginAuth, From, To
<1>13. ASSUME NEW m \in Managers, OpenServices(m) PROVE Marked'
  BY <1>13 DEF OpenServices, From, To
<1>14. ASSUME NEW m \in Managers, OpenServicesFails(m) PROVE Marked'
  BY <1>14 DEF OpenServicesFails, From, To
<1>15. ASSUME NEW m \in Managers, Use(m) PROVE Marked'
  BY <1>15 DEF Use
<1>16. ASSUME NEW m \in Managers, Flush(m) PROVE Marked'
  BY <1>16 DEF Flush, From
<1>17. ASSUME NEW m \in Managers, CliEnds(m) PROVE Marked'
  BY <1>17 DEF CliEnds, From, To
<1>18. ASSUME NEW m \in Managers, ServiceDies(m) PROVE Marked'
  BY <1>18 DEF ServiceDies, To
<1>19. ASSUME NEW m \in Managers, ServiceDiesUnnoticed(m) PROVE Marked'
  BY <1>19 DEF ServiceDiesUnnoticed, FallsBack, From
<1>20. ASSUME NEW m \in Managers, StopServices(m) PROVE Marked'
  BY <1>20 DEF StopServices, From, To, HomeAfterStop
<1>21. ASSUME NEW m \in Managers, ServicesFailed(m) PROVE Marked'
  BY <1>21 DEF ServicesFailed, From, To
<1>22. ASSUME NEW m \in Managers, ForcedExit(m) PROVE Marked'
  BY <1>22 DEF ForcedExit, FallsBack, From, To
<1>23. ASSUME NEW m \in Managers, Pack(m) PROVE Marked'
  BY <1>23 DEF Pack, From, To
<1>24. ASSUME NEW m \in Managers, CheckpointFails(m) PROVE Marked'
  BY <1>24 DEF CheckpointFails, To
<1>25. ASSUME NEW m \in Managers, Checkpoint(m) PROVE Marked'
  BY <1>25 DEF Checkpoint, From, To
<1> QED
  BY <1>1, <1>2, <1>3, <1>4, <1>5, <1>6, <1>7, <1>8, <1>9, <1>10, <1>11, <1>12,
     <1>13, <1>14, <1>15, <1>16, <1>17, <1>18, <1>19, <1>20, <1>21, <1>22,
     <1>23, <1>24, <1>25 DEF Next

\* Who has read desired is the only one that could set the marker, and has no
\* runtime yet.
LEMMA ResumeStep ==
  ASSUME TypeOK, Shape, Resumable, [Next]_vars
  PROVE  Resumable'
<1> USE DEF managerVars, loginVars
<1> USE DEF TypeOK, Shape, Resumable
<1>1. CASE UNCHANGED vars
  BY <1>1 DEF vars
<1>2. CASE DropConnection
  BY <1>2, ConstantsAssumption DEF DropConnection, ConstantsAssumption
<1>3. ASSUME NEW m \in Managers, Load(m) PROVE Resumable'
  BY <1>3 DEF Load, ReadDesired
<1>4. ASSUME NEW m \in Managers, Ready(m) PROVE Resumable'
  BY <1>4 DEF Ready
<1>5. ASSUME NEW m \in Managers, Resume(m) PROVE Resumable'
  BY <1>5 DEF Resume
<1>6. ASSUME NEW m \in Managers, SetDesired(m) PROVE Resumable'
  BY <1>6 DEF SetDesired
<1>7. ASSUME NEW m \in Managers, Save(m) PROVE Resumable'
  BY <1>7 DEF Save
<1>8. ASSUME NEW m \in Managers, OpenRuntime(m) PROVE Resumable'
  BY <1>8 DEF OpenRuntime, Restored
<1>9. ASSUME NEW m \in Managers, CloseRuntime(m) PROVE Resumable'
  BY <1>9 DEF CloseRuntime
<1>10. ASSUME NEW m \in Managers, RuntimeClosed(m) PROVE Resumable'
  BY <1>10 DEF RuntimeClosed, Idle
<1>11. ASSUME NEW m \in Managers, Exit(m) PROVE Resumable'
  BY <1>11, ConstantsAssumption DEF Exit, To, ConstantsAssumption
<1>12. ASSUME NEW m \in Managers, BeginAuth(m) PROVE Resumable'
  BY <1>12 DEF BeginAuth, From, To
<1>13. ASSUME NEW m \in Managers, OpenServices(m) PROVE Resumable'
  BY <1>13 DEF OpenServices, From, To
<1>14. ASSUME NEW m \in Managers, OpenServicesFails(m) PROVE Resumable'
  BY <1>14 DEF OpenServicesFails, From, To
<1>15. ASSUME NEW m \in Managers, Use(m) PROVE Resumable'
  BY <1>15 DEF Use
<1>16. ASSUME NEW m \in Managers, Flush(m) PROVE Resumable'
  BY <1>16 DEF Flush, From
<1>17. ASSUME NEW m \in Managers, CliEnds(m) PROVE Resumable'
  BY <1>17 DEF CliEnds, From, To
<1>18. ASSUME NEW m \in Managers, ServiceDies(m) PROVE Resumable'
  BY <1>18 DEF ServiceDies, To
<1>19. ASSUME NEW m \in Managers, ServiceDiesUnnoticed(m) PROVE Resumable'
  BY <1>19 DEF ServiceDiesUnnoticed, FallsBack, From
<1>20. ASSUME NEW m \in Managers, StopServices(m) PROVE Resumable'
  BY <1>20 DEF StopServices, From, To, HomeAfterStop
<1>21. ASSUME NEW m \in Managers, ServicesFailed(m) PROVE Resumable'
  BY <1>21 DEF ServicesFailed, From, To
<1>22. ASSUME NEW m \in Managers, ForcedExit(m) PROVE Resumable'
  BY <1>22 DEF ForcedExit, FallsBack, From, To
<1>23. ASSUME NEW m \in Managers, Pack(m) PROVE Resumable'
  BY <1>23 DEF Pack, From, To
<1>24. ASSUME NEW m \in Managers, CheckpointFails(m) PROVE Resumable'
  BY <1>24 DEF CheckpointFails, To
<1>25. ASSUME NEW m \in Managers, Checkpoint(m) PROVE Resumable'
  BY <1>25 DEF Checkpoint, From, To
<1> QED
  BY <1>1, <1>2, <1>3, <1>4, <1>5, <1>6, <1>7, <1>8, <1>9, <1>10, <1>11, <1>12,
     <1>13, <1>14, <1>15, <1>16, <1>17, <1>18, <1>19, <1>20, <1>21, <1>22,
     <1>23, <1>24, <1>25 DEF Next

\* Managers that hold less, or stop using what they hold, stay apart.
LEMMA ApartShrinks ==
  ASSUME Apart, row' = row,
         \A n \in Managers : /\ Held(n)' \subseteq Held(n)
                             /\ Active(n)' => Active(n)
                             /\ Busy(n)' => Busy(n)
  PROVE  Apart'
BY DEF Apart

\* A login only comes from a clean row, which nobody else can change, or is new.
LEMMA ApartStep ==
  ASSUME TypeOK, Shape, Marked, Apart, [Next]_vars
  PROVE  Apart'
<1> USE ConstantsAssumption DEF ConstantsAssumption, managerVars, loginVars
<1> USE DEF TypeOK, Logins, Shape, Marked, Apart, Busy, Active, Held
<1>1. CASE UNCHANGED vars
  BY <1>1 DEF vars
<1>2. CASE DropConnection
  BY <1>2 DEF DropConnection
<1>3. ASSUME NEW m \in Managers, Load(m) PROVE Apart'
  BY <1>3 DEF Load, ReadDesired
<1>4. ASSUME NEW m \in Managers, Ready(m) PROVE Apart'
  BY <1>4 DEF Ready
<1>5. ASSUME NEW m \in Managers, Resume(m) PROVE Apart'
  BY <1>5 DEF Resume
<1>6. ASSUME NEW m \in Managers, SetDesired(m) PROVE Apart'
  BY <1>6 DEF SetDesired
<1>7. ASSUME NEW m \in Managers, Save(m) PROVE Apart'
  BY <1>7 DEF Save
<1>8. ASSUME NEW m \in Managers, OpenRuntime(m) PROVE Apart'
  <2>1. ~Busy(m) /\ conn = m
    BY <1>8 DEF OpenRuntime
  <2>2. \A n \in Managers \ {m} :
          Held(n)' = Held(n) /\ (Active(n)' <=> Active(n)) /\ (Busy(n)' <=> Busy(n))
    BY <1>8 DEF OpenRuntime
  <2>3. Held(m)' = {Restored} \ {0} /\ ~Busy(m)' /\ row' = row
    BY <1>8, <2>1 DEF OpenRuntime
  <2>4. \A n \in Managers \ {m} : Active(n) => Busy(n) /\ Held(n) \cap Held(m)' = {}
    BY <2>1, <2>3 DEF Restored
  <2> HIDE DEF Held, Active, Busy
  <2>5. \A n \in Managers \ {m} : Active(n)' => Held(n)' \cap Held(m)' = {}
    BY <2>2, <2>4
  <2> QED
    BY <2>2, <2>3, <2>5
<1>9. ASSUME NEW m \in Managers, CloseRuntime(m) PROVE Apart'
  BY <1>9 DEF CloseRuntime
<1>10. ASSUME NEW m \in Managers, RuntimeClosed(m) PROVE Apart'
  <2>1. \A n \in Managers : /\ Held(n)' \subseteq Held(n)
                            /\ Active(n)' => Active(n)
                            /\ Busy(n)' => Busy(n)
    BY <1>10 DEF RuntimeClosed, Idle
  <2> QED
    BY <1>10, <2>1, ApartShrinks DEF RuntimeClosed, Idle
<1>11. ASSUME NEW m \in Managers, Exit(m) PROVE Apart'
  <2>1. \A n \in Managers : /\ Held(n)' \subseteq Held(n)
                            /\ Active(n)' => Active(n)
                            /\ Busy(n)' => Busy(n)
    BY <1>11 DEF Exit, To
  <2> QED
    BY <1>11, <2>1, ApartShrinks DEF Exit
<1>12. ASSUME NEW m \in Managers, BeginAuth(m) PROVE Apart'
  BY <1>12 DEF BeginAuth, From, To
<1>13. ASSUME NEW m \in Managers, OpenServices(m) PROVE Apart'
  BY <1>13 DEF OpenServices, From, To
<1>14. ASSUME NEW m \in Managers, OpenServicesFails(m) PROVE Apart'
  BY <1>14 DEF OpenServicesFails, From, To
<1>15. ASSUME NEW m \in Managers, Use(m) PROVE Apart'
  BY <1>15 DEF Use
<1>16. ASSUME NEW m \in Managers, Flush(m) PROVE Apart'
  <2>1. \A n \in Managers : /\ Held(n)' \subseteq Held(n)
                            /\ Active(n)' => Active(n)
                            /\ Busy(n)' => Busy(n)
    BY <1>16 DEF Flush, From
  <2> QED
    BY <1>16, <2>1, ApartShrinks DEF Flush, From
<1>17. ASSUME NEW m \in Managers, CliEnds(m) PROVE Apart'
  BY <1>17 DEF CliEnds, From, To
<1>18. ASSUME NEW m \in Managers, ServiceDies(m) PROVE Apart'
  <2>1. \A n \in Managers : /\ Held(n)' \subseteq Held(n)
                            /\ Active(n)' => Active(n)
                            /\ Busy(n)' => Busy(n)
    BY <1>18 DEF ServiceDies, To
  <2> QED
    BY <1>18, <2>1, ApartShrinks DEF ServiceDies
<1>19. ASSUME NEW m \in Managers, ServiceDiesUnnoticed(m) PROVE Apart'
  <2>1. \A n \in Managers : /\ Held(n)' \subseteq Held(n)
                            /\ Active(n)' => Active(n)
                            /\ Busy(n)' => Busy(n)
    BY <1>19 DEF ServiceDiesUnnoticed, FallsBack, From
  <2> QED
    BY <1>19, <2>1, ApartShrinks DEF ServiceDiesUnnoticed, FallsBack, From
<1>20. ASSUME NEW m \in Managers, StopServices(m) PROVE Apart'
  <2>1. \A n \in Managers : /\ Held(n)' \subseteq Held(n)
                            /\ Active(n)' => Active(n)
                            /\ Busy(n)' => Busy(n)
    BY <1>20 DEF StopServices, From, To, HomeAfterStop
  <2> QED
    BY <1>20, <2>1, ApartShrinks DEF StopServices, From, To, HomeAfterStop
<1>21. ASSUME NEW m \in Managers, ServicesFailed(m) PROVE Apart'
  BY <1>21 DEF ServicesFailed, From, To
<1>22. ASSUME NEW m \in Managers, ForcedExit(m) PROVE Apart'
  <2>1. \A n \in Managers : /\ Held(n)' \subseteq Held(n)
                            /\ Active(n)' => Active(n)
                            /\ Busy(n)' => Busy(n)
    BY <1>22 DEF ForcedExit, FallsBack, From, To
  <2> QED
    BY <1>22, <2>1, ApartShrinks DEF ForcedExit, FallsBack, From, To
<1>23. ASSUME NEW m \in Managers, Pack(m) PROVE Apart'
  BY <1>23 DEF Pack, From, To
<1>24. ASSUME NEW m \in Managers, CheckpointFails(m) PROVE Apart'
  BY <1>24 DEF CheckpointFails, To
<1>25. ASSUME NEW m \in Managers, Checkpoint(m) PROVE Apart'
  <2>1. \A n \in Managers : /\ Held(n)' = Held(n)
                            /\ Active(n)' => Active(n)
                            /\ Busy(n)' => Busy(n) /\ n # m  \* its task is over
    BY <1>25 DEF Checkpoint, From, To
  <2>2. row'.package = home[m] /\ home[m] \in Held(m) \cup {0} /\ Active(m)
    BY <1>25 DEF Checkpoint, From
  <2>3. \A n \in Managers \ {m} : Busy(n) => home[m] \notin Held(n)
    BY <2>2
  <2> HIDE DEF Held, Active, Busy
  <2> QED
    BY <2>1, <2>2, <2>3
<1> QED
  BY <1>1, <1>2, <1>3, <1>4, <1>5, <1>6, <1>7, <1>8, <1>9, <1>10, <1>11, <1>12,
     <1>13, <1>14, <1>15, <1>16, <1>17, <1>18, <1>19, <1>20, <1>21, <1>22,
     <1>23, <1>24, <1>25 DEF Next

\* A login is spent by the one manager that holds it, and replaced at once.
LEMMA FreshStep ==
  ASSUME TypeOK, Shape, Marked, Apart, Fresh, [Next]_vars
  PROVE  Fresh'
<1> USE ConstantsAssumption DEF ConstantsAssumption, managerVars, loginVars
<1> USE DEF TypeOK, Logins, Shape, Marked, Apart, Fresh, Busy, Active, Usable, Held
<1>1. CASE UNCHANGED vars
  BY <1>1 DEF vars
<1>2. CASE DropConnection
  BY <1>2 DEF DropConnection
<1>3. ASSUME NEW m \in Managers, Load(m) PROVE Fresh'
  BY <1>3 DEF Load, ReadDesired
<1>4. ASSUME NEW m \in Managers, Ready(m) PROVE Fresh'
  BY <1>4 DEF Ready
<1>5. ASSUME NEW m \in Managers, Resume(m) PROVE Fresh'
  BY <1>5 DEF Resume
<1>6. ASSUME NEW m \in Managers, SetDesired(m) PROVE Fresh'
  BY <1>6 DEF SetDesired
<1>7. ASSUME NEW m \in Managers, Save(m) PROVE Fresh'
  BY <1>7 DEF Save
<1>8. ASSUME NEW m \in Managers, OpenRuntime(m) PROVE Fresh'
  BY <1>8 DEF OpenRuntime, Restored
<1>9. ASSUME NEW m \in Managers, CloseRuntime(m) PROVE Fresh'
  BY <1>9 DEF CloseRuntime
<1>10. ASSUME NEW m \in Managers, RuntimeClosed(m) PROVE Fresh'
  BY <1>10 DEF RuntimeClosed, Idle
<1>11. ASSUME NEW m \in Managers, Exit(m) PROVE Fresh'
  BY <1>11 DEF Exit, To
<1>12. ASSUME NEW m \in Managers, BeginAuth(m) PROVE Fresh'
  BY <1>12 DEF BeginAuth, From, To
<1>13. ASSUME NEW m \in Managers, OpenServices(m) PROVE Fresh'
  BY <1>13 DEF OpenServices, From, To
<1>14. ASSUME NEW m \in Managers, OpenServicesFails(m) PROVE Fresh'
  BY <1>14 DEF OpenServicesFails, From, To
<1>15. ASSUME NEW m \in Managers, Use(m) PROVE Fresh'
  BY <1>15 DEF Use
<1>16. ASSUME NEW m \in Managers, Flush(m) PROVE Fresh'
  BY <1>16 DEF Flush, From
<1>17. ASSUME NEW m \in Managers, CliEnds(m) PROVE Fresh'
  BY <1>17 DEF CliEnds, From, To
<1>18. ASSUME NEW m \in Managers, ServiceDies(m) PROVE Fresh'
  BY <1>18 DEF ServiceDies, To
<1>19. ASSUME NEW m \in Managers, ServiceDiesUnnoticed(m) PROVE Fresh'
  BY <1>19 DEF ServiceDiesUnnoticed, FallsBack, From
<1>20. ASSUME NEW m \in Managers, StopServices(m) PROVE Fresh'
  BY <1>20 DEF StopServices, From, To, HomeAfterStop
<1>21. ASSUME NEW m \in Managers, ServicesFailed(m) PROVE Fresh'
  BY <1>21 DEF ServicesFailed, From, To
<1>22. ASSUME NEW m \in Managers, ForcedExit(m) PROVE Fresh'
  BY <1>22 DEF ForcedExit, FallsBack, From, To
<1>23. ASSUME NEW m \in Managers, Pack(m) PROVE Fresh'
  BY <1>23 DEF Pack, From, To
<1>24. ASSUME NEW m \in Managers, CheckpointFails(m) PROVE Fresh'
  BY <1>24 DEF CheckpointFails, To
<1>25. ASSUME NEW m \in Managers, Checkpoint(m) PROVE Fresh'
  BY <1>25 DEF Checkpoint, From, To
<1> QED
  BY <1>1, <1>2, <1>3, <1>4, <1>5, <1>6, <1>7, <1>8, <1>9, <1>10, <1>11, <1>12,
     <1>13, <1>14, <1>15, <1>16, <1>17, <1>18, <1>19, <1>20, <1>21, <1>22,
     <1>23, <1>24, <1>25 DEF Next

\* The parts of the invariant are kept together.
LEMMA LoginStep == TypeOK /\ LoginInv /\ [Next]_vars => LoginInv'
BY ShapeStep, MarkedStep, ResumeStep, ApartStep, FreshStep DEF LoginInv

\* Nobody holds anything at the start.
LEMMA LoginInit == Init => TypeOK /\ LoginInv
<1> SUFFICES ASSUME Init PROVE TypeOK /\ LoginInv
  OBVIOUS
<1> USE ConstantsAssumption DEF ConstantsAssumption, Init
<1>1. TypeOK
  <2>1. 0 \in Logins /\ issued \in 0 .. MaxIssued
    BY DEF Logins
  <2> QED
    BY <2>1 DEF TypeOK
<1>2. Shape /\ Marked /\ Resumable
  BY DEF Shape, Marked, Resumable, Busy
<1>3. Apart /\ Fresh
  BY DEF Apart, Fresh, Active, Busy, Usable, Held
<1> QED
  BY <1>1, <1>2, <1>3 DEF LoginInv

\* Every variable keeps its type, and close() of a runtime waits for the task that
\* uses its home, for any managers and any number of logins.
THEOREM Typing == Spec => []TypeOK
<1>1. TypeOK /\ [Next]_vars => TypeOK'
  BY TypeStep
<1> QED
  BY <1>1, LoginInit, PTL DEF Spec

\* The inductive invariant: who may still change a login shares it with nobody.
THEOREM Login == Spec => [](TypeOK /\ LoginInv)
<1>1. TypeOK /\ LoginInv /\ [Next]_vars => (TypeOK /\ LoginInv)'
  BY TypeStep, LoginStep
<1> QED
  BY <1>1, LoginInit, PTL DEF Spec

\* A login that was refreshed, replaced or logged out is restored only if a keyring
\* fell back to it as it lost the login that replaced it.
THEOREM RestoredIsCurrent == Spec => []CurrentUnlessLost
<1>1. LoginInv => CurrentUnlessLost
  BY DEF LoginInv, Fresh, CurrentUnlessLost
<1> QED
  BY <1>1, Login, PTL

\* Two managers never use one login at the same time.
THEOREM UseIsExclusive == Spec => []ExclusiveUse
<1>1. TypeOK /\ LoginInv => ExclusiveUse
  BY DEF LoginInv, Apart, ExclusiveUse, InUse, Active, Busy, Held
<1> QED
  BY <1>1, Login, PTL

\* The manager that holds the lock never resumes an interrupted session by itself.
THEOREM NotResumed == Spec => InterruptedNotResumed
<1>1. LoginInv => \A m \in Managers :
                    pc[m] = "ready" /\ conn = m /\ wants[m] => ~row.dirty
  BY DEF LoginInv, Resumable
<1>2. LoginInv /\ [Next]_vars =>
        [\A m \in Managers : pc[m] = "ready" /\ pc'[m] = "up" /\ conn = m /\ wants[m]
                            => ~row.dirty]_vars
  BY <1>1
<1> QED
  BY <1>2, Login, PTL DEF Spec, InterruptedNotResumed
=============================================================================
