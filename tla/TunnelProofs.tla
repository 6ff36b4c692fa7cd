---------------------------- MODULE TunnelProofs ----------------------------
(***************************************************************************)
(* The safety of the private tunnel of a session, for any clusters, ports, *)
(* policies, faults and strangers.                                         *)
(***************************************************************************)
EXTENDS Tunnel, TLAPS

\* What the Hub holds is its own, and the tunnel it is about to delete again is
\* not the one of the session.
Own ==
  /\ id # None => id \in ours
  /\ made # None => made \in ours /\ made # id /\ pc = "compensate"

\* A migration knows the ports it works on; one that has not met a stranger knows
\* exactly those that are there.
Migrating ==
  pc \in {"migrate", "readback"} =>
    /\ cur \subseteq Known
    /\ ~touched => ports[id] = cur

\* From the save on the recorded ports are the policy's, and what was read last
\* stays true until a stranger comes.
Serving ==
  /\ pc \in {"credentials", "serving", "renew"} => rec = policy
  /\ pc \in {"serving", "renew"} /\ ~dirty =>
       id \in alive /\ id \notin shared /\ ports[id] = rec

\* Without strangers the ports are the recorded ones or those of the migration
\* that has not been recorded.
Unfinished == IF unfinished = None THEN {} ELSE unfinished
Resumable ==
  ~touched /\ id # None =>
    id \in alive /\ id \notin shared /\ ports[id] \subseteq rec \cup Unfinished

TunnelInv == Own /\ Migrating /\ Serving /\ Resumable

\* What a step of the Hub may do to tunnels.
OwnOnlyAct ==
  strangers' = strangers =>
    /\ \A c \in alive \ ours : c \in alive' /\ ports'[c] = ports[c]
    /\ \A c \in alive \cap alive' : ports[c] \ ports'[c] \subseteq rec \cup policy

\* Every step keeps the types.
LEMMA TypeStep ==
  ASSUME TypeOK, [Next]_vars
  PROVE  TypeOK'
<1> USE ConstantsAssumption DEF ConstantsAssumption, remoteVars, sessionVars, hubVars, historyVars
<1> USE DEF TypeOK, PCs
<1>0. /\ 0 \in 0 .. MaxRetries + 1
      /\ (IF failures <= MaxRetries THEN failures + 1 ELSE failures) \in 0 .. MaxRetries + 1
  OBVIOUS
<1>1. CASE UNCHANGED vars
  BY <1>1 DEF vars
<1>2. CASE Start
  BY <1>2 DEF Start, Begins, FirstStep
<1>3. CASE Retry
  BY <1>3 DEF Retry, RetryDue, Begins, FirstStep
<1>4. CASE CallFails
  <2>1. faults' \in Nat
    BY <1>4 DEF CallFails, Faulty
  <2> QED
    BY <1>0, <1>4, <2>1 DEF CallFails, Ends, Down
<1>5. CASE Compensate
  BY <1>0, <1>5 DEF Compensate, Removed, Fine, Ends, Down
<1>6. CASE CompensateLost
  <2>1. faults' \in Nat
    BY <1>6 DEF CompensateLost, Faulty
  <2> QED
    BY <1>0, <1>6, <2>1 DEF CompensateLost, Removed, Ends, Down
<1>7. ASSUME NEW c \in Clusters, Create(c) PROVE TypeOK'
  BY <1>7 DEF Create, Created, Fine, Goes
<1>8. ASSUME NEW c \in Clusters, CreateLost(c) PROVE TypeOK'
  <2>1. faults' \in Nat
    BY <1>8 DEF CreateLost, Faulty
  <2> QED
    BY <1>0, <1>8, <2>1 DEF CreateLost, Created, Ends, Down
<1>9. ASSUME NEW c \in Clusters, Conflict(c) PROVE TypeOK'
  BY <1>0, <1>9 DEF Conflict, OnConflict, Ends, Down
<1>10. CASE Recreate
  BY <1>10 DEF Recreate, Missing
<1>11. CASE Gone
  BY <1>0, <1>11 DEF Gone, Ends, Down
<1>12. CASE Details
  BY <1>0, <1>12 DEF Details, Accepted, Known, Goes, Ends, Down
<1>13. CASE EditRefused
  BY <1>0, <1>13 DEF EditRefused, Ends, Down
<1>14. CASE Readback
  BY <1>0, <1>14 DEF Readback, Private, Goes, Ends, Down
<1>15. CASE Record
  BY <1>15 DEF Record, Migrated, Goes
<1>16. ASSUME NEW p \in Ports, DeletePort(p) PROVE TypeOK'
  <2>1. faults' \in Nat
    BY <1>16 DEF DeletePort, Fine, Faulty
  <2> QED
    BY <1>0, <1>16, <2>1 DEF DeletePort, Edits, Goes, Ends, Down
<1>17. ASSUME NEW p \in Ports, CreatePort(p) PROVE TypeOK'
  <2>1. faults' \in Nat
    BY <1>17 DEF CreatePort, Fine, Faulty
  <2> QED
    BY <1>0, <1>17, <2>1 DEF CreatePort, Edits, Goes, Ends, Down
<1>18. CASE Credentials
  BY <1>0, <1>18 DEF Credentials, Verified, Private, Goes, Ends, Down
<1>19. CASE Renew
  BY <1>19 DEF Renew, Goes
<1>20. CASE Refresh
  BY <1>0, <1>20 DEF Refresh, Verified, Private, Goes, Ends, Down
<1>21. CASE WorkerFails
  <2>1. faults' \in Nat
    BY <1>21 DEF WorkerFails, Faulty
  <2> QED
    BY <1>0, <1>21, <2>1 DEF WorkerFails, Ends, Down
<1>22. CASE SetPolicy
  BY <1>22 DEF SetPolicy
<1>23. CASE Stop
  BY <1>0, <1>23 DEF Stop, Ends, Down
<1>24. CASE Crash
  <2>1. faults' \in Nat
    BY <1>0, <1>24 DEF Crash, Faulty
  <2> QED
    BY <1>0, <1>24, <2>1 DEF Crash, AfterCrash, Down
<1>25. ASSUME NEW c \in Clusters, AddPort(c) PROVE TypeOK'
  BY <1>25 DEF AddPort, Stranger
<1>26. ASSUME NEW c \in Clusters, DropPort(c) PROVE TypeOK'
  BY <1>26 DEF DropPort, Stranger
<1>27. ASSUME NEW c \in Clusters, Share(c) PROVE TypeOK'
  BY <1>27 DEF Share, Stranger
<1>28. ASSUME NEW c \in Clusters, Delete(c) PROVE TypeOK'
  BY <1>28 DEF Delete, Stranger, Removed
<1>29. CASE Connected
  BY <1>0, <1>29 DEF Connected
<1> QED
  BY <1>1, <1>2, <1>3, <1>4, <1>5, <1>6, <1>7, <1>8, <1>9, <1>10, <1>11, <1>12,
     <1>13, <1>14, <1>15, <1>16, <1>17, <1>18, <1>19, <1>20, <1>21, <1>22, <1>23,
     <1>24, <1>25, <1>26, <1>27, <1>28, <1>29 DEF Next, HubStep

\* What the Hub holds it has created itself.
LEMMA OwnStep ==
  ASSUME TypeOK, Own, [Next]_vars
  PROVE  Own'
<1> USE ConstantsAssumption DEF ConstantsAssumption, remoteVars, sessionVars, hubVars, historyVars
<1> USE DEF TypeOK, Own
<1>1. CASE UNCHANGED vars
  BY <1>1 DEF vars
<1>2. CASE Start
  BY <1>2 DEF Start, Begins, FirstStep
<1>3. CASE Retry
  BY <1>3 DEF Retry, RetryDue, Begins, FirstStep
<1>4. CASE CallFails
  BY <1>4 DEF CallFails, Faulty, Ends, Down
<1>5. CASE Compensate
  BY <1>5 DEF Compensate, Removed, Fine, Ends, Down
<1>6. CASE CompensateLost
  BY <1>6 DEF CompensateLost, Removed, Faulty, Ends, Down
<1>7. ASSUME NEW c \in Clusters, Create(c) PROVE Own'
  BY <1>7 DEF Create, Created, Fine, Goes
<1>8. ASSUME NEW c \in Clusters, CreateLost(c) PROVE Own'
  BY <1>8 DEF CreateLost, Created, Faulty, Ends, Down
<1>9. ASSUME NEW c \in Clusters, Conflict(c) PROVE Own'
  BY <1>9 DEF Conflict, OnConflict, Ends, Down
<1>10. CASE Recreate
  BY <1>10 DEF Recreate, Missing
<1>11. CASE Gone
  BY <1>11 DEF Gone, Ends, Down
<1>12. CASE Details
  BY <1>12 DEF Details, Accepted, Known, Goes, Ends, Down
<1>13. CASE EditRefused
  BY <1>13 DEF EditRefused, Ends, Down
<1>14. CASE Readback
  BY <1>14 DEF Readback, Private, Goes, Ends, Down
<1>15. CASE Record
  BY <1>15 DEF Record, Migrated, Goes
<1>16. ASSUME NEW p \in Ports, DeletePort(p) PROVE Own'
  BY <1>16 DEF DeletePort, Edits, Fine, Faulty, Goes, Ends, Down
<1>17. ASSUME NEW p \in Ports, CreatePort(p) PROVE Own'
  BY <1>17 DEF CreatePort, Edits, Fine, Faulty, Goes, Ends, Down
<1>18. CASE Credentials
  BY <1>18 DEF Credentials, Verified, Private, Goes, Ends, Down
<1>19. CASE Renew
  BY <1>19 DEF Renew, Goes
<1>20. CASE Refresh
  BY <1>20 DEF Refresh, Verified, Private, Goes, Ends, Down
<1>21. CASE WorkerFails
  BY <1>21 DEF WorkerFails, Faulty, Ends, Down
<1>22. CASE SetPolicy
  BY <1>22 DEF SetPolicy
<1>23. CASE Stop
  BY <1>23 DEF Stop, Ends, Down
<1>24. CASE Crash
  BY <1>24 DEF Crash, AfterCrash, Faulty, Down
<1>25. ASSUME NEW c \in Clusters, AddPort(c) PROVE Own'
  BY <1>25 DEF AddPort, Stranger
<1>26. ASSUME NEW c \in Clusters, DropPort(c) PROVE Own'
  BY <1>26 DEF DropPort, Stranger
<1>27. ASSUME NEW c \in Clusters, Share(c) PROVE Own'
  BY <1>27 DEF Share, Stranger
<1>28. ASSUME NEW c \in Clusters, Delete(c) PROVE Own'
  BY <1>28 DEF Delete, Stranger, Removed
<1>29. CASE Connected
  BY <1>29 DEF Connected
<1> QED
  BY <1>1, <1>2, <1>3, <1>4, <1>5, <1>6, <1>7, <1>8, <1>9, <1>10, <1>11, <1>12,
     <1>13, <1>14, <1>15, <1>16, <1>17, <1>18, <1>19, <1>20, <1>21, <1>22, <1>23,
     <1>24, <1>25, <1>26, <1>27, <1>28, <1>29 DEF Next, HubStep

\* Every change of a port is followed in cur.
LEMMA MigratingStep ==
  ASSUME TypeOK, Migrating, [Next]_vars
  PROVE  Migrating'
<1> USE ConstantsAssumption DEF ConstantsAssumption, remoteVars, sessionVars, hubVars, historyVars
<1> USE DEF TypeOK, Migrating, Known
<1>1. CASE UNCHANGED vars
  BY <1>1 DEF vars
<1>2. CASE Start
  BY <1>2 DEF Start, Begins, FirstStep
<1>3. CASE Retry
  BY <1>3 DEF Retry, RetryDue, Begins, FirstStep
<1>4. CASE CallFails
  BY <1>4 DEF CallFails, Faulty, Ends, Down
<1>5. CASE Compensate
  BY <1>5 DEF Compensate, Removed, Fine, Ends, Down
<1>6. CASE CompensateLost
  BY <1>6 DEF CompensateLost, Removed, Faulty, Ends, Down
<1>7. ASSUME NEW c \in Clusters, Create(c) PROVE Migrating'
  BY <1>7 DEF Create, Created, Fine, Goes
<1>8. ASSUME NEW c \in Clusters, CreateLost(c) PROVE Migrating'
  BY <1>8 DEF CreateLost, Created, Faulty, Ends, Down
<1>9. ASSUME NEW c \in Clusters, Conflict(c) PROVE Migrating'
  BY <1>9 DEF Conflict, OnConflict, Ends, Down
<1>10. CASE Recreate
  BY <1>10 DEF Recreate, Missing
<1>11. CASE Gone
  BY <1>11 DEF Gone, Ends, Down
<1>12. CASE Details
  BY <1>12 DEF Details, Accepted, Known, Goes, Ends, Down
<1>13. CASE EditRefused
  BY <1>13 DEF EditRefused, Ends, Down
<1>14. CASE Readback
  BY <1>14 DEF Readback, Private, Goes, Ends, Down
<1>15. CASE Record
  BY <1>15 DEF Record, Migrated, Goes
<1>16. ASSUME NEW p \in Ports, DeletePort(p) PROVE Migrating'
  BY <1>16 DEF DeletePort, Edits, Fine, Faulty, Goes, Ends, Down
<1>17. ASSUME NEW p \in Ports, CreatePort(p) PROVE Migrating'
  BY <1>17 DEF CreatePort, Edits, Fine, Faulty, Goes, Ends, Down
<1>18. CASE Credentials
  BY <1>18 DEF Credentials, Verified, Private, Goes, Ends, Down
<1>19. CASE Renew
  BY <1>19 DEF Renew, Goes
<1>20. CASE Refresh
  BY <1>20 DEF Refresh, Verified, Private, Goes, Ends, Down
<1>21. CASE WorkerFails
  BY <1>21 DEF WorkerFails, Faulty, Ends, Down
<1>22. CASE SetPolicy
  BY <1>22 DEF SetPolicy
<1>23. CASE Stop
  BY <1>23 DEF Stop, Ends, Down
<1>24. CASE Crash
  BY <1>24 DEF Crash, AfterCrash, Faulty, Down
<1>25. ASSUME NEW c \in Clusters, AddPort(c) PROVE Migrating'
  BY <1>25 DEF AddPort, Stranger
<1>26. ASSUME NEW c \in Clusters, DropPort(c) PROVE Migrating'
  BY <1>26 DEF DropPort, Stranger
<1>27. ASSUME NEW c \in Clusters, Share(c) PROVE Migrating'
  BY <1>27 DEF Share, Stranger
<1>28. ASSUME NEW c \in Clusters, Delete(c) PROVE Migrating'
  BY <1>28 DEF Delete, Stranger, Removed
<1>29. CASE Connected
  BY <1>29 DEF Connected
<1> QED
  BY <1>1, <1>2, <1>3, <1>4, <1>5, <1>6, <1>7, <1>8, <1>9, <1>10, <1>11, <1>12,
     <1>13, <1>14, <1>15, <1>16, <1>17, <1>18, <1>19, <1>20, <1>21, <1>22, <1>23,
     <1>24, <1>25, <1>26, <1>27, <1>28, <1>29 DEF Next, HubStep

\* Only what has been read back is recorded, and only what is recorded is served.
LEMMA ServingStep ==
  ASSUME TypeOK, Serving, [Next]_vars
  PROVE  Serving'
<1> USE ConstantsAssumption DEF ConstantsAssumption, remoteVars, sessionVars, hubVars, historyVars
<1> USE DEF TypeOK, Serving
<1>1. CASE UNCHANGED vars
  BY <1>1 DEF vars
<1>2. CASE Start
  BY <1>2 DEF Start, Begins, FirstStep
<1>3. CASE Retry
  BY <1>3 DEF Retry, RetryDue, Begins, FirstStep
<1>4. CASE CallFails
  BY <1>4 DEF CallFails, Faulty, Ends, Down
<1>5. CASE Compensate
  BY <1>5 DEF Compensate, Removed, Fine, Ends, Down
<1>6. CASE CompensateLost
  BY <1>6 DEF CompensateLost, Removed, Faulty, Ends, Down
<1>7. ASSUME NEW c \in Clusters, Create(c) PROVE Serving'
  BY <1>7 DEF Create, Created, Fine, Goes
<1>8. ASSUME NEW c \in Clusters, CreateLost(c) PROVE Serving'
  BY <1>8 DEF CreateLost, Created, Faulty, Ends, Down
<1>9. ASSUME NEW c \in Clusters, Conflict(c) PROVE Serving'
  BY <1>9 DEF Conflict, OnConflict, Ends, Down
<1>10. CASE Recreate
  BY <1>10 DEF Recreate, Missing
<1>11. CASE Gone
  BY <1>11 DEF Gone, Ends, Down
<1>12. CASE Details
  BY <1>12 DEF Details, Accepted, Known, Goes, Ends, Down
<1>13. CASE EditRefused
  BY <1>13 DEF EditRefused, Ends, Down
<1>14. CASE Readback
  BY <1>14 DEF Readback, Private, Goes, Ends, Down
<1>15. CASE Record
  BY <1>15 DEF Record, Migrated, Goes
<1>16. ASSUME NEW p \in Ports, DeletePort(p) PROVE Serving'
  BY <1>16 DEF DeletePort, Edits, Fine, Faulty, Goes, Ends, Down
<1>17. ASSUME NEW p \in Ports, CreatePort(p) PROVE Serving'
  BY <1>17 DEF CreatePort, Edits, Fine, Faulty, Goes, Ends, Down
<1>18. CASE Credentials
  BY <1>18 DEF Credentials, Verified, Private, Goes, Ends, Down
<1>19. CASE Renew
  BY <1>19 DEF Renew, Goes
<1>20. CASE Refresh
  BY <1>20 DEF Refresh, Verified, Private, Goes, Ends, Down
<1>21. CASE WorkerFails
  BY <1>21 DEF WorkerFails, Faulty, Ends, Down
<1>22. CASE SetPolicy
  BY <1>22 DEF SetPolicy
<1>23. CASE Stop
  BY <1>23 DEF Stop, Ends, Down
<1>24. CASE Crash
  BY <1>24 DEF Crash, AfterCrash, Faulty, Down
<1>25. ASSUME NEW c \in Clusters, AddPort(c) PROVE Serving'
  BY <1>25 DEF AddPort, Stranger
<1>26. ASSUME NEW c \in Clusters, DropPort(c) PROVE Serving'
  BY <1>26 DEF DropPort, Stranger
<1>27. ASSUME NEW c \in Clusters, Share(c) PROVE Serving'
  BY <1>27 DEF Share, Stranger
<1>28. ASSUME NEW c \in Clusters, Delete(c) PROVE Serving'
  BY <1>28 DEF Delete, Stranger, Removed
<1>29. CASE Connected
  BY <1>29 DEF Connected
<1> QED
  BY <1>1, <1>2, <1>3, <1>4, <1>5, <1>6, <1>7, <1>8, <1>9, <1>10, <1>11, <1>12,
     <1>13, <1>14, <1>15, <1>16, <1>17, <1>18, <1>19, <1>20, <1>21, <1>22, <1>23,
     <1>24, <1>25, <1>26, <1>27, <1>28, <1>29 DEF Next, HubStep

\* An edit leaves ports of the policy of the interrupted migration only.
LEMMA ResumableStep ==
  ASSUME TypeOK, Own, Migrating, Resumable, [Next]_vars
  PROVE  Resumable'
<1> USE ConstantsAssumption DEF ConstantsAssumption, remoteVars, sessionVars, hubVars, historyVars
<1> USE DEF TypeOK, Own, Migrating, Known, Resumable, Unfinished
<1>1. CASE UNCHANGED vars
  BY <1>1 DEF vars
<1>2. CASE Start
  BY <1>2 DEF Start, Begins, FirstStep
<1>3. CASE Retry
  BY <1>3 DEF Retry, RetryDue, Begins, FirstStep
<1>4. CASE CallFails
  BY <1>4 DEF CallFails, Faulty, Ends, Down
<1>5. CASE Compensate
  BY <1>5 DEF Compensate, Removed, Fine, Ends, Down
<1>6. CASE CompensateLost
  BY <1>6 DEF CompensateLost, Removed, Faulty, Ends, Down
<1>7. ASSUME NEW c \in Clusters, Create(c) PROVE Resumable'
  BY <1>7 DEF Create, Created, Fine, Goes
<1>8. ASSUME NEW c \in Clusters, CreateLost(c) PROVE Resumable'
  BY <1>8 DEF CreateLost, Created, Faulty, Ends, Down
<1>9. ASSUME NEW c \in Clusters, Conflict(c) PROVE Resumable'
  BY <1>9 DEF Conflict, OnConflict, Ends, Down
<1>10. CASE Recreate
  BY <1>10 DEF Recreate, Missing
<1>11. CASE Gone
  BY <1>11 DEF Gone, Ends, Down
<1>12. CASE Details
  BY <1>12 DEF Details, Accepted, Known, Goes, Ends, Down
<1>13. CASE EditRefused
  BY <1>13 DEF EditRefused, Ends, Down
<1>14. CASE Readback
  BY <1>14 DEF Readback, Private, Goes, Ends, Down
<1>15. CASE Record
  BY <1>15 DEF Record, Migrated, Goes
<1>16. ASSUME NEW p \in Ports, DeletePort(p) PROVE Resumable'
  BY <1>16 DEF DeletePort, Edits, Fine, Faulty, Goes, Ends, Down
<1>17. ASSUME NEW p \in Ports, CreatePort(p) PROVE Resumable'
  BY <1>17 DEF CreatePort, Edits, Fine, Faulty, Goes, Ends, Down
<1>18. CASE Credentials
  BY <1>18 DEF Credentials, Verified, Private, Goes, Ends, Down
<1>19. CASE Renew
  BY <1>19 DEF Renew, Goes
<1>20. CASE Refresh
  BY <1>20 DEF Refresh, Verified, Private, Goes, Ends, Down
<1>21. CASE WorkerFails
  BY <1>21 DEF WorkerFails, Faulty, Ends, Down
<1>22. CASE SetPolicy
  BY <1>22 DEF SetPolicy
<1>23. CASE Stop
  BY <1>23 DEF Stop, Ends, Down
<1>24. CASE Crash
  BY <1>24 DEF Crash, AfterCrash, Faulty, Down
<1>25. ASSUME NEW c \in Clusters, AddPort(c) PROVE Resumable'
  BY <1>25 DEF AddPort, Stranger
<1>26. ASSUME NEW c \in Clusters, DropPort(c) PROVE Resumable'
  BY <1>26 DEF DropPort, Stranger
<1>27. ASSUME NEW c \in Clusters, Share(c) PROVE Resumable'
  BY <1>27 DEF Share, Stranger
<1>28. ASSUME NEW c \in Clusters, Delete(c) PROVE Resumable'
  BY <1>28 DEF Delete, Stranger, Removed
<1>29. CASE Connected
  BY <1>29 DEF Connected
<1> QED
  BY <1>1, <1>2, <1>3, <1>4, <1>5, <1>6, <1>7, <1>8, <1>9, <1>10, <1>11, <1>12,
     <1>13, <1>14, <1>15, <1>16, <1>17, <1>18, <1>19, <1>20, <1>21, <1>22, <1>23,
     <1>24, <1>25, <1>26, <1>27, <1>28, <1>29 DEF Next, HubStep

\* A step of the Hub changes its own tunnels, and of their ports only known ones.
LEMMA OwnOnlyStep ==
  ASSUME TypeOK, Own, Migrating, [Next]_vars
  PROVE  OwnOnlyAct
<1> USE ConstantsAssumption DEF ConstantsAssumption, remoteVars, sessionVars, hubVars, historyVars
<1> USE DEF TypeOK, Own, Migrating, Known, OwnOnlyAct
<1>1. CASE UNCHANGED vars
  BY <1>1 DEF vars
<1>2. CASE Start
  BY <1>2 DEF Start, Begins, FirstStep
<1>3. CASE Retry
  BY <1>3 DEF Retry, RetryDue, Begins, FirstStep
<1>4. CASE CallFails
  BY <1>4 DEF CallFails, Faulty, Ends, Down
<1>5. CASE Compensate
  BY <1>5 DEF Compensate, Removed, Fine, Ends, Down
<1>6. CASE CompensateLost
  BY <1>6 DEF CompensateLost, Removed, Faulty, Ends, Down
<1>7. ASSUME NEW c \in Clusters, Create(c) PROVE OwnOnlyAct
  BY <1>7 DEF Create, Created, Fine, Goes
<1>8. ASSUME NEW c \in Clusters, CreateLost(c) PROVE OwnOnlyAct
  BY <1>8 DEF CreateLost, Created, Faulty, Ends, Down
<1>9. ASSUME NEW c \in Clusters, Conflict(c) PROVE OwnOnlyAct
  BY <1>9 DEF Conflict, OnConflict, Ends, Down
<1>10. CASE Recreate
  BY <1>10 DEF Recreate, Missing
<1>11. CASE Gone
  BY <1>11 DEF Gone, Ends, Down
<1>12. CASE Details
  BY <1>12 DEF Details, Accepted, Known, Goes, Ends, Down
<1>13. CASE EditRefused
  BY <1>13 DEF EditRefused, Ends, Down
<1>14. CASE Readback
  BY <1>14 DEF Readback, Private, Goes, Ends, Down
<1>15. CASE Record
  BY <1>15 DEF Record, Migrated, Goes
<1>16. ASSUME NEW p \in Ports, DeletePort(p) PROVE OwnOnlyAct
  BY <1>16 DEF DeletePort, Edits, Fine, Faulty, Goes, Ends, Down
<1>17. ASSUME NEW p \in Ports, CreatePort(p) PROVE OwnOnlyAct
  BY <1>17 DEF CreatePort, Edits, Fine, Faulty, Goes, Ends, Down
<1>18. CASE Credentials
  BY <1>18 DEF Credentials, Verified, Private, Goes, Ends, Down
<1>19. CASE Renew
  BY <1>19 DEF Renew, Goes
<1>20. CASE Refresh
  BY <1>20 DEF Refresh, Verified, Private, Goes, Ends, Down
<1>21. CASE WorkerFails
  BY <1>21 DEF WorkerFails, Faulty, Ends, Down
<1>22. CASE SetPolicy
  BY <1>22 DEF SetPolicy
<1>23. CASE Stop
  BY <1>23 DEF Stop, Ends, Down
<1>24. CASE Crash
  BY <1>24 DEF Crash, AfterCrash, Faulty, Down
<1>25. ASSUME NEW c \in Clusters, AddPort(c) PROVE OwnOnlyAct
  BY <1>25 DEF AddPort, Stranger
<1>26. ASSUME NEW c \in Clusters, DropPort(c) PROVE OwnOnlyAct
  BY <1>26 DEF DropPort, Stranger
<1>27. ASSUME NEW c \in Clusters, Share(c) PROVE OwnOnlyAct
  BY <1>27 DEF Share, Stranger
<1>28. ASSUME NEW c \in Clusters, Delete(c) PROVE OwnOnlyAct
  BY <1>28 DEF Delete, Stranger, Removed
<1>29. CASE Connected
  BY <1>29 DEF Connected
<1> QED
  BY <1>1, <1>2, <1>3, <1>4, <1>5, <1>6, <1>7, <1>8, <1>9, <1>10, <1>11, <1>12,
     <1>13, <1>14, <1>15, <1>16, <1>17, <1>18, <1>19, <1>20, <1>21, <1>22, <1>23,
     <1>24, <1>25, <1>26, <1>27, <1>28, <1>29 DEF Next, HubStep

LEMMA InitInv ==
  ASSUME Init
  PROVE  TypeOK /\ TunnelInv
<1>1. TypeOK
  <2>1. ports \in [Clusters -> SUBSET Ports]
    BY ConstantsAssumption DEF ConstantsAssumption, Init
  <2>2. policy \in Policies /\ rec \subseteq Ports /\ alive \subseteq Clusters
    BY ConstantsAssumption DEF ConstantsAssumption, Init
  <2>3. failures \in 0 .. MaxRetries + 1
    BY ConstantsAssumption DEF ConstantsAssumption, Init
  <2> QED
    BY <2>1, <2>2, <2>3 DEF Init, TypeOK, PCs
<1>2. TunnelInv
  BY DEF Init, TunnelInv, Own, Migrating, Serving, Resumable
<1> QED
  BY <1>1, <1>2

LEMMA InvStep ==
  ASSUME TypeOK, TunnelInv, [Next]_vars
  PROVE  TunnelInv'
BY OwnStep, MigratingStep, ServingStep, ResumableStep DEF TunnelInv
-----------------------------------------------------------------------------
\* Every variable keeps its type: a step that needs the tunnel's id has it, and the
\* compensation a tunnel to delete (start, provision).
THEOREM Typing == Spec => []TypeOK
<1>1. Init => TypeOK
  BY InitInv
<1>2. TypeOK /\ [Next]_vars => TypeOK'
  BY TypeStep
<1> QED
  BY <1>1, <1>2, PTL DEF Spec

\* The inductive invariant: what the Hub holds is its own, a migration knows its
\* ports, and what was read last stays true until a stranger comes.
THEOREM Provisioning == Spec => []TunnelInv
<1>1. Init => TunnelInv
  BY InitInv
<1>2. TypeOK /\ TunnelInv /\ [Next]_vars => TunnelInv'
  BY InvStep
<1> QED
  BY <1>1, <1>2, Typing, PTL DEF Spec

\* For any policies and faults a session serves only a tunnel of its own that is
\* owner-only and publishes exactly the policy's ports, as far as was read last.
THEOREM ServesVerified == Spec => []ServedIsVerified
<1>1. TypeOK /\ TunnelInv => ServedIsVerified
  BY ConstantsAssumption
  DEF ConstantsAssumption, TypeOK, TunnelInv, Own, Serving, ServedIsVerified
<1> QED
  BY <1>1, Typing, Provisioning, PTL

\* Wherever a crash or a lost answer cut a migration off, the next start under
\* the same policy accepts what it finds.
THEOREM MigrationsResume == Spec => []MigrationResumes
<1>1. TypeOK /\ TunnelInv => MigrationResumes
  BY ConstantsAssumption
  DEF ConstantsAssumption, TypeOK, TunnelInv, Resumable, Unfinished, MigrationResumes,
      Known
<1> QED
  BY <1>1, Typing, Provisioning, PTL

\* The Hub never changes a tunnel that is not its own, nor removes a port that it
\* neither recorded nor is to publish, whatever the service loses or strangers do.
THEOREM OthersKept == Spec => OwnOnly
<1>1. TypeOK /\ TunnelInv /\ [Next]_vars => [OwnOnlyAct]_vars
  BY OwnOnlyStep DEF TunnelInv
<1> QED
  BY <1>1, Typing, Provisioning, PTL DEF Spec, OwnOnly, OwnOnlyAct
-----------------------------------------------------------------------------
(* A desired session is given up for a stranger's change, or as its        *)
(* retries are used up.                                                    *)

\* A desired session has a tunnel, and a migration that is unfinished is one to the
\* policy in force; while no stranger came it has the recorded ports once verified,
\* needs no new tunnel, and rests only after a transient error (fail).
RestsTransient == pc = "down" => why = "transient"
DesiredInv ==
  /\ want => id # None /\ unfinished \in {None, policy}
  /\ pc \in {"credentials", "serving", "renew"} =>
       unfinished = None /\ (~touched => ports[id] = rec)
  /\ want /\ ~touched => pc \notin {"create", "compensate"} /\ RestsTransient

\* A failure that no fault explains is one that a stranger's change made: a change the
\* run has still to fail on is not counted yet.
Owed ==
  \/ pc = "details" /\ again /\ id \notin alive
  \/ pc \in {"migrate", "readback", "credentials", "serving", "renew"} /\ id \notin alive
  \/ pc \in {"migrate", "readback"} /\ ports[id] # cur
  \/ pc = "compensate" /\ made \notin alive
Budget ==
  /\ failures <= faults + strangers
  /\ Owed => failures < faults + strangers
  /\ pc = "down" => ~again

\* As long as every call was answered the Hub has at most the tunnel of the session and
\* the one it is about to delete again.
NothingLeft == faults = 0 => alive \cap ours \subseteq {id, made}

\* No step that a stranger had no part in gives a desired session up.
LEMMA DesiredStep ==
  ASSUME TypeOK, Own, Migrating, Serving, Resumable, DesiredInv, [Next]_vars
  PROVE  DesiredInv'
<1> USE ConstantsAssumption DEF ConstantsAssumption, remoteVars, sessionVars, hubVars, historyVars
<1> USE DEF TypeOK, DesiredInv, RestsTransient
<1>1. CASE UNCHANGED vars
  BY <1>1 DEF vars
<1>2. CASE Start \/ Retry
  BY <1>2 DEF Start, Retry, RetryDue, Begins, FirstStep
<1>3. CASE CallFails \/ Compensate \/ CompensateLost \/ Gone \/ WorkerFails
  <2>1. CASE Compensate \/ CompensateLost
    <3>1. pc' = "down" /\ want' = want /\ touched' = touched /\ pc = "compensate"
          /\ id' = id /\ unfinished' = unfinished /\ policy' = policy
      BY <2>1 DEF Compensate, CompensateLost, Ends, Down
    <3> QED
      BY <3>1
  <2>2. CASE CallFails \/ Gone \/ WorkerFails
    BY <2>2 DEF CallFails, Gone, WorkerFails, Ends, Down
  <2> QED
    BY <1>3, <2>1, <2>2
<1>4. ASSUME NEW c \in Clusters, Create(c) PROVE DesiredInv'
  BY <1>4 DEF Create, Created, Goes
<1>5. ASSUME NEW c \in Clusters, CreateLost(c) \/ Conflict(c) PROVE DesiredInv'
  <2>1. /\ pc = "create" /\ pc' = "down"
        /\ UNCHANGED <<want, touched, id, unfinished, policy>>
    BY <1>5 DEF CreateLost, Conflict, OnConflict, Ends, Down
  <2> QED
    BY <2>1
<1>6. CASE Recreate
  BY <1>6 DEF Recreate, Missing, Resumable
<1>7. CASE Details
  BY <1>7 DEF Details, Accepted, Known, Goes, Ends, Down, Resumable, Unfinished
<1>8. CASE EditRefused
  BY <1>8 DEF EditRefused, Ends, Down, Migrating
<1>9. CASE Readback
  BY <1>9 DEF Readback, Private, Goes, Ends, Down, Migrating, Resumable
<1>10. CASE Record
  BY <1>10 DEF Record, Migrated, Goes, Migrating
<1>11. ASSUME NEW p \in Ports, DeletePort(p) \/ CreatePort(p) PROVE DesiredInv'
  <2>1. /\ pc = "migrate" /\ unfinished' = policy
        /\ \/ pc' = "readback"
           \/ pc' = "down" /\ why' = "transient"
        /\ UNCHANGED <<want, touched, id, policy>>
    BY <1>11 DEF DeletePort, CreatePort, Edits, Goes, Ends, Down
  <2> QED
    BY <2>1
<1>12. CASE Credentials \/ Refresh
  BY <1>12 DEF Credentials, Refresh, Verified, Private, Goes, Ends, Down, Resumable
<1>13. CASE Renew
  BY <1>13 DEF Renew, Goes
<1>14. CASE SetPolicy \/ Stop
  BY <1>14 DEF SetPolicy, Stop, Ends, Down
<1>15. CASE Crash \/ Connected
  BY <1>15 DEF Crash, AfterCrash, Down, Connected
<1>16. ASSUME NEW c \in Clusters, AddPort(c) \/ DropPort(c) \/ Share(c) \/ Delete(c)
       PROVE  DesiredInv'
  <2>1. /\ ~touched' => ~touched /\ c # id
        /\ c # id /\ id \in Clusters => ports'[id] = ports[id]
        /\ UNCHANGED <<want, id, unfinished, policy, pc, why, rec>>
    BY <1>16 DEF AddPort, DropPort, Share, Delete, Stranger, Removed
  <2> QED
    BY <2>1
<1> QED
  BY <1>1, <1>2, <1>3, <1>4, <1>5, <1>6, <1>7, <1>8, <1>9, <1>10, <1>11, <1>12, <1>13,
     <1>14, <1>15, <1>16 DEF Next, HubStep

\* No run fails without a fault or a change by a stranger of its own.
LEMMA BudgetStep ==
  ASSUME TypeOK, Budget, [Next]_vars
  PROVE  Budget'
<1> USE DEF TypeOK, Budget, Owed, remoteVars, sessionVars, hubVars, historyVars
<1>0. /\ failures \in Nat /\ faults \in Nat /\ strangers \in Nat /\ MaxRetries \in Nat
      /\ failures <= faults + strangers
  BY ConstantsAssumption DEF ConstantsAssumption
<1>1. ASSUME failures' = failures, UNCHANGED <<faults, strangers>>, Owed' => Owed,
             pc' = "down" => ~again'
      PROVE  Budget'
  BY <1>0, <1>1
<1>2. ASSUME faults' = faults + 1, UNCHANGED strangers, Ends("transient")
      PROVE  Budget'
  <2>1. failures' <= failures + 1 /\ failures' \in Nat
    BY <1>0, <1>2 DEF Ends
  <2>2. pc' = "down" /\ ~again'
    BY <1>2 DEF Ends, Down
  <2> QED
    BY <1>0, <1>2, <2>1, <2>2
<1>3. ASSUME UNCHANGED <<faults, strangers>>, Ends("transient"), Owed
      PROVE  Budget'
  <2>1. failures' <= failures + 1 /\ failures' \in Nat
    BY <1>0, <1>3 DEF Ends
  <2>2. pc' = "down" /\ ~again'
    BY <1>3 DEF Ends, Down
  <2> QED
    BY <1>0, <1>3, <2>1, <2>2
<1>4. ASSUME UNCHANGED <<faults, strangers>>, NEW reason, reason # "transient", Ends(reason)
      PROVE  Budget'
  <2>1. failures' = failures /\ pc' = "down" /\ ~again'
    BY <1>4 DEF Ends, Down
  <2> QED
    BY <1>0, <1>4, <2>1
<1>5. ASSUME strangers' = strangers + 1, UNCHANGED <<faults, hubVars>>
      PROVE  Budget'
  BY <1>0, <1>5
<1>6. CASE UNCHANGED vars
  BY <1>1, <1>6 DEF vars
<1>7. CASE Start \/ Retry
  <2>1. /\ UNCHANGED <<failures, faults, strangers, again>>
        /\ pc = "down" /\ pc' \in {"create", "details"}
    BY <1>7 DEF Start, Retry, Begins, FirstStep
  <2> QED
    BY <1>1, <2>1
<1>8. CASE Recreate \/ SetPolicy
  BY <1>1, <1>8 DEF Recreate, SetPolicy
<1>9. CASE CallFails \/ CompensateLost \/ WorkerFails
  BY <1>2, <1>9 DEF CallFails, CompensateLost, WorkerFails, Faulty
<1>10. ASSUME NEW c \in Clusters, CreateLost(c) \/ Conflict(c) PROVE Budget'
  BY <1>2, <1>4, <1>10 DEF CreateLost, Conflict, OnConflict, Faulty
<1>11. ASSUME NEW c \in Clusters, Create(c) PROVE Budget'
  <2>1. /\ UNCHANGED <<failures, faults, strangers>> /\ c \in alive'
        /\ \/ pc' = "details" /\ id' = c
           \/ pc' = "compensate" /\ made' = c
    BY <1>11 DEF Create, Created, Fine, Goes
  <2> QED
    BY <1>1, <2>1
<1>12. CASE Compensate
  BY <1>4, <1>12 DEF Compensate, Fine
<1>13. CASE Gone
  <2>1. Owed
    BY <1>13 DEF Gone
  <2> QED
    BY <1>3, <1>13, <2>1 DEF Gone
<1>14. CASE Details
  <2>1. CASE id \notin shared /\ Accepted(ports[id])
    <3>1. /\ UNCHANGED <<failures, faults, strangers, alive, ports, id>>
          /\ pc' = "migrate" /\ id \in alive /\ cur' = ports[id]
      BY <1>14, <2>1 DEF Details, Goes
    <3> QED
      BY <1>1, <3>1
  <2>2. CASE ~(id \notin shared /\ Accepted(ports[id]))
    BY <1>4, <1>14, <2>2 DEF Details
  <2> QED
    BY <2>1, <2>2
<1>15. CASE EditRefused
  <2>1. ASSUME NEW p \in cur \ policy, p \notin ports[id], Ends("transient")
        PROVE  Budget'
    BY <1>3, <1>15, <2>1 DEF EditRefused
  <2>2. CASE Ends("refused")
    BY <1>4, <1>15, <2>2 DEF EditRefused
  <2> QED
    BY <1>15, <2>1, <2>2 DEF EditRefused
<1>16. CASE Readback
  <2>1. CASE Private(cur)
    <3>1. /\ UNCHANGED <<failures, faults, strangers, alive, ports, id, cur>>
          /\ pc' = "migrate" /\ pc = "readback"
      BY <1>16, <2>1 DEF Readback, Goes
    <3> QED
      BY <1>1, <3>1
  <2>2. CASE ~Private(cur)
    BY <1>4, <1>16, <2>2 DEF Readback
  <2> QED
    BY <2>1, <2>2
<1>17. CASE Record \/ Renew
  BY <1>1, <1>17 DEF Record, Renew, Fine, Goes
<1>18. ASSUME NEW p \in Ports, DeletePort(p) \/ CreatePort(p) PROVE Budget'
  <2>1. CASE Faulty /\ Ends("transient")
    BY <1>2, <1>18, <2>1 DEF DeletePort, CreatePort, Edits, Faulty
  <2>2. CASE Fine /\ Goes("readback")
    <3>1. /\ UNCHANGED <<failures, faults, strangers, alive, id>>
          /\ pc = "migrate" /\ pc' = "readback" /\ id \in alive /\ id \in Clusters
      BY <1>18, <2>2, ConstantsAssumption
      DEF ConstantsAssumption, DeletePort, CreatePort, Edits, Fine, Goes
    <3>2. ports[id] = cur => ports'[id] = cur'
      BY <1>18, <2>2, <3>1 DEF DeletePort, CreatePort, Edits, Fine, Faulty, Ends, Down, Goes
    <3> QED
      BY <1>1, <3>1, <3>2
  <2> QED
    BY <1>18, <2>1, <2>2 DEF DeletePort, CreatePort
<1>19. CASE Credentials \/ Refresh
  <2>1. CASE Verified
    <3>1. /\ UNCHANGED <<failures, faults, strangers, alive, id>>
          /\ pc' \in {"serving", "renew"} /\ id \in alive
      BY <1>19, <2>1 DEF Credentials, Refresh, Goes
    <3> QED
      BY <1>1, <3>1
  <2>2. CASE ~Verified
    BY <1>4, <1>19, <2>2 DEF Credentials, Refresh
  <2> QED
    BY <2>1, <2>2
<1>20. CASE Connected
  <2>1. /\ failures' = 0 /\ UNCHANGED <<faults, strangers, pc, id, alive, again>>
        /\ failures # 0 /\ pc \in {"serving", "renew"} /\ failures \in Nat
    BY <1>0, <1>20 DEF Connected
  <2> QED
    BY <1>0, <2>1
<1>21. CASE Stop
  BY <1>4, <1>21 DEF Stop
<1>22. CASE Crash
  <2>1. /\ failures' = 0 /\ pc' = "down" /\ ~again'
        /\ faults' = faults + 1 /\ UNCHANGED strangers
    BY <1>22 DEF Crash, Down, Faulty
  <2> QED
    BY <1>0, <2>1
<1>23. ASSUME NEW c \in Clusters, AddPort(c) \/ DropPort(c) \/ Share(c) \/ Delete(c)
       PROVE  Budget'
  BY <1>5, <1>23 DEF AddPort, DropPort, Share, Delete, Stranger
<1> QED
  BY <1>6, <1>7, <1>8, <1>9, <1>10, <1>11, <1>12, <1>13, <1>14, <1>15, <1>16, <1>17,
     <1>18, <1>19, <1>20, <1>21, <1>22, <1>23 DEF Next, HubStep

\* Only a lost answer, a lost deletion or a crash leaves a tunnel behind.
LEMMA LeftStep ==
  ASSUME TypeOK, Own, NothingLeft, [Next]_vars
  PROVE  NothingLeft'
<1> USE DEF TypeOK, NothingLeft, remoteVars, sessionVars, hubVars, historyVars
<1>0. ASSUME faults' # faults PROVE NothingLeft'
  <2>1. faults' = faults + 1 \/ UNCHANGED faults
    BY DEF Next, HubStep, vars, Faulty, Fine, Start, Retry, Begins, CallFails, Compensate,
       CompensateLost, Create, CreateLost, Conflict, Recreate, Gone, Details,
       EditRefused, Readback, Record, DeletePort, CreatePort, Credentials, Renew,
       Refresh, Connected, WorkerFails, SetPolicy, Stop, Crash, AddPort, DropPort, Share, Delete,
       Stranger
  <2> QED
    BY <1>0, <2>1
<1>1. ASSUME faults' = faults, UNCHANGED <<alive, ours, id>>, made' = made \/ made = None
      PROVE  NothingLeft'
  BY <1>1, ConstantsAssumption DEF ConstantsAssumption
<1>2. CASE CallFails \/ CompensateLost \/ WorkerFails \/ Crash
  BY <1>0, <1>2 DEF CallFails, CompensateLost, WorkerFails, Crash, Faulty
<1>3. ASSUME NEW c \in Clusters, CreateLost(c) PROVE NothingLeft'
  BY <1>0, <1>3 DEF CreateLost, Faulty
<1>4. CASE Compensate
  BY <1>4 DEF Compensate, Removed, Fine
<1>5. ASSUME NEW c \in Clusters, Create(c) PROVE NothingLeft'
  BY <1>5, ConstantsAssumption DEF ConstantsAssumption, Create, Created, Fine, Goes, Own
<1>6. ASSUME NEW c \in Clusters, Delete(c) PROVE NothingLeft'
  BY <1>6 DEF Delete, Stranger, Removed
<1>7. CASE Gone
  BY <1>7, ConstantsAssumption DEF ConstantsAssumption, Gone, Ends, Down, Own
<1>8. ASSUME NEW p \in Ports, DeletePort(p) \/ CreatePort(p) PROVE NothingLeft'
  <2>1. UNCHANGED <<alive, ours, id>> /\ (faults' = faults => made' = made)
    BY <1>8 DEF DeletePort, CreatePort, Edits, Fine, Faulty, Goes
  <2> QED
    BY <1>0, <2>1
<1>9. CASE \/ Start \/ Retry \/ Connected \/ Recreate \/ Record \/ Renew \/ SetPolicy \/ UNCHANGED vars
           \/ \E c \in Clusters : AddPort(c) \/ DropPort(c) \/ Share(c)
  BY <1>1, <1>9 DEF vars, Start, Retry, Connected, Begins, Recreate, Record, Renew, SetPolicy,
     AddPort, DropPort, Share, Stranger, Goes
<1>10. CASE \/ Details \/ EditRefused \/ Readback \/ Credentials \/ Refresh \/ Stop
            \/ \E c \in Clusters : Conflict(c)
  <2>1. pc # "compensate" /\ UNCHANGED <<alive, ours, id, faults>>
    BY <1>10 DEF Details, EditRefused, Readback, Credentials, Refresh, Stop, Conflict,
       OnConflict
  <2> QED
    BY <1>1, <2>1 DEF Own
<1> QED
  BY <1>2, <1>3, <1>4, <1>5, <1>6, <1>7, <1>8, <1>9, <1>10 DEF Next, HubStep

\* The retry of a session at rest is due, unless more faults and changes by strangers
\* than there are retries have used them up.
DueOrUsedUp ==
  want /\ ~touched /\ pc = "down" =>
    why = "transient" /\ (RetryDue \/ faults + strangers > MaxRetries)

\* A desired session whose tunnel no stranger changed rests only after a transient
\* error, never in one that waits for somebody; its retry is due unless they are used
\* up, which takes more faults and changes by strangers than there are retries and is
\* never the Hub's own doing (start, provision, fail): the safety half of Recovers.
THEOREM DesiredRests == Spec => []DueOrUsedUp
<1>1. Init => DesiredInv /\ Budget
  BY ConstantsAssumption DEF ConstantsAssumption, Init, DesiredInv, RestsTransient, Budget, Owed
<1>2. TypeOK /\ TunnelInv /\ DesiredInv /\ [Next]_vars => DesiredInv'
  BY DesiredStep DEF TunnelInv
<1>3. TypeOK /\ Budget /\ [Next]_vars => Budget'
  BY BudgetStep
<1>4. TypeOK /\ DesiredInv /\ Budget => DueOrUsedUp
  BY ConstantsAssumption
  DEF ConstantsAssumption, TypeOK, DesiredInv, RestsTransient, Budget, RetryDue, DueOrUsedUp
<1> QED
  BY <1>1, <1>2, <1>3, <1>4, Typing, Provisioning, PTL DEF Spec

\* With every call answered and no crash, compensations included, the Hub leaves no tunnel
\* of its own behind (start's create and its compensating delete).
THEOREM LeavesNoTunnel == Spec => []NothingLeft
<1>1. Init => NothingLeft
  BY DEF Init, NothingLeft
<1>2. TypeOK /\ TunnelInv /\ NothingLeft /\ [Next]_vars => NothingLeft'
  BY LeftStep DEF TunnelInv
<1> QED
  BY <1>1, <1>2, Typing, Provisioning, PTL DEF Spec
=============================================================================
