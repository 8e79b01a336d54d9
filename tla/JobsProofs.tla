----------------------------- MODULE JobsProofs -----------------------------
(***************************************************************************)
(* Theorems about Jobs, for any number of jobs, handlers, shells and rows. *)
(***************************************************************************)
EXTENDS Jobs, TLAPS

\* NoRow is not the id of a row.
LEMMA NoRowIsNoRow == NoRow \notin Row
  BY JobsAssumption DEF NoRow, Row

\* Jobs' state is of its type: every action keeps statuses, program counters
\* and row ids in their sets, whatever faults are allowed.
LEMMA TypeStep == TypeOK /\ [Next]_vars => TypeOK'
<1> SUFFICES ASSUME TypeOK, [Next]_vars PROVE TypeOK'
  OBVIOUS
<1> USE JobsAssumption DEF TypeOK, Process, Status, Terminal, Exiting, PC, WebPC,
                           rowVars, procVars, webVars
<1>1. ASSUME NEW p \in Process, Begin(p) PROVE TypeOK'
  BY <1>1 DEF Begin
<1>2. ASSUME NEW p \in Process, LockHeld(p) PROVE TypeOK'
  BY <1>2 DEF LockHeld, Exit
<1>3. ASSUME NEW p \in Process, ClaimSelect(p) PROVE TypeOK'
  BY <1>3 DEF ClaimSelect, RequestedFor
<1>4. ASSUME NEW p \in Process, ClaimInsert(p) PROVE TypeOK'
  BY <1>4 DEF ClaimInsert, InsertRequested
<1>5. ASSUME NEW p \in Process, ClaimUpdate(p) PROVE TypeOK'
  BY <1>5 DEF ClaimUpdate
<1>6. ASSUME NEW p \in Process, RunJob(p) PROVE TypeOK'
  BY <1>6 DEF RunJob
<1>7. ASSUME NEW p \in Process, Finish(p) PROVE TypeOK'
  BY <1>7 DEF Finish, FinishRow
<1>24. ASSUME NEW p \in Process, Leave(p) PROVE TypeOK'
  BY <1>24 DEF Leave, Exit
<1>8. ASSUME NEW p \in Process, Kill(p) PROVE TypeOK'
  BY <1>8 DEF Kill, Exit
<1>9. ASSUME NEW p \in Shell, NEW j \in Job, RunByHand(p, j) PROVE TypeOK'
  BY <1>9 DEF RunByHand
<1>10. ASSUME NEW j \in Job, StartByHand(j) PROVE TypeOK'
  BY <1>10 DEF StartByHand, StartUnit
<1>11. ASSUME NEW c \in Command, CommandBegin(c) \/ CommandExit(c) PROVE TypeOK'
  BY <1>11 DEF CommandBegin, CommandExit
<1>12. ASSUME NEW w \in Handler, RequestJob(w) PROVE TypeOK'
  BY <1>12 DEF RequestJob, InsertRequested, Reply
<1>13. ASSUME NEW w \in Handler, RunnerStart(w) PROVE TypeOK'
  BY <1>13 DEF RunnerStart, StartUnit, Reply
<1>14. ASSUME NEW w \in Handler, RunnerError(w) PROVE TypeOK'
  BY <1>14 DEF RunnerError, StartUnit
<1>15. ASSUME NEW w \in Handler, StartFailed(w) \/ ShowExpire(w) PROVE TypeOK'
  BY <1>15 DEF StartFailed, ShowExpire, FinishRow, Reply
<1>16. ASSUME NEW w \in Handler, ShowUnit(w) PROVE TypeOK'
  BY <1>16 DEF ShowUnit, Reply
<1>17. ASSUME NEW w \in Handler, NEW j \in Job, CheckActive(w, j) PROVE TypeOK'
  BY <1>17 DEF CheckActive
<1>18. ASSUME NEW w \in Handler, NEW i \in Row, ShowRow(w, i) PROVE TypeOK'
  BY <1>18 DEF ShowRow
<1>19. ASSUME NEW i \in Row, Age(i) PROVE TypeOK'
  BY <1>19 DEF Age
<1>20. ASSUME NEW w \in Handler, Dropped(w) PROVE TypeOK'
  BY <1>20 DEF Dropped, Reply
<1>23. ASSUME Reboot PROVE TypeOK'
  BY <1>23 DEF Reboot, Idle
<1>21. CASE UNCHANGED vars
  BY <1>21 DEF vars
<1>22. QED
  BY <1>1, <1>2, <1>3, <1>4, <1>5, <1>6, <1>7, <1>8, <1>9, <1>10, <1>11,
     <1>12, <1>13, <1>14, <1>15, <1>16, <1>17, <1>18, <1>19, <1>20, <1>21, <1>23, <1>24
     DEF Next, ProcessStep, HandlerStep

THEOREM TypeCorrect == Spec => []TypeOK
<1>1. Init => TypeOK
  BY JobsAssumption DEF Init, TypeOK, Process, PC, WebPC
<1>2. QED
  BY <1>1, TypeStep, PTL DEF Spec

-----------------------------------------------------------------------------
(* One writer, and one owner of a locking job's row.  Both follow from two *)
(* facts every action keeps: a working process of a locking job is the     *)
(* lock's holder, and the row a process holds is a row of its own job.     *)

LockHolder == \A p \in Process : Working(p) /\ job[p] \in Locking => lock = p

RowOfOwnJob ==
  \A p \in Process : row[p] # NoRow =>
    Working(p) /\ status[row[p]] # "none" /\ jobOf[row[p]] = job[p]

OwnerInv == TypeOK /\ LockHolder /\ RowOfOwnJob

\* Every action preserves OwnerInv: the lock passes only through None, and an
\* inserted row is one nobody holds.
LEMMA OwnerStep == OwnerInv /\ [Next]_vars => OwnerInv'
<1> SUFFICES ASSUME OwnerInv, [Next]_vars PROVE (LockHolder /\ RowOfOwnJob)'
  BY TypeStep DEF OwnerInv
<1> USE JobsAssumption, NoRowIsNoRow
    DEF OwnerInv, TypeOK, LockHolder, RowOfOwnJob, Working, Process, Terminal, Exiting,
        rowVars, procVars, webVars
<1>1. ASSUME NEW p \in Process, Begin(p) PROVE (LockHolder /\ RowOfOwnJob)'
  BY <1>1 DEF Begin
<1>2. ASSUME NEW p \in Process, LockHeld(p) PROVE (LockHolder /\ RowOfOwnJob)'
  BY <1>2 DEF LockHeld, Exit
<1>3. ASSUME NEW p \in Process, ClaimSelect(p) PROVE (LockHolder /\ RowOfOwnJob)'
  BY <1>3 DEF ClaimSelect, RequestedFor
<1>4. ASSUME NEW p \in Process, ClaimInsert(p) PROVE (LockHolder /\ RowOfOwnJob)'
  BY <1>4 DEF ClaimInsert, InsertRequested
<1>5. ASSUME NEW p \in Process, ClaimUpdate(p) PROVE (LockHolder /\ RowOfOwnJob)'
  BY <1>5 DEF ClaimUpdate
<1>6. ASSUME NEW p \in Process, RunJob(p) PROVE (LockHolder /\ RowOfOwnJob)'
  BY <1>6 DEF RunJob
<1>7. ASSUME NEW p \in Process, Finish(p) PROVE (LockHolder /\ RowOfOwnJob)'
  BY <1>7 DEF Finish, FinishRow
<1>24. ASSUME NEW p \in Process, Leave(p) PROVE (LockHolder /\ RowOfOwnJob)'
  BY <1>24 DEF Leave, Exit
<1>8. ASSUME NEW p \in Process, Kill(p) PROVE (LockHolder /\ RowOfOwnJob)'
  BY <1>8 DEF Kill, Exit
<1>9. ASSUME NEW p \in Shell, NEW j \in Job, RunByHand(p, j) PROVE (LockHolder /\ RowOfOwnJob)'
  BY <1>9 DEF RunByHand
<1>10. ASSUME NEW j \in Job, StartByHand(j) PROVE (LockHolder /\ RowOfOwnJob)'
  BY <1>10 DEF StartByHand, StartUnit, UnitStatus
<1>11. ASSUME NEW c \in Command, CommandBegin(c) \/ CommandExit(c)
       PROVE (LockHolder /\ RowOfOwnJob)'
  BY <1>11 DEF CommandBegin, CommandExit
<1>12. ASSUME NEW w \in Handler, RequestJob(w) PROVE (LockHolder /\ RowOfOwnJob)'
  BY <1>12 DEF RequestJob, InsertRequested
<1>13. ASSUME NEW w \in Handler, RunnerStart(w) PROVE (LockHolder /\ RowOfOwnJob)'
  BY <1>13 DEF RunnerStart, StartUnit, UnitStatus
<1>14. ASSUME NEW w \in Handler, RunnerError(w) PROVE (LockHolder /\ RowOfOwnJob)'
  BY <1>14 DEF RunnerError, StartUnit, UnitStatus
<1>15. ASSUME NEW w \in Handler, StartFailed(w) \/ ShowExpire(w)
       PROVE (LockHolder /\ RowOfOwnJob)'
  BY <1>15 DEF StartFailed, ShowExpire, FinishRow
<1>16. ASSUME NEW w \in Handler, ShowUnit(w) PROVE (LockHolder /\ RowOfOwnJob)'
  BY <1>16 DEF ShowUnit
<1>17. ASSUME NEW w \in Handler, NEW j \in Job, CheckActive(w, j)
       PROVE (LockHolder /\ RowOfOwnJob)'
  BY <1>17 DEF CheckActive
<1>18. ASSUME NEW w \in Handler, NEW i \in Row, ShowRow(w, i)
       PROVE (LockHolder /\ RowOfOwnJob)'
  BY <1>18 DEF ShowRow
<1>19. ASSUME NEW i \in Row, Age(i) PROVE (LockHolder /\ RowOfOwnJob)'
  BY <1>19 DEF Age
<1>20. ASSUME NEW w \in Handler, Dropped(w) PROVE (LockHolder /\ RowOfOwnJob)'
  BY <1>20 DEF Dropped
<1>21. ASSUME Reboot PROVE (LockHolder /\ RowOfOwnJob)'
  BY <1>21 DEF Reboot
<1>22. CASE UNCHANGED vars
  BY <1>22 DEF vars
<1>23. QED
  BY <1>1, <1>2, <1>3, <1>4, <1>5, <1>6, <1>7, <1>8, <1>9, <1>10, <1>11,
     <1>12, <1>13, <1>14, <1>15, <1>16, <1>17, <1>18, <1>19, <1>20, <1>21, <1>22, <1>24
     DEF Next, ProcessStep, HandlerStep

\* OwnerInv holds in every reachable state.
LEMMA OwnerInvariant == Spec => []OwnerInv
<1>1. Init => OwnerInv
  <2>1. Init => TypeOK
    BY JobsAssumption DEF Init, TypeOK, Process, PC, WebPC
  <2>2. Init => LockHolder /\ RowOfOwnJob
    BY DEF Init, LockHolder, RowOfOwnJob, Working
  <2>3. QED
    BY <2>1, <2>2 DEF OwnerInv
<1>2. QED
  BY <1>1, OwnerStep, PTL DEF Spec

\* The run lock works: no two processes of locking jobs, and no such process
\* and another lock-holding command, are past main's lock step together.
THEOREM RunLockExcludes == Spec => []OneWriter
<1>1. OwnerInv => OneWriter
  BY JobsAssumption DEF OwnerInv, LockHolder, OneWriter, Writer, Process
<1>2. QED
  BY <1>1, OwnerInvariant, PTL

\* claim is not atomic, yet no two processes ever own the same row of a
\* locking job.
THEOREM LockedRowHasOneOwner == Spec => []LockedRowOwnedOnce
<1>1. OwnerInv => LockedRowOwnedOnce
  BY DEF OwnerInv, LockHolder, RowOfOwnJob, LockedRowOwnedOnce
<1>2. QED
  BY <1>1, OwnerInvariant, PTL

-----------------------------------------------------------------------------
(* The lifecycle.  Under a dashboard that serves one request at a time, no *)
(* operator shell, and a systemctl that never times out with the start     *)
(* already queued, the `jobs` table follows JobLifecycle, even though      *)
(* processes are killed and the server and the machine restart.  The run   *)
(* jobs_duplicate shows that the first of these assumptions cannot be      *)
(* dropped.                                                                *)

OneAtATime ==
  /\ \A v, w \in Handler : v = w
  /\ Shell = {}
  /\ "timeout" \notin Faults

\* A unit's process lives only as long as its unit has an active row: the
\* request that started it until the claim, the claimed row after it.
HasActiveRow(j) ==
  /\ job[j] = j
  /\ pc[j] \in {"begin", "select"} => \E i \in Row : jobOf[i] = j /\ status[i] = "requested"
  /\ pc[j] # "insert"
  /\ pc[j] = "update" => row[j] \in Row /\ jobOf[row[j]] = j /\ status[row[j]] = "requested"
  /\ pc[j] \in {"run", "ok", "failed"} =>
       row[j] \in Row /\ jobOf[row[j]] = j /\ status[row[j]] = "running"

ProcessHasActiveRow == \A j \in Job : HasActiveRow(j)

\* No process of the unit will claim a row any more.
NotClaiming(j) == pc[j] \in {"dead"} \cup Exiting

\* What the handler knows about the row or the unit it read earlier.
HandlerKnows ==
  \A w \in Handler :
    /\ wpc[w] = "checked" => wjob[w] \in Job /\ \A i \in Row : jobOf[i] = wjob[w] => ~IsActive(i)
    /\ wpc[w] \in {"inserted", "startFailed"} =>
         /\ wrow[w] \in Row /\ wjob[w] \in Job /\ jobOf[wrow[w]] = wjob[w]
         /\ status[wrow[w]] = "requested" /\ NotClaiming(wjob[w])
    /\ wpc[w] = "show" =>
         /\ wrow[w] \in Row /\ wjob[w] \in Job /\ jobOf[wrow[w]] = wjob[w]
         /\ status[wrow[w]] # "none"
         /\ status[wrow[w]] \in Terminal => NotClaiming(wjob[w])
         /\ status[wrow[w]] = "ok" =>
              pc[wjob[w]] = "exitOk" \/ (pc[wjob[w]] = "dead" /\ ~unitFailed[wjob[w]])
    /\ wpc[w] = "expire" =>
         /\ wrow[w] \in Row /\ wjob[w] \in Job /\ jobOf[wrow[w]] = wjob[w]
         /\ status[wrow[w]] \notin {"none", "ok"} /\ pc[wjob[w]] = "dead"

RowIsInJob == \A i \in Row : status[i] # "none" => jobOf[i] \in Job

SeqInv == TypeOK /\ RowIsInJob /\ OneActiveRowPerUnit /\ ProcessHasActiveRow /\ HandlerKnows
\* SeqInv is inductive: the one handler is what keeps a unit from being
\* started, or a row from being inserted, behind what it read.
LEMMA SeqStep == OneAtATime /\ SeqInv /\ TypeOK' /\ [Next]_vars => SeqInv'
<1> SUFFICES ASSUME OneAtATime, SeqInv, [Next]_vars
             PROVE  (RowIsInJob /\ OneActiveRowPerUnit /\ ProcessHasActiveRow /\ HandlerKnows)'
  BY DEF SeqInv
<1> USE JobsAssumption, NoRowIsNoRow
    DEF OneAtATime, SeqInv, TypeOK, RowIsInJob, OneActiveRowPerUnit, ProcessHasActiveRow,
        HasActiveRow, HandlerKnows, NotClaiming, IsActive, Process, Status, Terminal, Exiting, rowVars, procVars, webVars
<1>1. ASSUME NEW p \in Process, Begin(p)
      PROVE  (RowIsInJob /\ OneActiveRowPerUnit /\ ProcessHasActiveRow /\ HandlerKnows)'
  BY <1>1 DEF Begin
<1>2. ASSUME NEW p \in Process, LockHeld(p)
      PROVE  (RowIsInJob /\ OneActiveRowPerUnit /\ ProcessHasActiveRow /\ HandlerKnows)'
  BY <1>2 DEF LockHeld, Exit
<1>3. ASSUME NEW p \in Process, ClaimSelect(p)
      PROVE  (RowIsInJob /\ OneActiveRowPerUnit /\ ProcessHasActiveRow /\ HandlerKnows)'
  BY <1>3 DEF ClaimSelect, RequestedFor
<1>4. ASSUME NEW p \in Process, ClaimInsert(p)
      PROVE  (RowIsInJob /\ OneActiveRowPerUnit /\ ProcessHasActiveRow /\ HandlerKnows)'
  BY <1>4 DEF ClaimInsert
<1>5. ASSUME NEW p \in Process, ClaimUpdate(p)
      PROVE  (RowIsInJob /\ OneActiveRowPerUnit /\ ProcessHasActiveRow /\ HandlerKnows)'
  BY <1>5 DEF ClaimUpdate
<1>6. ASSUME NEW p \in Process, RunJob(p)
      PROVE  (RowIsInJob /\ OneActiveRowPerUnit /\ ProcessHasActiveRow /\ HandlerKnows)'
  BY <1>6 DEF RunJob
<1>7. ASSUME NEW p \in Process, Finish(p)
      PROVE  (RowIsInJob /\ OneActiveRowPerUnit /\ ProcessHasActiveRow /\ HandlerKnows)'
  <2>1. /\ p \in Job /\ job[p] = p /\ pc[p] \in {"ok", "failed"}
        /\ row[p] \in Row /\ jobOf[row[p]] = p /\ status[row[p]] = "running"
    BY <1>7 DEF Finish
  <2>2. /\ status' = [status EXCEPT ![row[p]] = pc[p]]
        /\ jobOf' = jobOf /\ job' = job /\ row' = row /\ unitFailed' = unitFailed
        /\ wpc' = wpc /\ wjob' = wjob /\ wrow' = wrow
    BY <1>7, <2>1 DEF Finish, FinishRow
  <2>3. pc[p] = "ok" => pc' = [pc EXCEPT ![p] = "exitOk"]
    BY <1>7, <2>1 DEF Finish
  <2>4. pc[p] = "failed" => pc' = [pc EXCEPT ![p] = "exitFailed"]
    BY <1>7, <2>1 DEF Finish
  <2>5. (RowIsInJob /\ OneActiveRowPerUnit)'
    BY <2>1, <2>2
  <2>9. pc'[p] \in {"exitOk", "exitFailed"} /\ \A j \in Job : j # p => pc'[j] = pc[j]
    BY <2>1, <2>3, <2>4
  <2>6. ProcessHasActiveRow'
    BY <2>1, <2>2, <2>9
  <2>7. HandlerKnows'
    BY <2>1, <2>2, <2>3, <2>4
  <2>8. QED
    BY <2>5, <2>6, <2>7
<1>23. ASSUME NEW p \in Process, Leave(p)
      PROVE  (RowIsInJob /\ OneActiveRowPerUnit /\ ProcessHasActiveRow /\ HandlerKnows)'
  <2>1. /\ p \in Job /\ job[p] = p /\ pc[p] \in {"exitOk", "exitFailed"}
        /\ pc' = [pc EXCEPT ![p] = "dead"] /\ row' = [row EXCEPT ![p] = NoRow]
        /\ status' = status /\ jobOf' = jobOf /\ job' = job
        /\ wpc' = wpc /\ wjob' = wjob /\ wrow' = wrow
    BY <1>23 DEF Leave, Exit
  <2>2. pc[p] = "exitOk" => unitFailed' = [unitFailed EXCEPT ![p] = FALSE]
    BY <1>23, <2>1 DEF Leave, Exit
  <2>3. pc[p] = "exitFailed" => unitFailed' = [unitFailed EXCEPT ![p] = TRUE]
    BY <1>23, <2>1 DEF Leave, Exit
  <2>4. (RowIsInJob /\ OneActiveRowPerUnit /\ ProcessHasActiveRow)'
    BY <2>1
  <2>5. HandlerKnows'
    BY <2>1, <2>2, <2>3
  <2>6. QED
    BY <2>4, <2>5
<1>8. ASSUME NEW p \in Process, Kill(p)
      PROVE  (RowIsInJob /\ OneActiveRowPerUnit /\ ProcessHasActiveRow /\ HandlerKnows)'
  BY <1>8 DEF Kill, Exit
<1>9. ASSUME NEW c \in Command, CommandBegin(c) \/ CommandExit(c)
      PROVE  (RowIsInJob /\ OneActiveRowPerUnit /\ ProcessHasActiveRow /\ HandlerKnows)'
  BY <1>9 DEF CommandBegin, CommandExit
<1>10. ASSUME NEW w \in Handler, RequestJob(w)
      PROVE  (RowIsInJob /\ OneActiveRowPerUnit /\ ProcessHasActiveRow /\ HandlerKnows)'
  <2>1. CASE \A i \in Row : status[i] # "none"
    BY <1>10, <2>1 DEF RequestJob, InsertRequested, Reply
  <2>2. ASSUME NEW i \in Row, InsertRequested(i, wjob[w]), wrow' = [wrow EXCEPT ![w] = i],
               wpc' = [wpc EXCEPT ![w] = "inserted"], wjob' = wjob
        PROVE  (RowIsInJob /\ OneActiveRowPerUnit /\ ProcessHasActiveRow /\ HandlerKnows)'
    <3>1. /\ wpc[w] = "checked" /\ wjob[w] \in Job
          /\ \A k \in Row : jobOf[k] = wjob[w] => ~IsActive(k)
      BY <1>10 DEF RequestJob
    <3>2. /\ status[i] = "none"
          /\ status' = [status EXCEPT ![i] = "requested"]
          /\ jobOf' = [jobOf EXCEPT ![i] = wjob[w]]
          /\ UNCHANGED <<unitFailed, pc, job, row, lock>>
      BY <1>10, <2>2 DEF RequestJob, InsertRequested
    <3>3. (RowIsInJob /\ OneActiveRowPerUnit)'
      BY <3>1, <3>2
    <3>4. NotClaiming(wjob[w])
      BY <3>1 DEF PC
    <3>5. ProcessHasActiveRow'
      BY <3>1, <3>2, <3>4
    <3>6. HandlerKnows'
      BY <2>2, <3>1, <3>2, <3>4
    <3>7. QED
      BY <3>3, <3>5, <3>6
  <2>3. QED
    BY <1>10, <2>1, <2>2 DEF RequestJob
<1>11. ASSUME NEW w \in Handler, RunnerStart(w)
      PROVE  (RowIsInJob /\ OneActiveRowPerUnit /\ ProcessHasActiveRow /\ HandlerKnows)'
  BY <1>11 DEF RunnerStart, StartUnit, UnitStatus, Reply
<1>12. ASSUME NEW w \in Handler, RunnerError(w)
      PROVE  (RowIsInJob /\ OneActiveRowPerUnit /\ ProcessHasActiveRow /\ HandlerKnows)'
  BY <1>12 DEF RunnerError
<1>13. ASSUME NEW w \in Handler, StartFailed(w)
      PROVE  (RowIsInJob /\ OneActiveRowPerUnit /\ ProcessHasActiveRow /\ HandlerKnows)'
  BY <1>13 DEF StartFailed, FinishRow, Reply
<1>14. ASSUME NEW w \in Handler, ShowUnit(w)
      PROVE  (RowIsInJob /\ OneActiveRowPerUnit /\ ProcessHasActiveRow /\ HandlerKnows)'
  BY <1>14 DEF ShowUnit, ExitedUnsuccessfully, UnitStatus, Reply
<1>15. ASSUME NEW w \in Handler, ShowExpire(w)
      PROVE  (RowIsInJob /\ OneActiveRowPerUnit /\ ProcessHasActiveRow /\ HandlerKnows)'
  BY <1>15 DEF ShowExpire, FinishRow, Reply
<1>16. ASSUME NEW w \in Handler, \E j \in Job : CheckActive(w, j)
      PROVE  (RowIsInJob /\ OneActiveRowPerUnit /\ ProcessHasActiveRow /\ HandlerKnows)'
  BY <1>16 DEF CheckActive, ActiveForUnit
<1>17. ASSUME NEW w \in Handler, \E i \in Row : ShowRow(w, i)
      PROVE  (RowIsInJob /\ OneActiveRowPerUnit /\ ProcessHasActiveRow /\ HandlerKnows)'
  BY <1>17 DEF ShowRow
<1>18. ASSUME NEW i \in Row, Age(i)
      PROVE  (RowIsInJob /\ OneActiveRowPerUnit /\ ProcessHasActiveRow /\ HandlerKnows)'
  BY <1>18 DEF Age
<1>19. ASSUME NEW w \in Handler, Dropped(w)
      PROVE  (RowIsInJob /\ OneActiveRowPerUnit /\ ProcessHasActiveRow /\ HandlerKnows)'
  BY <1>19 DEF Dropped, Reply
<1>20. ASSUME Reboot
      PROVE  (RowIsInJob /\ OneActiveRowPerUnit /\ ProcessHasActiveRow /\ HandlerKnows)'
  BY <1>20 DEF Reboot, Idle
<1>21. ASSUME UNCHANGED vars
      PROVE  (RowIsInJob /\ OneActiveRowPerUnit /\ ProcessHasActiveRow /\ HandlerKnows)'
  BY <1>21 DEF vars
<1>22. QED
  BY <1>1, <1>2, <1>3, <1>4, <1>5, <1>6, <1>7, <1>8, <1>9, <1>10, <1>11, <1>12, <1>13, <1>14, <1>15, <1>16, <1>17, <1>18, <1>19, <1>20, <1>21, <1>23
     DEF Next, ProcessStep, HandlerStep, RunByHand, StartByHand

\* Under these assumptions SeqInv holds in every reachable state.
LEMMA SeqInvariant == ASSUME OneAtATime PROVE Spec => []SeqInv
<1>1. Init => SeqInv
  BY JobsAssumption, NoRowIsNoRow
     DEF Init, SeqInv, TypeOK, RowIsInJob, OneActiveRowPerUnit, ProcessHasActiveRow,
         HasActiveRow, HandlerKnows, NotClaiming, IsActive, Process, PC, WebPC
<1>2. SeqInv /\ [Next]_vars => SeqInv'
  BY SeqStep, TypeStep DEF SeqInv
<1>3. QED
  BY <1>1, <1>2, PTL DEF Spec

\* start_job's 409 holds: a unit never has two active rows.
THEOREM OneActiveRow == ASSUME OneAtATime PROVE Spec => []OneActiveRowPerUnit
<1>1. SeqInv => OneActiveRowPerUnit
  BY DEF SeqInv
<1>2. QED
  BY <1>1, SeqInvariant, PTL

-----------------------------------------------------------------------------
\* Every step is a step of the table's lifecycle, or leaves the table alone.
LEMMA LifecycleStep ==
  OneAtATime /\ SeqInv /\ [Next]_vars => [Lifecycle!Next]_<<status, jobOf>>
<1> SUFFICES ASSUME OneAtATime, SeqInv, Next, ~UNCHANGED <<status, jobOf>>
             PROVE  Lifecycle!Next
  BY DEF vars
<1> USE JobsAssumption, NoRowIsNoRow
    DEF OneAtATime, SeqInv, TypeOK, RowIsInJob, ProcessHasActiveRow, HasActiveRow,
        HandlerKnows, NotClaiming,
        Process, Status, Terminal, rowVars, procVars, webVars
<1>1. ASSUME NEW p \in Process, ClaimInsert(p) PROVE FALSE
  BY <1>1 DEF ClaimInsert
<1>2. ASSUME NEW p \in Process, ClaimUpdate(p) PROVE Lifecycle!Next
  <2>1. row[p] \in Row /\ status[row[p]] = "requested"
    BY <1>2 DEF ClaimUpdate
  <2>2. QED
    BY <1>2, <2>1 DEF ClaimUpdate, Lifecycle!Next, Lifecycle!Start
<1>3. ASSUME NEW p \in Process, Finish(p) PROVE Lifecycle!Next
  <2>1. row[p] \in Row /\ status[row[p]] = "running" /\ pc[p] \in {"ok", "failed"}
    BY <1>3 DEF Finish
  <2>2. status' = [status EXCEPT ![row[p]] = pc[p]] /\ jobOf' = jobOf
    BY <1>3 DEF Finish, FinishRow
  <2>3. CASE pc[p] = "ok"
    BY <2>1, <2>2, <2>3 DEF Lifecycle!Next, Lifecycle!Complete
  <2>4. CASE pc[p] = "failed"
    BY <2>1, <2>2, <2>4 DEF Lifecycle!Next, Lifecycle!Fail, Lifecycle!Active
  <2>5. QED
    BY <2>1, <2>3, <2>4
<1>4. ASSUME NEW w \in Handler, RequestJob(w) PROVE Lifecycle!Next
  BY <1>4 DEF RequestJob, InsertRequested, IsActive, Lifecycle!Next, Lifecycle!Request, Lifecycle!Active
<1>5. ASSUME NEW w \in Handler, StartFailed(w) PROVE Lifecycle!Next
  BY <1>5 DEF StartFailed, FinishRow, Lifecycle!Next, Lifecycle!Fail, Lifecycle!Active
<1>6. ASSUME NEW w \in Handler, ShowExpire(w) PROVE Lifecycle!Next
  <2>1. status[wrow[w]] = "failed" => status' = status
    BY <1>6 DEF ShowExpire, FinishRow
  <2>2. status[wrow[w]] \in {"requested", "running"}
    BY <1>6, <2>1 DEF ShowExpire, FinishRow
  <2>3. QED
    BY <1>6, <2>2 DEF ShowExpire, FinishRow, Lifecycle!Next, Lifecycle!Fail, Lifecycle!Active
<1>7. QED
  BY <1>1, <1>2, <1>3, <1>4, <1>5, <1>6
     DEF Next, ProcessStep, HandlerStep, Begin, LockHeld, ClaimSelect, RunJob, Leave, Kill,
         RunByHand, StartByHand, CommandBegin, CommandExit, CheckActive, RunnerStart,
         RunnerError, ShowRow, ShowUnit, Age, Dropped, Reboot

\* The jobs table implements JobLifecycle.
THEOREM LifecycleRefined == ASSUME OneAtATime PROVE Spec => ImplementsLifecycle
<1>1. Init => Lifecycle!Init
  BY DEF Init, Lifecycle!Init
<1>2. SeqInv /\ [Next]_vars => [Lifecycle!Next]_<<status, jobOf>>
  BY LifecycleStep
<1>3. QED
  BY <1>1, <1>2, SeqInvariant, PTL DEF Spec, ImplementsLifecycle, Lifecycle!Spec

\* A finished row keeps its status for ever.
THEOREM FinishedIsFinal == ASSUME OneAtATime PROVE Spec => TerminalIsFinal
<1>1. SeqInv /\ [Next]_vars => [\A i \in Row : status[i] \in Terminal => status'[i] = status[i]]_vars
  <2> SUFFICES ASSUME SeqInv, [Next]_vars, NEW i \in Row, status[i] \in Terminal
               PROVE  status'[i] = status[i]
    OBVIOUS
  <2>1. [Lifecycle!Next]_<<status, jobOf>>
    BY LifecycleStep
  <2>2. QED
    BY <2>1 DEF SeqInv, TypeOK, Terminal, Lifecycle!Next, Lifecycle!Start, Lifecycle!Complete,
                Lifecycle!Fail, Lifecycle!Request, Lifecycle!Active
<1>2. QED
  BY <1>1, SeqInvariant, PTL DEF Spec, TerminalIsFinal
===============================================================================
