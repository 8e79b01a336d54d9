-------------------------------- MODULE Jobs --------------------------------
(***************************************************************************)
(* Operator jobs: the `jobs` table, the `job run` process of a systemd     *)
(* unit, the run lock (src/lock.rs), and the dashboard handlers that       *)
(* request jobs and that fail requests whose unit never got going.         *)
(*                                                                         *)
(* A job is identified with its unit (Job::unit is injective).  Several    *)
(* handlers, units, shell commands and the timer's generate run            *)
(* interleave; every database statement and every systemctl call is a step *)
(* of its own, because nothing in the code makes two of them atomic.       *)
(***************************************************************************)
EXTENDS Naturals, FiniteSets

CONSTANTS
  Job,       \* catalogue jobs (and so unit instances daily-epub-job@<job>)
  Locking,   \* the jobs for which takes_lock() is Some
  Handler,   \* dashboard requests that can be in flight at once
  Shell,     \* operator shells that may type `daily-epub job run` or `systemctl start`
  Command,   \* the other lock holders: the timer's generate, feeds discover, ...
  Faults,    \* which of FaultKinds may happen
  MaxRows,   \* bound on the rows ever inserted into `jobs`
  None       \* nobody, or no job

FaultKinds == {
  "kill",     \* a process dies: signal, TimeoutStartSec=45min, a database error
  "reboot",   \* the machine restarts: every process dies, systemd forgets results
  "drop",     \* start_job ends where it awaits: client gone, statement failed, server stopped
  "dropPage", \* and so does the job page
  "runner",   \* systemctl fails and has done nothing
  "timeout"}  \* systemctl is cut off after 10 s and the start was queued anyway

ASSUME JobsAssumption ==
  /\ Locking \subseteq Job
  /\ Faults \subseteq FaultKinds
  /\ MaxRows \in Nat
  /\ Job \cap Shell = {} /\ Job \cap Command = {} /\ Shell \cap Command = {}
  /\ None \notin Job \cup Shell \cup Command

Row == 1..MaxRows
NoRow == 0
Process == Job \cup Shell       \* a unit's main process is named by its job
Status == {"requested", "running", "ok", "failed"}
Terminal == {"ok", "failed"}
Exiting == {"exitOk", "exitFailed"}   \* the outcome is recorded, the process not yet gone

VARIABLES
  status,     \* status[i]: the row's status, "none" before it is inserted
  jobOf,      \* jobOf[i]: the row's job
  aged,       \* aged[i]: EXIT_GRACE_SECS have passed since requested_at
  unitFailed, \* unitFailed[j]: the unit's Result is not "success"
  pc,         \* pc[p]: where process p is, "dead" when it does not exist
  job,        \* job[p]: the job it runs
  row,        \* row[p]: the row it selected or claimed
  lock,       \* the holder of <database>.lock
  wpc,        \* wpc[w]: where a dashboard request is
  wjob,       \* wjob[w]: the job it is about
  wrow        \* wrow[w]: the row it inserted or shows

rowVars == <<status, jobOf, aged>>
procVars == <<unitFailed, pc, job, row, lock>>
webVars == <<wpc, wjob, wrow>>
vars == <<status, jobOf, aged, unitFailed, pc, job, row, lock, wpc, wjob, wrow>>

Init ==
  /\ status = [i \in Row |-> "none"]
  /\ jobOf = [i \in Row |-> None]
  /\ aged = [i \in Row |-> FALSE]
  /\ unitFailed = [j \in Job |-> FALSE]
  /\ pc = [p \in Process |-> "dead"]
  /\ job = [p \in Process |-> IF p \in Job THEN p ELSE None]
  /\ row = [p \in Process |-> NoRow]
  /\ lock = None
  /\ wpc = [w \in Handler |-> "idle"]
  /\ wjob = [w \in Handler |-> None]
  /\ wrow = [w \in Handler |-> NoRow]

-----------------------------------------------------------------------------
(* The jobs table.  Ids grow, so the newest row is the one with the        *)
(* largest id; rows are never deleted.                                     *)

IsActive(i) == status[i] \in {"requested", "running"}
ActiveForUnit(j) == {i \in Row : jobOf[i] = j /\ IsActive(i)}
RequestedFor(j) == {i \in Row : jobOf[i] = j /\ status[i] = "requested"}

InsertRequested(i, j) ==
  /\ status[i] = "none"
  /\ \A k \in Row : k < i => status[k] # "none"
  /\ status' = [status EXCEPT ![i] = "requested"]
  /\ jobOf' = [jobOf EXCEPT ![i] = j]
  /\ aged' = aged

\* Faulty variant: a status the table's CHECK does not know.
FinishRowExpired(i, outcome) ==
  /\ status' = [status EXCEPT ![i] = IF @ = "requested" THEN "expired" ELSE outcome]
  /\ UNCHANGED <<jobOf, aged>>

FinishRow(i, outcome) ==
  /\ status' = [status EXCEPT ![i] = outcome]
  /\ UNCHANGED <<jobOf, aged>>

-----------------------------------------------------------------------------
(* systemd.  A oneshot unit is `activating` while its main process lives;  *)
(* starting it then does nothing.                                          *)

UnitStatus(j) == IF pc[j] # "dead" THEN "activating"
                 ELSE IF unitFailed[j] THEN "failed" ELSE "inactive"

\* Faulty variant: a failed unit taken for one that is still coming up.
ExitedButNotFailed(j) == UnitStatus(j) = "inactive"

ExitedUnsuccessfully(j) == UnitStatus(j) = "failed"

StartUnit(j) ==
  IF UnitStatus(j) = "activating" THEN UNCHANGED procVars
  ELSE /\ pc' = [pc EXCEPT ![j] = "begin"]
       /\ unitFailed' = [unitFailed EXCEPT ![j] = FALSE]
       /\ UNCHANGED <<job, row, lock>>

\* The process is gone: the kernel releases its lock, the unit gets a result.
Exit(p, success) ==
  /\ pc' = [pc EXCEPT ![p] = "dead"]
  /\ row' = [row EXCEPT ![p] = NoRow]
  /\ lock' = IF lock = p THEN None ELSE lock
  /\ unitFailed' = IF p \in Job THEN [unitFailed EXCEPT ![p] = ~success] ELSE unitFailed
  /\ job' = IF p \in Job THEN job ELSE [job EXCEPT ![p] = None]

-----------------------------------------------------------------------------
(* `daily-epub job run <name>`.                                            *)

\* Faulty variants: the lock is taken over, or not taken at all.
BeginStealing(p) ==
  /\ pc[p] = "begin"
  /\ lock' = IF job[p] \in Locking THEN p ELSE lock
  /\ pc' = [pc EXCEPT ![p] = "select"]
  /\ UNCHANGED <<rowVars, unitFailed, job, row, webVars>>

BeginUnlocked(p) ==
  /\ pc[p] = "begin"
  /\ pc' = [pc EXCEPT ![p] = "select"]
  /\ UNCHANGED <<rowVars, unitFailed, job, row, lock, webVars>>

\* main: the lock is taken, when the job takes one, before anything else.
Begin(p) ==
  /\ pc[p] = "begin"
  /\ job[p] \in Locking => lock = None
  /\ lock' = IF job[p] \in Locking THEN p ELSE lock
  /\ pc' = [pc EXCEPT ![p] = "select"]
  /\ UNCHANGED <<rowVars, unitFailed, job, row, webVars>>

\* `<holder> is already running`: exits non-zero, the table is not touched.
LockHeld(p) ==
  /\ pc[p] = "begin" /\ job[p] \in Locking /\ lock # None
  /\ Exit(p, FALSE)
  /\ UNCHANGED <<rowVars, webVars>>

\* claim, first statement: the newest requested row of this name, if any.
ClaimSelect(p) ==
  /\ pc[p] = "select"
  /\ \/ /\ RequestedFor(job[p]) = {}
        /\ pc' = [pc EXCEPT ![p] = "insert"] /\ row' = row
     \/ \E i \in RequestedFor(job[p]) :
          /\ \A k \in RequestedFor(job[p]) : k <= i
          /\ row' = [row EXCEPT ![p] = i]
          /\ pc' = [pc EXCEPT ![p] = "update"]
  /\ UNCHANGED <<rowVars, unitFailed, job, lock, webVars>>

\* claim, second statement when nobody asked: a row with requested_by NULL.
ClaimInsert(p) ==
  /\ pc[p] = "insert"
  /\ \E i \in Row : InsertRequested(i, job[p]) /\ row' = [row EXCEPT ![p] = i]
  /\ pc' = [pc EXCEPT ![p] = "update"]
  /\ UNCHANGED <<unitFailed, job, lock, webVars>>

\* claim, last statement: running, whatever the row says by now.
ClaimUpdate(p) ==
  /\ pc[p] = "update"
  /\ status' = [status EXCEPT ![row[p]] = "running"]
  /\ pc' = [pc EXCEPT ![p] = "run"]
  /\ UNCHANGED <<jobOf, aged, unitFailed, job, row, lock, webVars>>

\* run_job: the command itself, which succeeds or fails.
RunJob(p) ==
  /\ pc[p] = "run"
  /\ \E outcome \in Terminal : pc' = [pc EXCEPT ![p] = outcome]
  /\ UNCHANGED <<rowVars, unitFailed, job, row, lock, webVars>>

\* cmd_job_run: record the outcome ...
Finish(p) ==
  /\ pc[p] \in Terminal
  /\ FinishRow(row[p], pc[p])
  /\ pc' = [pc EXCEPT ![p] = IF pc[p] = "ok" THEN "exitOk" ELSE "exitFailed"]
  /\ UNCHANGED <<unitFailed, job, row, lock, webVars>>

\* ... and, some time later, be gone: until then the unit is still activating.
Leave(p) ==
  /\ pc[p] \in Exiting
  /\ Exit(p, pc[p] = "exitOk")
  /\ UNCHANGED <<rowVars, webVars>>

\* A signal, the unit's 45 minute limit, a configuration that does not load,
\* or a database error: the process ends where it is.
Kill(p) ==
  /\ "kill" \in Faults /\ pc[p] \notin {"dead"} \cup Exiting
  /\ Exit(p, FALSE)
  /\ UNCHANGED <<rowVars, webVars>>

\* An operator types `daily-epub job run <j>`.
RunByHand(p, j) ==
  /\ pc[p] = "dead"
  /\ pc' = [pc EXCEPT ![p] = "begin"] /\ job' = [job EXCEPT ![p] = j]
  /\ UNCHANGED <<rowVars, unitFailed, row, lock, webVars>>

\* An operator types `systemctl start daily-epub-job@<j>`.
StartByHand(j) ==
  /\ Shell # {} /\ UnitStatus(j) # "activating"
  /\ StartUnit(j)
  /\ UNCHANGED <<rowVars, webVars>>

\* Any other command that lock_holder names: takes the lock and, later, exits.
CommandBegin(c) ==
  /\ lock = None /\ lock' = c
  /\ UNCHANGED <<rowVars, unitFailed, pc, job, row, webVars>>

CommandExit(c) ==
  /\ lock = c /\ lock' = None
  /\ UNCHANGED <<rowVars, unitFailed, pc, job, row, webVars>>

-----------------------------------------------------------------------------
(* The dashboard: start_job, then the job page.                            *)

Idle == /\ wpc' = [w \in Handler |-> "idle"]
        /\ wjob' = [w \in Handler |-> None]
        /\ wrow' = [w \in Handler |-> NoRow]

Reply(w) == /\ wpc' = [wpc EXCEPT ![w] = "idle"]
            /\ wrow' = [wrow EXCEPT ![w] = NoRow]
            /\ wjob' = [wjob EXCEPT ![w] = None]

\* Faulty variant: only a running row counts as active.
CheckRunning(w, j) ==
  /\ wpc[w] = "idle"
  /\ \A i \in Row : jobOf[i] = j => status[i] # "running"
  /\ wpc' = [wpc EXCEPT ![w] = "checked"] /\ wjob' = [wjob EXCEPT ![w] = j]
  /\ UNCHANGED <<rowVars, procVars, wrow>>

\* start_job: no active row for the unit (otherwise 409 and nothing changes).
CheckActive(w, j) ==
  /\ wpc[w] = "idle"
  /\ ActiveForUnit(j) = {}
  /\ wpc' = [wpc EXCEPT ![w] = "checked"] /\ wjob' = [wjob EXCEPT ![w] = j]
  /\ UNCHANGED <<rowVars, procVars, wrow>>

\* At the bound MaxRows the insert is an error, answered with a 500.
RequestJob(w) ==
  /\ wpc[w] = "checked"
  /\ \/ /\ \E i \in Row : InsertRequested(i, wjob[w]) /\ wrow' = [wrow EXCEPT ![w] = i]
        /\ wpc' = [wpc EXCEPT ![w] = "inserted"] /\ wjob' = wjob
     \/ (\A i \in Row : status[i] # "none") /\ Reply(w) /\ UNCHANGED rowVars
  /\ UNCHANGED procVars

RunnerStart(w) ==
  /\ wpc[w] = "inserted"
  /\ StartUnit(wjob[w])
  /\ Reply(w)
  /\ UNCHANGED rowVars

\* systemctl reports an error: the unit was not started, or it was and the
\* 10 s limit cut the answer off.
RunnerError(w) ==
  /\ wpc[w] = "inserted"
  /\ \/ "runner" \in Faults /\ UNCHANGED procVars
     \/ "timeout" \in Faults /\ StartUnit(wjob[w])
  /\ wpc' = [wpc EXCEPT ![w] = "startFailed"]
  /\ UNCHANGED <<rowVars, wjob, wrow>>

StartFailed(w) ==
  /\ wpc[w] = "startFailed"
  /\ FinishRow(wrow[w], "failed")
  /\ Reply(w)
  /\ UNCHANGED procVars

\* show: reads the row; only a requested one can be changed by the page.
ShowRow(w, i) ==
  /\ wpc[w] = "idle" /\ status[i] = "requested"
  /\ wpc' = [wpc EXCEPT ![w] = "show"] /\ wrow' = [wrow EXCEPT ![w] = i]
  /\ wjob' = [wjob EXCEPT ![w] = jobOf[i]]
  /\ UNCHANGED <<rowVars, procVars>>

\* Faulty variant: the grace period alone decides.
ShowAgedOnly(w) ==
  /\ wpc[w] = "show"
  /\ IF aged[wrow[w]]
     THEN wpc' = [wpc EXCEPT ![w] = "expire"] /\ UNCHANGED <<wjob, wrow>>
     ELSE Reply(w)
  /\ UNCHANGED <<rowVars, procVars>>

\* show: asks systemd.  The row read before is what the decision uses.
ShowUnit(w) ==
  /\ wpc[w] = "show"
  /\ IF ExitedUnsuccessfully(wjob[w]) /\ aged[wrow[w]]
     THEN wpc' = [wpc EXCEPT ![w] = "expire"] /\ UNCHANGED <<wjob, wrow>>
     ELSE Reply(w)
  /\ UNCHANGED <<rowVars, procVars>>

\* show: `unit exited before the job started; see the log`.
ShowExpire(w) ==
  /\ wpc[w] = "expire"
  /\ FinishRow(wrow[w], "failed")
  /\ Reply(w)
  /\ UNCHANGED procVars

\* The runner's 10 s limit is below EXIT_GRACE_SECS = 30: a row does not age
\* while the request that inserted it is still waiting for systemctl.
Age(i) ==
  /\ status[i] = "requested" /\ ~aged[i]
  /\ \A w \in Handler : wrow[w] = i => wpc[w] # "inserted"
  /\ aged' = [aged EXCEPT ![i] = TRUE]
  /\ UNCHANGED <<status, jobOf, procVars, webVars>>

\* A request ends where it awaits, and what it wrote stays: its client goes
\* away, a statement fails, or the server stops, which ends all of them.
Dropped(w) ==
  /\ \/ "drop" \in Faults /\ wpc[w] \in {"checked", "inserted", "startFailed"}
     \/ "dropPage" \in Faults /\ wpc[w] \in {"show", "expire"}
  /\ Reply(w)
  /\ UNCHANGED <<rowVars, procVars>>

Reboot ==
  /\ "reboot" \in Faults
  /\ pc' = [p \in Process |-> "dead"] /\ row' = [p \in Process |-> NoRow]
  /\ unitFailed' = [j \in Job |-> FALSE] /\ lock' = None
  /\ job' = [p \in Process |-> IF p \in Job THEN p ELSE None]
  /\ Idle
  /\ UNCHANGED rowVars

-----------------------------------------------------------------------------
ProcessStep(p) ==
  \/ Begin(p) \/ LockHeld(p) \/ ClaimSelect(p) \/ ClaimInsert(p)
  \/ ClaimUpdate(p) \/ RunJob(p) \/ Finish(p) \/ Leave(p)

HandlerStep(w) ==
  \/ RequestJob(w) \/ RunnerStart(w) \/ RunnerError(w) \/ StartFailed(w)
  \/ ShowUnit(w) \/ ShowExpire(w)

Next ==
  \/ \E p \in Process : ProcessStep(p) \/ Kill(p)
  \/ \E p \in Shell, j \in Job : RunByHand(p, j)
  \/ \E j \in Job : StartByHand(j)
  \/ \E c \in Command : CommandBegin(c) \/ CommandExit(c)
  \/ \E w \in Handler : HandlerStep(w) \/ Dropped(w)
  \/ \E w \in Handler, j \in Job : CheckActive(w, j)
  \/ \E w \in Handler, i \in Row : ShowRow(w, i)
  \/ \E i \in Row : Age(i)
  \/ Reboot

Spec == Init /\ [][Next]_vars

\* Fairness: a process and a handler keep running until something ends them;
\* time passes; the job page refreshes itself while its row is active
\* (JobTemplate.refresh), so it is served again and again, between other
\* requests; the other commands end.
Fairness ==
  /\ \A p \in Process : WF_vars(ProcessStep(p))
  /\ \A w \in Handler : WF_vars(HandlerStep(w))
  /\ \A i \in Row : WF_vars(Age(i)) /\ \A w \in Handler : SF_vars(ShowRow(w, i))
  /\ \A c \in Command : WF_vars(CommandExit(c))

FairSpec == Spec /\ Fairness

-----------------------------------------------------------------------------
(* Properties.                                                             *)

PC == {"dead", "begin", "select", "insert", "update", "run"} \cup Terminal \cup Exiting
WebPC == {"idle", "checked", "inserted", "startFailed", "show", "expire"}

TypeOK ==
  /\ status \in [Row -> Status \cup {"none"}]
  /\ jobOf \in [Row -> Job \cup {None}]
  /\ aged \in [Row -> BOOLEAN]
  /\ unitFailed \in [Job -> BOOLEAN]
  /\ pc \in [Process -> PC]
  /\ job \in [Process -> Job \cup {None}]
  /\ row \in [Process -> Row \cup {NoRow}]
  /\ lock \in Process \cup Command \cup {None}
  /\ wpc \in [Handler -> WebPC]
  /\ wjob \in [Handler -> Job \cup {None}]
  /\ wrow \in [Handler -> Row \cup {NoRow}]

\* A process past main's lock step: it may read and write what the lock guards.
Working(p) == pc[p] \notin {"dead", "begin"}
Writer == {p \in Process : Working(p) /\ job[p] \in Locking}

\* "One writer at a time" (lock.rs): no two processes of locking jobs are past
\* the lock step together, nor one beside another command that holds the lock,
\* whatever is killed, restarted or typed by hand.
OneWriter ==
  /\ \A p, q \in Writer : p = q
  /\ lock \in Command => Writer = {}

\* claim's SELECT and UPDATE are two statements, so two processes of one job
\* can pick the same row; for a locking job they never do: a row has at most
\* one process that will write its outcome.
LockedRowOwnedOnce ==
  \A p, q \in Process :
    p # q /\ row[p] = row[q] /\ row[p] # NoRow => job[p] \notin Locking

\* start_job refuses a duplicate (409): a unit never has two active rows.
OneActiveRowPerUnit == \A i, k \in Row : IsActive(i) /\ IsActive(k) /\ jobOf[i] = jobOf[k] => i = k

\* Outcome is "Terminal state of a job": a finished row is never written to
\* again with another status.
TerminalIsFinal == [][\A i \in Row : status[i] \in Terminal => status'[i] = status[i]]_vars

\* The table seen by its readers follows JobLifecycle.
Lifecycle == INSTANCE JobLifecycle
ImplementsLifecycle == Lifecycle!Spec

\* What the 409 message says, "already requested or running": a row that says
\* running has a process that is running it.
RunningRowIsLive ==
  \A i \in Row : status[i] = "running" => \E p \in Process : row[p] = i /\ pc[p] \in {"run"} \cup Terminal

\* A row whose start came while the last process of the unit was on its way out,
\* or whose request was dropped before it asked for the start: nothing runs, and
\* the page never fails the row, because the unit did not fail.
Stranded(i) ==
  /\ status[i] = "requested" /\ UnitStatus(jobOf[i]) = "inactive"
  /\ \A w \in Handler : wrow[w] = i => wpc[w] # "inserted"

\* A row whose process was killed while it ran.
Orphaned(i) == status[i] = "running" /\ \A p \in Process : row[p] # i

\* A request is answered: claimed, or marked failed by the failed start or by
\* the job page, even when processes are killed before they claim it.  Only a
\* stranded one never is.
RequestsResolve ==
  \A i \in Row : status[i] = "requested" ~> status[i] # "requested" \/ Stranded(i)

\* A unit becomes startable again and again: no row blocks start_job for ever
\* but an orphaned or a stranded one.
StartableAgain == \A j \in Job : []<>(\A i \in ActiveForUnit(j) : Orphaned(i) \/ Stranded(i))
=============================================================================
