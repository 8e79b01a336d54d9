-------------------------------- MODULE Imports --------------------------------
(***************************************************************************)
(* Historical rating imports: the `rating_imports` queue, the dashboard    *)
(* form that fills it and then asks for the import-ratings job, and the    *)
(* job itself, on top of the jobs machinery of Jobs.                       *)
(*                                                                         *)
(* Here RunJob of Jobs is no longer one step: the import job loads a batch *)
(* of pending rows, and fetches, rates and records them one at a time,     *)
(* every database statement a step.  It takes no run lock.  `events` is    *)
(* the append-only rating history; an article's verdict is its last event. *)
(***************************************************************************)
EXTENDS Jobs, Sequences

CONSTANTS
  ImportJob,   \* the job import-ratings
  Url,         \* article URLs
  BatchSize,   \* BATCH_SIZE
  MaxImports   \* bound on the rows ever inserted into `rating_imports`

ASSUME ImportsAssumption ==
  /\ ImportJob \in Job \ Locking
  /\ BatchSize \in Nat \ {0}
  /\ MaxImports \in Nat

Import == 1..MaxImports

VARIABLES
  istatus,    \* istatus[i]: the row's status, "none" before it is inserted
  url,        \* url[i]: its URL
  articles,   \* the URLs that have an article
  events,     \* rating events, oldest first: the import rows they came from
  step,       \* step[p]: where the import loop of process p is
  batch,      \* batch[p]: the rows of its batch it has not recorded yet
  verdict,    \* verdict[p]: what it will record for the row at hand
  queued,     \* queued[w]: rows the request inserted and has no answer about yet
  promised,   \* rows of requests answered `the running import will pick them up`
  cutOff,     \* rows of requests that were cut off, and no row inserted since (history)
  asked       \* asked[i]: the last job row a request inserted while i was pending

tableVars == <<istatus, url, articles, events>>
loopVars == <<step, batch, verdict>>
askVars == <<queued, promised, cutOff, asked>>
importVars == <<tableVars, loopVars, askVars>>
allVars == <<vars, importVars>>

ImportInit ==
  /\ Init
  /\ istatus = [i \in Import |-> "none"]
  /\ url = [i \in Import |-> None]
  /\ articles = {}
  /\ events = <<>>
  /\ step = [p \in Process |-> "load"]
  /\ batch = [p \in Process |-> {}]
  /\ verdict = [p \in Process |-> "none"]
  /\ queued = [w \in Handler |-> {}]
  /\ promised = {} /\ cutOff = {}
  /\ asked = [i \in Import |-> NoRow]

-----------------------------------------------------------------------------
(* POST /dashboard/ratings/import.                                         *)

Free == {i \in Import : istatus[i] = "none"}
LowestFree(n) == {i \in Free : Cardinality({k \in Free : k < i}) < n}

\* queue: one pending row for each URL of the form, in one transaction.  (A
\* form with the verdict `slop` is refused by the table's CHECK, and is not
\* modelled.)  Requests are left out that no job row would be free for.
Queue(w, n) ==
  /\ wpc[w] = "idle" /\ queued[w] = {} /\ Cardinality(Free) >= n
  /\ Cardinality({r \in Row : status[r] = "none"}) >= Cardinality(Handler)
  /\ istatus' = [i \in Import |-> IF i \in LowestFree(n) THEN "pending" ELSE istatus[i]]
  /\ \E u \in [LowestFree(n) -> Url] :
       url' = [i \in Import |-> IF i \in LowestFree(n) THEN u[i] ELSE url[i]]
  /\ queued' = [queued EXCEPT ![w] = LowestFree(n)]
  /\ UNCHANGED <<vars, articles, events, loopVars, promised, cutOff, asked>>

\* start_job finds no active row: it goes on to insert one.
StartImport(w) ==
  /\ queued[w] # {} /\ CheckActive(w, ImportJob)
  /\ UNCHANGED importVars

\* The job row is there, and what is pending is its job's to import; or the
\* insert is an error, and the rows stay without one.
RequestImport(w) ==
  /\ RequestJob(w)
  /\ \/ /\ wpc'[w] = "inserted"
        /\ asked' = [i \in Import |-> IF istatus[i] = "pending" THEN wrow'[w] ELSE asked[i]]
        /\ cutOff' = {}
     \/ /\ wpc'[w] # "inserted"
        /\ cutOff' = cutOff \cup queued[w]
        /\ UNCHANGED asked
  /\ queued' = [queued EXCEPT ![w] = {}]
  /\ UNCHANGED <<tableVars, loopVars, promised>>

\* start_job finds an active row: `the running import will pick them up`.
AlreadyActive(w) ==
  /\ wpc[w] = "idle" /\ queued[w] # {}
  /\ ActiveForUnit(ImportJob) # {}
  /\ promised' = promised \cup queued[w]
  /\ queued' = [queued EXCEPT ![w] = {}]
  /\ UNCHANGED <<vars, tableVars, loopVars, cutOff, asked>>

\* The request ends where it awaits: before start_job has read the table, or
\* inside it.  What it queued is committed.
RequestDropped(w) ==
  /\ \/ Dropped(w)
     \/ "drop" \in Faults /\ wpc[w] = "idle" /\ queued[w] # {} /\ UNCHANGED vars
  /\ cutOff' = cutOff \cup queued[w]
  /\ queued' = [queued EXCEPT ![w] = {}]
  /\ UNCHANGED <<tableVars, loopVars, promised, asked>>

-----------------------------------------------------------------------------
(* imports::run.                                                           *)

Loop(p, at) == pc[p] = "run" /\ job[p] = ImportJob /\ step[p] = at
Current(p, i) == i \in batch[p] /\ \A k \in batch[p] : i <= k   \* i is the row at hand
Pending == {i \in Import : istatus[i] = "pending"}

\* Faulty variants: the newest rows first; everything that is not ok.
NewestPending == {i \in Pending : Cardinality({k \in Pending : k > i}) < BatchSize}
NotYetOk ==
  LET rest == Pending \cup {i \in Import : istatus[i] = "failed"}
  IN {i \in rest : Cardinality({k \in rest : k < i}) < BatchSize}

\* pending: the oldest BATCH_SIZE pending rows.
NextBatch == {i \in Pending : Cardinality({k \in Pending : k < i}) < BatchSize}

\* run_with: the next batch; the job ends when there is none.
LoadBatch(p) ==
  /\ Loop(p, "load")
  /\ batch' = [batch EXCEPT ![p] = NextBatch]
  /\ IF NextBatch = {}
     THEN pc' = [pc EXCEPT ![p] = "ok"] /\ UNCHANGED step
     ELSE step' = [step EXCEPT ![p] = "find"] /\ UNCHANGED pc
  /\ UNCHANGED <<rowVars, unitFailed, job, row, lock, webVars, tableVars, verdict, askVars>>

\* process: an article that is known, or can be fetched and stored.
FindArticle(p) ==
  /\ Loop(p, "find")
  /\ \E i \in Import : Current(p, i) /\ articles' = articles \cup {url[i]}
  /\ step' = [step EXCEPT ![p] = "rate"]
  /\ UNCHANGED <<vars, istatus, url, events, batch, verdict, askVars>>

\* process: the page of an unknown article cannot be fetched, or a statement
\* fails; the row will say so.
ProcessFails(p) ==
  /\ \/ Loop(p, "find") /\ \E i \in Import : Current(p, i) /\ url[i] \notin articles
     \/ "kill" \in Faults /\ (Loop(p, "find") \/ Loop(p, "rate"))
  /\ step' = [step EXCEPT ![p] = "record"]
  /\ verdict' = [verdict EXCEPT ![p] = "failed"]
  /\ UNCHANGED <<vars, tableVars, batch, askVars>>

\* process: record_explicit appends the rating event.
RateArticle(p) ==
  /\ Loop(p, "rate")
  /\ \E i \in Import : Current(p, i) /\ events' = Append(events, i)
  /\ step' = [step EXCEPT ![p] = "record"]
  /\ verdict' = [verdict EXCEPT ![p] = "ok"]
  /\ UNCHANGED <<vars, istatus, url, articles, batch, askVars>>

RecordAs(p, i, result) ==
  /\ istatus' = [istatus EXCEPT ![i] = result]
  /\ batch' = [batch EXCEPT ![p] = @ \ {i}]
  /\ step' = [step EXCEPT ![p] = IF batch[p] = {i} THEN "load" ELSE "find"]
  /\ verdict' = [verdict EXCEPT ![p] = "none"]
  /\ UNCHANGED <<vars, url, articles, events, askVars>>

\* Faulty variants: a status the table does not know; a failed row stays
\* pending, to be tried again.
RecordSkipped(p) ==
  /\ Loop(p, "record")
  /\ \E i \in Import : Current(p, i) /\ RecordAs(p, i, IF verdict[p] = "ok" THEN "ok" ELSE "skipped")

RecordOkOnly(p) ==
  /\ Loop(p, "record")
  /\ \E i \in Import : Current(p, i) /\ RecordAs(p, i, IF verdict[p] = "ok" THEN "ok" ELSE "pending")

\* run_with: finish the row, whatever its status is by now; the next one.
Record(p) ==
  /\ Loop(p, "record")
  /\ \E i \in Import : Current(p, i) /\ RecordAs(p, i, verdict[p])

Forget(p) == /\ step' = [step EXCEPT ![p] = "load"]
             /\ batch' = [batch EXCEPT ![p] = {}]
             /\ verdict' = [verdict EXCEPT ![p] = "none"]

\* A database error ends the run, between any two statements: the job fails,
\* what is pending stays pending.
Abort(p) ==
  /\ "kill" \in Faults /\ pc[p] = "run" /\ job[p] = ImportJob
  /\ pc' = [pc EXCEPT ![p] = "failed"]
  /\ Forget(p)
  /\ UNCHANGED <<rowVars, unitFailed, job, row, lock, webVars, tableVars, askVars>>

KillImport(p) == Kill(p) /\ Forget(p) /\ UNCHANGED <<tableVars, askVars>>

\* The machine restarts: loops and requests are gone, the tables stay.
RebootImports ==
  /\ Reboot
  /\ step' = [p \in Process |-> "load"]
  /\ batch' = [p \in Process |-> {}]
  /\ verdict' = [p \in Process |-> "none"]
  /\ cutOff' = cutOff \cup UNION {queued[w] : w \in Handler}
  /\ queued' = [w \in Handler |-> {}]
  /\ UNCHANGED <<tableVars, promised, asked>>

-----------------------------------------------------------------------------
\* A process until it runs the job, and after.
Around(p) ==
  /\ Begin(p) \/ ClaimSelect(p) \/ ClaimInsert(p) \/ ClaimUpdate(p) \/ Finish(p) \/ Leave(p)
  /\ UNCHANGED importVars

ImportLoop(p) ==
  \/ LoadBatch(p) \/ FindArticle(p) \/ ProcessFails(p) \/ RateArticle(p) \/ Record(p)

Respond(w) ==
  \/ StartImport(w) \/ RequestImport(w) \/ AlreadyActive(w)
  \/ (RunnerStart(w) \/ RunnerError(w) \/ StartFailed(w)) /\ UNCHANGED importVars

ImportNext ==
  \/ \E p \in Process : Around(p) \/ ImportLoop(p) \/ Abort(p) \/ KillImport(p)
  \/ \E p \in Shell : RunByHand(p, ImportJob) /\ UNCHANGED importVars
  \/ \E w \in Handler, n \in 1..MaxImports : Queue(w, n)
  \/ \E w \in Handler : Respond(w) \/ RequestDropped(w)
  \/ RebootImports

ImportSpec == ImportInit /\ [][ImportNext]_allVars

\* Fairness: a process and a request go on until something ends them, which may
\* be at any of their steps; a page is fetched or the attempt fails (the HTTP
\* client has a timeout).
ImportFairSpec ==
  /\ ImportSpec
  /\ \A p \in Process : WF_allVars(Around(p)) /\ WF_allVars(ImportLoop(p))
  /\ \A w \in Handler : WF_allVars(Respond(w))

-----------------------------------------------------------------------------
\* Types of the variables Imports adds.
ImportTypeOK ==
  /\ istatus \in [Import -> {"none", "pending", "ok", "failed"}]
  /\ url \in [Import -> Url \cup {None}]
  /\ articles \subseteq Url
  /\ events \in Seq(Import)
  /\ step \in [Process -> {"load", "find", "rate", "record"}]
  /\ batch \in [Process -> SUBSET Import]
  /\ verdict \in [Process -> {"none", "ok", "failed"}]
  /\ queued \in [Handler -> SUBSET Import]
  /\ promised \subseteq Import /\ cutOff \subseteq Import
  /\ asked \in [Import -> Row \cup {NoRow}]

RatedAt(i) == {n \in DOMAIN events : events[n] = i}

\* A process has rated row i and is about to record it.
InHand(i) == \E p \in Process : step[p] = "record" /\ verdict[p] = "ok" /\ Current(p, i)

\* A row that was rated by a run that ended before recording it.
Torn(i) == istatus[i] = "pending" /\ RatedAt(i) # {} /\ ~InHand(i)

\* The history is append-only, so a second event for one row counts.  Only a
\* torn row is rated again: never a recorded one, never a row some process is
\* about to record, though the job takes no lock and requests race.
OnlyTornRatedAgain ==
  [][\A i \in Import : RatedAt(i) # {} /\ RatedAt(i)' # RatedAt(i) => Torn(i)]_allVars

\* Of two imports of one URL the later request decides the article's verdict:
\* its last event comes last, over batches, failures and restarts.
LaterRequestWins ==
  \A i, k \in Import : i < k /\ url[i] = url[k] /\ istatus[i] = "ok" /\ istatus[k] = "ok" =>
    \E n \in RatedAt(k) : \A l \in RatedAt(i) : l < n

\* The job of row r went wrong, and the jobs table and systemd show it: failed,
\* killed while it ran, or requested and never started.
WentWrong(r) ==
  \/ status[r] = "failed" \/ Orphaned(r)
  \/ /\ status[r] = "requested" /\ pc[ImportJob] = "dead"
     /\ \A w \in Handler : wrow[w] = r => wpc[w] # "inserted"

\* A queued URL is imported, or the job of the last row inserted while it was
\* pending went wrong.  If there is no such row, the dashboard promised that a
\* running import would pick it up, or its own request was cut off; the next
\* row that any request inserts is for that URL too.
NothingLostSilently ==
  \A i \in Import : istatus[i] = "pending" ~>
    \/ istatus[i] # "pending"
    \/ asked[i] = NoRow /\ i \in promised \cup cutOff
    \/ asked[i] # NoRow /\ WentWrong(asked[i])

\* `Queued {count} URLs; the running import will pick them up.`: what was
\* promised is imported, or there still is an active job to do it.
PromiseKept ==
  \A i \in promised : istatus[i] = "pending" => ActiveForUnit(ImportJob) # {}
=============================================================================
