------------------------------ MODULE Publishing ------------------------------
(***************************************************************************)
(* From curation to the published issue: hygiene against what was already  *)
(* published, the issue number, both EPUB editions, the XTC file, the      *)
(* retention sweep, the issues row, issue_articles and the runs row, with  *)
(* failures and crashes between any two of them.                           *)
(*                                                                         *)
(* One run is alive at a time: `generate` holds the run lock, which is     *)
(* what theorem RunLockExcludes of JobsProofs is about.  Files and rows    *)
(* name the run that wrote them; content[r] is the lineup run r chose.     *)
(***************************************************************************)
EXTENDS Integers, FiniteSets

CONSTANTS
  Article,      \* article ids
  AutoInclude,  \* articles of always_include_feeds
  MaxDate,      \* issue dates are 1..MaxDate
  Retention,    \* retention_days
  XtcKeep,      \* xtc_retention_count
  MaxRuns,      \* bound on the `generate` runs ever started
  Backfill,     \* whether an issue may be generated for a date before a later issue's
  Faults        \* "fail": a stage returns an error; "crash": the process dies; "xtc":
                \* the converter makes no file; "unlink": a file cannot be removed

ASSUME PublishingAssumption ==
  /\ AutoInclude \subseteq Article
  /\ MaxDate \in Nat /\ Retention \in Nat /\ XtcKeep \in Nat /\ MaxRuns \in Nat
  /\ Backfill \in BOOLEAN
  /\ Faults \subseteq {"fail", "crash", "xtc", "unlink"}

Date == 1..MaxDate
Run == 1..MaxRuns
Nothing == 0      \* no file, no row, no run

VARIABLES
  std, x4, xtc,   \* std[d]: the run whose file is published for date d
  number,         \* number[d]: issues.issue_number
  snapshot,       \* snapshot[d]: the run that wrote the issues row (issue_json)
  xtcPath,        \* xtcPath[d]: issues.xtc_path is not NULL
  picks,          \* picks[d]: the run that wrote issue_articles
  report,         \* report[d]: the run whose report is on the issues row
  outcome,        \* outcome[r]: status of the runs row, "none" before it exists
  content,        \* content[r]: the lineup of run r
  dateOf,         \* dateOf[r]: its issue date
  pc,             \* the stage the live run is at, "idle" when there is none
  run,            \* the newest run
  dry,            \* --dry-run
  issueNo,        \* issue.meta.issue_number of the live run
  converted       \* converted[r]: the converter made run r's XTC file

files == <<std, x4, xtc>>
rows == <<number, snapshot, xtcPath, picks, report>>
runVars == <<content, dateOf, run, dry, issueNo, converted>>
vars == <<std, x4, xtc, number, snapshot, xtcPath, picks, report, outcome, content,
          dateOf, pc, run, dry, issueNo, converted>>

NoFile == [d \in Date |-> Nothing]

Init ==
  /\ std = NoFile /\ x4 = NoFile /\ xtc = NoFile
  /\ number = [d \in Date |-> 0]
  /\ snapshot = NoFile /\ picks = NoFile /\ report = NoFile
  /\ xtcPath = [d \in Date |-> FALSE]
  /\ outcome = [r \in Run |-> "none"]
  /\ content = [r \in Run |-> {}]
  /\ dateOf = [r \in Run |-> Nothing]
  /\ pc = "idle" /\ run = Nothing /\ dry = FALSE
  /\ issueNo = 0 /\ converted = [r \in Run |-> FALSE]

date == dateOf[run]
Issues == {d \in Date : snapshot[d] # Nothing}     \* dates with an issues row
First(d) == d \in Issues /\ \A e \in Issues : d <= e   \* MIN(date)

\* Faulty variant: only the issue of the day before is read.
PublishedDayBefore(d) == UNION {content[picks[e]] : e \in {e \in Date : e = d - 1 /\ picks[e] # Nothing}}

PublishedBefore(d) == UNION {content[picks[e]] : e \in {e \in Date : e < d /\ picks[e] # Nothing}}

Goto(stage) == pc' = stage

-----------------------------------------------------------------------------
\* generate: the runs row, then the stages; any date may be asked for.
StartRun(d, isDry) ==
  /\ pc = "idle" /\ run < MaxRuns
  /\ Backfill \/ \A r \in Run : dateOf[r] <= d
  /\ run' = run + 1
  /\ dateOf' = [dateOf EXCEPT ![run'] = d]
  /\ outcome' = [outcome EXCEPT ![run'] = "running"]
  /\ dry' = isDry /\ issueNo' = 0
  /\ Goto("curate")
  /\ UNCHANGED <<files, rows, content, converted>>

\* hygiene: an auto-included article is never excluded, any other is if an issue
\* of an earlier date has it.
Eligible(d) == AutoInclude \cup (Article \ PublishedBefore(d))

\* Hygiene to selection: the stages choose among the eligible articles.
Curate ==
  /\ pc = "curate"
  /\ \E lineup \in SUBSET Eligible(date) : content' = [content EXCEPT ![run] = lineup]
  /\ Goto("number")
  /\ UNCHANGED <<files, rows, outcome, dateOf, run, dry, issueNo, converted>>

\* Faulty variant: issues are counted, not days.
NumberByCount ==
  /\ pc = "number"
  /\ issueNo' = IF date \in Issues THEN number[date] ELSE Cardinality(Issues) + 1
  /\ Goto("build")
  /\ UNCHANGED <<files, rows, outcome, content, dateOf, run, dry, converted>>

\* next_issue_number: the row's own, or days since MIN(date) plus one.
NumberIssue ==
  /\ pc = "number"
  /\ \/ date \in Issues /\ issueNo' = number[date]
     \/ Issues = {} /\ issueNo' = 1
     \/ date \notin Issues /\ \E d \in Issues : First(d) /\ issueNo' = date - d + 1
  /\ Goto("build")
  /\ UNCHANGED <<files, rows, outcome, content, dateOf, run, dry, converted>>

\* Faulty variant: a dry run skips publishing, but not the record.
BuildAndRecord ==
  /\ pc = "build"
  /\ converted' = [converted EXCEPT ![run] = TRUE]
  /\ Goto(IF dry THEN "record" ELSE "std")
  /\ UNCHANGED <<files, rows, outcome, content, dateOf, run, dry, issueNo>>

\* build_all, then the converter, whose failure is only a warning.  A dry run
\* publishes nothing.
Build ==
  /\ pc = "build"
  /\ \/ converted' = [converted EXCEPT ![run] = TRUE]
     \/ "xtc" \in Faults /\ UNCHANGED converted
  /\ Goto(IF dry THEN "finish" ELSE "std")
  /\ UNCHANGED <<files, rows, outcome, content, dateOf, run, dry, issueNo>>

\* publish_epubs: one atomic rename per edition.
PublishStd ==
  /\ pc = "std"
  /\ std' = [std EXCEPT ![date] = run]
  /\ Goto("x4")
  /\ UNCHANGED <<x4, xtc, rows, outcome, runVars>>

PublishX4 ==
  /\ pc = "x4"
  /\ x4' = [x4 EXCEPT ![date] = run]
  /\ Goto("xtc")
  /\ UNCHANGED <<std, xtc, rows, outcome, runVars>>

PublishXtc ==
  /\ pc = "xtc"
  /\ xtc' = IF converted[run] THEN [xtc EXCEPT ![date] = run] ELSE xtc
  /\ Goto("prune")
  /\ UNCHANGED <<std, x4, rows, outcome, runVars>>

\* Faulty variants: a day early, and one file too many.
ExpiredEarly == {d \in Date : d <= date - Retention}
SurplusButOne == {d \in Date : Cardinality({e \in Date : xtc[e] # Nothing /\ e > d}) > XtcKeep}

\* prune: EPUBs by age before the issue's date, XTC files by count.  A file
\* that cannot be removed is only logged, and stays.
Expired == {d \in Date : d < date - Retention}
Surplus == {d \in Date : Cardinality({e \in Date : xtc[e] # Nothing /\ e > d}) >= XtcKeep}
Stuck(due) == IF "unlink" \in Faults THEN SUBSET due ELSE {{}}

Sweep(dir, due) == [d \in Date |-> IF d \in due THEN Nothing ELSE dir[d]]

Prune ==
  /\ pc = "prune"
  /\ \E stuck \in Stuck(Expired) : std' = Sweep(std, Expired \ stuck)
  /\ \E stuck \in Stuck(Expired) : x4' = Sweep(x4, Expired \ stuck)
  /\ \E stuck \in Stuck(Surplus) : xtc' = Sweep(xtc, Surplus \ stuck)
  /\ Goto("record")
  /\ UNCHANGED <<rows, outcome, runVars>>

\* record_issue, first statement: upsert_issue, where a NULL path keeps the old.
UpsertIssue ==
  /\ pc = "record"
  /\ number' = [number EXCEPT ![date] = issueNo]
  /\ snapshot' = [snapshot EXCEPT ![date] = run]
  /\ xtcPath' = [xtcPath EXCEPT ![date] = @ \/ converted[run]]
  /\ Goto("articles")
  /\ UNCHANGED <<files, picks, report, outcome, runVars>>

\* record_issue, second statement: the lineup, replaced in one transaction.
ReplaceArticles ==
  /\ pc = "articles"
  /\ picks' = [picks EXCEPT ![date] = run]
  /\ Goto("finish")
  /\ UNCHANGED <<files, number, snapshot, xtcPath, report, outcome, runVars>>

\* generate: finish_run.  "ok" stands for ok and degraded, which differ in the
\* warnings of best-effort stages only.
FinishRun ==
  /\ pc = "finish"
  /\ outcome' = [outcome EXCEPT ![run] = IF dry THEN "dry_run" ELSE "ok"]
  /\ Goto(IF dry THEN "idle" ELSE "report")
  /\ UNCHANGED <<files, rows, runVars>>

\* generate: the second upsert_issue puts the finished report on the row; it
\* names no path, so COALESCE keeps them.  An error is only logged.
AttachReport ==
  /\ pc = "report"
  /\ \/ report' = [report EXCEPT ![date] = run]
     \/ "fail" \in Faults /\ UNCHANGED report
  /\ Goto("idle")
  /\ UNCHANGED <<files, number, snapshot, xtcPath, picks, outcome, runVars>>

\* run_stages returns an error: the runs row records it.
Fail ==
  /\ "fail" \in Faults /\ pc \notin {"idle", "finish", "report"}
  /\ outcome' = [outcome EXCEPT ![run] = "failed"]
  /\ Goto("idle")
  /\ UNCHANGED <<files, rows, runVars>>

\* The process dies, or finish_run itself fails: nothing records it.
Crash ==
  /\ "crash" \in Faults /\ pc # "idle"
  /\ Goto("idle")
  /\ UNCHANGED <<files, rows, outcome, runVars>>

\* All runs have been made: nothing more happens.
Done == pc = "idle" /\ run = MaxRuns /\ UNCHANGED vars

Next ==
  \/ \E d \in Date, isDry \in BOOLEAN : StartRun(d, isDry)
  \/ Curate \/ NumberIssue \/ Build
  \/ PublishStd \/ PublishX4 \/ PublishXtc \/ Prune
  \/ UpsertIssue \/ ReplaceArticles \/ FinishRun \/ AttachReport
  \/ Fail \/ Crash \/ Done

Spec == Init /\ [][Next]_vars

-----------------------------------------------------------------------------
\* Types of every variable.
TypeOK ==
  /\ {std, x4, xtc, snapshot, picks, report} \subseteq [Date -> Run \cup {Nothing}]
  /\ number \in [Date -> Int]
  /\ xtcPath \in [Date -> BOOLEAN]
  /\ outcome \in [Run -> {"none", "running", "ok", "dry_run", "failed"}]
  /\ content \in [Run -> SUBSET Article]
  /\ dateOf \in [Run -> Date \cup {Nothing}]
  /\ pc \in {"idle", "curate", "number", "build", "std", "x4", "xtc", "prune", "record",
             "articles", "finish", "report"}
  /\ run \in Run \cup {Nothing}
  /\ dry \in BOOLEAN
  /\ issueNo \in Int
  /\ converted \in [Run -> BOOLEAN]
  /\ pc # "idle" => run # Nothing /\ dateOf[run] # Nothing

\* Run r is the last word on its date: later runs of that date were dry.
LastFor(r) == \A s \in Run : s > r /\ dateOf[s] = dateOf[r] => outcome[s] = "dry_run"

\* `ok` on the runs row means what the dashboard reads into it: both editions,
\* the row and the lineup are that run's, unless a later issue's sweep removed
\* an edition; its XTC file is there unless enough newer ones were made
\* (generate, publish_issue, record_issue, prune).
OkMeansPublished ==
  \A r \in Run : outcome[r] = "ok" /\ LastFor(r) =>
    LET d == dateOf[r] IN
    /\ \A edition \in {std, x4} :
         \/ edition[d] = r
         \/ edition[d] = Nothing /\ \E s \in Run : s > r /\ dateOf[s] > d + Retention
    /\ snapshot[d] = r /\ picks[d] = r
    /\ converted[r] =>
         \/ xtc[d] = r /\ xtcPath[d]
         \/ /\ xtc[d] = Nothing
            /\ Cardinality({e \in Date : \E s \in Run :
                              dateOf[s] = e /\ e > d /\ converted[s]}) >= XtcKeep

\* After an `ok` run both directories are within their limits, whatever failed
\* runs before it left behind, if files can be removed (prune, prune_dir,
\* prune_xtc_dir).
RetentionHolds ==
  "unlink" \notin Faults /\ run # Nothing /\ outcome[run] = "ok" =>
    /\ \A d \in Date : d < date - Retention => std[d] = Nothing /\ x4[d] = Nothing
    /\ Cardinality({d \in Date : xtc[d] # Nothing}) <= XtcKeep

\* A file is never older than the row that leads readers to it, and the row
\* never older than the lineup hygiene reads: the standard edition goes out
\* first and the lineup is recorded last, at whatever step a run dies
\* (publish_issue before record_issue).
RowsFollowFiles ==
  \A d \in Date :
    /\ std[d] # Nothing => x4[d] <= std[d] /\ xtc[d] <= std[d] /\ snapshot[d] <= std[d]
    /\ x4[d] # Nothing => xtc[d] <= x4[d] /\ snapshot[d] <= x4[d]
    /\ picks[d] <= snapshot[d] /\ report[d] <= snapshot[d]

\* Numbers count the days since the first issue, from 1, as long as issues are
\* generated in date order, failed runs and regenerations included
\* (next_issue_number).
NumbersFollowDates ==
  \A d, first \in Issues : First(first) => number[d] = d - first + 1

\* What readers rely on: no article appears in two published editions, except
\* those of always_include_feeds ("Article ids already published in some
\* issue -- never repeat them", db.rs).
FilesNeverRepeat ==
  \A d, e \in Date : d # e /\ std[d] # Nothing /\ std[e] # Nothing =>
    content[std[d]] \cap content[std[e]] \subseteq AutoInclude

\* The recorded lineups (issue_articles) implement an archive that never repeats
\* an article (Archive), whatever fails between the steps of a run.
RecordedIssues == [d \in Date |-> IF picks[d] = Nothing THEN {} ELSE content[picks[d]]]
A == INSTANCE Archive WITH issues <- RecordedIssues
ArchiveRefined == A!Spec

\* What hygiene is for: no article is in two recorded lineups unless its feed is
\* always included, over failed, crashed and repeated runs in date order.
LineupsNeverRepeat == A!NoRepeat
=============================================================================
