--------------------------- MODULE PublishingProofs ---------------------------
(***************************************************************************)
(* Theorems of Publishing, for any articles, dates, limits and faults:     *)
(* types, the order of files and rows, the refinement of Archive, what the *)
(* retention sweep leaves and what a run that says ok has published.       *)
(***************************************************************************)
EXTENDS Publishing, FiniteOrders

USE PublishingAssumption

LEMMA RunFacts ==
  /\ Nothing \notin Run /\ Run \subseteq Nat /\ Date \subseteq Nat
  /\ \A r \in Run : r > 0
BY DEF Run, Date, Nothing

Typed ==
  /\ std \in [Date -> Run \cup {Nothing}] /\ x4 \in [Date -> Run \cup {Nothing}]
  /\ xtc \in [Date -> Run \cup {Nothing}] /\ snapshot \in [Date -> Run \cup {Nothing}]
  /\ picks \in [Date -> Run \cup {Nothing}] /\ report \in [Date -> Run \cup {Nothing}]

LEMMA Started == TypeOK /\ pc # "idle" => run \in Run /\ date \in Date
BY DEF TypeOK, date, Run, Date, Nothing

LEMMA TypeInit == Init => TypeOK
<1> SUFFICES ASSUME Init PROVE TypeOK
  OBVIOUS
<1>1. NoFile \in [Date -> Run \cup {Nothing}]
  BY DEF NoFile
<1>2. {std, x4, xtc, snapshot, picks, report} \subseteq [Date -> Run \cup {Nothing}]
  BY <1>1 DEF Init
<1>3. xtcPath \in [Date -> BOOLEAN] /\ converted \in [Run -> BOOLEAN]
  BY Zenon DEF Init
<1>4. number \in [Date -> Int] /\ outcome \in [Run -> {"none", "running", "ok", "dry_run", "failed"}]
  BY DEF Init
<1>5. content \in [Run -> SUBSET Article] /\ dateOf \in [Run -> Date \cup {Nothing}]
  BY DEF Init
<1>6. pc = "idle" /\ run = Nothing /\ issueNo \in Int
  BY DEF Init
<1>7. dry \in BOOLEAN
  BY Zenon DEF Init
<1> QED BY <1>2, <1>3, <1>4, <1>5, <1>6, <1>7 DEF TypeOK

LEMMA TypeStep == TypeOK /\ [Next]_vars => TypeOK'
<1> SUFFICES ASSUME TypeOK, [Next]_vars PROVE TypeOK'
  OBVIOUS
<1> USE DEF Goto, files, rows, runVars
<1>0. pc # "idle" => run \in Run /\ date \in Date
  BY Started
<1>1. ASSUME NEW d \in Date, NEW isDry \in BOOLEAN, StartRun(d, isDry) PROVE TypeOK'
  <2>1. run' \in Run /\ run' # Nothing /\ d # Nothing
    BY <1>1 DEF StartRun, TypeOK, Run, Date, Nothing
  <2>2. dateOf'[run'] = d
    BY <1>1, <2>1 DEF StartRun, TypeOK
  <2> QED BY <1>1, <2>1, <2>2 DEF StartRun, TypeOK
<1>2. CASE Curate
  <2>1. \A lineup \in SUBSET Eligible(date) : lineup \in SUBSET Article
    BY DEF Eligible, PublishedBefore
  <2> QED BY <1>0, <1>2, <2>1 DEF Curate, TypeOK, date
<1>3. CASE NumberIssue
  <2>1. date \in Int
    BY <1>0, <1>3 DEF NumberIssue, Date
  <2>2. Issues \subseteq Int
    BY DEF Issues, Date
  <2> QED BY <1>0, <1>3, <2>1, <2>2 DEF NumberIssue, TypeOK
<1>4. CASE Build
  BY <1>0, <1>4 DEF Build, TypeOK
<1>5. CASE PublishStd
  BY <1>0, <1>5 DEF PublishStd, TypeOK
<1>6. CASE PublishX4
  BY <1>0, <1>6 DEF PublishX4, TypeOK
<1>7. CASE PublishXtc
  BY <1>0, <1>7 DEF PublishXtc, TypeOK
<1>8. CASE Prune
  BY <1>0, <1>8 DEF Prune, TypeOK, Sweep
<1>9. CASE UpsertIssue
  BY <1>0, <1>9 DEF UpsertIssue, TypeOK
<1>10. CASE ReplaceArticles
  BY <1>0, <1>10 DEF ReplaceArticles, TypeOK
<1>11. CASE FinishRun
  BY <1>0, <1>11 DEF FinishRun, TypeOK
<1>12. CASE AttachReport
  BY <1>0, <1>12 DEF AttachReport, TypeOK
<1>13. CASE Fail
  BY <1>0, <1>13 DEF Fail, TypeOK
<1>14. CASE Crash
  BY <1>0, <1>14 DEF Crash, TypeOK
<1>15. CASE Done \/ UNCHANGED vars
  BY <1>15 DEF Done, vars, TypeOK
<1> QED BY <1>1, <1>2, <1>3, <1>4, <1>5, <1>6, <1>7, <1>8, <1>9, <1>10, <1>11, <1>12,
          <1>13, <1>14, <1>15 DEF Next

\* Every reachable state has the types of TypeOK.
THEOREM TypeCorrect == Spec => []TypeOK
<1>1. Init => TypeOK
  BY TypeInit
<1>2. TypeOK /\ [Next]_vars => TypeOK'
  BY TypeStep
<1> QED BY <1>1, <1>2, PTL DEF Spec

-----------------------------------------------------------------------------
(* Files and rows.                                                         *)

\* Which files and rows the live run has written at each stage.
Progress ==
  /\ \A r \in Run : r > run => dateOf[r] = Nothing
  /\ \A d \in Date :
       /\ std[d] <= run /\ x4[d] <= run /\ xtc[d] <= run
       /\ snapshot[d] <= run /\ picks[d] <= run /\ report[d] <= run
       /\ snapshot[d] # Nothing => dateOf[snapshot[d]] = d
       /\ picks[d] # Nothing => dateOf[picks[d]] = d
  /\ pc \in {"std", "x4", "xtc", "prune", "record", "articles", "report"} => ~dry
  /\ pc \in {"x4", "xtc", "prune", "record"} => std[date] \in {run, Nothing}
  /\ pc \in {"xtc", "prune", "record"} => x4[date] \in {run, Nothing}
  /\ pc \in {"articles", "report"} \/ (pc = "finish" /\ ~dry) => snapshot[date] = run
  /\ pc \notin {"idle", "finish", "report"} => picks[date] # run

FilesInv == TypeOK /\ Progress /\ RowsFollowFiles

LEMMA FilesInit == Init => FilesInv
<1> SUFFICES ASSUME Init PROVE FilesInv
  OBVIOUS
<1>1. TypeOK
  BY TypeInit
<1>2. \A d \in Date : NoFile[d] = 0
  BY DEF NoFile, Nothing
<1>3. Progress
  BY <1>2, RunFacts DEF Init, Progress, Nothing
<1>4. RowsFollowFiles
  BY <1>2 DEF Init, RowsFollowFiles, Nothing
<1> QED BY <1>1, <1>3, <1>4 DEF FilesInv

LEMMA FilesStep == FilesInv /\ [Next]_vars => FilesInv'
<1> SUFFICES ASSUME FilesInv, [Next]_vars PROVE (Progress /\ RowsFollowFiles)'
  BY TypeStep DEF FilesInv
<1> USE RunFacts DEF FilesInv, Goto, files, rows, runVars, Nothing
<1>0. pc # "idle" => run \in Run /\ date \in Date
  BY Started
<1>n. /\ run \in Nat
      /\ \A d \in Date : /\ std[d] \in Nat /\ x4[d] \in Nat /\ xtc[d] \in Nat
                        /\ snapshot[d] \in Nat /\ picks[d] \in Nat /\ report[d] \in Nat
  <2>1. Run \cup {Nothing} \subseteq Nat
    OBVIOUS
  <2>2. Typed /\ run \in Run \cup {Nothing}
    BY DEF TypeOK, Typed
  <2> QED BY <2>1, <2>2 DEF Typed
<1>1. ASSUME NEW d \in Date, NEW isDry \in BOOLEAN, StartRun(d, isDry)
      PROVE  (Progress /\ RowsFollowFiles)'
  <2>1. run' = run + 1 /\ run' \in Run /\ d # Nothing
    <3>1. run < MaxRuns /\ run' = run + 1
      BY <1>1 DEF StartRun
    <3> QED BY <1>n, <3>1 DEF Run, Date
  <2>2. \A r \in Run : dateOf'[r] = IF r = run' THEN d ELSE dateOf[r]
    BY <1>1, <2>1 DEF StartRun, TypeOK
  <2>3. \A r \in Run : r <= run => dateOf'[r] = dateOf[r]
    BY <1>n, <2>1, <2>2, RunFacts
  <2>4. \A r \in Run : r > run' => dateOf'[r] = Nothing
    BY <1>n, <2>1, <2>2, RunFacts DEF Progress
  <2>5. \A e \in Date : /\ snapshot[e] # Nothing => dateOf'[snapshot[e]] = e
                        /\ picks[e] # Nothing => dateOf'[picks[e]] = e
    BY <1>n, <2>3 DEF Progress, TypeOK
  <2>6. \A e \in Date : /\ std[e] <= run' /\ x4[e] <= run' /\ xtc[e] <= run'
                        /\ snapshot[e] <= run' /\ picks[e] <= run' /\ report[e] <= run'
                        /\ picks[e] # run'
    BY <1>n, <2>1 DEF Progress
  <2>7. UNCHANGED <<files, rows>> /\ pc' = "curate" /\ date' = d /\ d \in Date
    BY <1>1, <2>1, <2>2 DEF StartRun, date
  <2>8. Progress'
    BY <2>4, <2>5, <2>6, <2>7 DEF Progress
  <2> QED BY <2>7, <2>8 DEF RowsFollowFiles
<1>2. CASE Curate \/ NumberIssue \/ Build
  BY <1>0, <1>n, <1>2 DEF Curate, NumberIssue, Build, TypeOK, Progress, RowsFollowFiles, date
<1>3. CASE PublishStd
  BY <1>0, <1>n, <1>3 DEF PublishStd, TypeOK, Progress, RowsFollowFiles, date
<1>4. CASE PublishX4
  BY <1>0, <1>n, <1>4 DEF PublishX4, TypeOK, Progress, RowsFollowFiles, date
<1>5. CASE PublishXtc
  BY <1>0, <1>n, <1>5 DEF PublishXtc, TypeOK, Progress, RowsFollowFiles, date
<1>6. CASE Prune
  <2>1. \A d \in Date : /\ std'[d] \in {std[d], Nothing} /\ x4'[d] \in {x4[d], Nothing}
                        /\ xtc'[d] \in {xtc[d], Nothing}
    BY <1>6 DEF Prune, Sweep
  <2>2. UNCHANGED <<snapshot, picks, report, dateOf, run, dry>> /\ date' = date
        /\ pc = "prune" /\ pc' = "record"
    BY <1>6 DEF Prune, date
  <2>3. RowsFollowFiles'
    BY <1>n, <2>1, <2>2 DEF RowsFollowFiles
  <2>4. date \in Date
    BY <1>0, <2>2
  <2>5. \A d \in Date : std'[d] <= run /\ x4'[d] <= run /\ xtc'[d] <= run
    BY <1>n, <2>1 DEF Progress
  <2>6. std'[date] \in {run, Nothing} /\ x4'[date] \in {run, Nothing} /\ ~dry /\ picks[date] # run
    BY <2>1, <2>2, <2>4 DEF Progress
  <2>7. Progress'
    BY <2>2, <2>5, <2>6 DEF Progress
  <2> QED BY <2>3, <2>7
<1>7. CASE UpsertIssue
  BY <1>0, <1>n, <1>7 DEF UpsertIssue, TypeOK, Progress, RowsFollowFiles, date
<1>8. CASE ReplaceArticles
  BY <1>0, <1>n, <1>8 DEF ReplaceArticles, TypeOK, Progress, RowsFollowFiles, date
<1>9. CASE FinishRun
  BY <1>0, <1>n, <1>9 DEF FinishRun, TypeOK, Progress, RowsFollowFiles, date
<1>10. CASE AttachReport
  BY <1>0, <1>n, <1>10 DEF AttachReport, TypeOK, Progress, RowsFollowFiles, date
<1>11. CASE Fail \/ Crash
  BY <1>0, <1>n, <1>11 DEF Fail, Crash, TypeOK, Progress, RowsFollowFiles, date
<1>12. CASE Done \/ UNCHANGED vars
  BY <1>12 DEF Done, vars, Progress, RowsFollowFiles, date
<1> QED BY <1>1, <1>2, <1>3, <1>4, <1>5, <1>6, <1>7, <1>8, <1>9, <1>10, <1>11, <1>12 DEF Next

\* A file is never older than the row that leads to it.
THEOREM RowsFollowFilesAlways == Spec => []RowsFollowFiles
<1>1. Init => FilesInv
  BY FilesInit
<1>2. FilesInv /\ [Next]_vars => FilesInv'
  BY FilesStep
<1>3. FilesInv => RowsFollowFiles
  BY DEF FilesInv
<1> QED BY <1>1, <1>2, <1>3, PTL DEF Spec

LEMMA FilesAlways == Spec => []FilesInv
<1> QED BY FilesInit, FilesStep, PTL DEF Spec

-----------------------------------------------------------------------------
(* The archive, when issues are generated in date order.                   *)

\* No run is for a later date than the newest run's, and once chosen the live
\* run's lineup is eligible against what is recorded.
InOrder ==
  /\ run # Nothing => \A r \in Run : dateOf[r] <= date
  /\ pc \in {"number", "build", "std", "x4", "xtc", "prune", "record", "articles"}
       => content[run] \subseteq Eligible(date)

LEMMA OrderInit == Init => InOrder
BY DEF Init, InOrder

LEMMA OrderStep ==
  ASSUME Backfill = FALSE, FilesInv, InOrder, [Next]_vars
  PROVE  InOrder'
<1> USE DEF FilesInv, Goto, files, rows, runVars
<1>0. pc # "idle" => run \in Run /\ date \in Date
  BY Started
<1>1. ASSUME NEW d \in Date, NEW isDry \in BOOLEAN, StartRun(d, isDry) PROVE InOrder'
  <2>1. run' \in Run /\ pc' = "curate" /\ \A r \in Run : dateOf[r] <= d
    <3>1. run < MaxRuns /\ run' = run + 1 /\ run \in Nat
      BY <1>1 DEF StartRun, TypeOK, Run, Nothing
    <3> QED BY <1>1, <3>1 DEF StartRun, Run
  <2>2. date' = d /\ \A r \in Run : dateOf'[r] = IF r = run' THEN d ELSE dateOf[r]
    BY <1>1, <2>1 DEF StartRun, TypeOK, date
  <2> QED BY <2>1, <2>2 DEF InOrder, Date
<1>2. CASE Curate
  <2>1. \A e \in Date : e < date /\ picks[e] # Nothing => picks[e] \in Run /\ picks[e] # run
    BY <1>0, <1>2 DEF Curate, TypeOK, Progress, date, Date
  <2>2. \A e \in Date : e < date /\ picks[e] # Nothing => content'[picks[e]] = content[picks[e]]
    BY <1>2, <2>1 DEF Curate, TypeOK
  <2>3. UNCHANGED <<run, dateOf, picks, date>>
    BY <1>2 DEF Curate, date
  <2>4. PublishedBefore(date)' = PublishedBefore(date)
    BY <2>2, <2>3 DEF PublishedBefore
  <2>5. content'[run] \subseteq Eligible(date)
    BY <1>0, <1>2 DEF Curate, TypeOK
  <2> QED BY <2>3, <2>4, <2>5 DEF InOrder, Eligible
<1>3. CASE NumberIssue \/ Build \/ PublishStd \/ PublishX4 \/ PublishXtc \/ Prune \/ UpsertIssue
  <2>1. UNCHANGED <<picks, content, run, dateOf>>
    BY <1>3 DEF NumberIssue, Build, PublishStd, PublishX4, PublishXtc, Prune, UpsertIssue
  <2>2. pc \in {"number", "build", "std", "x4", "xtc", "prune", "record"}
    BY <1>3 DEF NumberIssue, Build, PublishStd, PublishX4, PublishXtc, Prune, UpsertIssue
  <2> QED BY <2>1, <2>2 DEF InOrder, Eligible, PublishedBefore, date
<1>4. CASE ReplaceArticles \/ FinishRun \/ AttachReport \/ Fail \/ Crash
  <2>1. UNCHANGED <<run, dateOf>> /\ pc' \in {"finish", "report", "idle"}
    BY <1>4 DEF ReplaceArticles, FinishRun, AttachReport, Fail, Crash
  <2> QED BY <2>1 DEF InOrder, date
<1>5. CASE Done \/ UNCHANGED vars
  BY <1>5 DEF Done, vars, InOrder, Eligible, PublishedBefore, date
<1> QED BY <1>1, <1>2, <1>3, <1>4, <1>5 DEF Next

LEMMA RecordedBefore ==
  ASSUME NEW d \in Date
  PROVE  UNION {RecordedIssues[e] : e \in {e \in Date : e < d}} = PublishedBefore(d)
BY DEF RecordedIssues, PublishedBefore

LEMMA RecordingStep ==
  ASSUME FilesInv, InOrder, ReplaceArticles
  PROVE  /\ date \in Date /\ content[run] \subseteq Eligible(date)
         /\ \A e \in Date : e > date => RecordedIssues[e] = {}
         /\ RecordedIssues' = [RecordedIssues EXCEPT ![date] = content[run]]
<1> USE DEF FilesInv, Goto
<1>1. pc = "articles" /\ run \in Run /\ date \in Date
  BY Started DEF ReplaceArticles
<1>2. run # Nothing /\ content[run] \subseteq Eligible(date)
  BY <1>1, RunFacts DEF InOrder
<1>3. ASSUME NEW e \in Date, e > date PROVE RecordedIssues[e] = {}
  <2>1. picks[e] # Nothing => picks[e] \in Run /\ dateOf[picks[e]] = e
    BY DEF TypeOK, Progress
  <2>2. picks[e] # Nothing => e <= date
    BY <1>2, <2>1 DEF InOrder
  <2> QED BY <1>1, <1>3, <2>2 DEF RecordedIssues, Date
<1>4. RecordedIssues' = [RecordedIssues EXCEPT ![date] = content[run]]
  <2>1. content' = content /\ picks' = [picks EXCEPT ![date] = run] /\ picks \in [Date -> Run \cup {Nothing}]
    BY DEF ReplaceArticles, runVars, TypeOK
  <2> QED BY <1>1, <1>2, <2>1 DEF RecordedIssues
<1> QED BY <1>1, <1>2, <1>3, <1>4

\* Every other step leaves the record alone.
LEMMA RecordedStutters ==
  ASSUME FilesInv, [Next]_vars, ~ReplaceArticles
  PROVE  RecordedIssues' = RecordedIssues
<1> USE DEF FilesInv, rows, runVars, files
<1>1. CASE Curate
  <2>1. run \in Run /\ date \in Date
    BY <1>1, Started DEF Curate
  <2>2. ASSUME NEW e \in Date, picks[e] # Nothing PROVE picks[e] \in Run /\ picks[e] # run
    BY <1>1, <2>1, <2>2 DEF Curate, TypeOK, Progress, date
  <2>3. \A e \in Date : picks[e] # Nothing => content'[picks[e]] = content[picks[e]]
    BY <1>1, <2>1, <2>2 DEF Curate, TypeOK
  <2> QED BY <1>1, <2>3 DEF Curate, RecordedIssues
<1>2. CASE ~Curate
  <2>1. UNCHANGED <<picks, content>>
    BY <1>2 DEF Next, vars, StartRun, NumberIssue, Build, PublishStd, PublishX4, PublishXtc,
                Prune, UpsertIssue, FinishRun, AttachReport, Fail, Crash, Done
  <2> QED BY <2>1 DEF RecordedIssues
<1> QED BY <1>1, <1>2

\* In date order, with any failures, crashes and repeated runs, the recorded
\* lineups implement an archive that never repeats an article.
THEOREM ArchiveIsRefined ==
  ASSUME Backfill = FALSE
  PROVE  Spec => ArchiveRefined
<1>1. Init => A!Init
  BY DEF Init, A!Init, A!Date, Date, NoFile, Nothing, RecordedIssues
<1>2. ASSUME FilesInv, InOrder, [Next]_vars PROVE A!Next \/ UNCHANGED RecordedIssues
  <2>1. CASE ReplaceArticles
    <3>1. date \in A!Date /\ content[run] \in SUBSET (AutoInclude \cup (Article \ A!Before(date)))
      BY <1>2, <2>1, RecordingStep, RecordedBefore
         DEF A!Date, Date, A!Before, RecordedIssues, Eligible
    <3>2. PICK d \in A!Date : d = date
      BY <3>1
    <3>3. A!Publish(d)
      BY <1>2, <2>1, <3>1, <3>2, RecordingStep DEF A!Publish, A!Date, Date
    <3> QED BY <3>3 DEF A!Next
  <2> QED BY <1>2, <2>1, RecordedStutters
<1>3. FilesInv /\ InOrder /\ [Next]_vars => [A!Next]_RecordedIssues
  BY <1>2
<1>4. FilesInv /\ InOrder /\ [Next]_vars => InOrder'
  BY OrderStep
<1>5. Spec => []InOrder
  BY <1>4, OrderInit, FilesAlways, PTL DEF Spec
<1>6. Spec => A!Init /\ [][A!Next]_RecordedIssues
  BY <1>1, <1>3, <1>5, FilesAlways, PTL DEF Spec
<1> QED BY <1>6 DEF ArchiveRefined, A!Spec

LEMMA NoRepeatStep ==
  ASSUME FilesInv, InOrder, [Next]_vars, LineupsNeverRepeat
  PROVE  LineupsNeverRepeat'
<1> USE DEF LineupsNeverRepeat, A!NoRepeat, A!Date, Date
<1>0. \A d, e \in Date : d # e => RecordedIssues[d] \cap RecordedIssues[e] \subseteq AutoInclude
  BY DEF RecordedIssues
<1>1. \A d, e \in Date : d # e => RecordedIssues'[d] \cap RecordedIssues'[e] \subseteq AutoInclude
  <2>1. CASE ReplaceArticles
    <3>1. /\ \A e \in Date : e > date => RecordedIssues'[e] = {}
          /\ \A e \in Date : e # date => RecordedIssues'[e] = RecordedIssues[e]
          /\ RecordedIssues'[date] = content[run] /\ date \in Date
      <4>1. RecordedIssues = [d \in Date |-> RecordedIssues[d]]
        BY DEF RecordedIssues
      <4> HIDE DEF Date
      <4>2. /\ date \in Date /\ \A e \in Date : e > date => RecordedIssues[e] = {}
            /\ RecordedIssues' = [RecordedIssues EXCEPT ![date] = content[run]]
        BY <2>1, RecordingStep
      <4>3. \A e \in Date : e > date => e # date
        BY <4>2, RunFacts
      <4> QED BY <4>1, <4>2, <4>3
    <3>2. \A e \in Date : e < date => content[run] \cap RecordedIssues[e] \subseteq AutoInclude
      BY <2>1, <3>1, RecordingStep, RecordedBefore DEF Eligible
    <3>3. ASSUME NEW e \in Date, e # date
          PROVE  RecordedIssues'[date] \cap RecordedIssues'[e] \subseteq AutoInclude
      <4>1. CASE e > date
        BY <3>1, <4>1
      <4>2. CASE e < date
        BY <3>1, <3>2, <4>2
      <4> QED BY <3>1, <3>3, <4>1, <4>2
    <3>4. ASSUME NEW d \in Date, NEW e \in Date, d # e, d # date, e # date
          PROVE  RecordedIssues'[d] \cap RecordedIssues'[e] \subseteq AutoInclude
      BY <1>0, <3>1, <3>4
    <3> QED BY <3>3, <3>4
  <2> QED BY <1>0, <2>1, RecordedStutters
<1> QED BY <1>1 DEF RecordedIssues

\* In date order no article is in two recorded lineups unless it is
\* auto-included.
THEOREM NoRepeats ==
  ASSUME Backfill = FALSE
  PROVE  Spec => []LineupsNeverRepeat
<1>1. Init => LineupsNeverRepeat
  BY DEF Init, LineupsNeverRepeat, A!NoRepeat, A!Date, Date, NoFile, Nothing, RecordedIssues
<1>2. FilesInv /\ InOrder /\ [Next]_vars => InOrder'
  BY OrderStep
<1>3. FilesInv /\ InOrder /\ [Next]_vars /\ LineupsNeverRepeat => LineupsNeverRepeat'
  BY NoRepeatStep
<1> QED BY <1>1, <1>2, <1>3, OrderInit, FilesAlways, PTL DEF Spec

-----------------------------------------------------------------------------
(* Issue numbers.                                                          *)

\* The number the live run will record is still the one the table calls for.
Numbered ==
  pc \in {"build", "std", "x4", "xtc", "prune", "record"} =>
    \/ date \in Issues /\ issueNo = number[date]
    \/ Issues = {} /\ issueNo = 1
    \/ date \notin Issues /\ \E d \in Issues : First(d) /\ issueNo = date - d + 1

LEMMA IssuesNotLater ==
  ASSUME FilesInv, InOrder, NEW d \in Issues
  PROVE  run # Nothing => d <= date
BY DEF FilesInv, TypeOK, Progress, InOrder, Issues

LEMMA NumbersStep ==
  ASSUME FilesInv, InOrder, [Next]_vars, Numbered, NumbersFollowDates
  PROVE  (Numbered /\ NumbersFollowDates)'
<1> USE DEF Goto, files, rows, runVars
<1>0. pc # "idle" => run \in Run /\ run # Nothing /\ date \in Date
  BY Started, RunFacts DEF FilesInv
<1>1. ASSUME NEW d \in Date, NEW isDry \in BOOLEAN, StartRun(d, isDry)
      PROVE  (Numbered /\ NumbersFollowDates)'
  BY <1>1 DEF StartRun, Numbered, NumbersFollowDates, Issues, First
<1>2. CASE NumberIssue
  BY <1>2 DEF NumberIssue, Numbered, NumbersFollowDates, Issues, First, date
<1>3. CASE UpsertIssue
  <2>1. /\ pc = "record" /\ pc' = "articles" /\ date \in Date /\ date # Nothing
        /\ Issues' = Issues \cup {date} /\ number' = [number EXCEPT ![date] = issueNo]
    BY <1>0, <1>3, RunFacts DEF UpsertIssue, Issues, FilesInv, TypeOK, Date, Nothing
  <2>2. \A d \in Issues : d <= date /\ d \in Date
    BY <1>0, <2>1, IssuesNotLater DEF Issues
  <2>3. \A d \in Date : number'[d] = IF d = date THEN issueNo ELSE number[d]
    BY <2>1 DEF FilesInv, TypeOK
  <2>4. ASSUME NEW d \in Issues', NEW first \in Issues', First(first)'
        PROVE  number'[d] = d - first + 1
    <3>1. \A e \in Issues' : first <= e
      BY <2>4 DEF First
    <3>2. CASE Issues = {}
      BY <2>1, <2>3, <3>2 DEF Numbered, Date
    <3>3. CASE Issues # {}
      <4>1. PICK some \in Issues : TRUE
        BY <3>3
      <4>2. first \in Issues /\ First(first)
        BY <2>1, <2>2, <3>1, <4>1 DEF First, Date
      <4>3. CASE d \in Issues
        BY <2>1, <2>2, <2>3, <4>2, <4>3 DEF Numbered, NumbersFollowDates
      <4>4. CASE d = date /\ date \notin Issues
        <5>1. PICK e \in Issues : First(e) /\ issueNo = date - e + 1
          BY <2>1, <4>2, <4>4 DEF Numbered
        <5>2. e = first
          BY <2>2, <4>2, <5>1 DEF First, Date
        <5> QED BY <2>1, <2>3, <4>4, <5>1, <5>2
      <4> QED BY <2>1, <4>3, <4>4
    <3> QED BY <3>2, <3>3
  <2> QED BY <2>1, <2>4 DEF Numbered, NumbersFollowDates
<1>4. CASE Curate \/ Build \/ PublishStd \/ PublishX4 \/ PublishXtc \/ Prune
           \/ ReplaceArticles \/ FinishRun \/ AttachReport \/ Fail \/ Crash
  <2>1. UNCHANGED <<snapshot, number, run, dateOf, issueNo>>
    BY <1>4 DEF Curate, Build, PublishStd, PublishX4, PublishXtc, Prune, ReplaceArticles,
                FinishRun, AttachReport, Fail, Crash
  <2>2. pc' \in {"build", "std", "x4", "xtc", "prune", "record"}
          => pc \in {"build", "std", "x4", "xtc", "prune", "record"}
    BY <1>4 DEF Curate, Build, PublishStd, PublishX4, PublishXtc, Prune, ReplaceArticles,
                FinishRun, AttachReport, Fail, Crash
  <2> QED BY <2>1, <2>2 DEF Numbered, NumbersFollowDates, Issues, First, date
<1>5. CASE Done \/ UNCHANGED vars
  BY <1>5 DEF Done, vars, Numbered, NumbersFollowDates, Issues, First, date
<1> QED BY <1>1, <1>2, <1>3, <1>4, <1>5 DEF Next

\* In date order the number of an issue is its day since the first issue,
\* counted from one, whatever runs failed, crashed or were repeated.
THEOREM NumbersAreDays ==
  ASSUME Backfill = FALSE
  PROVE  Spec => []NumbersFollowDates
<1>1. Init => Numbered /\ NumbersFollowDates
  BY DEF Init, Numbered, NumbersFollowDates, Issues, NoFile
<1>2. FilesInv /\ InOrder /\ [Next]_vars => InOrder'
  BY OrderStep
<1>3. FilesInv /\ InOrder /\ [Next]_vars /\ (Numbered /\ NumbersFollowDates)
        => (Numbered /\ NumbersFollowDates)'
  BY NumbersStep
<1> QED BY <1>1, <1>2, <1>3, OrderInit, FilesAlways, PTL DEF Spec

-----------------------------------------------------------------------------
(* What an `ok` run has left behind.                                       *)

\* A live run is "running" until it finishes; a run that was never started has
\* no date.
Standing ==
  /\ pc \notin {"idle", "report"} => outcome[run] = "running"
  /\ pc = "report" => outcome[run] = "ok"
  /\ \A r \in Run : outcome[r] # "none" => r <= run /\ dateOf[r] # Nothing

LEMMA StandingInit == Init => Standing
BY DEF Init, Standing

LEMMA StandingStep == FilesInv /\ Standing /\ [Next]_vars => Standing'
<1> SUFFICES ASSUME FilesInv, Standing, [Next]_vars PROVE Standing'
  OBVIOUS
<1> USE RunFacts DEF FilesInv, Goto, files, rows, runVars, Nothing
<1>0. (pc # "idle" => run \in Run /\ date \in Date) /\ run \in Nat
  <2>1. run \in Run \cup {Nothing}
    BY DEF TypeOK
  <2> QED BY <2>1, Started
<1>1. ASSUME NEW d \in Date, NEW isDry \in BOOLEAN, StartRun(d, isDry) PROVE Standing'
  <2>1. run' = run + 1 /\ run' \in Run /\ d # Nothing
    <3>1. run < MaxRuns /\ run' = run + 1
      BY <1>1 DEF StartRun
    <3> QED BY <1>0, <3>1 DEF Run, Date
  <2>2. \A r \in Run : /\ dateOf'[r] = IF r = run' THEN d ELSE dateOf[r]
                       /\ outcome'[r] = IF r = run' THEN "running" ELSE outcome[r]
    BY <1>1, <2>1 DEF StartRun, TypeOK
  <2>3. pc' = "curate"
    BY <1>1 DEF StartRun
  <2> QED BY <1>0, <2>1, <2>2, <2>3 DEF Standing
<1>2. CASE Curate \/ NumberIssue \/ Build \/ PublishStd \/ PublishX4 \/ PublishXtc \/ Prune
           \/ UpsertIssue \/ ReplaceArticles
  <2>1. UNCHANGED <<outcome, run, dateOf>> /\ pc \notin {"idle", "report"} /\ pc' \notin {"idle", "report"}
    BY <1>2 DEF Curate, NumberIssue, Build, PublishStd, PublishX4, PublishXtc, Prune, UpsertIssue,
                ReplaceArticles
  <2> QED BY <2>1 DEF Standing
<1>3. CASE FinishRun
  BY <1>0, <1>3 DEF FinishRun, Standing, TypeOK
<1>4. CASE AttachReport
  BY <1>4 DEF AttachReport, Standing
<1>5. CASE Fail
  BY <1>0, <1>5 DEF Fail, Standing, TypeOK
<1>6. CASE Crash
  BY <1>6 DEF Crash, Standing
<1>7. CASE Done \/ UNCHANGED vars
  BY <1>7 DEF Done, vars, Standing
<1> QED BY <1>1, <1>2, <1>3, <1>4, <1>5, <1>6, <1>7 DEF Next

StandingInv == FilesInv /\ Standing

LEMMA StandingAlways == Spec => []StandingInv
<1>1. Init => StandingInv
  BY FilesInit, StandingInit DEF StandingInv
<1>2. StandingInv /\ [Next]_vars => StandingInv'
  BY FilesStep, StandingStep DEF StandingInv
<1> QED BY <1>1, <1>2, PTL DEF Spec

-----------------------------------------------------------------------------
(* Retention.                                                              *)

Within ==
  /\ \A d \in Date : d < date - Retention => std[d] = Nothing /\ x4[d] = Nothing
  /\ Cardinality({d \in Date : xtc[d] # Nothing}) <= XtcKeep

\* The live run is past its sweep.
Recorded == pc \in {"record", "articles"} \/ (pc = "finish" /\ ~dry)

Swept ==
  "unlink" \notin Faults =>
    /\ Recorded => Within
    /\ run # Nothing /\ outcome[run] = "ok" => Within

LEMMA DatesAreFinite == IsFiniteSet(Date)
BY FS_Interval DEF Date

\* The sweep by count leaves the newest XtcKeep files.
LEMMA SurplusIsRemoved ==
  ASSUME NEW dir \in [Date -> Run \cup {Nothing}],
         NEW left, left = {d \in Date : dir[d] # Nothing /\
                             Cardinality({e \in Date : dir[e] # Nothing /\ e > d}) < XtcKeep}
  PROVE  Cardinality(left) <= XtcKeep
<1> DEFINE S == {d \in Date : dir[d] # Nothing}
           newer == [d \in S |-> {e \in S : e > d}]
<1>1. IsFiniteSet(S)
  BY DatesAreFinite, FS_Subset
<1>2. newer \in [S -> SUBSET S] /\ S \subseteq Int
  BY DEF Date
<1>3. \A d \in S : newer[d] = {e \in Date : dir[e] # Nothing /\ e > d}
  OBVIOUS
<1>4. left = FirstOf(S, newer, XtcKeep)
  BY <1>3 DEF FirstOf
<1>5. Ordered(S, newer)
  BY <1>2 DEF Ordered
<1> HIDE DEF S, newer
<1> QED BY <1>1, <1>4, <1>5, FirstOnes

LEMMA SweptInit == Init => Swept
BY DEF Init, Swept, Recorded

LEMMA SweptStep == FilesInv /\ Standing /\ Swept /\ [Next]_vars => Swept'
<1> SUFFICES ASSUME FilesInv, Standing, Swept, [Next]_vars, "unlink" \notin Faults PROVE Swept'
  BY DEF Swept
<1> USE RunFacts DEF FilesInv, Goto, files, rows, runVars, Nothing
<1>0. pc # "idle" => run \in Run /\ date \in Date
  BY Started
<1>1. ASSUME NEW d \in Date, NEW isDry \in BOOLEAN, StartRun(d, isDry) PROVE Swept'
  <2>1. run' \in Run /\ pc' = "curate"
    BY <1>1 DEF StartRun, TypeOK, Run
  <2>2. outcome'[run'] = "running"
    BY <1>1, <2>1 DEF StartRun, TypeOK
  <2> QED BY <2>1, <2>2 DEF Swept, Recorded
<1>2. CASE Curate \/ NumberIssue \/ Build \/ PublishStd \/ PublishX4 \/ PublishXtc
  <2>1. UNCHANGED <<outcome, run, dry>> /\ outcome[run] = "running"
    BY <1>2 DEF Curate, NumberIssue, Build, PublishStd, PublishX4, PublishXtc, Standing
  <2>2. ~Recorded'
    BY <1>2 DEF Curate, NumberIssue, Build, PublishStd, PublishX4, PublishXtc, Recorded
  <2> QED BY <2>1, <2>2 DEF Swept
<1>3. CASE Prune
  <2>1. Stuck(Expired) = {{}} /\ Stuck(Surplus) = {{}}
    BY DEF Stuck
  <2>2. std' = Sweep(std, Expired) /\ x4' = Sweep(x4, Expired) /\ xtc' = Sweep(xtc, Surplus)
    BY <1>3, <2>1 DEF Prune
  <2>3. date' = date /\ UNCHANGED <<outcome, run>> /\ outcome[run] = "running"
    BY <1>3 DEF Prune, date, Standing
  <2>4. \A d \in Date : d < date - Retention => std'[d] = Nothing /\ x4'[d] = Nothing
    BY <2>2 DEF Expired, Sweep
  <2>5. {d \in Date : xtc'[d] # Nothing} =
          {d \in Date : xtc[d] # Nothing /\
             Cardinality({e \in Date : xtc[e] # Nothing /\ e > d}) < XtcKeep}
    <3>1. ASSUME NEW d \in Date
          PROVE  Cardinality({e \in Date : xtc[e] # Nothing /\ e > d}) \in Nat
      <4>1. {e \in Date : xtc[e] # Nothing /\ e > d} \in SUBSET Date
        OBVIOUS
      <4> QED BY <4>1, DatesAreFinite, FS_Subset, FS_CardinalityType
    <3>2. \A d \in Date : xtc'[d] = IF d \in Surplus THEN Nothing ELSE xtc[d]
      BY <2>2 DEF Sweep
    <3>3. \A d \in Date : d \in Surplus <=>
            ~(Cardinality({e \in Date : xtc[e] # Nothing /\ e > d}) < XtcKeep)
      BY <3>1 DEF Surplus
    <3> QED BY <3>2, <3>3
  <2>6. Within'
    <3>1. xtc \in [Date -> Run \cup {Nothing}]
      BY DEF TypeOK
    <3>2. Cardinality({d \in Date : xtc'[d] # Nothing}) <= XtcKeep
      BY <2>5, <3>1, SurplusIsRemoved
    <3> QED BY <2>3, <2>4, <3>2 DEF Within
  <2> QED BY <2>6 DEF Swept
<1>4. CASE UpsertIssue \/ ReplaceArticles
  <2>1. UNCHANGED <<files, outcome, run, date, dry>> /\ Recorded
    BY <1>4 DEF UpsertIssue, ReplaceArticles, Recorded, date
  <2> QED BY <2>1 DEF Swept, Within
<1>5. CASE FinishRun
  <2>1. UNCHANGED <<files, run, date, dry>> /\ ~Recorded' /\ run \in Run
    BY <1>0, <1>5 DEF FinishRun, Recorded, date
  <2>2. outcome'[run] = "ok" => Recorded
    BY <1>5, <2>1 DEF FinishRun, Recorded, TypeOK
  <2> QED BY <2>1, <2>2 DEF Swept, Within
<1>6. CASE AttachReport \/ Crash
  <2>1. UNCHANGED <<files, outcome, run, date>> /\ ~Recorded'
    BY <1>6 DEF AttachReport, Crash, Recorded, date
  <2> QED BY <2>1 DEF Swept, Within
<1>7. CASE Fail
  <2>1. run' = run /\ run \in Run /\ outcome'[run] = "failed" /\ ~Recorded'
    BY <1>0, <1>7 DEF Fail, TypeOK, Recorded
  <2> QED BY <2>1 DEF Swept
<1>8. CASE Done \/ UNCHANGED vars
  BY <1>8 DEF Done, vars, Swept, Recorded, Within, date
<1> QED BY <1>1, <1>2, <1>3, <1>4, <1>5, <1>6, <1>7, <1>8 DEF Next

\* RetentionHolds: for any dates, limits and faults but files that cannot be
\* removed, after an `ok` run both directories are within their limits.
THEOREM RetentionHoldsAlways == Spec => []RetentionHolds
<1>1. StandingInv /\ Swept /\ [Next]_vars => Swept'
  BY SweptStep DEF StandingInv
<1>2. Swept => RetentionHolds
  BY DEF Swept, Within, RetentionHolds
<1> QED BY <1>1, <1>2, SweptInit, StandingAlways, PTL DEF Spec

-----------------------------------------------------------------------------
(* What `ok` means.                                                        *)

\* The dates after d that a run has made an XTC file for.
Newer(d) == {e \in Date : \E s \in Run : dateOf[s] = e /\ e > d /\ converted[s]}

EditionOf(dir, r) ==
  \/ dir[dateOf[r]] = r
  \/ dir[dateOf[r]] = Nothing /\ \E s \in Run : s > r /\ dateOf[s] > dateOf[r] + Retention

XtcOf(r) ==
  \/ xtc[dateOf[r]] = r /\ xtcPath[dateOf[r]]
  \/ xtc[dateOf[r]] = Nothing /\ Cardinality(Newer(dateOf[r])) >= XtcKeep

PublishedBy(r) ==
  /\ EditionOf(std, r) /\ EditionOf(x4, r)
  /\ snapshot[dateOf[r]] = r /\ picks[dateOf[r]] = r
  /\ converted[r] => XtcOf(r)

\* Later runs of r's date were dry, the live one included.
LastButDry(r) ==
  \A s \in Run : s > r /\ dateOf[s] = dateOf[r] =>
    outcome[s] = "dry_run" \/ (s = run /\ dry /\ pc # "idle")

OkRuns == \A r \in Run : outcome[r] = "ok" /\ LastButDry(r) => PublishedBy(r)

\* What the live run has published and recorded by the stage it is at.
Publishes ==
  /\ \A e \in Date : xtc[e] # Nothing => converted[xtc[e]] /\ dateOf[xtc[e]] = e
  /\ pc \in {"x4", "xtc", "prune"} \/ Recorded => std[date] = run
  /\ pc \in {"xtc", "prune"} \/ Recorded => x4[date] = run
  /\ pc = "prune" /\ converted[run] => xtc[date] = run
  /\ Recorded /\ converted[run] =>
       xtc[date] = run \/ (xtc[date] = Nothing /\ Cardinality(Newer(date)) >= XtcKeep)
  /\ Recorded /\ pc # "record" => snapshot[date] = run /\ (converted[run] => xtcPath[date])
  /\ Recorded /\ pc = "finish" => picks[date] = run

LEMMA PublishesInit == Init => Publishes /\ OkRuns
BY DEF Init, Publishes, OkRuns, Recorded, NoFile

\* No step takes a date or a converted file back.
LEMMA NewerGrows ==
  ASSUME StandingInv, [Next]_vars, NEW d \in Date
  PROVE  /\ Newer(d) \subseteq Newer(d)'
         /\ Cardinality(Newer(d)) >= XtcKeep => Cardinality(Newer(d)') >= XtcKeep
         /\ \A r \in Run : dateOf[r] # Nothing => dateOf'[r] = dateOf[r]
<1> USE DEF StandingInv, FilesInv, files, rows, runVars
<1>1. \A r \in Run : dateOf[r] # Nothing => dateOf'[r] = dateOf[r]
  <2>1. ASSUME NEW e \in Date, NEW isDry \in BOOLEAN, StartRun(e, isDry)
        PROVE  \A r \in Run : dateOf[r] # Nothing => dateOf'[r] = dateOf[r]
    <3>1. run < MaxRuns /\ run' = run + 1 /\ run \in Nat
      BY <2>1 DEF StartRun, TypeOK, Run, Nothing
    <3>2. run' \in Run /\ run' > run
      BY <3>1 DEF Run
    <3>3. dateOf[run'] = Nothing
      BY <3>2 DEF Progress
    <3> QED BY <2>1, <3>2, <3>3 DEF StartRun, TypeOK
  <2>2. CASE ~ \E e \in Date, isDry \in BOOLEAN : StartRun(e, isDry)
    <3>1. dateOf' = dateOf
      BY <2>2 DEF Next, vars, Curate, NumberIssue, Build, PublishStd, PublishX4, PublishXtc,
                  Prune, UpsertIssue, ReplaceArticles, FinishRun, AttachReport, Fail, Crash, Done
    <3> QED BY <3>1
  <2> QED BY <2>1, <2>2
<1>2. \A r \in Run : converted[r] => converted'[r]
  <2>1. CASE Build
    <3>1. run \in Run
      BY <2>1, Started DEF Build
    <3> QED BY <2>1, <3>1 DEF Build, TypeOK
  <2>2. CASE ~Build
    <3>1. converted' = converted
      BY <2>2 DEF Next, vars, StartRun, Curate, NumberIssue, PublishStd, PublishX4, PublishXtc,
                  Prune, UpsertIssue, ReplaceArticles, FinishRun, AttachReport, Fail, Crash, Done
    <3> QED BY <3>1
  <2> QED BY <2>1, <2>2
<1>3. Newer(d) \subseteq Newer(d)'
  BY <1>1, <1>2, RunFacts DEF Newer, Nothing, Date
<1>4. Newer(d) \in SUBSET Newer(d)' /\ Newer(d)' \in SUBSET Date
  BY <1>3 DEF Newer
<1>5. IsFiniteSet(Newer(d)') /\ Cardinality(Newer(d)) <= Cardinality(Newer(d)')
      /\ Cardinality(Newer(d)) \in Nat /\ Cardinality(Newer(d)') \in Nat
  BY <1>4, DatesAreFinite, FS_Subset, FS_CardinalityType
<1> QED BY <1>1, <1>3, <1>5

\* The files a sweep counts were made for later dates.
LEMMA SweptForNewer ==
  ASSUME TypeOK, Publishes, NEW d \in Surplus
  PROVE  d \in Date /\ Cardinality(Newer(d)) >= XtcKeep
<1>1. d \in Date
  BY DEF Surplus
<1>2. {e \in Date : xtc[e] # Nothing /\ e > d} \in SUBSET Newer(d)
  BY DEF Publishes, Newer, TypeOK
<1>3. Newer(d) \in SUBSET Date
  BY DEF Newer
<1>4. Cardinality({e \in Date : xtc[e] # Nothing /\ e > d}) <= Cardinality(Newer(d))
      /\ Cardinality({e \in Date : xtc[e] # Nothing /\ e > d}) \in Nat
      /\ Cardinality(Newer(d)) \in Nat
  BY <1>2, <1>3, DatesAreFinite, FS_Subset, FS_CardinalityType
<1> QED BY <1>1, <1>4 DEF Surplus

LEMMA PublishesStep == StandingInv /\ Publishes /\ [Next]_vars => Publishes'
<1> SUFFICES ASSUME StandingInv, Publishes, [Next]_vars PROVE Publishes'
  OBVIOUS
<1> USE RunFacts DEF StandingInv, FilesInv, Goto, files, rows, runVars, Nothing
<1>0. (pc # "idle" => run \in Run /\ date \in Date) /\ run \in Nat
  <2>1. run \in Run \cup {Nothing}
    BY DEF TypeOK
  <2> QED BY <2>1, Started
<1>n. \A d \in Date : Cardinality(Newer(d)) >= XtcKeep => Cardinality(Newer(d)') >= XtcKeep
  BY NewerGrows
<1>d. \A r \in Run : dateOf[r] # Nothing => dateOf'[r] = dateOf[r]
  <2> SUFFICES ASSUME NEW r \in Run PROVE dateOf[r] # Nothing => dateOf'[r] = dateOf[r]
    OBVIOUS
  <2>1. CASE Date = {}
    BY <2>1 DEF TypeOK
  <2>2. CASE Date # {}
    BY <2>2, NewerGrows
  <2> QED BY <2>1, <2>2
<1>t. \A e \in Date : xtc[e] # Nothing => xtc[e] \in Run
  BY DEF TypeOK
<1>1. ASSUME NEW d \in Date, NEW isDry \in BOOLEAN, StartRun(d, isDry) PROVE Publishes'
  <2>1. UNCHANGED <<xtc, converted>> /\ pc' = "curate"
    BY <1>1 DEF StartRun
  <2>2. ASSUME NEW e \in Date, xtc[e] # Nothing PROVE converted[xtc[e]] /\ dateOf'[xtc[e]] = e
    <3>1. converted[xtc[e]] /\ dateOf[xtc[e]] = e /\ xtc[e] \in Run /\ e # Nothing
      BY <1>t, <2>2 DEF Publishes, Date
    <3> QED BY <1>d, <3>1
  <2> QED BY <2>1, <2>2 DEF Publishes, Recorded
<1>2. CASE Curate \/ NumberIssue
  <2>1. UNCHANGED <<xtc, converted, dateOf>> /\ pc' \in {"number", "build"}
    BY <1>2 DEF Curate, NumberIssue
  <2> QED BY <2>1 DEF Publishes, Recorded
<1>3. CASE Build
  <2>1. UNCHANGED <<xtc, dateOf>> /\ pc' \in {"std", "finish"} /\ ~Recorded'
    BY <1>3 DEF Build, Recorded
  <2>2. \A r \in Run : converted[r] => converted'[r]
    BY <1>0, <1>3 DEF Build, TypeOK
  <2> QED BY <1>t, <2>1, <2>2 DEF Publishes
<1>4. CASE PublishStd
  <2>1. std'[date] = run /\ UNCHANGED <<xtc, converted, dateOf, run>> /\ pc' = "x4"
    BY <1>0, <1>4 DEF PublishStd, TypeOK
  <2> QED BY <2>1 DEF Publishes, Recorded, date
<1>5. CASE PublishX4
  <2>1. x4'[date] = run /\ UNCHANGED <<std, xtc, converted, dateOf, run>> /\ pc = "x4" /\ pc' = "xtc"
    BY <1>0, <1>5 DEF PublishX4, TypeOK
  <2> QED BY <2>1 DEF Publishes, Recorded, date
<1>6. CASE PublishXtc
  <2>1. UNCHANGED <<std, x4, converted, dateOf, run>> /\ pc = "xtc" /\ pc' = "prune"
    BY <1>6 DEF PublishXtc
  <2>2. converted[run] => xtc'[date] = run
    BY <1>0, <1>6 DEF PublishXtc, TypeOK
  <2>3. \A e \in Date : xtc'[e] # Nothing => converted[xtc'[e]] /\ dateOf[xtc'[e]] = e
    BY <1>0, <1>6 DEF PublishXtc, TypeOK, Publishes, date
  <2> QED BY <2>1, <2>2, <2>3 DEF Publishes, Recorded, date
<1>7. CASE Prune
  <2>1. UNCHANGED <<converted, dateOf, run>> /\ pc = "prune" /\ pc' = "record" /\ date \in Date
    BY <1>0, <1>7 DEF Prune
  <2>2. date \notin Expired
    BY <2>1 DEF Expired, Date
  <2>3. std'[date] = std[date] /\ x4'[date] = x4[date]
    BY <1>7, <2>1, <2>2 DEF Prune, Sweep
  <2>4. \A e \in Date : xtc'[e] = xtc[e] \/ (xtc'[e] = Nothing /\ e \in Surplus)
    BY <1>7 DEF Prune, Sweep
  <2>5. date \in Surplus => Cardinality(Newer(date)) >= XtcKeep
    BY SweptForNewer
  <2>6. Newer(date)' = Newer(date)
    BY <2>1 DEF Newer, date
  <2>7. date' = date
    BY <2>1 DEF date
  <2>8. std[date] = run /\ x4[date] = run /\ (converted[run] => xtc[date] = run)
    BY <2>1 DEF Publishes
  <2>9. converted[run] => xtc'[date] = run \/ (xtc'[date] = Nothing /\ Cardinality(Newer(date)') >= XtcKeep)
    BY <2>1, <2>4, <2>5, <2>6, <2>8
  <2>10. \A e \in Date : xtc'[e] # Nothing => converted'[xtc'[e]] /\ dateOf'[xtc'[e]] = e
    BY <2>1, <2>4 DEF Publishes
  <2>11. Cardinality(Newer(date))' = Cardinality(Newer(date)')
    OBVIOUS
  <2> QED BY <2>1, <2>3, <2>7, <2>8, <2>9, <2>10, <2>11 DEF Publishes, Recorded
<1>8. CASE UpsertIssue
  <2>1. UNCHANGED <<std, x4, xtc, converted, dateOf, run>> /\ pc = "record" /\ pc' = "articles"
    BY <1>8 DEF UpsertIssue
  <2>2. snapshot'[date] = run /\ (converted[run] => xtcPath'[date])
    BY <1>0, <1>8 DEF UpsertIssue, TypeOK
  <2>3. Newer(date)' = Newer(date) /\ date' = date
    BY <2>1 DEF Newer, date
  <2> QED BY <2>1, <2>2, <2>3 DEF Publishes, Recorded
<1>9. CASE ReplaceArticles
  <2>1. UNCHANGED <<std, x4, xtc, converted, dateOf, run, snapshot, xtcPath>> /\ pc = "articles" /\ pc' = "finish"
    BY <1>9 DEF ReplaceArticles
  <2>2. picks'[date] = run
    BY <1>0, <1>9 DEF ReplaceArticles, TypeOK
  <2>3. Newer(date)' = Newer(date) /\ date' = date
    BY <2>1 DEF Newer, date
  <2> QED BY <2>1, <2>2, <2>3 DEF Publishes, Recorded
<1>10. CASE FinishRun \/ AttachReport \/ Fail \/ Crash
  <2>1. UNCHANGED <<xtc, converted, dateOf>> /\ pc' \in {"idle", "report"}
    BY <1>10 DEF FinishRun, AttachReport, Fail, Crash
  <2> QED BY <2>1 DEF Publishes, Recorded
<1>11. CASE Done \/ UNCHANGED vars
  BY <1>11 DEF Done, vars, Publishes, Recorded, Newer, date
<1> QED BY <1>1, <1>2, <1>3, <1>4, <1>5, <1>6, <1>7, <1>8, <1>9, <1>10, <1>11 DEF Next

\* What LastButDry says of a run that was `ok` before a step it says after it.
LEMMA LastStays ==
  ASSUME StandingInv, [Next]_vars, NEW r \in Run, outcome[r] # "none", LastButDry(r)'
  PROVE  LastButDry(r)
<1> USE RunFacts DEF StandingInv, FilesInv, Goto, files, rows, runVars, Nothing
<1> SUFFICES ASSUME NEW s \in Run, s > r, dateOf[s] = dateOf[r]
             PROVE  outcome[s] = "dry_run" \/ (s = run /\ dry /\ pc # "idle")
  BY DEF LastButDry
<1>1. dateOf[r] # Nothing /\ dateOf[r] \in Date
  BY DEF Standing, TypeOK
<1>2. dateOf'[s] = dateOf[s] /\ dateOf'[r] = dateOf[r]
  BY <1>1, NewerGrows
<1>3. outcome'[s] = "dry_run" \/ (s = run' /\ dry' /\ pc' # "idle")
  BY <1>2 DEF LastButDry
<1>4. ASSUME NEW d \in Date, NEW isDry \in BOOLEAN, StartRun(d, isDry)
      PROVE  outcome[s] = "dry_run" \/ (s = run /\ dry /\ pc # "idle")
  <2>1. run' > run /\ run' \in Run
    BY <1>4 DEF StartRun, TypeOK, Run
  <2>2. s # run'
    BY <1>1, <2>1 DEF Progress
  <2> QED BY <1>3, <1>4, <2>1, <2>2 DEF StartRun, TypeOK
<1>5. CASE FinishRun
  BY <1>3, <1>5, Started DEF FinishRun, TypeOK
<1>6. CASE Fail
  BY <1>3, <1>6, Started DEF Fail, TypeOK
<1>7. CASE ~FinishRun /\ ~Fail /\ ~ \E d \in Date, isDry \in BOOLEAN : StartRun(d, isDry)
  <2>1. UNCHANGED <<outcome, run, dry>> /\ (pc' # "idle" => pc # "idle")
    BY <1>7 DEF Next, vars, Curate, NumberIssue, Build, PublishStd, PublishX4, PublishXtc,
                Prune, UpsertIssue, ReplaceArticles, AttachReport, Crash, Done
  <2> QED BY <1>3, <2>1
<1> QED BY <1>4, <1>5, <1>6, <1>7

\* What a run has published is its own as long as nobody writes to its date.
LEMMA StaysPublished ==
  ASSUME StandingInv, [Next]_vars, NEW r \in Run, dateOf[r] \in Date, PublishedBy(r),
         converted'[r] = converted[r],
         EditionOf(std, r) => EditionOf(std, r)', EditionOf(x4, r) => EditionOf(x4, r)',
         XtcOf(r) => XtcOf(r)',
         snapshot'[dateOf[r]] = snapshot[dateOf[r]], picks'[dateOf[r]] = picks[dateOf[r]]
  PROVE  PublishedBy(r)'
<1>1. dateOf'[r] = dateOf[r]
  BY NewerGrows, RunFacts DEF Nothing, Date
<1> QED BY <1>1 DEF PublishedBy

LEMMA EditionStays ==
  ASSUME StandingInv, [Next]_vars, NEW r \in Run, dateOf[r] \in Date, NEW dir, NEW later,
         EditionOf(dir, r), later[dateOf[r]] = dir[dateOf[r]]
  PROVE  \/ later[dateOf'[r]] = r
         \/ later[dateOf'[r]] = Nothing /\ \E s \in Run : s > r /\ dateOf'[s] > dateOf'[r] + Retention
<1> USE DEF Nothing, Date
<1>1. dateOf'[r] = dateOf[r]
  BY NewerGrows
<1>2. ASSUME NEW s \in Run, s > r, dateOf[s] > dateOf[r] + Retention
      PROVE  dateOf'[s] > dateOf[r] + Retention
  <2>1. dateOf[s] # Nothing
    BY <1>2
  <2>2. dateOf'[s] = dateOf[s]
    BY <2>1, NewerGrows
  <2> QED BY <1>2, <2>2
<1> QED BY <1>1, <1>2 DEF EditionOf

LEMMA XtcStays ==
  ASSUME StandingInv, [Next]_vars, NEW r \in Run, dateOf[r] \in Date, XtcOf(r),
         xtc'[dateOf[r]] = xtc[dateOf[r]], xtcPath[dateOf[r]] => xtcPath'[dateOf[r]]
  PROVE  XtcOf(r)'
<1>1. dateOf'[r] = dateOf[r]
  BY NewerGrows DEF Nothing, Date
<1>2. PICK d \in Date : d = dateOf[r]
  OBVIOUS
<1>3. Cardinality(Newer(d)) >= XtcKeep => Cardinality(Newer(d)') >= XtcKeep
  BY NewerGrows
<1>4. Newer(dateOf[r]) = Newer(d) /\ Newer(dateOf[r])' = Newer(d)'
  BY <1>1, <1>2 DEF Newer
<1>5. Cardinality(Newer(dateOf[r]))' = Cardinality(Newer(d)')
  BY <1>4
<1> QED BY <1>1, <1>2, <1>3, <1>4, <1>5 DEF XtcOf

LEMMA OkRunsStep == StandingInv /\ Publishes /\ OkRuns /\ [Next]_vars => OkRuns'
<1> SUFFICES ASSUME StandingInv, Publishes, OkRuns, [Next]_vars,
                    NEW r \in Run, outcome'[r] = "ok", LastButDry(r)'
             PROVE  PublishedBy(r)'
  BY DEF OkRuns
<1> USE RunFacts DEF StandingInv, FilesInv, Goto, files, rows, runVars, Nothing
<1>0. pc # "idle" => run \in Run /\ date \in Date
  BY Started
<1>1. CASE outcome[r] = "ok"
  <2>1. LastButDry(r) /\ PublishedBy(r)
    BY <1>1, LastStays DEF OkRuns
  <2>2. dateOf[r] # Nothing /\ dateOf[r] \in Date /\ r <= run
    BY <1>1 DEF Standing, TypeOK
  <2>3. ASSUME pc \notin {"idle", "report"} PROVE r # run /\ (~dry => date # dateOf[r])
    <3>1. outcome[run] = "running" /\ r # run
      BY <1>1, <2>3 DEF Standing
    <3>2. run \in Run
      BY <1>0, <2>3
    <3>3. run \in Nat /\ r \in Nat
      BY <3>2
    <3>4. run > r
      BY <2>2, <3>1, <3>3
    <3> QED BY <2>1, <3>1, <3>2, <3>4 DEF LastButDry, date
  <2>4. CASE Build
    <3>1. UNCHANGED <<std, x4, xtc, xtcPath, snapshot, picks>> /\ converted'[r] = converted[r]
      BY <1>0, <2>3, <2>4 DEF Build, TypeOK
    <3>2. EditionOf(std, r)' /\ EditionOf(x4, r)'
      BY <2>1, <2>2, <3>1, EditionStays DEF PublishedBy, EditionOf
    <3>3. XtcOf(r) => XtcOf(r)'
      BY <2>2, <3>1, XtcStays
    <3> QED BY <2>1, <2>2, <3>1, <3>2, <3>3, StaysPublished
  <2>5. CASE Prune
    <3>1. /\ UNCHANGED <<snapshot, picks, xtcPath, converted, dateOf, run>> /\ pc = "prune"
          /\ Newer(dateOf[r])' = Newer(dateOf[r])
      BY <2>5 DEF Prune, Newer
    <3>a. run \in Run /\ r # run
      BY <1>0, <2>3, <3>1
    <3>b. run \in Nat /\ r \in Nat
      BY <3>a
    <3>2. run \in Run /\ run > r
      BY <2>2, <3>a, <3>b
    <3>3. ASSUME NEW dir, NEW later, later[dateOf[r]] = dir[dateOf[r]] \/
                   (later[dateOf[r]] = Nothing /\ dateOf[r] \in Expired), EditionOf(dir, r)
          PROVE  EditionOf(later, r)
      <4>1. dateOf[r] \in Expired => dateOf[run] > dateOf[r] + Retention
        BY <1>0, <2>2, <3>1 DEF Expired, date, Date
      <4> QED BY <3>2, <3>3, <4>1 DEF EditionOf
    <3>4. /\ std'[dateOf[r]] = std[dateOf[r]] \/ (std'[dateOf[r]] = Nothing /\ dateOf[r] \in Expired)
          /\ x4'[dateOf[r]] = x4[dateOf[r]] \/ (x4'[dateOf[r]] = Nothing /\ dateOf[r] \in Expired)
          /\ xtc'[dateOf[r]] = xtc[dateOf[r]] \/ (xtc'[dateOf[r]] = Nothing /\ dateOf[r] \in Surplus)
      BY <2>2, <2>5 DEF Prune, Sweep
    <3>5. EditionOf(std', r) /\ EditionOf(x4', r)
      BY <2>1, <3>3, <3>4 DEF PublishedBy
    <3>6. EditionOf(std, r)' /\ EditionOf(x4, r)'
      BY <3>1, <3>5 DEF EditionOf
    <3>7. dateOf[r] \in Surplus => Cardinality(Newer(dateOf[r])) >= XtcKeep
      BY SweptForNewer
    <3>8. XtcOf(r) => XtcOf(r)'
      BY <3>1, <3>4, <3>7 DEF XtcOf
    <3> QED BY <2>1, <2>2, <3>1, <3>6, <3>8, StaysPublished
  <2>6. CASE PublishStd \/ PublishX4 \/ PublishXtc \/ UpsertIssue \/ ReplaceArticles
    <3>1. UNCHANGED <<dateOf, converted>> /\ ~dry /\ pc \notin {"idle", "report"}
      BY <2>6 DEF PublishStd, PublishX4, PublishXtc, UpsertIssue, ReplaceArticles, Progress
    <3>2. date # dateOf[r] /\ date \in Date
      BY <1>0, <2>3, <3>1
    <3>3. /\ std'[dateOf[r]] = std[dateOf[r]] /\ x4'[dateOf[r]] = x4[dateOf[r]]
          /\ xtc'[dateOf[r]] = xtc[dateOf[r]] /\ xtcPath'[dateOf[r]] = xtcPath[dateOf[r]]
          /\ snapshot'[dateOf[r]] = snapshot[dateOf[r]] /\ picks'[dateOf[r]] = picks[dateOf[r]]
      BY <2>2, <2>6, <3>2 DEF PublishStd, PublishX4, PublishXtc, UpsertIssue, ReplaceArticles, TypeOK
    <3>4. EditionOf(std, r)' /\ EditionOf(x4, r)'
      BY <2>1, <2>2, <3>3, EditionStays DEF PublishedBy, EditionOf
    <3>5. XtcOf(r) => XtcOf(r)'
      BY <2>2, <3>3, XtcStays
    <3> QED BY <2>1, <2>2, <3>1, <3>3, <3>4, <3>5, StaysPublished
  <2>7. CASE ~(Build \/ Prune \/ PublishStd \/ PublishX4 \/ PublishXtc \/ UpsertIssue \/ ReplaceArticles)
    <3>1. UNCHANGED <<std, x4, xtc, xtcPath, snapshot, picks, converted>>
      BY <2>7 DEF Next, vars, StartRun, Curate, NumberIssue, FinishRun, AttachReport, Fail, Crash, Done
    <3>2. EditionOf(std, r)' /\ EditionOf(x4, r)'
      BY <2>1, <2>2, <3>1, EditionStays DEF PublishedBy, EditionOf
    <3>3. XtcOf(r) => XtcOf(r)'
      BY <2>2, <3>1, XtcStays
    <3> QED BY <2>1, <2>2, <3>1, <3>2, <3>3, StaysPublished
  <2> QED BY <2>4, <2>5, <2>6, <2>7
<1>2. CASE outcome[r] # "ok"
  <2>1. FinishRun /\ ~dry /\ r = run
    <3>1. ASSUME NEW d \in Date, NEW isDry \in BOOLEAN, StartRun(d, isDry) PROVE FALSE
      <4>1. run' \in Run
        BY <3>1 DEF StartRun, TypeOK, Run
      <4> QED BY <1>2, <3>1, <4>1 DEF StartRun, TypeOK
    <3>2. ~Fail
      BY <1>0, <1>2 DEF Fail, TypeOK
    <3>3. FinishRun
      BY <1>2, <3>1, <3>2 DEF Next, vars, Curate, NumberIssue, Build, PublishStd, PublishX4,
            PublishXtc, Prune, UpsertIssue, ReplaceArticles, AttachReport, Crash, Done
    <3> QED BY <1>0, <1>2, <3>3 DEF FinishRun, TypeOK
  <2>2. Recorded /\ pc = "finish" /\ UNCHANGED <<files, rows, runVars>>
    BY <2>1 DEF Recorded, FinishRun
  <2>3. Newer(date)' = Newer(date) /\ date' = date /\ date = dateOf[r]
    BY <2>1, <2>2 DEF Newer, date
  <2> QED BY <2>1, <2>2, <2>3 DEF Publishes, PublishedBy, EditionOf, XtcOf
<1> QED BY <1>1, <1>2

\* OkMeansPublished: for any dates, limits, runs and faults, whatever was
\* published, swept, failed or repeated since.
THEOREM OkMeansPublishedAlways == Spec => []OkMeansPublished
<1>1. StandingInv /\ Publishes /\ OkRuns /\ [Next]_vars => Publishes' /\ OkRuns'
  BY PublishesStep, OkRunsStep
<1>2. OkRuns => OkMeansPublished
  <2> SUFFICES ASSUME OkRuns, NEW r \in Run, outcome[r] = "ok", LastFor(r) PROVE PublishedBy(r)
    BY DEF OkMeansPublished, PublishedBy, EditionOf, XtcOf, Newer
  <2> QED BY DEF OkRuns, LastFor, LastButDry
<1> QED BY <1>1, <1>2, PublishesInit, StandingAlways, PTL DEF Spec
=============================================================================
