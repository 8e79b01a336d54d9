------------------------------- MODULE Curation -------------------------------
(***************************************************************************)
(* The provider work of pipeline runs over a UTC day: triage and deep      *)
(* assessment on the runner of Batches with their cached                   *)
(* `article_assessments` rows, the editor's calls after them, and the      *)
(* provider costs that a run leaves for the next one.                      *)
(*                                                                         *)
(* Runs follow one another (the run lock of Publishing), the bulk provider *)
(* is configured, and the hygiene, signals and ranking between the stages  *)
(* are a choice of articles.  A cost is what a meter records: a completion *)
(* that comes back refused or empty costs nothing here, as in the code,    *)
(* whatever the provider charges for it.                                   *)
(***************************************************************************)
EXTENDS Batches

CONSTANTS
  MaxEdits,    \* bound on the editor's calls in a run
  MaxRuns      \* bound on the runs

\* There is a most that one completion can cost.  The editor's requests carry
\* max_tokens; the bulk provider's do not, and are cut off by its own limit.
ASSUME CurationAssumption ==
  /\ MaxEdits \in Nat /\ MaxRuns \in Nat
  /\ \E k \in Costs : \A c \in Costs : c <= k

Provider == {"bulk", "editor"}
Stage == {"triage", "deep"}
Phase == {"idle", "triage", "admit", "deep", "editing"}

VARIABLES
  phase,       \* the stage the current run is in
  rescore,     \* generate --rescore
  rows,        \* fresh `article_assessments` rows; stale ones count as none
  written,     \* articles of the stage whose row is written
  edits,       \* editor calls the run has still to make
  asked,       \* editor calls in flight, by provider
  recorded,    \* provider_costs_json of the day's runs, added up
  unrecorded,  \* some run of the day spent on the provider and did not record it
  blind,       \* some run of the day could not read what was spent before it
  runs         \* runs so far

dayVars == <<other, poison>>
editVars == <<edits, asked>>
ledgerVars == <<recorded, unrecorded, blind, runs>>
vars == <<batchVars, phase, rescore, rows, written, editVars, ledgerVars>>

Nothing == [p \in Provider |-> 0]
NoRows == [s \in Stage |-> [a \in Articles |-> "none"]]

Init ==
  /\ other \in BOOLEAN /\ poison \in SUBSET Articles
  /\ meter = [p \in Provider |-> Preloaded(0)]
  /\ pending = {} /\ waiting = {} /\ calls = {}
  /\ assessed = {} /\ rejected = {} /\ stopped = FALSE
  /\ faults = <<>>
  /\ phase = "idle" /\ rescore = FALSE
  /\ rows = NoRows
  /\ written = {}
  /\ edits = 0 /\ asked = Nothing
  /\ recorded = Nothing /\ unrecorded = [p \in Provider |-> FALSE] /\ blind = FALSE
  /\ runs = 0

-----------------------------------------------------------------------------
(* The stages.                                                             *)

\* A stage begins: run_batches over the chunks of S.
Launch(S) ==
  /\ pending' = S
  /\ waiting' = Chunks(S)
  /\ calls' = {} /\ assessed' = {} /\ rejected' = {}
  /\ stopped' = FALSE

\* Not asked again: a fresh triage row of either kind, or a fresh deep
\* assessment.
TriagePending(again) ==
  {a \in Articles : again \/ (rows["triage"][a] = "none" /\ rows["deep"][a] # "assessed")}

DeepPending(admitted) == {a \in admitted : rescore \/ rows["deep"][a] = "none"}

\* editor_or_bulk, with m for the meters.
EditorOrBulk(m) == IF other /\ ~m["editor"].tripped THEN "editor" ELSE "bulk"

\* The meters after weekly_rebuild_if_due: it is not due, or it makes one call,
\* which the meter refuses, which fails, or which is paid for.
AfterRebuild(m) ==
  LET p == EditorOrBulk(m) IN
    {m} \cup IF Over(m[p]) THEN {[m EXCEPT ![p] = Checked(@)]}
             ELSE {[m EXCEPT ![p] = Recorded(@, k)] : k \in Costs}

\* A run reaches its provider stages: the meters start from the day's
\* recorded spend, or from zero when it cannot be read; then the taste profile
\* may be rebuilt, and triage begins.
StartRun ==
  /\ phase = "idle" /\ runs < MaxRuns
  /\ runs' = runs + 1
  /\ \E read \in BOOLEAN :
       /\ meter' \in AfterRebuild([p \in Provider |-> Preloaded(IF read THEN recorded[p] ELSE 0)])
       /\ blind' = (blind \/ ~read)
  /\ rescore' \in BOOLEAN
  /\ \E pool \in SUBSET Articles : Launch(pool \cap TriagePending(rescore'))
  /\ phase' = "triage"
  /\ UNCHANGED <<dayVars, faults, written, rows, editVars, recorded, unrecorded>>

AskProviders ==
  /\ phase \in Stage
  /\ BatchesNext
  /\ UNCHANGED <<phase, rescore, rows, written, editVars, ledgerVars>>

\* One upsert: the items first, then the rejections.
WriteRow(a) ==
  /\ phase \in Stage /\ StageDone
  /\ a \in (assessed \cup rejected) \ written
  /\ a \in rejected => assessed \subseteq written
  /\ rows' = [rows EXCEPT ![phase][a] = IF a \in assessed THEN "assessed" ELSE "rejected"]
  /\ written' = written \cup {a}
  /\ UNCHANGED <<meter, dayVars, stageVars, faults, phase, rescore, editVars, ledgerVars>>

\* Faulty variant of EndStage: the stage does not wait for its requests.
EndStageEarly ==
  /\ phase \in Stage
  /\ phase' = IF phase = "triage" THEN "admit" ELSE "editing"
  /\ edits' = IF phase = "deep" THEN MaxEdits ELSE 0
  /\ UNCHANGED <<meter, dayVars, stageVars, faults, rescore, rows, written, asked, ledgerVars>>

\* The outcome of a stage is dropped when it returns.
Dropped ==
  /\ pending' = {} /\ waiting' = {} /\ calls' = {}
  /\ assessed' = {} /\ rejected' = {} /\ stopped' = FALSE
  /\ written' = {} /\ faults' = <<>>

\* The stage ends when its rows are written, or at the first write that
\* fails: the run then goes on without the rest.
EndStage ==
  /\ phase \in Stage /\ StageDone
  /\ phase' = IF phase = "triage" THEN "admit" ELSE "editing"
  /\ edits' = IF phase = "deep" THEN MaxEdits ELSE 0
  /\ Dropped
  /\ UNCHANGED <<meter, dayVars, rescore, rows, asked, ledgerVars>>

\* Admission picks the deep set (as Selection says), and deep assessment starts.
Admit ==
  /\ phase = "admit"
  /\ \E admitted \in SUBSET Articles : Launch(DeepPending(admitted))
  /\ phase' = "deep"
  /\ UNCHANGED <<meter, dayVars, faults, written, rescore, rows, editVars, ledgerVars>>

-----------------------------------------------------------------------------
(* Selection, summaries, the brief and the world briefing.  The last goes  *)
(* to bulk alone, and so do summaries by editorial.summary_model.          *)

InEditing == asked["bulk"] + asked["editor"]

\* A call on p, whose meter may refuse it; the editor's calls then go to bulk,
\* and what bulk refuses is done without a provider.
CallOn(p) ==
  IF ~Over(meter[p])
  THEN asked' = [asked EXCEPT ![p] = @ + 1] /\ UNCHANGED meter
  ELSE IF p = "editor" /\ ~Over(meter["bulk"])
  THEN asked' = [asked EXCEPT !["bulk"] = @ + 1] /\ meter' = [meter EXCEPT ![p] = Checked(@)]
  ELSE /\ UNCHANGED asked
       /\ meter' = [q \in Provider |-> IF q = p \/ q = "bulk" THEN Checked(meter[q]) ELSE meter[q]]

Edit ==
  /\ phase = "editing" /\ edits > 0 /\ InEditing < MaxInFlight
  /\ edits' = edits - 1
  /\ \E p \in {EditorOrBulk(meter), "bulk"} : CallOn(p)
  /\ UNCHANGED <<dayVars, stageVars, faults, phase, rescore, rows, written, ledgerVars>>

EditAnswered(p) ==
  /\ asked[p] > 0
  /\ asked' = [asked EXCEPT ![p] = @ - 1]
  /\ \E k \in Costs : meter' = [meter EXCEPT ![p] = Recorded(@, k)]

\* An error, or a paid answer that does not parse; after the editor's the same
\* prompt goes to bulk.
EditFailed(p) ==
  /\ asked[p] > 0
  /\ \E k \in Costs \cup {0} :
       LET m == [meter EXCEPT ![p] = Recorded(@, k)] IN
         IF p = "editor" /\ ~Over(m["bulk"])
         THEN /\ asked' = [asked EXCEPT ![p] = @ - 1, !["bulk"] = @ + 1]
              /\ meter' = m
         ELSE /\ asked' = [asked EXCEPT ![p] = @ - 1]
              /\ meter' = IF p = "editor" THEN [m EXCEPT !["bulk"] = Checked(@)] ELSE m

EditAnswer ==
  /\ \E p \in Provider : EditAnswered(p) \/ EditFailed(p)
  /\ UNCHANGED <<dayVars, stageVars, faults, phase, rescore, rows, written, edits, ledgerVars>>

-----------------------------------------------------------------------------
(* The end of a run.                                                       *)

\* The run is over and the process with its memory is gone.
Leave ==
  /\ phase' = "idle"
  /\ meter' = [p \in Provider |-> Preloaded(0)]
  /\ Dropped
  /\ edits' = 0 /\ asked' = Nothing
  /\ rescore' = FALSE
  /\ UNCHANGED <<dayVars, rows, blind, runs>>

\* Stage 11 and finish_run, which keeps the costs of a run that fails later.
Finish ==
  /\ phase = "editing" /\ edits = 0 /\ InEditing = 0
  /\ recorded' = [p \in Provider |-> recorded[p] + meter[p].cost]
  /\ UNCHANGED unrecorded
  /\ Leave

LoseCosts ==
  /\ unrecorded' = [p \in Provider |-> unrecorded[p] \/ meter[p].cost > 0]
  /\ UNCHANGED recorded
  /\ Leave

\* An error between the stages fails the run, whose row then has no costs.
Fail == (phase = "admit" \/ (phase = "editing" /\ InEditing = 0)) /\ LoseCosts

Crash == phase # "idle" /\ LoseCosts

\* A new UTC day, with or without assessment_reuse_days gone by.
TimePasses ==
  /\ phase = "idle"
  /\ rows' \in {rows, NoRows}
  /\ recorded' = Nothing /\ unrecorded' = [p \in Provider |-> FALSE] /\ blind' = FALSE
  /\ UNCHANGED <<meter, dayVars, stageVars, faults, phase, rescore, written, editVars, runs>>

RunNext ==
  \/ AskProviders \/ (\E a \in Articles : WriteRow(a)) \/ EndStage \/ Admit
  \/ Edit \/ EditAnswer \/ Finish

Next == RunNext \/ StartRun \/ Fail \/ Crash \/ TimePasses

Spec == Init /\ [][Next]_vars

-----------------------------------------------------------------------------
(* Properties.                                                             *)

\* Types, and what the phases imply: between runs nothing is in flight, and
\* rows are written only for verdicts of the stage.
CurationTypeOK ==
  /\ phase \in Phase
  /\ rescore \in BOOLEAN /\ blind \in BOOLEAN
  /\ rows \in [Stage -> [Articles -> {"none", "assessed", "rejected"}]]
  /\ written \subseteq assessed \cup rejected
  /\ edits \in 0..MaxEdits
  /\ asked \in [Provider -> 0..MaxInFlight] /\ InEditing <= MaxInFlight
  /\ recorded \in [Provider -> Nat] /\ unrecorded \in [Provider -> BOOLEAN]
  /\ phase \notin Stage => calls = {} /\ waiting = {}
  /\ phase # "editing" => InEditing = 0 /\ edits = 0

\* Without --rescore a run leaves every fresh row alone, whatever ids the
\* providers' answers name and wherever earlier runs were cut off: a cached
\* assessment is not paid for again and a rejection is not asked again.
RowsKept ==
  [][phase # "idle" /\ ~rescore =>
       \A s \in Stage, a \in Articles :
         rows[s][a] # "none" => rows'[s][a] = rows[s][a]]_vars

InFlight(p) == asked[p] + Cardinality({c \in calls : c.on = p})
Today(p) == recorded[p] + meter[p].cost
MaxCost == CHOOSE k \in Costs : \A c \in Costs : c <= k

\* The README's ceiling on what the meters count: over all runs of a UTC day the
\* recorded completions of a provider cost at most its ceiling and the requests
\* then in flight, the profile's among them, as long as no run of the day lost
\* its costs or could not read those before it.
DayCeiling ==
  \A p \in Provider :
    /\ Limit > 0 /\ ~blind /\ ~unrecorded[p]
    /\ meter[p].cost > 0 \/ InFlight(p) > 0
    => Today(p) + MaxCost * InFlight(p) <= (Limit - 1) + MaxCost * MaxInFlight

\* A run inherits all that earlier runs of the day spent (README:388).
InheritsSpend ==
  phase # "idle" /\ ~blind =>
    \A p \in Provider : meter[p].prior = recorded[p] /\ ~unrecorded[p]
=============================================================================
