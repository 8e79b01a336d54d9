---------------------------- MODULE CurationProofs ----------------------------
(***************************************************************************)
(* A run leaves fresh assessment rows alone, for any number of articles,   *)
(* runs, crashes, failed writes and provider faults: the stage asks only   *)
(* about articles without a row, its verdicts are only about those it      *)
(* asked about, and it writes each of them once.  The stages of a day keep *)
(* what the runner promises of one, and its runs keep to the day's ceiling.*)
(***************************************************************************)
EXTENDS Curation, BatchesProofs

\* In a stage, the articles whose verdict is not written have no fresh row.
RowsInv ==
  /\ OneVerdict
  /\ pending \subseteq Articles
  /\ rows \in [Stage -> [Articles -> {"none", "assessed", "rejected"}]]
  /\ phase \in Stage /\ ~rescore =>
       \A a \in pending \ written : rows[phase][a] = "none"

\* A stage starts with its verdicts open.
LEMMA LaunchDisjoint ==
  ASSUME NEW S, Launch(S)
  PROVE  OneVerdict'
<1>1. /\ \A w \in waiting' : w.articles \subseteq pending'
      /\ \A v, w \in waiting' : v # w => v.articles \cap w.articles = {}
  BY ChunksSplit DEF Launch
<1>2. calls' = {} /\ assessed' = {} /\ rejected' = {}
  BY DEF Launch
<1> QED BY <1>1, <1>2 DEF OneVerdict

\* The runner does not change what it was asked about.
LEMMA PendingFixed == BatchesNext => pending' = pending
BY DEF BatchesNext, Start, Answer, AnswerItems, AnswerNoItems, AnswerRejected,
       AnswerTransient, AnswerEditor, ResolveSingle, Settle

LEMMA RowsInit == Init => RowsInv
BY DEF Init, RowsInv, OneVerdict, NoRows, Stage

LEMMA RowsStep == RowsInv /\ [Next]_vars => RowsInv'
<1> SUFFICES ASSUME RowsInv, [Next]_vars PROVE RowsInv'
  OBVIOUS
<1> USE DEF RowsInv, Stage
<1>1. CASE StartRun
  <2>1. PICK pool \in SUBSET Articles : Launch(pool \cap TriagePending(rescore'))
    BY <1>1 DEF StartRun
  <2>2. OneVerdict'
    BY <2>1, LaunchDisjoint
  <2>3. /\ pending' \subseteq TriagePending(rescore')
        /\ rows' = rows /\ phase' = "triage"
    BY <1>1, <2>1 DEF StartRun, Launch
  <2> QED BY <2>2, <2>3 DEF TriagePending
<1>2. CASE AskProviders
  <2>1. BatchesNext
    BY <1>2 DEF AskProviders
  <2>2. OneVerdict'
    BY <2>1, AnswerDisjoint, StartDisjoint DEF BatchesNext
  <2>3. pending' = pending
    BY <2>1, PendingFixed
  <2> QED BY <1>2, <2>2, <2>3 DEF AskProviders
<1>3. ASSUME NEW a \in Articles, WriteRow(a) PROVE RowsInv'
  <2>1. OneVerdict'
    BY <1>3 DEF WriteRow, stageVars, OneVerdict
  <2> QED BY <1>3, <2>1 DEF WriteRow, stageVars
<1>4. CASE EndStage
  BY <1>4 DEF EndStage, Dropped, OneVerdict
<1>5. CASE Admit
  <2>1. PICK admitted \in SUBSET Articles : Launch(DeepPending(admitted))
    BY <1>5 DEF Admit
  <2>2. OneVerdict'
    BY <2>1, LaunchDisjoint
  <2>3. pending' = DeepPending(admitted) /\ rows' = rows /\ phase' = "deep" /\ rescore' = rescore
    BY <1>5, <2>1 DEF Admit, Launch
  <2> QED BY <2>2, <2>3 DEF DeepPending
<1>6. CASE Edit \/ EditAnswer
  BY <1>6 DEF Edit, EditAnswer, stageVars, OneVerdict
<1>7. CASE Finish \/ Fail \/ Crash
  <2>1. Leave
    BY <1>7 DEF Finish, Fail, Crash, LoseCosts
  <2>2. OneVerdict'
    BY <2>1 DEF Leave, Dropped, OneVerdict
  <2> QED BY <2>1, <2>2 DEF Leave, Dropped
<1>8. CASE TimePasses
  BY <1>8 DEF TimePasses, NoRows, stageVars, OneVerdict
<1>9. CASE UNCHANGED vars
  BY <1>9 DEF vars, batchVars, stageVars, OneVerdict
<1> QED BY <1>1, <1>2, <1>3, <1>4, <1>5, <1>6, <1>7, <1>8, <1>9 DEF Next, RunNext

\* RowsKept: a run never pays for a fresh assessment again, asks again about a
\* rejected article, or overwrites either, unless --rescore says so.
THEOREM RowsKeptHolds == Spec => RowsKept
<1>1. RowsInv /\ [Next]_vars =>
        [phase # "idle" /\ ~rescore =>
           \A s \in Stage, a \in Articles :
             rows[s][a] # "none" => rows'[s][a] = rows[s][a]]_vars
  <2> SUFFICES ASSUME RowsInv, Next, phase # "idle", ~rescore,
                      NEW s \in Stage, NEW a \in Articles, rows[s][a] # "none"
               PROVE  rows'[s][a] = rows[s][a]
    OBVIOUS
  <2>1. ASSUME NEW b \in Articles, WriteRow(b) PROVE rows'[s][a] = rows[s][a]
    <3>1. b \in pending \ written /\ phase \in Stage
      BY <2>1 DEF WriteRow, RowsInv, OneVerdict
    <3>2. rows[phase][b] = "none"
      BY <3>1 DEF RowsInv
    <3>3. s # phase \/ a # b
      BY <3>2
    <3> QED BY <2>1, <3>1, <3>3 DEF WriteRow, RowsInv
  <2>2. CASE StartRun \/ TimePasses
    BY <2>2 DEF StartRun, TimePasses
  <2>3. CASE AskProviders \/ EndStage \/ Admit \/ Edit \/ EditAnswer
    BY <2>3 DEF AskProviders, EndStage, Admit, Edit, EditAnswer
  <2>4. CASE Finish \/ Fail \/ Crash
    BY <2>4 DEF Finish, Fail, Crash, LoseCosts, Leave
  <2> QED BY <2>1, <2>2, <2>3, <2>4 DEF Next, RunNext
<1> QED BY <1>1, RowsInit, RowsStep, PTL DEF Spec, RowsKept

-----------------------------------------------------------------------------
(* What the runner promises of one stage holds in every stage of a day.     *)

\* Between stages the faults are forgotten with everything else.
StageInv ==
  /\ BlameInv /\ LossInv
  /\ phase \notin Stage => faults = <<>>

\* A stage that starts without faults has blamed nobody and lost nothing.
LEMMA LaunchPromises ==
  ASSUME NEW S \in SUBSET Articles, Launch(S), faults = <<>>, faults' = faults
  PROVE  BlameInv' /\ LossInv'
<1>1. /\ pending' = S /\ waiting' = Chunks(S) /\ calls' = {}
      /\ assessed' = {} /\ rejected' = {} /\ faults' \in Seq(Fault)
  BY DEF Launch
<1>2. \A a \in S : \E w \in waiting' : a \in w.articles
  BY <1>1, ChunksSplit
<1> QED BY <1>1, <1>2 DEF BlameInv, LossInv, Kept

LEMMA DroppedPromises == ASSUME Dropped PROVE BlameInv' /\ LossInv' /\ faults' = <<>>
<1>1. faults' \in Seq(Fault) /\ faults' = <<>> /\ pending' = {} /\ rejected' = {} /\ calls' = {}
  BY DEF Dropped
<1> QED BY <1>1 DEF BlameInv, LossInv, Kept

LEMMA StageInit == Init => StageInv
<1> SUFFICES ASSUME Init PROVE StageInv
  OBVIOUS
<1>1. faults \in Seq(Fault) /\ faults = <<>> /\ pending = {} /\ rejected = {} /\ calls = {}
  BY DEF Init
<1> QED BY <1>1 DEF StageInv, BlameInv, LossInv, Kept

LEMMA StageStep == RowsInv /\ StageInv /\ [Next]_vars => StageInv'
<1> SUFFICES ASSUME RowsInv, StageInv, [Next]_vars PROVE StageInv'
  OBVIOUS
<1> USE DEF Stage
<1>1. CASE StartRun \/ Admit
  <2>1. faults = <<>> /\ faults' = faults /\ phase' \in Stage
    BY <1>1 DEF StartRun, Admit, StageInv
  <2>2. \E S \in SUBSET Articles : Launch(S)
    BY <1>1 DEF StartRun, Admit, DeepPending
  <2> QED BY <2>1, <2>2, LaunchPromises DEF StageInv
<1>2. CASE AskProviders
  <2>1. BatchesNext /\ phase' = phase /\ phase \in Stage
    BY <1>2 DEF AskProviders
  <2>2. OneVerdict /\ BlameInv /\ LossInv
    BY DEF RowsInv, StageInv
  <2>3. BlameInv' /\ LossInv'
    BY <2>1, <2>2, AnswerBlame, StartBlame, AnswerKeeps, StartKeeps DEF BatchesNext
  <2> QED BY <2>1, <2>3 DEF StageInv
<1>3. CASE EndStage \/ Finish \/ Fail \/ Crash
  <2>1. Dropped
    BY <1>3 DEF EndStage, Finish, Fail, Crash, LoseCosts, Leave
  <2> QED BY <2>1, DroppedPromises DEF StageInv
<1>4. ASSUME UNCHANGED <<dayVars, stageVars, faults, phase>> PROVE StageInv'
  BY <1>4 DEF StageInv, BlameInv, LossInv, Kept, NoBlame, dayVars, stageVars
<1>5. ASSUME NEW a \in Articles, WriteRow(a) PROVE StageInv'
  BY <1>4, <1>5 DEF WriteRow
<1>6. CASE Edit \/ EditAnswer \/ TimePasses \/ UNCHANGED vars
  BY <1>4, <1>6 DEF Edit, EditAnswer, TimePasses, vars, batchVars, dayVars
<1> QED BY <1>1, <1>2, <1>3, <1>5, <1>6 DEF Next, RunNext

\* OneVerdict, OnlyPoisonRejected and NothingLost, as BatchesProofs has them
\* for one stage, in every stage of every run of a day, after runs that failed
\* or were killed in the middle of one.
THEOREM EveryStageKeepsPromises == Spec => [](OneVerdict /\ OnlyPoisonRejected /\ NothingLost)
<1>1. RowsInv /\ StageInv => OneVerdict /\ OnlyPoisonRejected /\ NothingLost
  BY DEF RowsInv, StageInv, BlameInv, LossInv, Kept, NoBlame, OneVerdict, OnlyPoisonRejected,
         NothingLost, StageDone
<1>2. RowsInv /\ [Next]_vars => RowsInv'
  BY RowsStep
<1> QED BY <1>1, <1>2, RowsInit, StageInit, StageStep, PTL DEF Spec

-----------------------------------------------------------------------------
(* Types, and what a phase implies.                                        *)

\* CurationTypeOK, strengthened by the types of Batches, by what is over
\* between stages and runs, and by the meters starting from the day's record.
CurationInv ==
  /\ TypeInv /\ CurationTypeOK
  /\ phase \notin Stage => written = {}
  /\ phase = "idle" => meter = [p \in Provider |-> Preloaded(0)]
  /\ phase # "idle" /\ ~blind => \A p \in Provider : meter[p].prior = recorded[p]

\* A stage starts with its chunks waiting and nothing else.
LEMMA LaunchTyped ==
  ASSUME NEW S \in SUBSET Articles, Launch(S), TypeInv,
         UNCHANGED <<dayVars, faults>>, meter' \in [Provider -> Meter]
  PROVE  TypeInv'
<1> USE DEF TypeInv, BatchesTypeOK, dayVars, Provider
<1>1. waiting' \subseteq Work
  BY ChunksTyped DEF Launch
<1>2. IsFiniteSet(calls') /\ Cardinality(calls') <= MaxInFlight /\ calls' = {}
  BY FS_EmptySet, BatchesAssumption DEF Launch
<1> QED BY <1>1, <1>2 DEF Launch

LEMMA DroppedTyped ==
  ASSUME Dropped, TypeInv, UNCHANGED dayVars, meter' \in [Provider -> Meter]
  PROVE  TypeInv'
<1> USE DEF TypeInv, BatchesTypeOK, dayVars, Provider
<1>1. IsFiniteSet(calls') /\ Cardinality(calls') <= MaxInFlight /\ calls' = {}
  BY FS_EmptySet, BatchesAssumption DEF Dropped
<1>2. faults' \in Seq(Fault) /\ Len(faults') <= MaxFaults
  BY BatchesAssumption DEF Dropped
<1> QED BY <1>1, <1>2 DEF Dropped

\* Going on with a batch changes no meter's part of earlier runs, nor what it
\* has spent.
LEMMA ResumeSpends ==
  ASSUME NEW b, NEW W, NEW C, NEW m \in [Provider -> Meter], Resume(b, W, C, m)
  PROVE  \A p \in Provider : meter'[p].prior = m[p].prior /\ meter'[p].cost = m[p].cost
<1> USE DEF Provider
<1>1. /\ m["bulk"] \in Meter /\ Checked(m["bulk"]).prior = m["bulk"].prior
      /\ Checked(m["bulk"]).cost = m["bulk"].cost
  <2>1. m["bulk"] \in Meter /\ 0 \in Nat
    OBVIOUS
  <2> QED BY <2>1, MeterTyped
<1> QED BY <1>1 DEF Resume

\* The runner's verdicts stay, and so do the meters' parts of earlier runs.
LEMMA AnswerKeepsPrior ==
  ASSUME TypeInv, NEW c \in calls, Answer(c)
  PROVE  /\ assessed \cup rejected \subseteq assessed' \cup rejected'
         /\ \A p \in Provider : meter'[p].prior = meter[p].prior
<1>0. meter \in [Provider -> Meter] /\ BatchesTypeOK
  BY DEF TypeInv, BatchesTypeOK, Provider
<1>1. ASSUME NEW k \in Costs
      PROVE  Paid(c, k) \in [Provider -> Meter] /\ \A p \in Provider : Paid(c, k)[p].prior = meter[p].prior
  <2>1. Paid(c, k) \in [Provider -> Meter] /\ k \in Nat /\ c.on \in Provider
    BY <1>0, PaidTyped, BatchesAssumption DEF Provider, BatchesTypeOK, Call
  <2>2. Recorded(meter[c.on], k).prior = meter[c.on].prior
    BY <1>0, <2>1, MeterTyped
  <2> QED BY <1>0, <2>1, <2>2 DEF Paid
<1>2. ASSUME NEW A, NEW R, NEW W, NEW m \in [Provider -> Meter], Settle(c, A, R, W, m)
      PROVE  /\ assessed \cup rejected \subseteq assessed' \cup rejected'
             /\ \A p \in Provider : meter'[p].prior = m[p].prior
  BY <1>2, ResumeSpends DEF Settle
<1>3. ASSUME NEW m \in [Provider -> Meter], ResolveSingle(c, m)
      PROVE  /\ assessed \cup rejected \subseteq assessed' \cup rejected'
             /\ \A p \in Provider : meter'[p].prior = m[p].prior
  <2>1. CASE other /\ ~Over(m["editor"])
    BY <1>3, <2>1 DEF ResolveSingle
  <2>2. CASE ~(other /\ ~Over(m["editor"]))
    <3> DEFINE n == IF other THEN [m EXCEPT !["editor"] = Checked(@)] ELSE m
    <3>1. Checked(m["editor"]) \in Meter /\ Checked(m["editor"]).prior = m["editor"].prior
      <4>1. m["editor"] \in Meter /\ 0 \in Nat
        BY DEF Provider
      <4> QED BY <4>1, MeterTyped
    <3>2. n \in [Provider -> Meter] /\ \A p \in Provider : n[p].prior = m[p].prior
      BY <3>1
    <3>3. Settle(c, {}, c.articles, waiting, n)
      BY <1>3, <2>2 DEF ResolveSingle
    <3> HIDE DEF n
    <3> QED BY <1>2, <3>2, <3>3
  <2> QED BY <2>1, <2>2
<1>4. PICK m \in [Provider -> Meter] :
        /\ \A p \in Provider : m[p].prior = meter[p].prior
        /\ ResolveSingle(c, m) \/ \E A, R, W : Settle(c, A, R, W, m)
  BY <1>0, <1>1 DEF Answer, AnswerItems, AnswerNoItems, AnswerRejected, AnswerTransient, AnswerEditor
<1> QED BY <1>2, <1>3, <1>4

LEMMA StartKeepsPrior ==
  ASSUME TypeInv, NEW b \in Articles, Start(b)
  PROVE  /\ assessed' = assessed /\ rejected' = rejected
         /\ \A p \in Provider : meter'[p].prior = meter[p].prior
<1>1. meter \in [Provider -> Meter]
  BY DEF TypeInv, BatchesTypeOK, Provider
<1> QED BY <1>1, ResumeSpends DEF Start

\* Nothing in flight, nothing known.
LEMMA NothingTyped ==
  /\ Nothing \in [Provider -> 0..MaxInFlight] /\ Nothing \in [Provider -> Nat]
  /\ Nothing["bulk"] + Nothing["editor"] = 0
  /\ NoRows \in [Stage -> [Articles -> {"none", "assessed", "rejected"}]]
<1>1. 0 \in 0..MaxInFlight /\ 0 + 0 = 0 /\ 0 \in Nat
  BY BatchesAssumption
<1>2. [a \in Articles |-> "none"] \in [Articles -> {"none", "assessed", "rejected"}]
  OBVIOUS
<1> QED BY <1>1, <1>2 DEF Nothing, NoRows, Provider

LEMMA CurationInit == Init => CurationInv
<1> SUFFICES ASSUME Init PROVE CurationInv
  OBVIOUS
<1> USE CurationAssumption, BatchesAssumption
<1>1. TypeInv
  <2>1. IsFiniteSet(calls) /\ Cardinality(calls) <= MaxInFlight
    BY FS_EmptySet DEF Init
  <2>2. faults \in Seq(Fault) /\ Len(faults) <= MaxFaults
    BY DEF Init
  <2>3. meter \in [Provider -> Meter]
    <3>1. Preloaded(0) \in Meter
      BY PreloadedTyped
    <3> QED BY <3>1 DEF Init
  <2> QED BY <2>1, <2>2, <2>3 DEF Init, TypeInv, BatchesTypeOK, Provider
<1>2. CurationTypeOK
  <2>1. /\ asked \in [Provider -> 0..MaxInFlight] /\ InEditing = 0
        /\ recorded \in [Provider -> Nat]
        /\ rows \in [Stage -> [Articles -> {"none", "assessed", "rejected"}]]
    BY NothingTyped DEF Init, InEditing
  <2>2. unrecorded \in [Provider -> BOOLEAN] /\ 0 \in 0..MaxEdits /\ 0 <= MaxInFlight
    BY DEF Init
  <2> QED BY <2>1, <2>2 DEF Init, CurationTypeOK, Phase
<1> QED BY <1>1, <1>2 DEF Init, CurationInv

\* The profile's rebuild leaves what was spent before the run, and pays for one
\* call at most, of a provider that may still be asked.
LEMMA RebuildTyped ==
  ASSUME NEW m \in [Provider -> Meter], NEW after \in AfterRebuild(m)
  PROVE  /\ after \in [Provider -> Meter]
         /\ \A p \in Provider :
              /\ after[p].prior = m[p].prior
              /\ \/ after[p].cost = m[p].cost
                 \/ ~Over(m[p]) /\ \E k \in Costs : after[p] = Recorded(m[p], k)
<1>1. EditorOrBulk(m) \in Provider
  BY DEF EditorOrBulk, Provider
<1>2. PICK q \in Provider :
        \/ after = m
        \/ after = [m EXCEPT ![q] = Checked(@)]
        \/ ~Over(m[q]) /\ \E k \in Costs : after = [m EXCEPT ![q] = Recorded(@, k)]
  BY <1>1 DEF AfterRebuild
<1>3. CASE after = m
  BY <1>3
<1>4. CASE after = [m EXCEPT ![q] = Checked(@)]
  <2>1. 0 \in Nat /\ m[q] \in Meter
    OBVIOUS
  <2>2. Checked(m[q]) \in Meter /\ Checked(m[q]).prior = m[q].prior /\ Checked(m[q]).cost = m[q].cost
    BY <2>1, MeterTyped
  <2> QED BY <1>4, <2>2
<1>5. ASSUME NEW k \in Costs, ~Over(m[q]), after = [m EXCEPT ![q] = Recorded(@, k)]
      PROVE  /\ after \in [Provider -> Meter]
             /\ \A p \in Provider :
                  /\ after[p].prior = m[p].prior
                  /\ \/ after[p].cost = m[p].cost
                     \/ ~Over(m[p]) /\ \E l \in Costs : after[p] = Recorded(m[p], l)
  <2>1. k \in Nat /\ m[q] \in Meter
    BY BatchesAssumption
  <2>2. Recorded(m[q], k) \in Meter /\ Recorded(m[q], k).prior = m[q].prior
    BY <2>1, MeterTyped
  <2>3. \A p \in Provider : after[p] = IF p = q THEN Recorded(m[q], k) ELSE m[p]
    BY <1>5
  <2> QED BY <1>5, <2>2, <2>3
<1> QED BY <1>2, <1>3, <1>4, <1>5

LEMMA CurationStep == CurationInv /\ [Next]_vars => CurationInv'
<1> SUFFICES ASSUME CurationInv, [Next]_vars PROVE CurationInv'
  OBVIOUS
<1> USE CurationAssumption, BatchesAssumption DEF Stage, Phase
<1>0. /\ TypeInv /\ CurationTypeOK /\ meter \in [Provider -> Meter]
      /\ recorded \in [Provider -> Nat] /\ calls \subseteq Call
  BY DEF CurationInv, TypeInv, BatchesTypeOK, CurationTypeOK, Provider
<1>p. Preloaded(0) \in Meter /\ \A p \in Provider : Preloaded(recorded[p]) \in Meter
  BY <1>0, PreloadedTyped
<1>1. CASE StartRun
  <2>1. PICK read \in BOOLEAN :
          /\ meter' \in AfterRebuild([p \in Provider |-> Preloaded(IF read THEN recorded[p] ELSE 0)])
          /\ blind' = (blind \/ ~read)
    BY <1>1 DEF StartRun
  <2> DEFINE m == [p \in Provider |-> Preloaded(IF read THEN recorded[p] ELSE 0)]
  <2>m. m \in [Provider -> Meter] /\ (read => \A p \in Provider : m[p].prior = recorded[p])
    BY <1>0, <1>p DEF Preloaded
  <2>r. meter' \in [Provider -> Meter] /\ \A p \in Provider : meter'[p].prior = m[p].prior
    BY <2>1, <2>m, RebuildTyped
  <2>2. PICK pool \in SUBSET Articles : Launch(pool \cap TriagePending(rescore'))
    BY <1>1 DEF StartRun
  <2>4. TypeInv'
    BY <1>0, <1>1, <2>2, <2>r, LaunchTyped DEF StartRun
  <2>5. ~blind' => \A p \in Provider : meter'[p].prior = recorded'[p]
    BY <1>1, <2>1, <2>m, <2>r DEF StartRun
  <2>6. CurationTypeOK'
    <3>1. written' \subseteq assessed' \cup rejected'
      BY <1>1 DEF StartRun, CurationInv
    <3> QED BY <1>0, <1>1, <2>1, <3>1 DEF StartRun, CurationTypeOK, editVars, InEditing
  <2> QED BY <1>1, <2>4, <2>5, <2>6 DEF StartRun, CurationInv
<1>2. CASE AskProviders
  <2>1. BatchesNext /\ phase \in Stage /\ phase' = phase
        /\ UNCHANGED <<rescore, rows, written, edits, asked, recorded, unrecorded, blind>>
    BY <1>2 DEF AskProviders, editVars, ledgerVars
  <2>2. /\ TypeInv' /\ assessed \cup rejected \subseteq assessed' \cup rejected'
        /\ \A p \in Provider : meter'[p].prior = meter[p].prior
    BY <1>0, <2>1, AnswerTyped, StartTyped, AnswerKeepsPrior, StartKeepsPrior DEF BatchesNext
  <2>3. CurationTypeOK'
    BY <1>0, <2>1, <2>2 DEF CurationTypeOK, InEditing
  <2> QED BY <2>1, <2>2, <2>3 DEF CurationInv
<1>3. ASSUME NEW a \in Articles, WriteRow(a) PROVE CurationInv'
  <2>1. TypeInv'
    BY <1>0, <1>3 DEF WriteRow, dayVars, stageVars, TypeInv, BatchesTypeOK
  <2>2. rows' \in [Stage -> [Articles -> {"none", "assessed", "rejected"}]]
    BY <1>0, <1>3 DEF WriteRow, CurationTypeOK
  <2>3. CurationTypeOK'
    BY <1>0, <1>3, <2>2 DEF WriteRow, stageVars, editVars, ledgerVars, CurationTypeOK, InEditing
  <2> QED BY <1>3, <2>1, <2>3 DEF WriteRow, stageVars, editVars, ledgerVars, CurationInv
<1>4. CASE EndStage
  <2>1. TypeInv'
    BY <1>0, <1>4, DroppedTyped DEF EndStage
  <2>2. CurationTypeOK'
    BY <1>0, <1>4 DEF EndStage, Dropped, ledgerVars, CurationTypeOK, InEditing
  <2> QED BY <1>4, <2>1, <2>2 DEF EndStage, Dropped, ledgerVars, CurationInv
<1>5. CASE Admit
  <2>1. PICK admitted \in SUBSET Articles : Launch(DeepPending(admitted))
    BY <1>5 DEF Admit
  <2>2. DeepPending(admitted) \in SUBSET Articles
    BY DEF DeepPending
  <2>3. TypeInv'
    BY <1>0, <1>5, <2>1, <2>2, LaunchTyped DEF Admit
  <2>4. CurationTypeOK'
    <3>1. written' \subseteq assessed' \cup rejected'
      BY <1>5 DEF Admit, CurationInv
    <3> QED BY <1>0, <1>5, <3>1 DEF Admit, editVars, ledgerVars, CurationTypeOK, InEditing
  <2> QED BY <1>5, <2>3, <2>4 DEF Admit, ledgerVars, CurationInv
<1>6. CASE Edit \/ EditAnswer
  <2>1. /\ \A p \in Provider : Checked(meter[p]) \in Meter /\ Checked(meter[p]).prior = meter[p].prior
        /\ \A p \in Provider, k \in Costs \cup {0} :
             Recorded(meter[p], k) \in Meter /\ Recorded(meter[p], k).prior = meter[p].prior
    <3>1. Costs \cup {0} \subseteq Nat /\ 0 \in Nat
      OBVIOUS
    <3> QED BY <1>0, <3>1, MeterTyped
  <2>2. meter' \in [Provider -> Meter] /\ \A p \in Provider : meter'[p].prior = meter[p].prior
    <3>1. CASE Edit
      BY <1>0, <2>1, <3>1 DEF Edit, CallOn, Provider
    <3>2. ASSUME NEW p \in Provider, EditAnswered(p)
          PROVE  meter' \in [Provider -> Meter] /\ \A q \in Provider : meter'[q].prior = meter[q].prior
      <4>1. PICK k \in Costs \cup {0} : meter' = [meter EXCEPT ![p] = Recorded(@, k)]
        BY <3>2 DEF EditAnswered
      <4>2. Recorded(meter[p], k) \in Meter /\ Recorded(meter[p], k).prior = meter[p].prior
        BY <2>1
      <4> QED BY <1>0, <4>1, <4>2
    <3>3. ASSUME NEW p \in Provider, EditFailed(p)
          PROVE  meter' \in [Provider -> Meter] /\ \A q \in Provider : meter'[q].prior = meter[q].prior
      <4>1. PICK k \in Costs \cup {0} :
              LET m == [meter EXCEPT ![p] = Recorded(@, k)] IN
                meter' = m \/ (p = "editor" /\ meter' = [m EXCEPT !["bulk"] = Checked(@)])
        BY <3>3 DEF EditFailed
      <4> DEFINE m == [meter EXCEPT ![p] = Recorded(@, k)]
      <4>2. m \in [Provider -> Meter] /\ \A q \in Provider : m[q].prior = meter[q].prior
        BY <1>0, <2>1
      <4>3. p = "editor" => m["bulk"] = meter["bulk"]
        BY <1>0 DEF Provider
      <4>4. Checked(meter["bulk"]) \in Meter /\ Checked(meter["bulk"]).prior = meter["bulk"].prior
        BY <2>1 DEF Provider
      <4>5. meter' = m \/ (p = "editor" /\ meter' = [m EXCEPT !["bulk"] = Checked(@)])
        BY <4>1
      <4> HIDE DEF m
      <4>6. CASE p = "editor" /\ meter' = [m EXCEPT !["bulk"] = Checked(@)]
        <5>1. meter' = [m EXCEPT !["bulk"] = Checked(meter["bulk"])]
          BY <4>3, <4>6
        <5> QED BY <4>2, <4>4, <5>1
      <4> QED BY <4>2, <4>5, <4>6
    <3> QED BY <1>6, <3>1, <3>2, <3>3 DEF EditAnswer
  <2>3. TypeInv'
    BY <1>0, <1>6, <2>2 DEF Edit, EditAnswer, dayVars, stageVars, TypeInv, BatchesTypeOK, Provider
  <2>4. /\ asked' \in [Provider -> 0..MaxInFlight] /\ InEditing' <= MaxInFlight
        /\ edits' \in 0..MaxEdits /\ phase = "editing"
    <3>0. asked \in [Provider -> 0..MaxInFlight] /\ InEditing <= MaxInFlight /\ edits \in 0..MaxEdits
      BY <1>0 DEF CurationTypeOK
    <3>1. CASE Edit
      BY <3>0, <3>1 DEF Edit, CallOn, Provider, InEditing
    <3>2. ASSUME NEW p \in Provider, asked[p] > 0, phase = "editing", edits' = edits,
                 \/ asked' = [asked EXCEPT ![p] = @ - 1]
                 \/ p = "editor" /\ asked' = [asked EXCEPT ![p] = @ - 1, !["bulk"] = @ + 1]
          PROVE  /\ asked' \in [Provider -> 0..MaxInFlight] /\ InEditing' <= MaxInFlight
                 /\ edits' \in 0..MaxEdits /\ phase = "editing"
      BY <3>0, <3>2 DEF Provider, InEditing
    <3>3. CASE EditAnswer
      <4>1. phase = "editing"
        BY <1>0, <3>3 DEF EditAnswer, EditAnswered, EditFailed, CurationTypeOK, InEditing, Provider
      <4>2. PICK p \in Provider :
              /\ asked[p] > 0
              /\ \/ asked' = [asked EXCEPT ![p] = @ - 1]
                 \/ p = "editor" /\ asked' = [asked EXCEPT ![p] = @ - 1, !["bulk"] = @ + 1]
        BY <3>3 DEF EditAnswer, EditAnswered, EditFailed
      <4>3. edits' = edits
        BY <3>3 DEF EditAnswer
      <4> QED BY <3>2, <4>1, <4>2, <4>3
    <3> QED BY <1>6, <3>1, <3>3
  <2>5. CurationTypeOK'
    BY <1>0, <1>6, <2>4 DEF Edit, EditAnswer, stageVars, ledgerVars, CurationTypeOK
  <2> QED BY <1>6, <2>2, <2>3, <2>4, <2>5 DEF Edit, EditAnswer, stageVars, ledgerVars, CurationInv
<1>7. CASE Finish \/ Fail \/ Crash
  <2>1. Leave
    BY <1>7 DEF Finish, Fail, Crash, LoseCosts
  <2>2. TypeInv'
    BY <1>0, <1>p, <2>1, DroppedTyped DEF Leave
  <2>3. recorded' \in [Provider -> Nat] /\ unrecorded' \in [Provider -> BOOLEAN]
    <3>1. \A p \in Provider : meter[p].cost \in Nat
      BY <1>0 DEF Meter
    <3>2. unrecorded \in [Provider -> BOOLEAN]
      BY <1>0 DEF CurationTypeOK
    <3>3. CASE Finish
      BY <1>0, <3>1, <3>2, <3>3 DEF Finish
    <3>4. CASE LoseCosts
      <4> DEFINE lost(p) == unrecorded[p] \/ meter[p].cost > 0
      <4>1. \A p \in Provider : lost(p) \in BOOLEAN
        OBVIOUS
      <4>2. unrecorded' = [p \in Provider |-> lost(p)] /\ recorded' = recorded
        BY <3>4 DEF LoseCosts
      <4> HIDE DEF lost
      <4> QED BY <1>0, <4>1, <4>2
    <3> QED BY <1>7, <3>3, <3>4 DEF Fail, Crash
  <2>4. CurationTypeOK'
    <3>1. asked' \in [Provider -> 0..MaxInFlight] /\ InEditing' = 0 /\ 0 <= MaxInFlight /\ 0 \in 0..MaxEdits
      BY <2>1, NothingTyped DEF Leave, InEditing
    <3> QED BY <1>0, <2>1, <2>3, <3>1 DEF Leave, Dropped, CurationTypeOK
  <2> QED BY <2>1, <2>2, <2>4 DEF Leave, Dropped, CurationInv
<1>8. CASE TimePasses
  <2>1. TypeInv'
    BY <1>0, <1>8 DEF TimePasses, dayVars, stageVars, TypeInv, BatchesTypeOK
  <2>2. CurationTypeOK'
    <3>1. /\ recorded' \in [Provider -> Nat] /\ unrecorded' \in [Provider -> BOOLEAN] /\ blind' \in BOOLEAN
          /\ rows' \in [Stage -> [Articles -> {"none", "assessed", "rejected"}]]
      BY <1>0, <1>8, NothingTyped DEF TimePasses, CurationTypeOK
    <3> QED BY <1>0, <1>8, <3>1 DEF TimePasses, stageVars, editVars, CurationTypeOK, InEditing
  <2> QED BY <1>8, <2>1, <2>2 DEF TimePasses, stageVars, CurationInv
<1>9. CASE UNCHANGED vars
  <2>1. TypeInv' /\ CurationTypeOK'
    BY <1>0, <1>9 DEF vars, batchVars, stageVars, editVars, ledgerVars, TypeInv, BatchesTypeOK, CurationTypeOK, InEditing
  <2> QED BY <1>9, <2>1 DEF vars, batchVars, stageVars, editVars, ledgerVars, CurationInv
<1> QED BY <1>1, <1>2, <1>3, <1>4, <1>5, <1>6, <1>7, <1>8, <1>9 DEF Next, RunNext

\* CurationTypeOK: between stages and runs nothing is in flight or left over.
THEOREM CurationTypeCorrect == Spec => []CurationTypeOK
<1>1. CurationInv => CurationTypeOK
  BY DEF CurationInv
<1> QED BY <1>1, CurationInit, CurationStep, PTL DEF Spec

-----------------------------------------------------------------------------
(* The day's ceiling.                                                      *)

\* What was spent and what n requests may cost stay within the ceiling and the
\* requests that can be in flight when it is reached.
Within(spent, n) == spent + MaxCost * n <= (Limit - 1) + MaxCost * MaxInFlight

LEMMA MaxCostBounds == MaxCost \in Nat /\ \A k \in Costs \cup {0} : k <= MaxCost
<1>1. MaxCost \in Costs /\ \A c \in Costs : c <= MaxCost
  BY CurationAssumption DEF MaxCost
<1> QED BY <1>1, BatchesAssumption

\* A request is made below the ceiling only.
LEMMA WithinAsk ==
  ASSUME NEW spent \in Nat, spent < Limit, NEW n \in Nat, n <= MaxInFlight
  PROVE  Within(spent, n)
<1> USE BatchesAssumption, LimitAssumption
<1>1. MaxCost \in Nat /\ MaxInFlight - n \in Nat
  BY MaxCostBounds
<1>2. \A a, b \in Nat : a * b \in Nat
  OBVIOUS
<1>3. MaxCost * (MaxInFlight - n) \in Nat /\ MaxCost * n \in Nat /\ MaxCost * MaxInFlight \in Nat
  BY <1>1, <1>2
<1>4. MaxCost * MaxInFlight = MaxCost * n + MaxCost * (MaxInFlight - n)
  BY <1>1
<1> QED BY <1>3, <1>4 DEF Within

\* An answer costs no more than was reckoned for it.
LEMMA WithinAnswer ==
  ASSUME NEW spent \in Nat, NEW n \in Nat, n > 0, NEW k \in Costs \cup {0}, Within(spent, n)
  PROVE  Within(spent + k, n - 1)
<1> USE BatchesAssumption, LimitAssumption
<1>1. MaxCost \in Nat /\ k \in Nat /\ k <= MaxCost /\ n - 1 \in Nat
  BY MaxCostBounds
<1>2. \A a, b \in Nat : a * b \in Nat
  OBVIOUS
<1>3. MaxCost * n \in Nat /\ MaxCost * (n - 1) \in Nat /\ MaxCost * MaxInFlight \in Nat
  BY <1>1, <1>2
<1>4. MaxCost * n = MaxCost * (n - 1) + MaxCost
  BY <1>1
<1> QED BY <1>1, <1>3, <1>4 DEF Within

\* DayCeiling for one provider, its meter and its requests in flight.
Ceiling(p, n, m) == m.cost > 0 \/ n > 0 => Within(recorded[p] + m.cost, n)

LEMMA CeilingAsk ==
  ASSUME NEW p \in Provider, recorded[p] \in Nat, NEW m \in Meter, m.prior = recorded[p], ~Over(m),
         Limit > 0, NEW n \in Nat, n <= MaxInFlight
  PROVE  Ceiling(p, n, m)
<1>1. recorded[p] + m.cost \in Nat /\ recorded[p] + m.cost < Limit
  BY LimitAssumption DEF Meter, Over, Spent
<1> QED BY <1>1, WithinAsk DEF Ceiling

LEMMA CeilingAnswer ==
  ASSUME NEW p \in Provider, recorded[p] \in Nat, NEW m \in Meter, NEW n \in Nat, n > 0,
         Ceiling(p, n, m), NEW k \in Costs \cup {0}
  PROVE  /\ Ceiling(p, n - 1, Recorded(m, k)) /\ Ceiling(p, n - 1, m)
         /\ Ceiling(p, n - 1, Checked(m))
<1>1. k \in Nat /\ m.cost \in Nat /\ Recorded(m, k).cost = m.cost + k /\ Checked(m).cost = m.cost
  BY MeterTyped, BatchesAssumption DEF Meter
<1>2. Within(recorded[p] + m.cost, n)
  BY DEF Ceiling
<1>3. Within((recorded[p] + m.cost) + k, n - 1) /\ Within((recorded[p] + m.cost) + 0, n - 1)
  <2>1. recorded[p] + m.cost \in Nat /\ 0 \in Costs \cup {0}
    BY <1>1
  <2> QED BY <1>2, <2>1, WithinAnswer
<1>4. (recorded[p] + m.cost) + k = recorded[p] + (m.cost + k) /\ (recorded[p] + m.cost) + 0 = recorded[p] + m.cost
  BY <1>1
<1> QED BY <1>1, <1>3, <1>4 DEF Ceiling

LEMMA CeilingCheck ==
  ASSUME NEW p \in Provider, NEW m \in Meter, NEW n, Ceiling(p, n, m)
  PROVE  Ceiling(p, n, Checked(m))
<1>1. Checked(m).cost = m.cost
  <2>1. 0 \in Nat
    OBVIOUS
  <2> QED BY <2>1, MeterTyped
<1> QED BY <1>1 DEF Ceiling

\* The runner's requests to a provider.
On(C, p) == {c \in C : c.on = p}
Flying(C, p) == Cardinality(On(C, p))

LEMMA FlyingCounts ==
  ASSUME NEW C, IsFiniteSet(C), NEW p
  PROVE  Flying(C, p) \in Nat /\ Flying(C, p) <= Cardinality(C) /\ IsFiniteSet(On(C, p))
<1>1. On(C, p) \in SUBSET C
  BY DEF On
<1> QED BY <1>1, FS_Subset, FS_CardinalityType DEF Flying

LEMMA FlyingLess ==
  ASSUME IsFiniteSet(calls), NEW c \in calls, NEW p
  PROVE  /\ c.on = p => Flying(calls, p) > 0 /\ Flying(calls \ {c}, p) = Flying(calls, p) - 1
         /\ c.on # p => Flying(calls \ {c}, p) = Flying(calls, p)
<1>1. CASE c.on = p
  <2>1. c \in On(calls, p) /\ On(calls \ {c}, p) = On(calls, p) \ {c}
    BY <1>1 DEF On
  <2>2. IsFiniteSet(On(calls, p)) /\ Cardinality(On(calls, p)) \in Nat
    BY FlyingCounts DEF Flying
  <2>3. Cardinality(On(calls, p) \ {c}) = Cardinality(On(calls, p)) - 1 /\ Cardinality(On(calls, p) \ {c}) \in Nat
    BY <2>1, <2>2, FS_RemoveElement, FS_CardinalityType
  <2> QED BY <1>1, <2>1, <2>2, <2>3 DEF Flying
<1>2. CASE c.on # p
  <2>1. On(calls \ {c}, p) = On(calls, p)
    BY <1>2 DEF On
  <2> QED BY <1>2, <2>1 DEF Flying
<1> QED BY <1>1, <1>2

LEMMA ResumeCeiling ==
  ASSUME NEW p \in Provider, NEW b, NEW W, NEW C, NEW m, Typed(W, C, m),
         Cardinality(C) < MaxInFlight, Resume(b, W, C, m),
         recorded[p] \in Nat, m[p].prior = recorded[p], Limit > 0,
         Ceiling(p, Flying(C, p), m[p])
  PROVE  Ceiling(p, Flying(calls', p), meter'[p])
<1> USE BatchesAssumption DEF Provider
<1>0. m["bulk"] \in Meter /\ m[p] \in Meter /\ m \in [Provider -> Meter] /\ IsFiniteSet(C) /\ Cardinality(C) \in Nat
  BY FS_CardinalityType DEF Typed
<1>1. CASE calls' = C /\ meter' = m
  BY <1>1
<1>2. CASE calls' = C /\ meter' = [m EXCEPT !["bulk"] = Checked(@)]
  <2>1. meter'[p] = m[p] \/ meter'[p] = Checked(m[p])
    BY <1>0, <1>2
  <2> QED BY <1>0, <1>2, <2>1, CeilingCheck
<1>3. ASSUME ~Over(m["bulk"]), meter' = m, NEW w \in W, calls' = C \cup {Ask(w, "bulk")}
      PROVE  Ceiling(p, Flying(calls', p), meter'[p])
  <2>1. Ask(w, "bulk").on = "bulk"
    BY AskTyped DEF Typed
  <2>2. CASE p = "bulk"
    <3> DEFINE x == Ask(w, "bulk")
               D == C \cup {x}
    <3>1. IsFiniteSet(D) /\ Cardinality(D) \in Nat /\ Cardinality(D) <= Cardinality(C) + 1
      <4> HIDE DEF x
      <4> QED BY <1>0, OneMore
    <3>2. D = calls'
      BY <1>3
    <3> HIDE DEF D, x
    <3>3. Flying(D, p) \in Nat /\ Flying(D, p) <= Cardinality(D)
      BY <3>1, FlyingCounts
    <3>4. Flying(D, p) <= MaxInFlight
      BY <1>0, <3>1, <3>3
    <3>5. Ceiling(p, Flying(D, p), m[p])
      BY <1>0, <1>3, <2>2, <3>3, <3>4, CeilingAsk
    <3> QED BY <1>3, <3>2, <3>5
  <2>3. CASE p # "bulk"
    <3>1. On(calls', p) = On(C, p)
      BY <1>3, <2>1, <2>3 DEF On
    <3> QED BY <1>3, <3>1 DEF Flying
  <2> QED BY <2>2, <2>3
<1> QED BY <1>1, <1>2, <1>3 DEF Resume, StackOf

\* A request that is over, with the meters as it leaves them.
LEMMA SettleCeiling ==
  ASSUME NEW p \in Provider, TypeInv, NEW c \in calls, NEW A, NEW R, NEW W \in SUBSET Work,
         NEW m \in [Provider -> Meter], Settle(c, A, R, W, m),
         recorded[p] \in Nat, m[p].prior = recorded[p], Limit > 0,
         Ceiling(p, Flying(calls \ {c}, p), m[p])
  PROVE  Ceiling(p, Flying(calls', p), meter'[p])
<1> USE BatchesAssumption
<1>1. Typed(W, calls \ {c}, m) /\ Cardinality(calls \ {c}) < MaxInFlight
  <2>1. /\ IsFiniteSet(calls \ {c}) /\ Cardinality(calls \ {c}) \in Nat
        /\ Cardinality(calls) \in Nat /\ Cardinality(calls \ {c}) = Cardinality(calls) - 1
    BY OneLess DEF TypeInv
  <2> QED BY <2>1 DEF Typed, TypeInv, BatchesTypeOK, Provider
<1> QED BY <1>1, ResumeCeiling DEF Settle

LEMMA ResolveCeiling ==
  ASSUME NEW p \in Provider, TypeInv, NEW c \in calls, c.on = "bulk",
         NEW m \in [Provider -> Meter], ResolveSingle(c, m),
         recorded[p] \in Nat, m[p].prior = recorded[p], Limit > 0,
         Ceiling(p, Flying(calls \ {c}, p), m[p])
  PROVE  Ceiling(p, Flying(calls', p), meter'[p])
<1> USE BatchesAssumption DEF Provider
<1>0. c \in Call /\ IsFiniteSet(calls) /\ Cardinality(calls) <= MaxInFlight /\ waiting \in SUBSET Work
      /\ m["editor"] \in Meter /\ m[p] \in Meter
  BY DEF TypeInv, BatchesTypeOK
<1>1. CASE other /\ ~Over(m["editor"])
  <2> DEFINE C == calls \ {c}
             x == Ask(c, "editor")
             D == C \cup {x}
  <2>1. calls' = D /\ meter' = m /\ x.on = "editor"
    BY <1>0, <1>1, AskTyped DEF ResolveSingle
  <2>2. IsFiniteSet(C) /\ Cardinality(C) = Cardinality(calls) - 1 /\ Cardinality(calls) \in Nat
    BY <1>0, OneLess
  <2>3. IsFiniteSet(D) /\ Cardinality(D) \in Nat /\ Cardinality(D) <= Cardinality(C) + 1
    <3> HIDE DEF C, x
    <3> QED BY <2>2, OneMore
  <2>4. On(D, "bulk") = On(C, "bulk")
    BY <2>1 DEF On
  <2> HIDE DEF D
  <2>5. Flying(D, p) \in Nat /\ Flying(D, p) <= MaxInFlight
    BY <1>0, <2>2, <2>3, FlyingCounts
  <2>6. CASE p = "editor"
    <3>1. Ceiling(p, Flying(D, p), m[p])
      BY <1>0, <1>1, <2>5, <2>6, CeilingAsk
    <3> QED BY <2>1, <3>1
  <2>7. CASE p = "bulk"
    <3>1. Flying(D, p) = Flying(C, p)
      BY <2>4, <2>7 DEF Flying
    <3> QED BY <2>1, <3>1
  <2> QED BY <2>6, <2>7
<1>2. CASE ~(other /\ ~Over(m["editor"]))
  <2> DEFINE n == IF other THEN [m EXCEPT !["editor"] = Checked(@)] ELSE m
  <2>1. Checked(m["editor"]) \in Meter /\ Checked(m["editor"]).prior = m["editor"].prior
    <3>1. 0 \in Nat
      OBVIOUS
    <3> QED BY <1>0, <3>1, MeterTyped
  <2>2. n \in [Provider -> Meter] /\ n[p].prior = recorded[p] /\ (n[p] = m[p] \/ n[p] = Checked(m[p]))
    BY <2>1
  <2>3. Settle(c, {}, c.articles, waiting, n)
    BY <1>2 DEF ResolveSingle
  <2> HIDE DEF n
  <2>4. Ceiling(p, Flying(calls \ {c}, p), n[p])
    BY <1>0, <2>2, CeilingCheck
  <2> QED BY <1>0, <2>2, <2>3, <2>4, SettleCeiling
<1> QED BY <1>1, <1>2

LEMMA AnswerCeiling ==
  ASSUME NEW p \in Provider, TypeInv, NEW c \in calls, Answer(c),
         recorded[p] \in Nat, meter[p].prior = recorded[p], Limit > 0,
         Ceiling(p, Flying(calls, p), meter[p])
  PROVE  Ceiling(p, Flying(calls', p), meter'[p])
<1>0. /\ c \in Call /\ IsFiniteSet(calls) /\ waiting \in SUBSET Work
      /\ meter \in [Provider -> Meter] /\ BatchesTypeOK /\ c.on \in Provider /\ c.zeroSplit \in BOOLEAN
      /\ meter[p] \in Meter /\ Flying(calls, p) \in Nat
  BY FlyingCounts DEF TypeInv, BatchesTypeOK, Call, Provider
<1>1. Ceiling(p, Flying(calls \ {c}, p), meter[p])
  <2>1. CASE c.on = p
    <3>1. 0 \in Costs \cup {0}
      OBVIOUS
    <3> QED BY <1>0, <2>1, <3>1, FlyingLess, CeilingAnswer
  <2>2. CASE c.on # p
    BY <1>0, <2>2, FlyingLess
  <2> QED BY <2>1, <2>2
<1>2. ASSUME NEW k \in Costs
      PROVE  /\ Paid(c, k) \in [Provider -> Meter] /\ Paid(c, k)[p].prior = recorded[p]
             /\ Ceiling(p, Flying(calls \ {c}, p), Paid(c, k)[p])
  <2>1. Paid(c, k) \in [Provider -> Meter] /\ k \in Nat
    BY <1>0, PaidTyped, BatchesAssumption DEF Provider
  <2>2. CASE c.on = p
    <3>1. Paid(c, k)[p] = Recorded(meter[p], k)
      BY <1>0, <2>2 DEF Paid
    <3>2. Recorded(meter[p], k).prior = meter[p].prior
      BY <1>0, <2>1, MeterTyped
    <3>3. Ceiling(p, Flying(calls, p) - 1, Recorded(meter[p], k))
      BY <1>0, <2>2, FlyingLess, CeilingAnswer
    <3> QED BY <1>0, <2>1, <2>2, <3>1, <3>2, <3>3, FlyingLess
  <2>3. CASE c.on # p
    <3>1. Paid(c, k)[p] = meter[p]
      BY <1>0, <2>3 DEF Paid
    <3> QED BY <1>1, <2>1, <3>1
  <2> QED BY <2>2, <2>3
<1>3. PICK m \in [Provider -> Meter] :
        /\ m[p].prior = recorded[p] /\ Ceiling(p, Flying(calls \ {c}, p), m[p])
        /\ \/ c.on = "bulk" /\ ResolveSingle(c, m)
           \/ \E A, R : \E W \in SUBSET Work : Settle(c, A, R, W, m)
  <2>h. \A z \in BOOLEAN : waiting \cup Halves(c, z) \in SUBSET Work
    BY <1>0, HalvesTyped
  <2>1. CASE AnswerItems(c) \/ AnswerTransient(c) \/ AnswerEditor(c)
    BY <1>0, <1>1, <1>2, <2>1 DEF AnswerItems, AnswerTransient, AnswerEditor
  <2>2. CASE AnswerNoItems(c)
    BY <1>0, <1>2, <2>h, <2>2 DEF AnswerNoItems
  <2>3. CASE AnswerRejected(c)
    BY <1>0, <1>1, <2>h, <2>3 DEF AnswerRejected
  <2> QED BY <2>1, <2>2, <2>3 DEF Answer
<1> QED BY <1>3, ResolveCeiling, SettleCeiling

LEMMA StartCeiling ==
  ASSUME NEW p \in Provider, TypeInv, NEW b \in Articles, Start(b),
         recorded[p] \in Nat, meter[p].prior = recorded[p], Limit > 0,
         Ceiling(p, Flying(calls, p), meter[p])
  PROVE  Ceiling(p, Flying(calls', p), meter'[p])
<1>1. Typed(waiting, calls, meter) /\ Cardinality(calls) < MaxInFlight /\ Resume(b, waiting, calls, meter)
  BY DEF Typed, TypeInv, BatchesTypeOK, Start
<1> QED BY <1>1, ResumeCeiling

\* DayCeiling, in terms of Ceiling.
LEMMA CeilingIsDayCeiling ==
  DayCeiling <=> \A p \in Provider : Limit > 0 /\ ~blind /\ ~unrecorded[p] => Ceiling(p, InFlight(p), meter[p])
BY DEF DayCeiling, Ceiling, Within, Today

LEMMA EditCeiling ==
  ASSUME CurationInv, NEW p \in Provider, phase = "editing", ~blind, Limit > 0,
         Ceiling(p, asked[p], meter[p]), Edit \/ EditAnswer
  PROVE  Ceiling(p, asked'[p], meter'[p])
<1> USE BatchesAssumption DEF Provider
<1>0. /\ meter \in [Provider -> Meter] /\ asked \in [Provider -> Nat] /\ InEditing <= MaxInFlight
      /\ \A q \in Provider : recorded[q] \in Nat /\ meter[q].prior = recorded[q]
  BY DEF CurationInv, TypeInv, BatchesTypeOK, CurationTypeOK
<1>1. asked["bulk"] + asked["editor"] <= MaxInFlight
  BY <1>0 DEF InEditing
\* What a refused call does to a meter.
<1>2. \A q \in Provider : \A n : Ceiling(q, n, meter[q]) => Ceiling(q, n, Checked(meter[q]))
  BY <1>0, CeilingCheck
<1>3. \A q \in Provider : \A n \in Nat : ~Over(meter[q]) /\ n <= MaxInFlight => Ceiling(q, n, meter[q])
  BY <1>0, CeilingAsk
<1>4. CASE Edit
  <2>1. PICK q \in Provider : CallOn(q)
    BY <1>4 DEF Edit, EditorOrBulk
  <2>0. asked["bulk"] + asked["editor"] < MaxInFlight
    BY <1>4 DEF Edit, InEditing
  <2>2. CASE ~Over(meter[q]) /\ asked' = [asked EXCEPT ![q] = @ + 1] /\ meter' = meter
    <3>1. asked'[p] \in Nat /\ asked'[p] <= MaxInFlight
      BY <1>0, <2>0, <2>2
    <3> QED BY <1>0, <1>3, <2>2, <3>1
  <2>3. CASE /\ q = "editor" /\ ~Over(meter["bulk"])
             /\ asked' = [asked EXCEPT !["bulk"] = @ + 1] /\ meter' = [meter EXCEPT ![q] = Checked(@)]
    <3>1. asked'[p] \in Nat /\ asked'[p] <= MaxInFlight
      BY <1>0, <2>0, <2>3
    <3>2. CASE p = "bulk"
      BY <1>0, <1>3, <2>3, <3>1, <3>2
    <3>3. CASE p = "editor"
      BY <1>0, <1>2, <2>3, <3>3
    <3> QED BY <3>2, <3>3
  <2>4. CASE /\ asked' = asked
             /\ meter' = [r \in Provider |-> IF r = q \/ r = "bulk" THEN Checked(meter[r]) ELSE meter[r]]
    BY <1>0, <1>2, <2>4
  <2> QED BY <2>1, <2>2, <2>3, <2>4 DEF CallOn
<1>5. ASSUME NEW q \in Provider, EditAnswered(q) \/ EditFailed(q)
      PROVE  Ceiling(p, asked'[p], meter'[p])
  <2>1. PICK k \in Costs \cup {0} :
          LET m == [meter EXCEPT ![q] = Recorded(@, k)]
          IN \/ /\ asked' = [asked EXCEPT ![q] = @ - 1]
                /\ meter' = m \/ (q = "editor" /\ meter' = [m EXCEPT !["bulk"] = Checked(@)])
             \/ /\ q = "editor" /\ ~Over(m["bulk"])
                /\ asked' = [asked EXCEPT ![q] = @ - 1, !["bulk"] = @ + 1] /\ meter' = m
    BY <1>5 DEF EditAnswered, EditFailed
  <2>2. asked[q] > 0
    BY <1>5 DEF EditAnswered, EditFailed
  <2>3. CASE p = q
    <3>1. asked'[p] = asked[p] - 1 /\ meter'[p] = Recorded(meter[p], k)
      BY <1>0, <2>1, <2>3
    <3>2. Ceiling(p, asked[p] - 1, Recorded(meter[p], k))
      BY <1>0, <2>2, <2>3, CeilingAnswer
    <3> QED BY <3>1, <3>2
  <2>4. CASE p # q
    <3>1. \/ asked'[p] = asked[p] /\ (meter'[p] = meter[p] \/ meter'[p] = Checked(meter[p]))
          \/ /\ p = "bulk" /\ q = "editor" /\ ~Over(meter["bulk"])
             /\ asked'[p] = asked[p] + 1 /\ meter'[p] = meter[p]
      BY <1>0, <2>1, <2>4
    <3>2. CASE asked'[p] = asked[p]
      BY <1>0, <1>2, <3>1, <3>2
    <3>3. CASE /\ p = "bulk" /\ q = "editor" /\ ~Over(meter["bulk"])
               /\ asked'[p] = asked[p] + 1 /\ meter'[p] = meter[p]
      <4>1. asked'[p] \in Nat /\ asked'[p] <= MaxInFlight
        BY <1>0, <1>1, <2>2, <3>3
      <4> QED BY <1>3, <3>3, <4>1
    <3> QED BY <3>1, <3>2, <3>3
  <2> QED BY <2>3, <2>4
<1> QED BY <1>4, <1>5 DEF EditAnswer

\* A provider that is not owed anything is under the ceiling.
LEMMA DayStep == CurationInv /\ CurationInv' /\ DayCeiling /\ [Next]_vars => DayCeiling'
<1> SUFFICES ASSUME CurationInv, CurationInv', DayCeiling, [Next]_vars,
                    NEW p \in Provider, Limit > 0, ~blind', ~unrecorded'[p]
             PROVE  meter'[p].cost > 0 \/ InFlight(p)' > 0
                      => Within(recorded'[p] + meter'[p].cost, InFlight(p)')
  BY DEF DayCeiling, Within, Today
<1> USE DEF Stage, Provider
<1>0. /\ TypeInv /\ recorded[p] \in Nat /\ asked \in [Provider -> Nat] /\ asked' \in [Provider -> Nat]
      /\ phase \notin Stage => calls = {}
      /\ phase # "editing" => asked[p] = 0
      /\ phase' # "editing" => asked'[p] = 0
  BY DEF CurationInv, TypeInv, CurationTypeOK, InEditing
<1>1. /\ InFlight(p) = asked[p] + Flying(calls, p) /\ InFlight(p)' = asked'[p] + Flying(calls', p)
      /\ Flying({}, p) = 0 /\ Flying(calls, p) \in Nat
  <2>1. On({}, p) = {} /\ Cardinality({}) = 0
    BY FS_EmptySet DEF On
  <2> QED BY <1>0, <2>1, FlyingCounts DEF InFlight, Flying, On, TypeInv
\* At the start of a run nothing is in flight but the profile's call, which is
\* made below the ceiling.
<1>s. CASE StartRun
  <2>1. PICK read \in BOOLEAN :
          /\ meter' \in AfterRebuild([q \in Provider |-> Preloaded(IF read THEN recorded[q] ELSE 0)])
          /\ blind' = (blind \/ ~read)
    BY <1>s DEF StartRun
  <2> DEFINE m == [q \in Provider |-> Preloaded(IF read THEN recorded[q] ELSE 0)]
  <2>2. \A q \in Provider : recorded[q] \in Nat
    BY DEF CurationInv, CurationTypeOK
  <2>3. m \in [Provider -> Meter] /\ m[p].prior = recorded[p] /\ m[p].cost = 0
    <3>1. read
      BY <2>1
    <3>2. \A q \in Provider : Preloaded(recorded[q]) \in Meter
      BY <2>2, PreloadedTyped
    <3> QED BY <3>1, <3>2 DEF Preloaded
  <2>4. InFlight(p)' = 0 /\ recorded' = recorded
    <3>1. calls' = {} /\ asked'[p] = 0
      BY <1>0, <1>s DEF StartRun, Launch, editVars
    <3> QED BY <1>1, <1>s, <3>1 DEF StartRun
  <2> HIDE DEF m
  <2>5. \/ meter'[p].cost = 0
        \/ ~Over(m[p]) /\ \E k \in Costs : meter'[p] = Recorded(m[p], k)
    BY <2>1, <2>3, RebuildTyped DEF m
  <2>6. ASSUME NEW k \in Costs, ~Over(m[p]), meter'[p] = Recorded(m[p], k)
        PROVE  Ceiling(p, 0, meter'[p])
    <3>1. 1 \in Nat /\ 1 <= MaxInFlight /\ 1 > 0 /\ 1 - 1 = 0 /\ k \in Costs \cup {0} /\ m[p] \in Meter
      BY <2>3, BatchesAssumption
    <3>2. Ceiling(p, 1, m[p])
      BY <1>0, <2>3, <2>6, <3>1, CeilingAsk
    <3>3. Ceiling(p, 1 - 1, Recorded(m[p], k))
      BY <1>0, <3>1, <3>2, CeilingAnswer
    <3> QED BY <2>6, <3>1, <3>3
  <2>7. CASE meter'[p].cost = 0
    BY <2>4, <2>7
  <2> QED BY <2>4, <2>5, <2>6, <2>7 DEF Ceiling
<1>2. CASE Finish \/ Fail \/ Crash \/ TimePasses
  <2>1. meter'[p].cost = 0 /\ calls' = {} /\ asked'[p] = 0
    <3>2. CASE Leave
      BY <3>2 DEF Leave, Dropped, Preloaded, Nothing
    <3>3. CASE TimePasses
      BY <1>0, <3>3 DEF TimePasses, CurationInv, stageVars, editVars, Preloaded
    <3> QED BY <1>2, <3>2, <3>3 DEF Finish, Fail, Crash, LoseCosts
  <2> QED BY <1>1, <2>1
\* Otherwise a run goes on, on the day's record as it found it.
<1>3. CASE ~(StartRun \/ Finish \/ Fail \/ Crash \/ TimePasses)
  <2>1. recorded' = recorded /\ unrecorded' = unrecorded /\ blind' = blind
    BY <1>3 DEF Next, RunNext, AskProviders, WriteRow, EndStage, Admit, Edit, EditAnswer, vars, ledgerVars
  <2>2. Ceiling(p, InFlight(p), meter[p])
    BY <2>1, CeilingIsDayCeiling
  <2>3. SUFFICES Ceiling(p, InFlight(p)', meter'[p])
    BY <2>1 DEF Ceiling
  <2>4. CASE AskProviders
    <3>1. phase \in Stage /\ BatchesNext /\ asked' = asked /\ phase' = phase
      BY <2>4 DEF AskProviders, editVars
    <3>2. asked[p] = 0 /\ asked'[p] = 0 /\ meter[p].prior = recorded[p]
      BY <1>0, <2>1, <3>1 DEF CurationInv
    <3>3. Flying(calls', p) \in Nat
      <4>1. IsFiniteSet(calls')
        BY DEF CurationInv, TypeInv
      <4> QED BY <4>1, FlyingCounts
    <3>4. Ceiling(p, Flying(calls, p), meter[p])
      BY <1>1, <2>2, <3>2
    <3>5. Ceiling(p, Flying(calls', p), meter'[p])
      BY <1>0, <3>1, <3>2, <3>4, AnswerCeiling, StartCeiling DEF BatchesNext
    <3> QED BY <1>1, <3>2, <3>3, <3>5
  <2>5. CASE Edit \/ EditAnswer
    <3>1. phase = "editing"
      <4>1. CASE Edit
        BY <4>1 DEF Edit
      <4>2. CASE EditAnswer
        BY <1>0, <4>2 DEF EditAnswer, EditAnswered, EditFailed, CurationInv, CurationTypeOK, InEditing
      <4> QED BY <2>5, <4>1, <4>2
    <3>2. calls = {} /\ calls' = {}
      BY <1>0, <2>5, <3>1 DEF Edit, EditAnswer, stageVars
    <3>3. InFlight(p) = asked[p] /\ InFlight(p)' = asked'[p]
      BY <1>0, <1>1, <3>2
    <3> QED BY <2>1, <2>2, <2>5, <3>1, <3>3, EditCeiling
  <2>6. CASE UNCHANGED <<meter, asked, calls>>
    BY <1>1, <2>2, <2>6
  <2>7. CASE EndStage \/ Admit
    <3>1. calls = {} /\ calls' = {} /\ meter' = meter /\ asked' = asked
      BY <1>0, <2>7 DEF EndStage, StageDone, Dropped, Admit, Launch, editVars
    <3> QED BY <2>6, <3>1
  <2>8. ASSUME NEW a \in Articles, WriteRow(a) PROVE Ceiling(p, InFlight(p)', meter'[p])
    BY <2>6, <2>8 DEF WriteRow, stageVars, editVars
  <2>9. CASE UNCHANGED vars
    BY <2>6, <2>9 DEF vars, batchVars, stageVars, editVars
  <2> QED BY <1>3, <2>4, <2>5, <2>7, <2>8, <2>9 DEF Next, RunNext
<1> QED BY <1>s, <1>2, <1>3

\* DayCeiling: however the runs of a day follow one another, fail or are
\* killed, a provider is paid at most its ceiling and the requests then in
\* flight, unless a run's costs were lost or could not be read.
THEOREM DayCeilingHolds == Spec => []DayCeiling
<1>1. Init => DayCeiling
  <2> SUFFICES ASSUME Init, NEW p \in Provider PROVE meter[p].cost = 0 /\ InFlight(p) = 0
    BY DEF DayCeiling
  <2>1. {c \in calls : c.on = p} = {} /\ Cardinality({}) = 0
    BY FS_EmptySet DEF Init
  <2> QED BY <2>1 DEF Init, InFlight, Nothing, Preloaded
<1>2. CurationInv /\ [Next]_vars => CurationInv'
  BY CurationStep
<1> QED BY <1>1, <1>2, CurationInit, DayStep, PTL DEF Spec
=============================================================================
