----------------------------- MODULE BatchesProofs -----------------------------
(***************************************************************************)
(* The batch runner for any number of articles, batch size, concurrency,   *)
(* ceilings and faults: no article gets two verdicts, none is blamed for   *)
(* its batch, and halving loses none.  Each step of the runner is a Settle *)
(* or an extra request, so most of the proof is about Resume.  The types   *)
(* say that no provider gets more requests at once than it allows.         *)
(***************************************************************************)
EXTENDS Batches, FiniteSetTheorems, TLAPS

-----------------------------------------------------------------------------
(* One verdict.                                                            *)

\* OneVerdict for given stacks, requests and verdicts.
Disjoint(W, C, A, R) ==
  /\ A \cap R = {}
  /\ A \cup R \subseteq pending
  /\ \A w \in W \cup C : w.articles \subseteq pending /\ w.articles \cap (A \cup R) = {}
  /\ \A v, w \in W : v # w => v.articles \cap w.articles = {}
  /\ \A v, w \in C : v # w => v.articles \cap w.articles = {}
  /\ \A w \in W, c \in C : w.articles \cap c.articles = {}

\* Going on with a batch keeps disjoint what is disjoint.
LEMMA ResumeDisjoint ==
  ASSUME NEW b, NEW W, NEW C, NEW A, NEW R, NEW m,
         Disjoint(W, C, A, R), Resume(b, W, C, m)
  PROVE  Disjoint(waiting', calls', A, R)
<1>1. CASE waiting' \subseteq W /\ calls' = C
  BY <1>1 DEF Disjoint
<1>2. CASE \E w \in W : waiting' = W \ {w} /\ calls' = C \cup {Ask(w, "bulk")}
  <2>1. PICK w \in W : waiting' = W \ {w} /\ calls' = C \cup {Ask(w, "bulk")}
    BY <1>2
  <2>2. Ask(w, "bulk").articles = w.articles
    BY DEF Ask
  <2> QED BY <2>1, <2>2 DEF Disjoint
<1> QED BY <1>1, <1>2 DEF Resume, StackOf

\* A request that ends with verdicts on some of its articles.
LEMMA SettleDisjoint ==
  ASSUME NEW c \in calls, NEW A, NEW R, NEW m,
         OneVerdict, A \cup R \subseteq c.articles, A \cap R = {},
         Settle(c, A, R, waiting, m)
  PROVE  OneVerdict'
<1>1. Disjoint(waiting, calls \ {c}, assessed \cup A, rejected \cup R)
  BY DEF Disjoint, OneVerdict
<1>2. Disjoint(waiting', calls', assessed', rejected')
  BY <1>1, ResumeDisjoint DEF Settle
<1> QED BY <1>2 DEF Disjoint, OneVerdict, Settle

\* The two halves of a batch.
LEMMA HalvesSplit ==
  ASSUME NEW c, NEW z
  PROVE  /\ \A h \in Halves(c, z) : h.articles \subseteq c.articles
         /\ \A g, h \in Halves(c, z) : g # h => g.articles \cap h.articles = {}
         /\ \A a \in c.articles : \E h \in Halves(c, z) : a \in h.articles
<1> DEFINE L == FirstHalf(c.articles)
           half(S) == [of |-> c.of, articles |-> S, zeroSplit |-> z]
<1>1. L \subseteq c.articles
  BY DEF FirstHalf
<1>2. Halves(c, z) = {half(L), half(c.articles \ L)}
  BY DEF Halves
<1>3. \A S : half(S).articles = S
  OBVIOUS
<1> HIDE DEF L, half
<1> QED BY <1>1, <1>2, <1>3

\* A request that ends with its batch halved.
LEMMA HalveDisjoint ==
  ASSUME NEW c \in calls, NEW z, NEW m, OneVerdict,
         Settle(c, {}, {}, waiting \cup Halves(c, z), m)
  PROVE  OneVerdict'
<1>1. Disjoint(waiting \cup Halves(c, z), calls \ {c}, assessed \cup {}, rejected \cup {})
  BY HalvesSplit DEF Disjoint, OneVerdict
<1>2. Disjoint(waiting', calls', assessed', rejected')
  BY <1>1, ResumeDisjoint DEF Settle
<1> QED BY <1>2 DEF Disjoint, OneVerdict, Settle

\* A single article the bulk provider refused.
LEMMA ResolveDisjoint ==
  ASSUME NEW c \in calls, NEW m, OneVerdict, ResolveSingle(c, m)
  PROVE  OneVerdict'
<1>1. CASE other /\ ~Over(m["editor"])
  <2>1. Ask(c, "editor").articles = c.articles
    BY DEF Ask
  <2> QED BY <1>1, <2>1 DEF ResolveSingle, OneVerdict
<1>2. CASE ~(other /\ ~Over(m["editor"]))
  BY <1>2, SettleDisjoint DEF ResolveSingle
<1> QED BY <1>1, <1>2

\* Every answer keeps OneVerdict.
LEMMA AnswerDisjoint ==
  ASSUME NEW c \in calls, OneVerdict, Answer(c)
  PROVE  OneVerdict'
<1>1. ASSUME AnswerItems(c) PROVE OneVerdict'
  BY <1>1, SettleDisjoint DEF AnswerItems, Attributed
<1>2. ASSUME AnswerNoItems(c) PROVE OneVerdict'
  <2>1. PICK k \in Costs :
           \/ ResolveSingle(c, Paid(c, k))
           \/ Settle(c, {}, {}, waiting \cup Halves(c, FALSE), Paid(c, k))
           \/ Settle(c, {}, {}, waiting, Paid(c, k))
    BY <1>2 DEF AnswerNoItems
  <2>2. CASE ResolveSingle(c, Paid(c, k))
    BY <2>2, ResolveDisjoint
  <2>3. CASE Settle(c, {}, {}, waiting \cup Halves(c, FALSE), Paid(c, k))
    BY <2>3, HalveDisjoint
  <2>4. CASE Settle(c, {}, {}, waiting, Paid(c, k))
    BY <2>4, SettleDisjoint
  <2> QED BY <2>1, <2>2, <2>3, <2>4
<1>3. ASSUME AnswerRejected(c) PROVE OneVerdict'
  BY <1>3, ResolveDisjoint, HalveDisjoint DEF AnswerRejected
<1>4. ASSUME AnswerTransient(c) PROVE OneVerdict'
  BY <1>4, SettleDisjoint DEF AnswerTransient
<1>5. ASSUME AnswerEditor(c) PROVE OneVerdict'
  BY <1>5, SettleDisjoint DEF AnswerEditor
<1> QED BY <1>1, <1>2, <1>3, <1>4, <1>5 DEF Answer

LEMMA StartDisjoint ==
  ASSUME NEW b \in Articles, OneVerdict, Start(b)
  PROVE  OneVerdict'
<1>1. Disjoint(waiting, calls, assessed, rejected)
  BY DEF Disjoint, OneVerdict
<1>2. Disjoint(waiting', calls', assessed, rejected)
  BY <1>1, ResumeDisjoint DEF Start
<1> QED BY <1>2 DEF Disjoint, OneVerdict, Start

\* The batches of a stage are chunks of its pending articles.
LEMMA ChunksSplit ==
  ASSUME NEW S
  PROVE  /\ \A w \in Chunks(S) : w.articles \subseteq S
         /\ \A v, w \in Chunks(S) : v # w => v.articles \cap w.articles = {}
         /\ \A a \in S : \E w \in Chunks(S) : a \in w.articles
<1> DEFINE chunk(k) == [of |-> k, articles |-> {a \in S : ChunkOf(a, S) = k}, zeroSplit |-> TRUE]
<1>1. Chunks(S) = {chunk(k) : k \in {ChunkOf(a, S) : a \in S}}
  BY DEF Chunks
<1>2. \A k : chunk(k).articles = {a \in S : ChunkOf(a, S) = k}
  OBVIOUS
<1> HIDE DEF chunk
<1> QED BY <1>1, <1>2

LEMMA InitDisjoint == BatchesInit => OneVerdict
<1> SUFFICES ASSUME BatchesInit PROVE OneVerdict
  OBVIOUS
<1>1. /\ \A w \in waiting : w.articles \subseteq pending
      /\ \A v, w \in waiting : v # w => v.articles \cap w.articles = {}
  <2>1. waiting = Chunks(pending)
    BY DEF BatchesInit
  <2> QED BY <2>1, ChunksSplit
<1>2. calls = {} /\ assessed = {} /\ rejected = {}
  BY DEF BatchesInit
<1> QED BY <1>1, <1>2 DEF OneVerdict

\* OneVerdict: no article is assessed or rejected twice in a stage, nor both.
THEOREM OneVerdictHolds == BatchesSpec => []OneVerdict
<1>1. OneVerdict /\ [BatchesNext]_batchVars => OneVerdict'
  <2> SUFFICES ASSUME OneVerdict, [BatchesNext]_batchVars PROVE OneVerdict'
    OBVIOUS
  <2>1. CASE BatchesNext
    BY <2>1, AnswerDisjoint, StartDisjoint DEF BatchesNext
  <2>2. CASE UNCHANGED batchVars
    BY <2>2 DEF OneVerdict, batchVars, stageVars
  <2> QED BY <2>1, <2>2
<1> QED BY <1>1, InitDisjoint, PTL DEF BatchesSpec

-----------------------------------------------------------------------------
(* Blame.                                                                  *)

NoBlame == \A i \in DOMAIN faults : faults[i] = "transient"

\* OnlyPoisonRejected, strengthened by the articles the editor is asked about.
BlameInv ==
  /\ faults \in Seq(Fault) /\ pending \subseteq Articles
  /\ NoBlame => /\ rejected \subseteq poison
                /\ \A c \in calls : c.on = "editor" => c.articles \subseteq poison

\* Blame, once there, stays; only a network failure adds none.
LEMMA FaultBlames ==
  ASSUME faults \in Seq(Fault), NEW kind \in Fault, NEW occurs \in BOOLEAN,
         FaultIf(kind, occurs)
  PROVE  /\ faults' \in Seq(Fault)
         /\ NoBlame' => NoBlame
         /\ NoBlame' /\ occurs => kind = "transient"
<1>1. CASE occurs
  <2>1. faults' = Append(faults, kind)
    BY <1>1 DEF FaultIf
  <2>2. /\ faults' \in Seq(Fault)
        /\ DOMAIN faults' = 1..(Len(faults) + 1)
        /\ \A i \in 1..Len(faults) : faults'[i] = faults[i]
        /\ faults'[Len(faults) + 1] = kind
    BY <2>1
  <2>3. DOMAIN faults = 1..Len(faults) /\ Len(faults) \in Nat
    OBVIOUS
  <2> QED BY <2>2, <2>3 DEF NoBlame
<1>2. CASE ~occurs
  BY <1>2 DEF FaultIf, NoBlame
<1> QED BY <1>1, <1>2

\* Going on with a batch asks the bulk provider only.
LEMMA ResumeAsksBulk ==
  ASSUME NEW b, NEW W, NEW C, NEW m, Resume(b, W, C, m)
  PROVE  \A c \in calls' : c \in C \/ c.on = "bulk"
<1>1. \A w : Ask(w, "bulk").on = "bulk"
  BY DEF Ask
<1> QED BY <1>1 DEF Resume

\* A request that ends: blame is unchanged if its rejections are deserved.
LEMMA SettleBlame ==
  ASSUME NEW c \in calls, NEW A, NEW R, NEW W, NEW m,
         BlameInv, Settle(c, A, R, W, m), faults' \in Seq(Fault),
         NoBlame' => NoBlame /\ R \subseteq poison
  PROVE  BlameInv'
<1>1. \A d \in calls' : d \in calls \ {c} \/ d.on = "bulk"
  BY ResumeAsksBulk DEF Settle
<1> QED BY <1>1 DEF Settle, BlameInv

LEMMA ResolveBlame ==
  ASSUME NEW c \in calls, NEW m,
         BlameInv, ResolveSingle(c, m), faults' \in Seq(Fault),
         NoBlame' => NoBlame /\ c.articles \subseteq poison
  PROVE  BlameInv'
<1>1. CASE other /\ ~Over(m["editor"])
  <2>1. Ask(c, "editor").articles = c.articles
    BY DEF Ask
  <2> QED BY <1>1, <2>1 DEF ResolveSingle, BlameInv
<1>2. CASE ~(other /\ ~Over(m["editor"]))
  BY <1>2, SettleBlame DEF ResolveSingle
<1> QED BY <1>1, <1>2

\* A single article with a poisoned one in its batch is that one.
LEMMA SinglePoison ==
  ASSUME NEW S, Cardinality(S) = 1, S \cap poison # {}, IsFiniteSet(S)
  PROVE  S \subseteq poison
BY FS_Singleton

LEMMA CallsFinite ==
  ASSUME NEW c \in calls, OneVerdict, pending \subseteq Articles
  PROVE  IsFiniteSet(c.articles)
<1>1. c.articles \subseteq Articles
  BY DEF OneVerdict
<1>2. IsFiniteSet(Articles)
  BY BatchesAssumption, FS_Interval DEF Articles
<1> QED BY <1>1, <1>2, FS_Subset

LEMMA AnswerBlame ==
  ASSUME NEW c \in calls, BlameInv, OneVerdict, Answer(c)
  PROVE  BlameInv'
<1> USE DEF Fault
<1>0. faults \in Seq(Fault) /\ IsFiniteSet(c.articles)
  BY CallsFinite DEF BlameInv
<1>1. ASSUME AnswerItems(c) PROVE BlameInv'
  <2>1. PICK A, k : FaultIf("short", ~(c.articles \subseteq A)) /\ Settle(c, A, {}, waiting, Paid(c, k))
    BY <1>1 DEF AnswerItems
  <2>2. faults' \in Seq(Fault) /\ (NoBlame' => NoBlame)
    BY <2>1, <1>0, FaultBlames
  <2> QED BY <2>1, <2>2, SettleBlame
<1>2. ASSUME AnswerNoItems(c) PROVE BlameInv'
  <2>1. faults' \in Seq(Fault) /\ ~NoBlame'
    BY <1>2, <1>0, FaultBlames DEF AnswerNoItems
  <2>2. PICK k \in Costs :
           \/ ResolveSingle(c, Paid(c, k))
           \/ Settle(c, {}, {}, waiting \cup Halves(c, FALSE), Paid(c, k))
           \/ Settle(c, {}, {}, waiting, Paid(c, k))
    BY <1>2 DEF AnswerNoItems
  <2>3. pending' = pending
    BY <2>2 DEF ResolveSingle, Settle
  <2> QED BY <2>1, <2>3 DEF BlameInv
<1>3. ASSUME AnswerRejected(c) PROVE BlameInv'
  <2>1. FaultIf("api", c.articles \cap poison = {})
    BY <1>3 DEF AnswerRejected
  <2>2. /\ faults' \in Seq(Fault)
        /\ NoBlame' => NoBlame /\ c.articles \cap poison # {}
    BY <2>1, <1>0, FaultBlames
  <2>3. CASE Cardinality(c.articles) = 1 /\ ResolveSingle(c, meter)
    <3>1. NoBlame' => c.articles \subseteq poison
      BY <2>2, <2>3, <1>0, SinglePoison
    <3> QED BY <2>2, <2>3, <3>1, ResolveBlame
  <2>4. CASE Settle(c, {}, {}, waiting \cup Halves(c, c.zeroSplit), meter)
    BY <2>2, <2>4, SettleBlame
  <2> QED BY <1>3, <2>3, <2>4 DEF AnswerRejected
<1>4. ASSUME AnswerTransient(c) PROVE BlameInv'
  <2>1. faults' \in Seq(Fault) /\ (NoBlame' => NoBlame)
    BY <1>4, <1>0, FaultBlames DEF AnswerTransient
  <2> QED BY <1>4, <2>1, SettleBlame DEF AnswerTransient
<1>5. ASSUME AnswerEditor(c) PROVE BlameInv'
  <2>1. faults' \in Seq(Fault) /\ (NoBlame' => NoBlame /\ c.articles \subseteq poison)
    BY <1>5 DEF AnswerEditor, BlameInv, NoBlame
  <2>2. PICK A, R, m : R \subseteq c.articles /\ Settle(c, A, R, waiting, m)
    BY <1>5 DEF AnswerEditor
  <2> QED BY <2>1, <2>2, SettleBlame
<1> QED BY <1>1, <1>2, <1>3, <1>4, <1>5 DEF Answer

LEMMA StartBlame ==
  ASSUME NEW b \in Articles, BlameInv, Start(b)
  PROVE  BlameInv'
<1>1. \A d \in calls' : d \in calls \/ d.on = "bulk"
  BY ResumeAsksBulk DEF Start
<1> QED BY <1>1 DEF Start, BlameInv, NoBlame

\* OnlyPoisonRejected: unless the provider fails permanently or leaves articles
\* out, halving ends at the articles its filter refuses and blames no other.
THEOREM OnlyPoisonRejectedHolds == BatchesSpec => []OnlyPoisonRejected
<1>1. BatchesInit => BlameInv
  BY DEF BatchesInit, BlameInv, Fault
<1>2. OneVerdict /\ BlameInv /\ [BatchesNext]_batchVars => BlameInv'
  <2> SUFFICES ASSUME OneVerdict, BlameInv, [BatchesNext]_batchVars PROVE BlameInv'
    OBVIOUS
  <2>1. CASE BatchesNext
    BY <2>1, AnswerBlame, StartBlame DEF BatchesNext
  <2>2. CASE UNCHANGED batchVars
    BY <2>2 DEF BlameInv, NoBlame, batchVars, stageVars
  <2> QED BY <2>1, <2>2
<1>3. BlameInv => OnlyPoisonRejected
  BY DEF BlameInv, NoBlame, OnlyPoisonRejected
<1> QED BY <1>1, <1>2, <1>3, OneVerdictHolds, PTL DEF BatchesSpec

-----------------------------------------------------------------------------
(* Loss.                                                                   *)

\* Every pending article has a verdict or is on a stack or in a request.
Kept(W, C, A, R) ==
  \A a \in pending : a \in A \cup R \/ \E w \in W \cup C : a \in w.articles

\* NothingLost, strengthened to the stages in progress.
LossInv ==
  /\ faults \in Seq(Fault)
  /\ faults = <<>> /\ ~stopped => Kept(waiting, calls, assessed, rejected)

\* Only the budget makes a batch drop what is on its stack.
LEMMA ResumeKeeps ==
  ASSUME NEW b, NEW W, NEW C, NEW A, NEW R, NEW m,
         Resume(b, W, C, m), ~stopped', Kept(W, C, A, R)
  PROVE  Kept(waiting', calls', A, R)
<1>1. CASE waiting' = W /\ calls' = C
  BY <1>1
<1>2. CASE \E w \in W : waiting' = W \ {w} /\ calls' = C \cup {Ask(w, "bulk")}
  <2>1. PICK w \in W : waiting' = W \ {w} /\ calls' = C \cup {Ask(w, "bulk")}
    BY <1>2
  <2>2. Ask(w, "bulk").articles = w.articles
    BY DEF Ask
  <2> QED BY <2>1, <2>2 DEF Kept
<1> QED BY <1>1, <1>2 DEF Resume, StackOf

LEMMA ResumeStops ==
  ASSUME NEW b, NEW W, NEW C, NEW m, Resume(b, W, C, m), ~stopped'
  PROVE  ~stopped
BY DEF Resume

\* Without a fault so far there was none before, and this is none.
LEMMA FaultCounts ==
  ASSUME faults \in Seq(Fault), NEW kind \in Fault, NEW occurs \in BOOLEAN,
         FaultIf(kind, occurs)
  PROVE  faults' \in Seq(Fault) /\ (faults' = <<>> => faults = <<>> /\ ~occurs)
<1>1. CASE occurs
  <2>1. faults' = Append(faults, kind)
    BY <1>1 DEF FaultIf
  <2>2. faults' \in Seq(Fault) /\ Len(faults') = Len(faults) + 1 /\ Len(faults) \in Nat
    BY <2>1
  <2> QED BY <2>2
<1>2. CASE ~occurs
  BY <1>2 DEF FaultIf
<1> QED BY <1>1, <1>2

\* A request that ends keeps its articles if they are verdicts or on a stack.
LEMMA SettleKeeps ==
  ASSUME NEW c \in calls, NEW A, NEW R, NEW W, NEW m,
         LossInv, Settle(c, A, R, W, m), waiting \subseteq W,
         faults' \in Seq(Fault),
         faults' = <<>> =>
           /\ faults = <<>>
           /\ \A a \in c.articles : a \in A \cup R \/ \E w \in W : a \in w.articles
  PROVE  LossInv'
<1>1. ASSUME faults' = <<>>, ~stopped' PROVE Kept(waiting', calls', assessed', rejected')
  <2>1. Resume(c.of, W, calls \ {c}, m) /\ assessed' = assessed \cup A /\ rejected' = rejected \cup R
    BY DEF Settle
  <2>2. Kept(waiting, calls, assessed, rejected)
    BY <1>1, <2>1, ResumeStops DEF LossInv
  <2>3. Kept(W, calls \ {c}, assessed \cup A, rejected \cup R)
    BY <1>1, <2>2 DEF Kept
  <2> QED BY <1>1, <2>1, <2>3, ResumeKeeps
<1> QED BY <1>1 DEF LossInv, Settle, Kept

LEMMA ResolveKeeps ==
  ASSUME NEW c \in calls, NEW m,
         LossInv, ResolveSingle(c, m), faults' \in Seq(Fault), faults' = <<>> => faults = <<>>
  PROVE  LossInv'
<1>1. CASE other /\ ~Over(m["editor"])
  <2>1. Ask(c, "editor").articles = c.articles
    BY DEF Ask
  <2> QED BY <1>1, <2>1 DEF ResolveSingle, LossInv, Kept
<1>2. CASE ~(other /\ ~Over(m["editor"]))
  BY <1>2, SettleKeeps DEF ResolveSingle
<1> QED BY <1>1, <1>2

LEMMA AnswerKeeps ==
  ASSUME NEW c \in calls, LossInv, Answer(c)
  PROVE  LossInv'
<1> USE DEF Fault
<1>0. faults \in Seq(Fault)
  BY DEF LossInv
<1>1. ASSUME AnswerItems(c) PROVE LossInv'
  <2>1. PICK A, k : FaultIf("short", ~(c.articles \subseteq A)) /\ Settle(c, A, {}, waiting, Paid(c, k))
    BY <1>1 DEF AnswerItems
  <2>2. faults' \in Seq(Fault) /\ (faults' = <<>> => faults = <<>> /\ c.articles \subseteq A)
    BY <2>1, <1>0, FaultCounts
  <2> QED BY <2>1, <2>2, SettleKeeps
<1>2. ASSUME AnswerNoItems(c) PROVE LossInv'
  <2>1. faults' \in Seq(Fault) /\ faults' # <<>>
    BY <1>2, <1>0, FaultCounts DEF AnswerNoItems
  <2> QED BY <2>1 DEF LossInv
<1>3. ASSUME AnswerRejected(c) PROVE LossInv'
  <2>1. faults' \in Seq(Fault) /\ (faults' = <<>> => faults = <<>>)
    BY <1>3, <1>0, FaultCounts DEF AnswerRejected
  <2>2. CASE ResolveSingle(c, meter)
    BY <2>1, <2>2, ResolveKeeps
  <2>3. CASE Settle(c, {}, {}, waiting \cup Halves(c, c.zeroSplit), meter)
    BY <2>1, <2>3, SettleKeeps, HalvesSplit
  <2> QED BY <1>3, <2>2, <2>3 DEF AnswerRejected
<1>4. ASSUME AnswerTransient(c) PROVE LossInv'
  <2>1. faults' \in Seq(Fault) /\ faults' # <<>>
    BY <1>4, <1>0, FaultCounts DEF AnswerTransient
  <2> QED BY <2>1 DEF LossInv
<1>5. ASSUME AnswerEditor(c) PROVE LossInv'
  <2>1. PICK A, R, m : A \cup R = c.articles /\ Settle(c, A, R, waiting, m)
    BY <1>5 DEF AnswerEditor
  <2>2. faults' = faults
    BY <1>5 DEF AnswerEditor
  <2> QED BY <1>0, <2>1, <2>2, SettleKeeps
<1> QED BY <1>1, <1>2, <1>3, <1>4, <1>5 DEF Answer

LEMMA StartKeeps ==
  ASSUME NEW b \in Articles, LossInv, Start(b)
  PROVE  LossInv'
<1>1. ASSUME faults = <<>>, ~stopped' PROVE Kept(waiting', calls', assessed, rejected)
  BY <1>1, ResumeKeeps, ResumeStops DEF Start, LossInv
<1> QED BY <1>1 DEF Start, LossInv, Kept

\* NothingLost: with no fault and enough budget, a stage ends with a verdict on
\* every article it asked about.
THEOREM NothingLostHolds == BatchesSpec => []NothingLost
<1>1. BatchesInit => LossInv
  <2>1. BatchesInit => faults \in Seq(Fault) /\ waiting = Chunks(pending)
    BY DEF BatchesInit, Fault
  <2> QED BY <2>1, ChunksSplit DEF LossInv, Kept
<1>2. LossInv /\ [BatchesNext]_batchVars => LossInv'
  <2> SUFFICES ASSUME LossInv, [BatchesNext]_batchVars PROVE LossInv'
    OBVIOUS
  <2>1. CASE BatchesNext
    BY <2>1, AnswerKeeps, StartKeeps DEF BatchesNext
  <2>2. CASE UNCHANGED batchVars
    BY <2>2 DEF LossInv, Kept, batchVars, stageVars
  <2> QED BY <2>1, <2>2
<1>3. LossInv /\ OneVerdict => NothingLost
  BY DEF LossInv, Kept, OneVerdict, NothingLost, StageDone
<1> QED BY <1>1, <1>2, <1>3, OneVerdictHolds, PTL DEF BatchesSpec

-----------------------------------------------------------------------------
(* Types.                                                                  *)

\* Quotients stay below what is divided.
LEMMA DivBound == \A x \in Nat, d \in Nat \ {0} : x \div d \in Nat /\ x \div d <= x
OBVIOUS

\* The original batches of a stage are numbered like articles.
LEMMA ChunksTyped ==
  ASSUME NEW S \in SUBSET Articles
  PROVE  Chunks(S) \subseteq Work
<1> USE BatchesAssumption DEF Articles
<1>1. ASSUME NEW a \in S PROVE ChunkOf(a, S) \in Articles
  <2>0. a \in 1..N /\ S \subseteq 1..N /\ N \in Nat
    OBVIOUS
  <2>1. {b \in S : b < a} \in SUBSET (1..(a - 1)) /\ a - 1 \in Nat
    <3>1. \A b \in S : b < a => b \in 1..(a - 1)
      BY <2>0
    <3>2. {b \in S : b < a} \in SUBSET (1..(a - 1))
      BY <3>1
    <3>3. a - 1 \in Nat
      BY <2>0
    <3> QED BY <3>2, <3>3
  <2>2. IsFiniteSet(1..(a - 1)) /\ Cardinality(1..(a - 1)) = a - 1
    BY <2>1, FS_Interval
  <2>3. Rank(a, S) \in Nat /\ Rank(a, S) <= a - 1
    BY <2>1, <2>2, FS_Subset, FS_CardinalityType DEF Rank
  <2>4. Rank(a, S) \div BatchSize \in Nat /\ Rank(a, S) \div BatchSize <= Rank(a, S)
    BY <2>3, DivBound
  <2> QED BY <2>3, <2>4 DEF ChunkOf
<1>2. \A k \in Articles : [of |-> k, articles |-> {a \in S : ChunkOf(a, S) = k}, zeroSplit |-> TRUE] \in Work
  BY DEF Work
<1> QED BY <1>1, <1>2 DEF Chunks

LEMMA HalvesTyped ==
  ASSUME NEW c \in Call, NEW z \in BOOLEAN
  PROVE  Halves(c, z) \subseteq Work
<1>1. c.of \in Articles /\ c.articles \in SUBSET Articles
  BY DEF Call
<1>2. FirstHalf(c.articles) \in SUBSET Articles
  BY <1>1 DEF FirstHalf
<1> QED BY <1>1, <1>2 DEF Halves, Work

LEMMA AskTyped ==
  ASSUME NEW w \in Work \cup Call, NEW p \in {"bulk", "editor"}
  PROVE  Ask(w, p) \in Call /\ Ask(w, p).on = p /\ Ask(w, p).articles = w.articles
BY DEF Ask, Work, Call

\* BatchesTypeOK for given stacks, requests and meters.
Typed(W, C, m) ==
  /\ W \subseteq Work /\ C \subseteq Call /\ IsFiniteSet(C)
  /\ \A c \in C : c.on = "editor" => other /\ Cardinality(c.articles) = 1
  /\ m \in [{"bulk", "editor"} -> Meter]

TypeInv == BatchesTypeOK /\ IsFiniteSet(calls)

\* Meters stay meters.
LEMMA MeterTyped ==
  ASSUME NEW m \in Meter, NEW k \in Nat
  PROVE  /\ Checked(m) \in Meter /\ Recorded(m, k) \in Meter
         /\ Checked(m).prior = m.prior /\ Recorded(m, k).prior = m.prior
         /\ Checked(m).cost = m.cost /\ Recorded(m, k).cost = m.cost + k
<1>1. Checked(m) = [prior |-> m.prior, cost |-> m.cost, tripped |-> Over(m)]
  BY DEF Meter, Checked
<1> DEFINE t == m.tripped \/ (Limit > 0 /\ Spent(m) + k > Limit)
<1>2. Recorded(m, k) = [prior |-> m.prior, cost |-> m.cost + k, tripped |-> t] /\ t \in BOOLEAN
  <2>1. m.tripped \in BOOLEAN
    BY DEF Meter
  <2>2. t \in BOOLEAN
    BY <2>1
  <2>3. Recorded(m, k) = [prior |-> m.prior, cost |-> m.cost + k, tripped |-> t]
    <3>1. Recorded(m, k) = [m EXCEPT !.cost = @ + k, !.tripped = t]
      BY DEF Recorded
    <3> HIDE DEF t
    <3> QED BY <2>2, <3>1 DEF Meter
  <2> QED BY <2>2, <2>3
<1> HIDE DEF t
<1>3. Over(m) \in BOOLEAN
  BY LimitAssumption DEF Over, Meter
<1>4. m.prior \in Nat /\ m.cost + k \in Nat /\ m.cost \in Nat
  BY DEF Meter
<1> QED BY <1>1, <1>2, <1>3, <1>4 DEF Meter

LEMMA PreloadedTyped == \A k \in Nat : Preloaded(k) \in Meter
BY LimitAssumption DEF Meter, Preloaded

LEMMA PaidTyped ==
  ASSUME BatchesTypeOK, NEW c \in calls, NEW k \in Costs
  PROVE  Paid(c, k) \in [{"bulk", "editor"} -> Meter]
<1>1. c.on \in {"bulk", "editor"} /\ k \in Nat /\ meter \in [{"bulk", "editor"} -> Meter]
  BY BatchesAssumption DEF BatchesTypeOK, Call
<1>2. Recorded(meter[c.on], k) \in Meter
  BY <1>1, MeterTyped
<1> QED BY <1>1, <1>2 DEF Paid

\* A new request takes the place of the one that is over.
LEMMA OneMore ==
  ASSUME NEW C, IsFiniteSet(C), NEW x
  PROVE  /\ IsFiniteSet(C \cup {x}) /\ Cardinality(C \cup {x}) \in Nat /\ Cardinality(C) \in Nat
         /\ Cardinality(C \cup {x}) <= Cardinality(C) + 1
<1>1. Cardinality(C) \in Nat
  BY FS_CardinalityType
<1> QED BY <1>1, FS_AddElement, FS_CardinalityType

LEMMA OneLess ==
  ASSUME NEW c \in calls, IsFiniteSet(calls)
  PROVE  /\ IsFiniteSet(calls \ {c}) /\ Cardinality(calls \ {c}) \in Nat
         /\ Cardinality(calls) \in Nat /\ Cardinality(calls \ {c}) = Cardinality(calls) - 1
BY FS_RemoveElement, FS_CardinalityType

LEMMA ResumeTyped ==
  ASSUME NEW b, NEW W, NEW C, NEW m, Typed(W, C, m), Cardinality(C) < MaxInFlight,
         Resume(b, W, C, m), stopped \in BOOLEAN
  PROVE  Typed(waiting', calls', meter') /\ Cardinality(calls') <= MaxInFlight /\ stopped' \in BOOLEAN
<1> USE BatchesAssumption
<1>0. Cardinality(C) \in Nat /\ m["bulk"] \in Meter
  BY FS_CardinalityType DEF Typed
<1>1. CASE waiting' = W /\ calls' = C /\ meter' = m /\ UNCHANGED stopped
  BY <1>0, <1>1
<1>2. CASE /\ waiting' = W \ StackOf(W, b) /\ calls' = C
           /\ meter' = [m EXCEPT !["bulk"] = Checked(@)] /\ stopped' = TRUE
  <2>1. Checked(m["bulk"]) \in Meter
    BY <1>0, MeterTyped
  <2> QED BY <1>0, <1>2, <2>1 DEF Typed
<1>3. ASSUME NEW w \in W, waiting' = W \ {w}, calls' = C \cup {Ask(w, "bulk")}, meter' = m, UNCHANGED stopped
      PROVE  Typed(waiting', calls', meter') /\ Cardinality(calls') <= MaxInFlight /\ stopped' \in BOOLEAN
  <2>1. Ask(w, "bulk") \in Call /\ Ask(w, "bulk").on = "bulk"
    BY AskTyped DEF Typed
  <2>2. IsFiniteSet(calls') /\ Cardinality(calls') \in Nat /\ Cardinality(calls') <= Cardinality(C) + 1
    BY <1>3, OneMore DEF Typed
  <2> QED BY <1>0, <1>3, <2>1, <2>2 DEF Typed
<1> QED BY <1>1, <1>2, <1>3 DEF Resume, StackOf

LEMMA SettleTyped ==
  ASSUME NEW c \in calls, NEW A \in SUBSET Articles, NEW R \in SUBSET Articles,
         NEW W \in SUBSET Work, NEW m \in [{"bulk", "editor"} -> Meter],
         TypeInv, Settle(c, A, R, W, m),
         faults' \in Seq(Fault), Len(faults') <= MaxFaults
  PROVE  TypeInv'
<1> USE BatchesAssumption DEF TypeInv, BatchesTypeOK
<1>1. Typed(W, calls \ {c}, m) /\ Cardinality(calls \ {c}) < MaxInFlight
  <2>1. /\ IsFiniteSet(calls \ {c}) /\ Cardinality(calls \ {c}) \in Nat
        /\ Cardinality(calls) \in Nat /\ Cardinality(calls \ {c}) = Cardinality(calls) - 1
    BY OneLess
  <2> QED BY <2>1 DEF Typed
<1>2. Typed(waiting', calls', meter') /\ Cardinality(calls') <= MaxInFlight /\ stopped' \in BOOLEAN
  BY <1>1, ResumeTyped DEF Settle
<1> QED BY <1>2 DEF Typed, Settle

LEMMA ResolveTyped ==
  ASSUME NEW c \in calls, Cardinality(c.articles) = 1,
         NEW m \in [{"bulk", "editor"} -> Meter],
         TypeInv, ResolveSingle(c, m),
         faults' \in Seq(Fault), Len(faults') <= MaxFaults
  PROVE  TypeInv'
<1> USE BatchesAssumption DEF TypeInv, BatchesTypeOK
<1>0. c \in Call /\ c.articles \in SUBSET Articles
  BY DEF Call
<1>1. CASE other /\ ~Over(m["editor"])
  <2>1. /\ calls' = (calls \ {c}) \cup {Ask(c, "editor")} /\ meter' = m
        /\ UNCHANGED <<other, poison, pending, waiting, assessed, rejected, stopped>>
    BY <1>1 DEF ResolveSingle
  <2>2. Ask(c, "editor") \in Call /\ Cardinality(Ask(c, "editor").articles) = 1
    BY <1>0, AskTyped
  <2> DEFINE C == calls \ {c}
             x == Ask(c, "editor")
  <2>3. IsFiniteSet(C) /\ Cardinality(C) = Cardinality(calls) - 1 /\ Cardinality(calls) \in Nat
    BY OneLess
  <2>4. IsFiniteSet(calls') /\ Cardinality(calls') <= MaxInFlight
    <3>1. calls' = C \cup {x}
      BY <2>1
    <3> HIDE DEF C, x
    <3>2. IsFiniteSet(C \cup {x}) /\ Cardinality(C \cup {x}) \in Nat /\ Cardinality(C \cup {x}) <= Cardinality(C) + 1
      BY <2>3, OneMore
    <3> QED BY <2>3, <3>1, <3>2
  <2> QED BY <1>1, <2>1, <2>2, <2>3, <2>4
<1>2. CASE ~(other /\ ~Over(m["editor"]))
  <2> DEFINE n == IF other THEN [m EXCEPT !["editor"] = Checked(@)] ELSE m
  <2>1. n \in [{"bulk", "editor"} -> Meter]
    <3>1. Checked(m["editor"]) \in Meter
      BY MeterTyped
    <3> QED BY <3>1
  <2>2. Settle(c, {}, c.articles, waiting, n)
    BY <1>2 DEF ResolveSingle
  <2>3. {} \in SUBSET Articles /\ waiting \in SUBSET Work
    OBVIOUS
  <2> HIDE DEF n
  <2> QED BY <1>0, <2>1, <2>2, <2>3, SettleTyped
<1> QED BY <1>1, <1>2

LEMMA FaultTyped ==
  ASSUME faults \in Seq(Fault), Len(faults) <= MaxFaults, NEW kind \in Fault, NEW occurs \in BOOLEAN,
         FaultIf(kind, occurs)
  PROVE  faults' \in Seq(Fault) /\ Len(faults') <= MaxFaults
<1> USE BatchesAssumption
<1>1. CASE occurs
  <2>1. Len(faults) < MaxFaults /\ faults' = Append(faults, kind) /\ Len(faults) \in Nat
    BY <1>1 DEF FaultIf
  <2>2. faults' \in Seq(Fault) /\ Len(faults') = Len(faults) + 1
    BY <2>1
  <2> QED BY <2>1, <2>2
<1>2. CASE ~occurs
  BY <1>2 DEF FaultIf
<1> QED BY <1>1, <1>2

LEMMA AnswerTyped ==
  ASSUME NEW c \in calls, TypeInv, Answer(c)
  PROVE  TypeInv'
<1> USE DEF Fault
<1>0. /\ c \in Call /\ c.articles \in SUBSET Articles /\ c.zeroSplit \in BOOLEAN
      /\ waiting \in SUBSET Work /\ {} \in SUBSET Articles
      /\ faults \in Seq(Fault) /\ Len(faults) <= MaxFaults
      /\ meter \in [{"bulk", "editor"} -> Meter] /\ BatchesTypeOK
  BY DEF TypeInv, BatchesTypeOK, Call
<1>h. \A z \in BOOLEAN : waiting \cup Halves(c, z) \in SUBSET Work
  BY <1>0, HalvesTyped
<1>p. \A k \in Costs : Paid(c, k) \in [{"bulk", "editor"} -> Meter]
  BY <1>0, PaidTyped
<1>1. ASSUME AnswerItems(c) PROVE TypeInv'
  <2>1. PICK reply \in SUBSET Articles, k \in Costs :
          /\ FaultIf("short", ~(c.articles \subseteq Attributed(reply, c)))
          /\ Settle(c, Attributed(reply, c), {}, waiting, Paid(c, k))
    BY <1>1 DEF AnswerItems
  <2>2. Attributed(reply, c) \in SUBSET Articles
    BY DEF Attributed
  <2>3. faults' \in Seq(Fault) /\ Len(faults') <= MaxFaults
    BY <1>0, <2>1, FaultTyped
  <2> QED BY <1>0, <1>p, <2>1, <2>2, <2>3, SettleTyped
<1>2. ASSUME AnswerNoItems(c) PROVE TypeInv'
  <2>1. faults' \in Seq(Fault) /\ Len(faults') <= MaxFaults
    BY <1>0, <1>2, FaultTyped DEF AnswerNoItems
  <2>2. PICK k \in Costs :
          \/ Cardinality(c.articles) = 1 /\ ResolveSingle(c, Paid(c, k))
          \/ Settle(c, {}, {}, waiting \cup Halves(c, FALSE), Paid(c, k))
          \/ Settle(c, {}, {}, waiting, Paid(c, k))
    BY <1>2 DEF AnswerNoItems
  <2>3. CASE Cardinality(c.articles) = 1 /\ ResolveSingle(c, Paid(c, k))
    BY <1>p, <2>1, <2>3, ResolveTyped
  <2>4. CASE Settle(c, {}, {}, waiting \cup Halves(c, FALSE), Paid(c, k))
    BY <1>0, <1>h, <1>p, <2>1, <2>4, SettleTyped
  <2>5. CASE Settle(c, {}, {}, waiting, Paid(c, k))
    BY <1>0, <1>p, <2>1, <2>5, SettleTyped
  <2> QED BY <2>2, <2>3, <2>4, <2>5
<1>3. ASSUME AnswerRejected(c) PROVE TypeInv'
  <2>1. faults' \in Seq(Fault) /\ Len(faults') <= MaxFaults
    BY <1>0, <1>3, FaultTyped DEF AnswerRejected
  <2>2. CASE Cardinality(c.articles) = 1 /\ ResolveSingle(c, meter)
    BY <1>0, <2>1, <2>2, ResolveTyped
  <2>3. CASE Settle(c, {}, {}, waiting \cup Halves(c, c.zeroSplit), meter)
    BY <1>0, <1>h, <2>1, <2>3, SettleTyped
  <2> QED BY <1>3, <2>2, <2>3 DEF AnswerRejected
<1>4. ASSUME AnswerTransient(c) PROVE TypeInv'
  <2>1. faults' \in Seq(Fault) /\ Len(faults') <= MaxFaults
    BY <1>0, <1>4, FaultTyped DEF AnswerTransient
  <2> QED BY <1>0, <1>4, <2>1, SettleTyped DEF AnswerTransient
<1>5. ASSUME AnswerEditor(c) PROVE TypeInv'
  <2>1. faults' \in Seq(Fault) /\ Len(faults') <= MaxFaults
    BY <1>0, <1>5 DEF AnswerEditor
  <2>2. CASE \E k \in Costs : \/ Settle(c, c.articles, {}, waiting, Paid(c, k))
                              \/ Settle(c, {}, c.articles, waiting, Paid(c, k))
    BY <1>0, <1>p, <2>1, <2>2, SettleTyped
  <2>3. CASE Settle(c, {}, c.articles, waiting, meter)
    BY <1>0, <2>1, <2>3, SettleTyped
  <2> QED BY <1>5, <2>2, <2>3 DEF AnswerEditor
<1> QED BY <1>1, <1>2, <1>3, <1>4, <1>5 DEF Answer

LEMMA StartTyped ==
  ASSUME NEW b \in Articles, TypeInv, Start(b)
  PROVE  TypeInv'
<1> USE DEF TypeInv, BatchesTypeOK
<1>1. Typed(waiting, calls, meter) /\ Cardinality(calls) < MaxInFlight /\ Resume(b, waiting, calls, meter)
  BY DEF Typed, Start
<1>2. Typed(waiting', calls', meter') /\ Cardinality(calls') <= MaxInFlight /\ stopped' \in BOOLEAN
  BY <1>1, ResumeTyped
<1> QED BY <1>2 DEF Typed, Start

LEMMA BatchesTypesInit == BatchesInit => TypeInv
<1> SUFFICES ASSUME BatchesInit PROVE TypeInv
  OBVIOUS
<1>1. meter \in [{"bulk", "editor"} -> Meter]
  <2>1. \A spent \in 0..Limit : Preloaded(spent) \in Meter
    BY PreloadedTyped, LimitAssumption
  <2> QED BY <2>1 DEF BatchesInit
<1>2. pending \in SUBSET Articles /\ waiting \subseteq Work
  BY ChunksTyped DEF BatchesInit
<1>3. calls = {} /\ IsFiniteSet(calls) /\ Cardinality(calls) = 0
  BY FS_EmptySet DEF BatchesInit
<1>4. faults \in Seq(Fault) /\ Len(faults) = 0
  BY DEF BatchesInit
<1>5. /\ other \in BOOLEAN /\ poison \subseteq Articles /\ stopped \in BOOLEAN
      /\ assessed \subseteq Articles /\ rejected \subseteq Articles
  BY DEF BatchesInit
<1>6. Len(faults) <= MaxFaults /\ Cardinality(calls) <= MaxInFlight
  BY <1>3, <1>4, BatchesAssumption
<1> QED BY <1>1, <1>2, <1>3, <1>4, <1>5, <1>6 DEF TypeInv, BatchesTypeOK

LEMMA BatchesTypesStep == TypeInv /\ [BatchesNext]_batchVars => TypeInv'
<1> SUFFICES ASSUME TypeInv, [BatchesNext]_batchVars PROVE TypeInv'
  OBVIOUS
<1>1. CASE BatchesNext
  BY <1>1, AnswerTyped, StartTyped DEF BatchesNext
<1>2. CASE UNCHANGED batchVars
  BY <1>2 DEF TypeInv, BatchesTypeOK, batchVars, stageVars
<1> QED BY <1>1, <1>2

\* BatchesTypeOK: never more requests in flight than the provider allows, and
\* its second provider is asked about single articles only.
THEOREM BatchesTypeCorrect == BatchesSpec => []BatchesTypeOK
<1>1. TypeInv => BatchesTypeOK
  BY DEF TypeInv
<1> QED BY <1>1, BatchesTypesInit, BatchesTypesStep, PTL DEF BatchesSpec
=============================================================================
