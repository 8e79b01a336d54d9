-------------------------------- MODULE Batches --------------------------------
(***************************************************************************)
(* The bisecting batch runner of triage and deep assessment: batches of    *)
(* pending articles go to the bulk provider, MaxInFlight at a time; a      *)
(* batch the provider refuses is halved down to single articles, and a     *)
(* refused single article is tried once on the editor's provider when that *)
(* is another one.                                                         *)
(*                                                                         *)
(* All batches run in one task, so a step goes from one answer to the next *)
(* request of the same batch, and other batches move only in between.      *)
(* Articles are numbered in candidate order.                               *)
(***************************************************************************)
EXTENDS Budget, Sequences, FiniteSets

CONSTANTS
  N,            \* number of articles
  BatchSize,    \* triage_batch_size and deep_batch_size
  MaxInFlight,  \* the bulk provider's max_concurrent_requests
  Costs,        \* what one completion may cost
  MaxFaults     \* bound on the provider faults in a stage

ASSUME BatchesAssumption ==
  /\ N \in Nat /\ MaxFaults \in Nat
  /\ BatchSize \in Nat \ {0} /\ MaxInFlight \in Nat \ {0}
  /\ Costs \subseteq Nat

Articles == 1..N

\* transient: the retries of a call ran out; api: a permanent error that has
\* nothing to do with the articles; short: an answer that misses some of them.
Fault == {"transient", "api", "short"}

VARIABLES
  meter,      \* the meters, by provider
  other,      \* the editor role runs on a provider of its own
  poison,     \* articles the bulk provider's content filter refuses
  pending,    \* the articles the stage asks about
  waiting,    \* work on the stacks of the original batches
  calls,      \* requests in flight, at most one per original batch
  assessed,   \* articles with an item, from either provider
  rejected,   \* articles reported as rejections
  stopped,    \* budget_stopped
  faults      \* kinds of the provider faults so far, oldest first

stageVars == <<pending, waiting, calls, assessed, rejected, stopped>>
batchVars == <<meter, other, poison, faults, stageVars>>

\* Work belongs to the original batch `of`; a request is a piece of work and
\* the provider it was sent to.
Work == [of : Articles, articles : SUBSET Articles, zeroSplit : BOOLEAN]
Call == [of : Articles, articles : SUBSET Articles, zeroSplit : BOOLEAN, on : {"bulk", "editor"}]

Ask(w, p) == [of |-> w.of, articles |-> w.articles, zeroSplit |-> w.zeroSplit, on |-> p]

-----------------------------------------------------------------------------
(* Batches and halves.                                                     *)

Rank(a, S) == Cardinality({b \in S : b < a})

\* `pending.chunks(batch_size)`: the batch an article falls in.
ChunkOf(a, S) == 1 + Rank(a, S) \div BatchSize

Chunks(S) ==
  {[of |-> k, articles |-> {a \in S : ChunkOf(a, S) = k}, zeroSplit |-> TRUE] :
     k \in {ChunkOf(a, S) : a \in S}}

\* Faulty variant of FirstHalf: the split is one article late.
FirstHalfLate(S) == {a \in S : Rank(a, S) <= Cardinality(S) \div 2}

FirstHalf(S) == {a \in S : Rank(a, S) < Cardinality(S) \div 2}

\* Faulty variant of Halves: the right half is never pushed.
HalvesLeft(c, zeroSplit) ==
  {[of |-> c.of, articles |-> FirstHalf(c.articles), zeroSplit |-> zeroSplit]}

\* push_halves
Halves(c, zeroSplit) ==
  {[of |-> c.of, articles |-> S, zeroSplit |-> zeroSplit] :
     S \in {FirstHalf(c.articles), c.articles \ FirstHalf(c.articles)}}

\* Faulty variant of Attributed: no filter on the ids of the batch.
AnyItem(reply, c) == reply

\* The parsed items that count: those of articles the request was about.
Attributed(reply, c) == reply \cap c.articles

-----------------------------------------------------------------------------
(* One batch: from its start, or from an answer, to its next request.      *)

StackOf(W, b) == {w \in W : w.of = b}

\* The left half is pushed last, so the top of a stack holds the earliest
\* articles of its batch.
IsTop(w, W) ==
  \A v \in StackOf(W, w.of) \ {w} : \A a \in w.articles, b \in v.articles : a < b

\* The loop of run_one from its head: W is the work on all stacks, C the other
\* batches' requests, m the meters.
Resume(b, W, C, m) ==
  \/ /\ StackOf(W, b) = {}
     /\ waiting' = W /\ calls' = C /\ meter' = m
     /\ UNCHANGED stopped
  \/ /\ StackOf(W, b) # {} /\ Over(m["bulk"])
     /\ waiting' = W \ StackOf(W, b)
     /\ calls' = C
     /\ meter' = [m EXCEPT !["bulk"] = Checked(@)]
     /\ stopped' = TRUE
  \/ /\ ~Over(m["bulk"])
     /\ \E w \in StackOf(W, b) :
          /\ IsTop(w, W)
          /\ waiting' = W \ {w}
          /\ calls' = C \cup {Ask(w, "bulk")}
     /\ meter' = m
     /\ UNCHANGED stopped

Running == {c.of : c \in calls}

\* A free slot of buffer_unordered takes the next original batch.
Start(b) ==
  /\ Cardinality(calls) < MaxInFlight
  /\ b \notin Running /\ StackOf(waiting, b) # {}
  /\ \A k \in {w.of : w \in waiting} \ Running : b <= k
  /\ Resume(b, waiting, calls, meter)
  /\ UNCHANGED <<other, poison, pending, assessed, rejected, faults>>

\* A request is over: A are assessed, R rejected, W is on the stacks now.
Settle(c, A, R, W, m) ==
  /\ assessed' = assessed \cup A
  /\ rejected' = rejected \cup R
  /\ Resume(c.of, W, calls \ {c}, m)
  /\ UNCHANGED <<other, poison, pending>>

\* Faulty variant of ResolveSingle: the editor's provider is asked though it
\* is the bulk provider itself.
ResolveAnyway(c, m) ==
  IF ~Over(m["editor"])
  THEN /\ calls' = (calls \ {c}) \cup {Ask(c, "editor")}
       /\ meter' = m
       /\ UNCHANGED <<other, poison, pending, waiting, assessed, rejected, stopped>>
  ELSE Settle(c, {}, c.articles, waiting, [m EXCEPT !["editor"] = Checked(@)])

\* resolve_single: the editor's provider is asked when it is another one and
\* its meter allows it, otherwise the article is a rejection.
ResolveSingle(c, m) ==
  IF other /\ ~Over(m["editor"])
  THEN /\ calls' = (calls \ {c}) \cup {Ask(c, "editor")}
       /\ meter' = m
       /\ UNCHANGED <<other, poison, pending, waiting, assessed, rejected, stopped>>
  ELSE Settle(c, {}, c.articles, waiting,
              IF other THEN [m EXCEPT !["editor"] = Checked(@)] ELSE m)

FaultIf(kind, occurs) ==
  IF occurs
  THEN Len(faults) < MaxFaults /\ faults' = Append(faults, kind)
  ELSE UNCHANGED faults

Paid(c, k) == [meter EXCEPT ![c.on] = Recorded(@, k)]

\* The bulk provider answers with items for some of the articles.  An answer
\* may name any article; it cannot be about a batch the filter refuses.
AnswerItems(c) ==
  /\ c.on = "bulk" /\ c.articles \cap poison = {}
  /\ \E reply \in SUBSET Articles, k \in Costs :
       LET items == Attributed(reply, c) IN
         /\ items # {}
         /\ FaultIf("short", ~(c.articles \subseteq items))
         /\ Settle(c, items, {}, waiting, Paid(c, k))

\* The answer parses to no item: a batch is halved once, a single article
\* goes to resolve_single, and half a batch is left unassessed.
AnswerNoItems(c) ==
  /\ c.on = "bulk" /\ c.articles \cap poison = {}
  /\ FaultIf("short", TRUE)
  /\ \E k \in Costs :
       \/ Cardinality(c.articles) = 1 /\ ResolveSingle(c, Paid(c, k))
       \/ /\ Cardinality(c.articles) # 1 /\ c.zeroSplit
          /\ Settle(c, {}, {}, waiting \cup Halves(c, FALSE), Paid(c, k))
       \/ /\ Cardinality(c.articles) # 1 /\ ~c.zeroSplit
          /\ Settle(c, {}, {}, waiting, Paid(c, k))

\* is_rejection: the content filter, or any other permanent error.
AnswerRejected(c) ==
  /\ c.on = "bulk"
  /\ FaultIf("api", c.articles \cap poison = {})
  /\ \/ Cardinality(c.articles) = 1 /\ ResolveSingle(c, meter)
     \/ /\ Cardinality(c.articles) # 1
        /\ Settle(c, {}, {}, waiting \cup Halves(c, c.zeroSplit), meter)

\* Faulty variant of AnswerTransient: a network failure counts as a rejection.
TransientRejects(c) ==
  /\ c.on = "bulk"
  /\ FaultIf("transient", TRUE)
  /\ \/ Cardinality(c.articles) = 1 /\ ResolveSingle(c, meter)
     \/ /\ Cardinality(c.articles) # 1
        /\ Settle(c, {}, {}, waiting \cup Halves(c, c.zeroSplit), meter)

\* The retries ran out: the batch is left unassessed.
AnswerTransient(c) ==
  /\ c.on = "bulk"
  /\ FaultIf("transient", TRUE)
  /\ Settle(c, {}, {}, waiting, meter)

\* Faulty variant of AnswerEditor: a recovered article is reported as well.
EditorReports(c) ==
  /\ c.on = "editor"
  /\ \/ \E k \in Costs : Settle(c, c.articles, c.articles, waiting, Paid(c, k))
     \/ Settle(c, {}, c.articles, waiting, meter)
  /\ UNCHANGED faults

\* The editor's provider assesses the article, answers without it, or fails.
AnswerEditor(c) ==
  /\ c.on = "editor"
  /\ \/ \E k \in Costs : Settle(c, c.articles, {}, waiting, Paid(c, k))
     \/ \E k \in Costs : Settle(c, {}, c.articles, waiting, Paid(c, k))
     \/ Settle(c, {}, c.articles, waiting, meter)
  /\ UNCHANGED faults

Answer(c) ==
  \/ AnswerItems(c) \/ AnswerNoItems(c) \/ AnswerRejected(c)
  \/ AnswerTransient(c) \/ AnswerEditor(c)

BatchesNext ==
  \/ \E b \in Articles : Start(b)
  \/ \E c \in calls : Answer(c)

\* One stage, with a part of the ceilings already spent.
BatchesInit ==
  /\ meter \in [{"bulk", "editor"} -> {Preloaded(spent) : spent \in 0..Limit}]
  /\ other \in BOOLEAN /\ poison \in SUBSET Articles
  /\ pending \in SUBSET Articles
  /\ waiting = Chunks(pending)
  /\ calls = {} /\ assessed = {} /\ rejected = {} /\ stopped = FALSE
  /\ faults = <<>>

BatchesSpec == BatchesInit /\ [][BatchesNext]_batchVars

\* Every request is answered or times out.
BatchesFairSpec == BatchesSpec /\ WF_batchVars(BatchesNext)

StageDone == waiting = {} /\ calls = {}

-----------------------------------------------------------------------------
(* Properties.                                                             *)

\* Types; the editor's provider is only ever asked about one article, and
\* no more requests are in flight than the provider allows.
BatchesTypeOK ==
  /\ meter \in [{"bulk", "editor"} -> Meter]
  /\ other \in BOOLEAN /\ poison \subseteq Articles
  /\ pending \subseteq Articles
  /\ waiting \subseteq Work
  /\ calls \subseteq Call /\ Cardinality(calls) <= MaxInFlight
  /\ assessed \subseteq Articles /\ rejected \subseteq Articles
  /\ stopped \in BOOLEAN
  /\ faults \in Seq(Fault) /\ Len(faults) <= MaxFaults
  /\ \A c \in calls : c.on = "editor" => other /\ Cardinality(c.articles) = 1

\* A pending article is in one place: on one stack, in one request, among
\* the items or among the rejections.  However batches are halved, retried
\* and interleaved, no article is assessed or paid for twice in a stage, and
\* none is both assessed and rejected.
OneVerdict ==
  /\ assessed \cap rejected = {}
  /\ assessed \cup rejected \subseteq pending
  /\ \A w \in waiting \cup calls :
       w.articles \subseteq pending /\ w.articles \cap (assessed \cup rejected) = {}
  /\ \A v, w \in waiting : v # w => v.articles \cap w.articles = {}
  /\ \A v, w \in calls : v # w => v.articles \cap w.articles = {}
  /\ \A w \in waiting, c \in calls : w.articles \cap c.articles = {}

\* Only an article the content filter refuses is rejected, unless the
\* provider failed permanently or left articles out of its answers: halving a
\* batch never blames its other articles, nor does a network failure.
OnlyPoisonRejected ==
  (\A i \in DOMAIN faults : faults[i] = "transient") => rejected \subseteq poison

\* When the stage ends without a fault and within budget, every pending
\* article is assessed or rejected: halving loses none.
NothingLost ==
  StageDone /\ ~stopped /\ faults = <<>>
    => assessed \cup rejected = pending

\* Every stage ends: halving stops and no batch waits for another forever.
StageEnds == <>[]StageDone
=============================================================================
