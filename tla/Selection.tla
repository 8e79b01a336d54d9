------------------------------- MODULE Selection -------------------------------
(***************************************************************************)
(* From the eligible candidates to the lineup: the pool cap, union         *)
(* admission into the deep set, the diversified shortlist and the editor's *)
(* selection, over one run after the other.                                *)
(*                                                                         *)
(* Candidates are numbered by utility, the best first.  The other signals  *)
(* (blend, interest, knn, triage scores) rank them in ways of their own:   *)
(* what a retriever takes is a choice.                                     *)
(***************************************************************************)
EXTENDS Naturals, FiniteSets

CONSTANTS
  MaxEligible,       \* bound on the candidates of a run
  TriageMax, DeepKeep, ExplorationSlots,      \* curation.ranking
  ShortlistKeep, PerClusterCap, Protected,    \* and its diversity
  SoftTarget, HardMax                         \* target_article_count, max_article_count

ASSUME SelectionAssumption ==
  /\ {MaxEligible, TriageMax, DeepKeep, ExplorationSlots, Protected} \subseteq Nat
  /\ {ShortlistKeep, PerClusterCap, SoftTarget, HardMax} \subseteq Nat
  /\ SoftTarget <= HardMax /\ SoftTarget <= ShortlistKeep
  /\ ShortlistKeep <= DeepKeep /\ PerClusterCap >= 1

Candidate == 1..MaxEligible
Cluster == Candidate

VARIABLES
  chosenBy,   \* the stage that chose last
  included,   \* candidates of always_include_feeds
  chosen,     \* what that stage chose
  explorer,   \* the exploration picks among them
  deep,       \* the deep set the shortlist was taken from
  clusterOf   \* the clusters of the deep set

selectionVars == <<chosenBy, included, chosen, explorer, deep, clusterOf>>

Alone == [a \in Candidate |-> a]

SelectionInit ==
  /\ chosenBy = "none" /\ included = {} /\ chosen = {}
  /\ explorer = {} /\ deep = {} /\ clusterOf = Alone

\* The first n of S.
Best(S, n) == {a \in S : Cardinality({b \in S : b < a}) < n}

Larger(m, n) == IF m < n THEN n ELSE m

-----------------------------------------------------------------------------
\* apply_pool_cap: everything, or at least triage_max candidates with all
\* auto-included ones; with a triage_max of 0 only these.
PoolCap ==
  /\ chosenBy \in {"none", "editor"}
  /\ \E eligible \in SUBSET Candidate, pool \in SUBSET Candidate :
       /\ pool \subseteq eligible
       /\ included' \in SUBSET eligible
       /\ \/ pool = eligible /\ Cardinality(eligible) <= TriageMax
          \/ /\ Cardinality(eligible) > TriageMax
             /\ included' \subseteq pool /\ Cardinality(pool) >= TriageMax
             /\ TriageMax = 0 => pool = included'
       /\ chosen' = pool
  /\ chosenBy' = "pool"
  /\ UNCHANGED <<explorer, deep, clusterOf>>

\* admit: the auto-included, however many, and what the retrievers take of
\* the rest as long as there is room in deep_keep; the last of them, the
\* blend, fills it up.
AdmitUnion ==
  /\ chosenBy = "pool"
  /\ chosen' \in {S \in SUBSET chosen :
                    /\ included \subseteq S
                    /\ \/ S = included \/ Cardinality(S) <= DeepKeep
                    /\ S = chosen \/ Cardinality(S) >= DeepKeep}
  /\ explorer' \in {S \in SUBSET (chosen' \ included) : Cardinality(S) <= ExplorationSlots}
  /\ chosenBy' = "admit"
  /\ UNCHANGED <<included, deep, clusterOf>>

-----------------------------------------------------------------------------
(* rank::shortlist.                                                        *)

SameCluster(a, S) == {b \in S : clusterOf'[b] = clusterOf'[a]}

\* Faulty variant: what is on the list beforehand does not count for the cap.
FillUncounted(start, cap, target) ==
  LET list[a \in 0..MaxEligible] ==
        IF a = 0 THEN start
        ELSE LET before == list[a - 1] IN
             IF /\ a \in chosen /\ Cardinality(before) < target
                /\ Cardinality(SameCluster(a, before \ start)) < cap
             THEN before \cup {a} ELSE before
  IN list[MaxEligible]

\* admit_under_cap: in order of utility, until the target is reached, whatever
\* has fewer than `cap` of its cluster on the list.
FillUnder(start, cap, target) ==
  LET list[a \in 0..MaxEligible] ==
        IF a = 0 THEN start
        ELSE LET before == list[a - 1] IN
             IF /\ a \in chosen /\ Cardinality(before) < target
                /\ Cardinality(SameCluster(a, before)) < cap
             THEN before \cup {a} ELSE before
  IN list[MaxEligible]

\* The best and the auto-included, then up to three explorers if there is room.
Forced ==
  LET sure == Best(chosen, Protected) \cup included
      room == IF Cardinality(sure) < ShortlistKeep THEN ShortlistKeep - Cardinality(sure) ELSE 0
  IN sure \cup Best(Best(explorer, 3) \ sure, room)

\* Under the cap, then under a cap of three, then without one.
Shortlist ==
  /\ chosenBy = "admit"
  /\ \E leader \in {f \in [chosen -> chosen] : \A a \in chosen : f[a] <= a /\ f[f[a]] = f[a]} :
       clusterOf' = [a \in Candidate |-> IF a \in chosen THEN leader[a] ELSE a]
  /\ LET target == Larger(ShortlistKeep, Cardinality(Forced))
         spread == FillUnder(Forced, PerClusterCap, target)
         relaxed == FillUnder(spread, 3, target)
     IN chosen' = FillUnder(relaxed, MaxEligible + 1, target)
  /\ deep' = chosen
  /\ chosenBy' = "shortlist"
  /\ UNCHANGED <<included, explorer>>

-----------------------------------------------------------------------------
(* editor::select.                                                         *)

\* Faulty variant: too long a lineup is cut by utility alone.
AssembleBest(picked) == Best(picked, HardMax)

\* Trimmed to the ceiling, the auto-included first, then by utility.
Assemble(picked) ==
  LET sure == Best(picked \cap included, HardMax)
  IN sure \cup Best(picked \ included, HardMax - Cardinality(sure))

Select(picked) ==
  /\ chosen' = Assemble(picked \cup (chosen \cap included))
  /\ chosenBy' = "editor"
  /\ explorer' = {} /\ deep' = {} /\ clusterOf' = Alone
  /\ UNCHANGED included

\* The editor's answer; ids that are not on the shortlist are passed over and
\* auto-included articles it left out are appended.
EditorSelects == chosenBy = "shortlist" /\ \E answer \in SUBSET chosen : Select(answer)

\* No provider, no answer from either, or nothing in it.
SelectWithoutLlm == chosenBy = "shortlist" /\ Select(Best(chosen, SoftTarget))

SelectionNext == PoolCap \/ AdmitUnion \/ Shortlist \/ EditorSelects \/ SelectWithoutLlm

SelectionSpec == SelectionInit /\ [][SelectionNext]_selectionVars

-----------------------------------------------------------------------------
\* Types of the variables.
SelectionTypeOK ==
  /\ chosenBy \in {"none", "pool", "admit", "shortlist", "editor"}
  /\ {included, chosen, explorer, deep} \subseteq SUBSET Candidate
  /\ clusterOf \in [Candidate -> Cluster]

\* Four stages with limits of their own choose between hygiene and the issue:
\* none of them loses an article of an always-included feed, unless these
\* alone are more than the lineup may have.
AutoIncludedPublished ==
  chosenBy = "editor" =>
    /\ Cardinality(chosen) <= HardMax
    /\ included \subseteq chosen \/ (chosen \subseteq included /\ Cardinality(chosen) = HardMax)

\* A cluster gets more than its cap on the shortlist only through what is
\* forced onto it, or when no article is left whose cluster is below the cap:
\* articles are neither shown twice as long as there are others, nor is the
\* list shorter than it could be.
ShortlistDiverse ==
  chosenBy = "shortlist" =>
    LET crowd(a) == Cardinality({b \in chosen : clusterOf[b] = clusterOf[a]})
        forced == Best(deep, Protected) \cup included \cup explorer
    IN /\ \A a \in chosen \ forced, b \in deep \ chosen :
            crowd(a) > PerClusterCap => crowd(b) >= PerClusterCap
       /\ chosen = deep \/ Cardinality(chosen) >= ShortlistKeep
=============================================================================
