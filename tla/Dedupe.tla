--------------------------------- MODULE Dedupe ---------------------------------
(***************************************************************************)
(* The entries of a run's window become articles: clustered by canonical   *)
(* URL and by normalized title in the order they arrive, and stored under  *)
(* the canonical URL of the cluster's richest entry, which `articles`      *)
(* keeps unique: the URL stands for the article's id.                      *)
(***************************************************************************)
EXTENDS Naturals, FiniteSets

CONSTANTS
  Url,          \* canonical URLs
  TitleKey,     \* normalized titles of at least MIN_TITLE_KEY_LEN
  NoKey,        \* a title that is shorter
  NoUrl,
  MaxEntries    \* bound on the entries of a window

ASSUME DedupeAssumption ==
  NoKey \notin TitleKey /\ NoUrl \notin Url /\ MaxEntries \in Nat

Slot == 1..MaxEntries

VARIABLES
  entries,    \* entries clustered so far
  clusters,   \* clusters[i]: the URLs in cluster i, {} when there is none
  byUrl,      \* the cluster of a URL, 0 when there is none
  byTitle,    \* the cluster of a title
  idOf,       \* idOf[i]: the article cluster i is stored as
  known       \* the URLs `articles` has rows of

dedupeVars == <<entries, clusters, byUrl, byTitle, idOf, known>>

NoClusters ==
  /\ entries' = 0
  /\ clusters' = [i \in Slot |-> {}]
  /\ byUrl' = [u \in Url |-> 0] /\ byTitle' = [t \in TitleKey |-> 0]
  /\ idOf' = [i \in Slot |-> NoUrl]

DedupeInit ==
  /\ entries = 0
  /\ clusters = [i \in Slot |-> {}]
  /\ byUrl = [u \in Url |-> 0] /\ byTitle = [t \in TitleKey |-> 0]
  /\ idOf = [i \in Slot |-> NoUrl]
  /\ known = {}

Grouped == {i \in Slot : clusters[i] # {}}
Persisting == \E i \in Slot : idOf[i] # NoUrl

OfTitle(t) == IF t \in TitleKey THEN byTitle[t] ELSE 0
NewCluster == Cardinality(Grouped) + 1

\* Faulty variant: the title is looked up first.
PlaceByTitle(u, t) == IF OfTitle(t) # 0 THEN OfTitle(t) ELSE IF byUrl[u] # 0 THEN byUrl[u] ELSE NewCluster

\* The cluster of the URL, else that of the title, else a new one.
Place(u, t) == IF byUrl[u] # 0 THEN byUrl[u] ELSE IF OfTitle(t) # 0 THEN OfTitle(t) ELSE NewCluster

\* cluster_with_feeds, one entry; the first cluster of a URL or a title keeps
\* it (or_insert).
ClusterEntry(u, t) ==
  LET i == Place(u, t) IN
  /\ ~Persisting /\ entries < MaxEntries
  /\ entries' = entries + 1
  /\ clusters' = [clusters EXCEPT ![i] = @ \cup {u}]
  /\ byUrl' = [byUrl EXCEPT ![u] = IF @ = 0 THEN i ELSE @]
  /\ byTitle' = [k \in TitleKey |-> IF k = t /\ byTitle[k] = 0 THEN i ELSE byTitle[k]]
  /\ UNCHANGED <<idOf, known>>

\* build_article, persist_articles: the richest entry, whichever it is, gives
\* the URL, and the row of that URL, new or old, the id.
PersistArticle(i) ==
  /\ i \in Grouped /\ idOf[i] = NoUrl
  /\ \E u \in clusters[i] : idOf' = [idOf EXCEPT ![i] = u] /\ known' = known \cup {u}
  /\ UNCHANGED <<entries, clusters, byUrl, byTitle>>

\* The next run, after this one has done its work or failed.
NextWindow == entries > 0 /\ NoClusters /\ UNCHANGED known

DedupeNext ==
  \/ \E u \in Url, t \in TitleKey \cup {NoKey} : ClusterEntry(u, t)
  \/ \E i \in Slot : PersistArticle(i)
  \/ NextWindow

DedupeSpec == DedupeInit /\ [][DedupeNext]_dedupeVars

-----------------------------------------------------------------------------
\* Types of the variables.
DedupeTypeOK ==
  /\ entries \in 0..MaxEntries
  /\ clusters \in [Slot -> SUBSET Url]
  /\ byUrl \in [Url -> 0..entries] /\ byTitle \in [TitleKey -> 0..entries]
  /\ idOf \in [Slot -> Url \cup {NoUrl}]
  /\ known \subseteq Url

\* Titles pull URLs into clusters that other entries of the same URL may not
\* reach by their own title; still no two clusters of a run are stored as one
\* article, which would put it into the candidates, and into issue_articles,
\* twice.
ArticlesKeptApart ==
  \A i, j \in Slot : i # j /\ idOf[i] # NoUrl => idOf[i] # idOf[j]
=============================================================================
