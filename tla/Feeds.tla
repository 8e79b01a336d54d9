--------------------------------- MODULE Feeds ---------------------------------
(***************************************************************************)
(* Feed discovery: the stage that looks up the hosts of aggregator-only    *)
(* articles in Miniflux and stores what it finds as candidates, and the    *)
(* operator's page that subscribes to a candidate or dismisses it.         *)
(*                                                                         *)
(* `generate` and `feeds discover` hold the run lock, so one stage runs at *)
(* a time; requests and Miniflux itself move on beside it.  A statement or *)
(* a call to Miniflux is a step.                                           *)
(***************************************************************************)
EXTENDS Naturals, FiniteSets

CONSTANTS
  Feed, Host,   \* feed URLs; hosts of articles
  HostsOf,      \* HostsOf[f]: the hosts of the feed's own URL and its site's
  NoHost, NoFeed,
  Clicker,      \* requests to add a candidate in flight
  MaxLookups,   \* discovery.max_lookups_per_run
  MaxPerHost    \* MAX_PER_HOST

ASSUME FeedsAssumption ==
  /\ HostsOf \in [Feed -> SUBSET Host]
  /\ NoHost \notin Host /\ NoFeed \notin Feed
  /\ MaxLookups \in Nat /\ MaxPerHost \in Nat

VARIABLES
  subs,     \* Miniflux: the feeds subscribed to
  cand,     \* feed_candidates: status, the host it was found for
  linked,   \* candidates with an article in feed_candidate_articles
  memo,     \* feed_discovery_hosts: is it recent, and what was found then
  stage,    \* the discovery stage
  click     \* click[a]: an add request and its feed

feedsVars == <<subs, cand, linked, memo, stage, click>>

NotFound == [status |-> "none", host |-> NoHost]
NoStage == [at |-> "idle", known |-> {}, flips |-> {}, queue |-> {}, host |-> NoHost, kept |-> {}, feed |-> NoFeed]
NotChecked == [recent |-> FALSE, found |-> {}]
NoClick == [at |-> "idle", feed |-> NoFeed]

FeedsInit ==
  /\ subs = {}
  /\ cand = [f \in Feed |-> NotFound]
  /\ linked = {}
  /\ memo = [h \in Host |-> NotChecked]
  /\ stage = NoStage
  /\ click = [a \in Clicker |-> NoClick]

Candidates == {f \in Feed : cand[f].status = "candidate"}
Stored == {f \in Feed : cand[f].status # "none"}
SetStatus(f, status) == cand' = [cand EXCEPT ![f].status = status]

SubscribedHosts(known) == UNION {HostsOf[f] : f \in known}

\* A candidate is that feed, or was found for a host of one.
Covered(f, known) == f \in known \/ cand[f].host \in SubscribedHosts(known)

-----------------------------------------------------------------------------
(* discovery::run.                                                         *)

\* The subscriptions are read at the start of the run, long before the stage.
StartStage ==
  /\ stage.at = "idle"
  /\ stage' = [NoStage EXCEPT !.at = "load", !.known = subs]
  /\ UNCHANGED <<subs, cand, linked, memo, click>>

\* reconcile_added: all_candidates, then a row at a time.
LoadCandidates ==
  /\ stage.at = "load"
  /\ stage' = [stage EXCEPT !.at = "reconcile", !.flips = {f \in Candidates : Covered(f, stage.known)}]
  /\ UNCHANGED <<subs, cand, linked, memo, click>>

Reconcile(f) ==
  /\ stage.at = "reconcile" /\ f \in stage.flips
  /\ SetStatus(f, "added")
  /\ stage' = [stage EXCEPT !.flips = @ \ {f}]
  /\ UNCHANGED <<subs, linked, memo, click>>

\* Faulty variant: hosts the reader is subscribed to are looked up too.
WantedAnyHosts(articleHosts) == articleHosts

\* Hosts of the articles no feed carried, without those of a subscription.
WantedHosts(articleHosts) == articleHosts \ SubscribedHosts(stage.known)

\* Hosts checked recently only have their articles linked to what is still
\* undecided; of the others the ones with the best articles are queued.
Group ==
  /\ stage.at = "reconcile" /\ stage.flips = {}
  /\ \E articleHosts \in SUBSET Host :
       LET wanted == WantedHosts(articleHosts)
           reused == {h \in wanted : memo[h].recent}
       IN /\ linked' = linked \cup {f \in Candidates : cand[f].host \in reused}
          /\ \E queue \in SUBSET (wanted \ reused) :
               /\ Cardinality(queue) <= MaxLookups
               /\ queue # wanted \ reused => Cardinality(queue) = MaxLookups
               /\ stage' = IF queue = {} THEN NoStage ELSE [stage EXCEPT !.at = "lookup", !.queue = queue]
  /\ UNCHANGED <<subs, cand, memo, click>>

\* look_up and dedupe_guesses: what Miniflux finds on a host and what proves to
\* be a feed, without those subscribed to.  A host whose look-up failed on the
\* way is dropped from the queue, to be tried again by the next run.
LookUp(h) ==
  /\ stage.at = "lookup" /\ h \in stage.queue
  /\ \/ \E kept \in SUBSET (Feed \ stage.known) :
          /\ Cardinality(kept) <= MaxPerHost
          /\ stage' = [stage EXCEPT !.at = "write", !.host = h, !.kept = kept]
     \/ stage' = [stage EXCEPT !.queue = @ \ {h}]
  /\ UNCHANGED <<subs, cand, linked, memo, click>>

\* upsert_candidate: a row that is there keeps its status and its host.  (One
\* that has articles already would not change here, and is passed over.)
UpsertCandidate(f) ==
  /\ stage.at = "write" /\ stage.feed = NoFeed /\ f \in stage.kept \ linked
  /\ cand' = [cand EXCEPT ![f] = IF f \in Stored THEN @ ELSE [status |-> "candidate", host |-> stage.host]]
  /\ stage' = [stage EXCEPT !.feed = f]
  /\ UNCHANGED <<subs, linked, memo, click>>

LinkArticles ==
  /\ stage.at = "write" /\ stage.feed # NoFeed
  /\ linked' = linked \cup {stage.feed}
  /\ stage' = [stage EXCEPT !.feed = NoFeed]
  /\ UNCHANGED <<subs, cand, memo, click>>

\* Faulty variant: the host is memoized once its look-up is done.
MarkBeforeRows ==
  /\ stage.at = "write" /\ stage.feed = NoFeed
  /\ memo' = [memo EXCEPT ![stage.host] = [recent |-> TRUE, found |-> stage.kept]]
  /\ stage' = IF stage.kept \subseteq linked
              THEN [stage EXCEPT !.at = "lookup", !.queue = @ \ {stage.host}, !.host = NoHost, !.kept = {}]
              ELSE stage
  /\ UNCHANGED <<subs, cand, linked, click>>

\* mark_host_checked, after all rows and links of the host.
MarkHostChecked ==
  /\ stage.at = "write" /\ stage.feed = NoFeed /\ stage.kept \subseteq linked
  /\ memo' = [memo EXCEPT ![stage.host] = [recent |-> TRUE, found |-> stage.kept]]
  /\ stage' = [stage EXCEPT !.at = "lookup", !.queue = @ \ {stage.host}, !.host = NoHost, !.kept = {}]
  /\ UNCHANGED <<subs, cand, linked, click>>

\* Done, or a statement failed, or the process died.
StageStops ==
  /\ stage.at # "idle"
  /\ stage' = NoStage
  /\ UNCHANGED <<subs, cand, linked, memo, click>>

Stage ==
  \/ StartStage \/ LoadCandidates \/ Group \/ LinkArticles \/ MarkHostChecked \/ StageStops
  \/ \E f \in Feed : Reconcile(f) \/ UpsertCandidate(f)
  \/ \E h \in Host : LookUp(h)

-----------------------------------------------------------------------------
(* The feeds page: add and dismiss.                                        *)

\* The page may be old: the row only has to be there.
StartAdd(a) ==
  /\ click[a].at = "idle"
  /\ \E f \in Stored : click' = [click EXCEPT ![a] = [at |-> "create", feed |-> f]]
  /\ UNCHANGED <<subs, cand, linked, memo, stage>>

\* create_feed: subscribed, or it was already; else an error is shown and the
\* row stays, whether Miniflux took the call or not.
CreateFeed(a) ==
  /\ click[a].at = "create"
  /\ \/ subs' = subs \cup {click[a].feed} /\ click' = [click EXCEPT ![a].at = "decide"]
     \/ subs' \in {subs, subs \cup {click[a].feed}} /\ click' = [click EXCEPT ![a] = NoClick]
  /\ UNCHANGED <<cand, linked, memo, stage>>

DecideAdded(a) ==
  /\ click[a].at = "decide"
  /\ SetStatus(click[a].feed, "added")
  /\ click' = [click EXCEPT ![a] = NoClick]
  /\ UNCHANGED <<subs, linked, memo, stage>>

Dismiss(f) ==
  /\ f \in Stored
  /\ SetStatus(f, "dismissed")
  /\ UNCHANGED <<subs, linked, memo, stage, click>>

\* A click ends between the subscription and the row: its client goes away,
\* the statement fails, or the server stops.
ClickDropped(a) ==
  /\ click[a].at = "decide"
  /\ click' = [click EXCEPT ![a] = NoClick]
  /\ UNCHANGED <<subs, cand, linked, memo, stage>>

-----------------------------------------------------------------------------
\* Miniflux by its own page.
Resubscribe ==
  /\ \E f \in Feed : subs' \in {subs \cup {f}, subs \ {f}} \ {subs}
  /\ UNCHANGED <<cand, linked, memo, stage, click>>

\* RECHECK_DAYS pass.
Expire(h) ==
  /\ memo[h].recent
  /\ memo' = [memo EXCEPT ![h] = NotChecked]
  /\ UNCHANGED <<subs, cand, linked, stage, click>>

FeedsNext ==
  \/ Stage
  \/ \E a \in Clicker : StartAdd(a) \/ CreateFeed(a) \/ DecideAdded(a) \/ ClickDropped(a)
  \/ \E f \in Feed : Dismiss(f)
  \/ Resubscribe
  \/ \E h \in Host : Expire(h)

FeedsSpec == FeedsInit /\ [][FeedsNext]_feedsVars

-----------------------------------------------------------------------------
\* Types of the variables.
FeedsTypeOK ==
  /\ subs \subseteq Feed /\ linked \subseteq Feed
  /\ cand \in [Feed -> [status : {"none", "candidate", "added", "dismissed"}, host : Host \cup {NoHost}]]
  /\ memo \in [Host -> [recent : BOOLEAN, found : SUBSET Feed]]
  /\ stage \in [at : {"idle", "load", "reconcile", "lookup", "write"}, known : SUBSET Feed,
                flips : SUBSET Feed, queue : SUBSET Host, host : Host \cup {NoHost},
                kept : SUBSET Feed, feed : Feed \cup {NoFeed}]
  /\ click \in [Clicker -> [at : {"idle", "create", "decide"}, feed : Feed \cup {NoFeed}]]

\* Once a stage has reconciled the rows with the subscriptions it knows, no
\* candidate is a feed or on a host of one of them: not one that was there, by
\* whatever requests came in between, and not one the stage's own look-ups add.
NoSubscribedCandidate ==
  stage.at \in {"lookup", "write"} => \A f \in Candidates : ~Covered(f, stage.known)

\* A host that will not be looked up again for RECHECK_DAYS has everything its
\* look-up found stored and linked, wherever a stage was cut off.
CheckedMeansStored ==
  \A h \in Host : memo[h].recent => memo[h].found \subseteq Stored \cap linked
=============================================================================
