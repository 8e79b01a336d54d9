--------------------------------- MODULE Ingest ---------------------------------
(***************************************************************************)
(* The ingest stage: the window of a run and the pages of entries it       *)
(* fetches from Miniflux, newest first, while Miniflux polls its feeds and *)
(* removes entries.                                                        *)
(*                                                                         *)
(* Time is in hours and starts with hour 1; at most one entry is published *)
(* in an hour and is named by it.  The watermark is written after each     *)
(* ingest and read by nothing, and is left out.                            *)
(***************************************************************************)
EXTENDS Naturals, FiniteSets

CONSTANTS
  MaxTime,      \* bound on the clock
  HoursADay,
  Lookback,     \* lookback_hours
  Delay,        \* how long Miniflux may take to find an entry, for the properties
  PageLimit,    \* miniflux.page_limit
  MaxPages,     \* MAX_PAGES
  MaxRemoved    \* bound on the entries Miniflux removes

ASSUME IngestAssumption ==
  /\ {MaxTime, HoursADay, Lookback, Delay, PageLimit, MaxPages} \subseteq Nat \ {0}
  /\ MaxRemoved \in Nat
  /\ Delay <= Lookback

Hour == 1..MaxTime

VARIABLES
  now,
  listed,     \* Miniflux: the entries it has
  removed,    \* the entries it had
  tardy,      \* entries it found later than `Delay` (history)
  fetch,      \* the run's ingest: its window, and how far it is
  there,      \* entries of the window that have been listed all along (history)
  shifts,     \* entries removed during the fetch (history)
  stored,     \* the table `entries`
  covered     \* an unbroken row of runs: its first and its last end (history)

ingestVars == <<now, listed, removed, tardy, fetch, there, shifts, stored, covered>>

NoFetch == [at |-> "idle", since |-> 0, until |-> 0, offset |-> 0, count |-> 0, pages |-> 0, got |-> {}]

IngestInit ==
  /\ now = 1
  /\ listed = {} /\ removed = {} /\ tardy = {}
  /\ fetch = NoFetch /\ there = {} /\ shifts = 0
  /\ stored = {}
  /\ covered = [from |-> 0, upto |-> 0]

Smaller(m, n) == IF m < n THEN m ELSE n
Minus(m, n) == IF m > n THEN m - n ELSE 0

-----------------------------------------------------------------------------
(* Miniflux and the clock.                                                 *)

Tick ==
  /\ now < MaxTime /\ now' = now + 1
  /\ UNCHANGED <<listed, removed, tardy, fetch, there, shifts, stored, covered>>

Find(e) ==
  /\ e <= now /\ e \notin listed \cup removed
  /\ listed' = listed \cup {e}
  /\ tardy' = IF now > e + Delay THEN tardy \cup {e} ELSE tardy
  /\ UNCHANGED <<now, removed, fetch, there, shifts, stored, covered>>

Remove(e) ==
  /\ e \in listed /\ Cardinality(removed) < MaxRemoved
  /\ listed' = listed \ {e} /\ removed' = removed \cup {e}
  /\ there' = there \ {e}
  /\ shifts' = IF fetch.at = "page" THEN shifts + 1 ELSE shifts
  /\ UNCHANGED <<now, tardy, fetch, stored, covered>>

-----------------------------------------------------------------------------
(* The stage.                                                              *)

\* Faulty variant: the window starts with the issue's day.
SinceMidnight(day, until) == Smaller((day - 1) * HoursADay, until)

Since(day, until) == Minus(until, Lookback)

\* ingest_window: the end of the issue's day, clamped to now, and the hours
\* before it.  The issue may be today's or an older one.
StartIngest ==
  /\ fetch.at = "idle"
  /\ \E day \in Hour :
       LET until == Smaller(day * HoursADay, now)
       IN /\ fetch' = [NoFetch EXCEPT !.at = "page", !.since = Since(day, until), !.until = until]
          /\ there' = {e \in listed : e > Since(day, until)}
  /\ shifts' = 0
  /\ UNCHANGED <<now, listed, removed, tardy, stored, covered>>

\* What Miniflux answers: entries published after `since`, newest first.
Matching == {e \in listed : e > fetch.since}
Page ==
  {e \in Matching :
     Cardinality({d \in Matching : d > e}) \in fetch.offset .. fetch.offset + PageLimit - 1}

\* Faulty variant: a page that brings nothing new is taken for the end.
LastPageSeen(count, pages) ==
  \/ Page \subseteq fetch.got
  \/ count >= Cardinality(Matching)
  \/ pages = MaxPages

\* A short page, or as many entries as there are, or too many pages.
LastPage(count, pages) ==
  \/ Cardinality(Page) < PageLimit
  \/ count >= Cardinality(Matching)
  \/ pages = MaxPages

\* entries_since, one request; entries that were found meanwhile push others
\* onto the next page again, and those that come twice are counted twice.
FetchPage ==
  /\ fetch.at = "page"
  /\ LET count == fetch.count + Cardinality(Page)
         last == LastPage(count, fetch.pages + 1)
     IN fetch' = [fetch EXCEPT !.at = IF last THEN "store" ELSE "page",
                               !.offset = IF last THEN @ ELSE @ + PageLimit,
                               !.count = count, !.pages = @ + 1, !.got = @ \cup Page]
  /\ UNCHANGED <<now, listed, removed, tardy, there, shifts, stored, covered>>

Complete == shifts = 0 /\ fetch.pages < MaxPages

\* Entries newer than the window are dropped, the others upserted in one
\* transaction.
StoreEntries ==
  /\ fetch.at = "store"
  /\ stored' = stored \cup {e \in fetch.got : e <= fetch.until}
  /\ covered' =
       IF ~Complete \/ fetch.until < covered.upto THEN covered
       ELSE IF fetch.until < covered.upto + (Lookback - Delay) THEN [covered EXCEPT !.upto = fetch.until]
       ELSE [from |-> fetch.since, upto |-> fetch.until]
  /\ fetch' = NoFetch /\ there' = {} /\ shifts' = 0
  /\ UNCHANGED <<now, listed, removed, tardy>>

\* A request failed for good, or the transaction, or the process died.
IngestFails ==
  /\ fetch.at # "idle"
  /\ fetch' = NoFetch /\ there' = {} /\ shifts' = 0
  /\ UNCHANGED <<now, listed, removed, tardy, stored, covered>>

IngestNext ==
  \/ Tick
  \/ \E e \in Hour : Find(e) \/ Remove(e)
  \/ StartIngest \/ FetchPage \/ StoreEntries \/ IngestFails

IngestSpec == IngestInit /\ [][IngestNext]_ingestVars

-----------------------------------------------------------------------------
\* Types of the variables.
IngestTypeOK ==
  /\ now \in Hour
  /\ {listed, removed, tardy, there, stored} \subseteq SUBSET Hour
  /\ fetch \in [at : {"idle", "page", "store"}, since : 0..MaxTime, until : 0..MaxTime,
                offset : Nat, count : Nat, pages : 0..MaxPages, got : SUBSET Hour]
  /\ shifts \in 0..MaxRemoved
  /\ covered \in [from : 0..MaxTime, upto : 0..MaxTime]

\* Pages are cut from a list that changes between requests: entries Miniflux
\* finds meanwhile, wherever they belong, never hide another, and a fetch
\* misses no more entries than were removed while it went on.
FetchComplete ==
  fetch.at = "store" /\ fetch.pages < MaxPages =>
    Cardinality(there \ fetch.got) <= shifts

\* No entry falls between the windows of runs that are never further apart
\* than the lookback less the time Miniflux takes to find an entry: failed
\* runs, late ones and repeated issues of earlier days make no gap.
NothingFallsBetween ==
  \A e \in Hour \ (tardy \cup removed) :
    e \in listed /\ covered.from < e /\ e + Delay < covered.upto => e \in stored
===============================================================================
