# The Daily EPUB: models, checks and proofs

The Daily EPUB collects a day's entries from feeds, chooses what is worth
reading with the help of language models, prints the choice as two EPUB
editions and an XTC file, and serves the archive and an operator dashboard on
the web. It is one Rust binary. A timer runs `daily-epub generate`, systemd runs
operator jobs (`daily-epub job run <name>`), and a long-lived server answers
readers and the operator. They are separate processes: what they share is a
SQLite database, the publish directories, `config.toml` and one lock file.

This directory holds TLA+ modules for the parts of it whose correctness depends
on the order of steps, the TLC instances that check them, and TLAPS proofs for
every value of the constants. `PROJECT.json` has the source lines of each
definition, the runs, the hazards and the theorems. Source paths below are
relative to the repository.

| | |
|---|---|
| `Jobs` | the jobs table, the run lock, the systemd units, the dashboard's job handlers |
| `JobLifecycle` | what the jobs table promises its readers |
| `Imports` | the rating-import queue and its job, on top of `Jobs` |
| `Publishing` | from hygiene to the published and recorded issue, retention, crashes |
| `Archive` | what the issue archive promises |
| `Budget` | the usage meter of a provider in a run |
| `Batches` | the bisecting batch runner of triage and deep assessment |
| `Curation` | the provider work of the runs of a day: stages, cached rows, costs |
| `Ingest` | the window of a run and the pages of entries it fetches |
| `Dedupe` | clustering entries into articles and storing them |
| `Selection` | pool cap, admission, shortlist and the editor's selection |
| `Interests` | standing interests against the models that file and match them |
| `Feeds` | feed discovery and the feeds page |
| `Settings` | `config.toml`, the live configuration, saves and reloads |
| `Profile` | the saves and restores of `profile.md` |
| `Access` | access requests, their approval and its mail |
| `Sessions` | sign-in, sign-out, password changes and requests in flight |
| `MCJobs`, `MCImports`, `MCPublishing` | the constants of the instances |
| `MCPipeline`, `MCServer` | instances that put several parts in one run |
| `JobsProofs`, `ImportsProofs`, `PublishingProofs`, `BatchesProofs`, `CurationProofs`, `StagesProofs`, `ServerProofs` | the proofs |
| `FiniteOrders` | lemmas on finite sets of numbers that the proofs share |

Check a run with `tlc -config pipeline.cfg MCPipeline`, a proof module with
`tlapm StagesProofs.tla`; `PROJECT.json` says which module and which .cfg make a
run.

## 1. Inventory

For each part: its state, its operations, what is hard about it, and what makes
it correct.

**Jobs, run lock and units** (`src/jobs.rs`, `src/lock.rs`, `src/main.rs`,
`src/web/dashboard/jobs.rs`, `systemd/`). State: rows of `jobs` (requested,
running, ok, failed), the `flock` on `<database>.lock`, systemd's idea of each
unit. Operations: the dashboard inserts a requested row and calls `systemctl
start`; the unit's process takes the lock if its job needs it, claims the newest
requested row or inserts one, runs, records the outcome and exits; the job page
fails a request whose unit exited without claiming it; shells and the timer
start the same commands. Hard: no two statements are atomic, systemctl may fail
or time out after it queued the start, and processes are killed by systemd, by
signals and by reboots. Correct when one writer works at a time, a unit has one
active row, a row moves through its life once, and every request is answered.

**Rating imports** (`src/imports.rs`, `src/web/dashboard/ratings.rs`,
`src/rate.rs`). State: rows of `rating_imports` (pending, ok, failed), the
append-only `rating_events`. Operations: a form queues up to 500 URLs and asks
for the job; the job loads batches of pending rows and fetches, rates and
records them one by one. Hard: the queue grows while it is worked off, the job
takes no lock, and it can die between rating a row and recording that. Correct
when no import is rated twice, the later of two imports of one URL decides, and
what was queued is not forgotten.

**Publishing** (`src/pipeline.rs`, `src/publish.rs`, `src/db.rs`,
`src/curate/admit.rs`). State: the library directory with two editions a date,
the XTC directory, and the tables `runs`, `issues` and `issue_articles`.
Operations: `generate` excludes what was already published, curates, numbers the
issue, builds, copies three files by atomic renames, sweeps the directories by
retention, writes the issues row and the lineup in two transactions, finishes the
runs row and attaches the report. Hard: a run may fail or die after any of
these, a date may be generated again, or out of order. Correct when an ok run
really is what readers get, nothing is repeated, numbers count days, and the
directories keep their limits.

**Curation** (`src/curate/`). State: embeddings, `article_assessments` (also
those that say a provider rejected the article), candidate telemetry, one usage
meter per provider. Operations: prefilter, triage and deep assessment in
batches, ranking under caps, selection by an editor model with a fallback,
editorial texts. Hard: batches run concurrently against one meter, are bisected
when a provider rejects them, and stop when the day's budget is spent; costs of
a run that dies are lost. Correct when each article is assessed at most once a
run, a rejection is never laid at a neighbour's door, and the day's spend stays
near its ceiling.

**Settings** (`src/config.rs`, `src/web/dashboard/settings.rs`,
`src/web/mod.rs`). State: `config.toml`, the live configuration, its cached
mtime, `config_changes`. Operations: save (read, plan, write a temporary file,
load it, rename it, record, install), add and remove a provider, reload when the
mtime moved. Hard: saves are not serialised and share the temporary file's name,
and the installation of a save can be overtaken. Correct when the file always
loads, no change is lost, and the live configuration follows the file.

**Users, sessions, access requests** (`src/web/users.rs`,
`src/web/session.rs`, `src/web/access.rs`, `src/web/dashboard/users.rs`).
State: users, session rows, account requests. Operations: sign in and out,
change a password, sign out everywhere, disable, request an account, approve
with a mailed temporary password, mark done. Hard: a request in flight holds a
session that was deleted meanwhile; approval is five steps with a mail in the
middle. Correct when a signed-out session stays so and a request becomes at most
one account.

**Feed discovery** (`src/discovery.rs`, `src/web/dashboard/feeds.rs`,
`src/miniflux.rs`). State: feed candidates, the memo of hosts looked up, the
subscriptions in Miniflux. Operations: look up hosts of aggregator-only
articles, reconcile with subscriptions, add, dismiss. Hard: decisions on the
page race with a run; subscribing and recording are two systems. Correct when a
decision is not undone and a subscription is not forgotten.

**Interests** (`src/interests.rs`, `src/web/dashboard/interests.rs`). State:
interests, their categories, match rows, name-keyed embeddings. Hard: a model is
asked about interests that change while it answers. Correct when an operator's
edit is not overwritten.

**Ratings on the web** (`src/web/rate.rs`, `src/web/dashboard/ratings.rs`,
`src/bookorbit.rs`): each vote appends one event in one statement.

**Reader profile** (`src/curate/profile/`, `src/web/dashboard/profile.rs`).
State: `profile.md`, its temporary file, `profile_versions`, and the text
learned from ratings. Operations: save, restore, a weekly rebuild under the run
lock. Hard: saves are not serialised and share the temporary file's name, and
the operator edits the file by hand. Correct when no text that is replaced is
lost.

**Ingest and deduplication** (`src/pipeline.rs`, `src/miniflux.rs`,
`src/dedupe.rs`, `src/db.rs`). State: `entries`, `articles`. Operations: page
through Miniflux's entries of a window, upsert them, cluster the window's
entries by URL and title, upsert the clusters. Hard: the list changes between
two pages, runs fail or come late, and the clusters are keyed by two things at
once. Correct when no entry falls between two runs, and one story is one
article.

**Extraction, social, comments, world** (`src/extract.rs`, `src/html.rs`,
`src/social/`, `src/comments.rs`, `src/world.rs`): network reads and text
processing beside curation; their failures are warnings.

**EPUB and images** (`src/epub/`, `src/images/`): rendering into the run's own
directory.

**Server, public pages, OPDS, statistics** (`src/server.rs`,
`src/web/issue.rs`, `src/web/public.rs`, `src/web/dashboard/`): rendered per
request from the database and the directories; they change nothing.

**Mail** (`src/mail.rs`): one SMTP call.

**Database** (`src/db.rs`, `migrations/`): SQLite with one statement or one
transaction as the unit of atomicity. That is the grain of every action here.

How they interact: the dashboard starts jobs (`start_job`) from the jobs page
and the import form; a job runs the same functions as the
plain command, under the same lock; `generate` reads what the dashboard writes
(ratings, interests, settings) and writes what the server renders.

## 2. Plan

In the order of the work: `Jobs` and `JobLifecycle` first, because every other
writer runs inside a job and under its lock; then `Publishing` and `Archive`, the
program's purpose; `Imports`, the one queue that is worked off while it is
filled; `Budget`, `Batches` and `Curation`, where a run spends money and where
its results depend on how requests interleave; then what several requests, or a
run and a request, write at the same time: `Settings`, `Profile`, `Access`,
`Sessions`, `Feeds` and `Interests`; and the stages of a run whose results depend
on order, limits and what moves meanwhile: `Ingest`, `Dedupe` and `Selection`.

What remains, in this order:

1. Abstract specifications of a batch stage (every article gets its verdict once,
   in any order) and of the archive with dates out of order, shown to be
   implemented as `Archive` and `JobLifecycle` are.
2. The learned part of the profile: what a rebuild does to the version that the
   assessments should name (section 8).
3. A second approver's view of `users`: roles and the last administrator.

## 3. Jobs

`Jobs` has three kinds of actors. A *process* (`pc`, `job`, `row`) is a unit's
main process, named by its job, or one an operator typed in a shell: `Begin` is
main's lock step (or `LockHeld`, the exit when somebody else has it),
`ClaimSelect`, `ClaimInsert` and `ClaimUpdate` are the statements of `claim`,
`RunJob` is the job, `Finish` records the outcome and `Leave` is the end of the
process, which releases the lock. A *handler* (`wpc`, `wjob`, `wrow`) is a
dashboard request: `CheckActive`, `RequestJob`, `RunnerStart`, `RunnerError`
and `StartFailed` are `start_job`, `ShowRow`, `ShowUnit` and `ShowExpire` the
job page. `Dropped` is a request that ends where it awaits: the client goes
away and axum drops the handler's future, a statement fails, or the server
stops; what it wrote stays. A *command* holds the lock without a jobs row, like
the timer's generate. `UnitStatus` is systemd's: a oneshot unit is `activating`
while its process lives, and starting it then does nothing. `Age` stands for
the 30 seconds after which the job page may fail a request. `Faults` says what
may go wrong: `kill`, `reboot`, `drop` (of a request to start a job) and
`dropPage` (of the job page), `runner` (systemctl failed) and `timeout`
(systemctl was cut off after it queued the start).

| run | instance | what it shows |
|---|---|---|
| `jobs_concurrent` | a locking and a free job, one handler, one shell, the timer, 2 rows, every fault | `TypeOK`, `OneWriter`, `LockedRowOwnedOnce` |
| `jobs_sequential` | the same jobs, one handler, no shell, the timer, 3 rows, kills, failing systemctl and dropped requests to start a job | `OneActiveRowPerUnit`, `ImplementsLifecycle`, `RequestsResolve`, `StartableAgain` |
| `jobs_duplicate` | two handlers | violation: both insert a row for one unit |
| `jobs_killed` | kills | violation: a row says running with nobody running it |

Bounds: two jobs are enough for the lock to pass between jobs and for a free job
to run beside a locking one; two or three rows let a unit be requested again
after each end. `MaxRows` is the only cap, on rows ever inserted; when the table
is full no new request is made, so a real run may stop and deadlock is not
checked.

Fairness (`FairSpec`): processes and handlers keep running (the scheduler), the
30 seconds pass, other lock holders end, and the job page of an active row is
served again and again. The last is strong fairness, because a handler can be
busy with other requests in between; the page refreshes itself while its row is
active (`JobTemplate.refresh`), so it describes an operator who leaves the page
open; a page that is dropped each time it is about to act would answer nothing,
so `dropPage` is left to the safety run. No fairness is put on starts, kills or
the operator's commands, and a handler goes on until something ends it, which may
be at any of its steps.

`ImplementsLifecycle` says among other things that a finished row keeps its
status, which `TerminalIsFinal` states for itself and `FinishedIsFinal` proves.

The two liveness properties name their exceptions. A *stranded* row was
requested while the last process of its unit was on its way out, and systemctl
accepted the start; or its request was dropped before it called systemctl.
Nothing runs, and the page never fails it, since the unit did not fail. An
*orphaned* row belongs to a process that was killed while it ran. Both block
their unit until somebody runs the job by hand; everything else resolves.

## 4. Imports

`Imports` EXTENDS `Jobs` and replaces its `RunJob` for the import job. `Queue`
is the insert of a form's URLs, which is committed before `start_job` is
called; `StartImport` and `RequestImport` are its check and its insert,
`AlreadyActive` its other answer. `RequestDropped` ends a request anywhere
after `Queue`, also between the commit and `start_job`'s insert, where the rows
are left with no job. `LoadBatch`, `FindArticle`, `ProcessFails`, `RateArticle`
and `Record` the statements of the loop, `Abort` a database error between any
two of them, `KillImport` the end of the process and `RebootImports` that of
the machine. `events` holds, for each rating event, the row it came from.
`articles` are the URLs that are known, whose lookup cannot fail for want of
the page. The embedding of an article, which is best effort and changes nothing
else, is left out, and so are the steps of the job page and of the lock, which
`Jobs` has. Where jobs are disabled the form asks the operator to run the
import by hand; that configuration is left out. `promised`, `cutOff` and
`asked` are history: the rows of requests that were told a running import would
pick them up, those of requests that were cut off, and for each row the last
job row that was inserted while it was pending.

`NothingLostSilently` says what becomes of a pending row in the end. It is
imported, or the job of the last row inserted for it visibly went wrong: that
very row is failed, its process was killed while it ran, or it was never started.
Only where no job row was inserted since the URL was queued may it stay pending
with nothing to show for it, and only for one of two reasons: it was promised to
a running import (`imports_missed` is about that), or its own request was cut
off. The next row that any request inserts is for that URL too and ends the
excuse.

| run | instance | what it shows |
|---|---|---|
| `imports` | two handlers, one unit, 3 imports of one URL, batches of 2, 3 job rows; kills, dropped requests, reboots | `ImportTypeOK`, `LaterRequestWins`, `OnlyTornRatedAgain`, `NothingLostSilently` |
| `imports_missed` | the same with 2 URLs and without faults | violation: the running import does not pick up what it was promised |

Bounds: three imports in batches of two give a full batch, a partial one and a
last empty look. With one URL every two imports are for the same one, in one
batch or across two, which is what `LaterRequestWins` compares; the theorem
`LaterWins` has any number. Three job rows allow a first job, a killed one and a
third. `Queue` waits for free job rows, so that the bound on the table never
hides a start.

Fairness (`ImportFairSpec`): a process and a request go on until something ends
them, which may be at any of their steps: nothing says that a request reaches
`start_job`'s answer. The HTTP client has a timeout, so a page is fetched or the
attempt fails.

## 5. Publishing

`Publishing` has one live run at a time, which is what `RunLockExcludes`
establishes. Files and rows name the run that wrote them, so that what belongs
to which run can be said: `std`, `x4` and `xtc` are the directories, `snapshot`,
`picks`, `report`, `number` and `xtcPath` the rows. The actions follow
`generate`: `StartRun`, `Curate` (hygiene, then any lineup the stages may
choose), `NumberIssue`, `Build` (with the converter, whose failure is a warning),
`PublishStd`, `PublishX4`, `PublishXtc`, `Prune`, `UpsertIssue`,
`ReplaceArticles`, `FinishRun`, `AttachReport`; `Fail` is an error of a stage,
`Crash` the end of the process. Dates are numbers; `Retention` and `XtcKeep` are
the two limits. `Backfill` says whether a date may be generated behind a later
one. `Archive` is the promise: the lineup of the newest date is replaced as a
whole by articles no earlier issue has.

| run | instance | what it shows |
|---|---|---|
| `pipeline` | 3 dates in order, 3 runs, one ordinary article, crashes | `NumbersFollowDates`, `RowsFollowFiles`, `LineupsNeverRepeat`, `RetentionHolds`, `ArchiveRefined` |
| `server` | 2 dates in any order, 3 runs, failures, crashes, no XTC file, files that cannot be removed | `TypeOK` (as a part of `ServerTypeOK`), `OkMeansPublished` |
| `publishing_repeat` | crashes | violation: two published editions share an ordinary article |

Bounds: with a retention of one day and one XTC file, the third date sweeps
both directories; three runs allow a broken run, its repetition and the next
issue. Articles matter only to the properties about repeats: `server` has none,
and an auto-included one stands in `publishing_repeat` beside the ordinary one
(the theorem `NoRepeats` is for any of both kinds). `server` needs no third
date: an older and a newer issue, in either order, are all that a result is
about. `Done` is the stutter when all runs have been made.

`pipeline` and `server` check other parts as well (sections 6, 7 and 8). The
parts that `MCPipeline` and `MCServer` put together share no variable, so nothing
is lost by letting one of them act in a behaviour (`acting`) while the others
stay as they start: the states of the parts add up and do not multiply, and the
behaviours of each part are all there. The variables the code does share between
parts (the run lock, the published articles) are inside one module each.

## 6. Curation

`Budget` has the meter of one provider: `prior` is what earlier runs of the UTC
day recorded, `cost` what this run spent, `tripped` the flag that stays. Money
is whole units; `check_budget` trips at the limit (`Over`, `Checked`), `record`
above it (`Recorded`), as in the code.

`Batches` is `run_batches`. Its batches run in one task (`buffer_unordered`), so
a step goes from one answer to the next request of the same batch, and others
move only in between; `Resume` is the head of the loop of `run_one`, with its
budget check, and every answer ends in it. `waiting` holds the stacks of all
batches (a piece of work knows the batch it came from), `calls` the requests in
flight. The answers are `AnswerItems`, `AnswerNoItems` (halved once, then left),
`AnswerRejected` (halved, down to single articles), `AnswerTransient` (left) and
`AnswerEditor`; `ResolveSingle` decides whether a single article is tried on the
editor's provider. Articles are numbered in candidate order, and an item is
represented by the article it names: a reply is any set of articles, also of
other batches, and `Attributed` is the code's filter. `poison` is the set of
articles that the bulk provider's content filter refuses; it does not change
during a run. Any other failure is a fault: `transient` (the retries of a call
ran out, which belong to the answer), `api` (a permanent error that has nothing
to do with the articles) and `short` (an answer that misses some of them).

`Curation` puts the stages of the runs of a day on it. `StartRun` preloads the
meters, or starts from zero when the earlier costs cannot be read (`blind`);
`AfterRebuild` is the one call the weekly rebuild of the taste profile may make
on the meter of `EditorOrBulk`; then it launches triage over the part of the
pool without a fresh row; `AskProviders` is a step of the runner; `WriteRow` is
one upsert, items before rejections; `EndStage` ends the stage, also when a
write failed and the rest is dropped; `Admit` launches deep assessment over at
most `deep_keep` articles; `Edit`, `EditAnswered` and `EditFailed` are the
calls of selection, summaries, brief and world briefing, with their fallback to
bulk. `Finish` records the costs. `Fail` and `Crash` lose them: `unrecorded`
remembers that, for the properties alone. `rows` has only fresh rows: a stale
row, one with another prompt version and no row are the same to the code.
`TimePasses` is a new UTC day, with or without `assessment_reuse_days` gone by.
The pool cap, the prefilter, admission's quotas and the ranking are a choice of
articles.

| run | instance | what it shows |
|---|---|---|
| `pipeline` | any part of 4 articles, batches of 3, two requests in flight, a ceiling of 3 with any part spent, 2 faults of any kind | `BatchesTypeOK` (in `PipelineTypeOK`), `OneVerdict`, `OnlyPoisonRejected`, `NothingLost`, `StageEnds` |
| `curation` | two runs, 2 articles in batches of one, two requests in flight, a ceiling of 2, one fault a stage, one editor call a run | `CurationTypeOK`, `DayCeiling`, `RowsKept` |
| `curation_spend` | the same | violation: a run does not inherit what an earlier one spent |

Bounds: four articles in batches of three give a full batch that is halved
unevenly and twice, beside a batch of one that is asked about at the same time;
two faults let a batch be split for two reasons. A ceiling of 3 can be reached
before, between and after the halves. `curation` leaves halving to `pipeline` and
needs two articles so that two calls are in flight when a meter trips, and two
runs so that the second meets the rows and the costs of the first.
`MaxFaults`, `MaxEdits` and `MaxRuns` are the caps. A stage ends and nothing
follows it in `pipeline`, so deadlock is not checked there.

Assumptions: the bulk provider is configured and both providers have the same
`max_concurrent_requests` and the same ceiling; auto-included articles beyond
`deep_keep` are not exercised, since only the size of the deep set differs.

Fairness (in `PipelineSpec`, as in `BatchesFairSpec`): the task keeps running,
and the HTTP client has a timeout, so every request is answered or fails. The
safety run needs none.

`DayCeiling` says how far the day's spend may pass the ceiling: by what is in
flight when the ceiling is reached, which is less than `MaxInFlight` calls
more, over all runs of the day together. It names its two exceptions, a run
that lost its costs and a run that could not read those before it. It is about the
costs the meters see: a refused or empty completion is an error before its usage
is recorded (`src/curate/llm.rs:343`, `src/curate/llm.rs:479`), though a provider
may bill it, and the interests are filed on a meter of their own.

## 7. The stages before and after curation

`Ingest` has the run's side and Miniflux's. Time is in hours and an entry is
named by the hour it was published in. `StartIngest` computes the window of an
issue, today's or an older one; `FetchPage` is one request of `entries_since`,
with its three reasons to stop (`LastPage`); `StoreEntries` drops what is newer
than the window and upserts the rest in one transaction; `IngestFails` is any
error or the end of the process. `Tick`, `Find` and `Remove` are the clock, an
entry Miniflux comes to know (also one published long before) and one it
removes, at any moment, between two pages too. `there`, `shifts`, `tardy` and
`covered` are history. `FetchComplete` says that entries found meanwhile push
others onto the next page but hide none, and that at most one is missed for each
one removed. `NothingFallsBetween` says that an entry within an unbroken row of
runs (`covered`: each ends less than the lookback, minus the time Miniflux takes,
after the one before) is stored, whatever runs failed, came late or were for an
older day in between.

`Dedupe` clusters the entries one by one (`ClusterEntry`, with `Place`: the
cluster of the URL, else of the title, else a new one) and stores each cluster
(`PersistArticle`) under the URL of its richest entry, which `articles` keeps
unique. Any URL of the cluster may be that of the richest. Normalized URLs and
titles are given. The next window starts with no clusters and the articles of
the last.

`Selection` is the path of a candidate: `PoolCap`, `AdmitUnion`, `Shortlist` and
the editor, or the fallback without a model. Candidates are numbered by utility;
what other signals retrieve is a choice within the code's limits. `FillUnder` is
`admit_under_cap`, a fold over the candidates in order, and `Shortlist` uses it
three times as the code does.

`Interests` is what changes under a model's hands: `AddInterest`, `SetCategory`
and `DeleteInterest` on the dashboard; `ListInterests`, `EmbedInterests`,
`WriteMatches` in a run or a backfill; `ListUncategorized`, `FileAnswer` in a
categorizer; `ImportName`, `ImportTheme` in the import. All work by ids they read
before. The category a model gives a name is told by the name, so that a wrong
one shows.

`pipeline` checks all of them with publishing and the batches:

| part | instance | what it shows |
|---|---|---|
| ingest | 4 hours in days of 2, a lookback of 3, pages of one entry, one removal | `FetchComplete`, `NothingFallsBetween` |
| dedupe | 3 entries a window of 3 URLs and 2 titles or none, over several windows | `ArticlesKeptApart` |
| interests | 2 names, 2 ids ever drawn, one categorizer beside a run and the import | `WorkStaysWithItsName` |
| selection | up to 6 eligible candidates, `triage_max` 5, `deep_keep` 5, one exploration slot, a shortlist of 4 with a cap of 1 a cluster and one protected, a target of 1 and a ceiling of 2 | `AutoIncludedPublished`, `ShortlistDiverse` |

Bounds: a removal can fall between two of up to four pages, and two days let a
late run and an older issue follow one another. Three entries are the least
that link two URLs by a title and meet one of them again. Two ids let an
interest be deleted and added again while a model answers for the old one. Six
candidates exceed every limit of the four stages by at least one, and the cap
can be hit by protected, auto-included and exploration picks.

`PipelineTypeOK` has the types of all parts but publishing, whose types are part
of `server`.

## 8. What the server writes

`Settings` has inodes, because a file that is written and a file that gets a
name are different things here: `file` is named `config.toml`, `tmp` is
`config.toml.tmp.<pid>`, the same for all requests. A reload is `ReadStamp`,
`KeepLive` or `Load`, `Swap`, `Cache`, with the lock that holds across the last
two; a save is a reload, then `Plan` (the document on file with the posted
values, checked against the live configuration), `Open`, `Write`, `Check`,
`Rename`, `Record`, `Install`, `InstallStamp`, `InstallStore`. `Edit` is an
editor's write, well-formed or not; `ServerStops` and `ServerStarts` may come at
any step. A document is what decides whether it loads: whether it parses, which
provider a role names, and whether that provider is declared.
`LiveFollowsFile` is about the one thing that can go wrong for good: a remembered
time that equals the file's, so that no reload comes, beside a configuration that
is not the file's. Its exception (`overtaken`) is an installation that another
write or reload fell into.

`Profile` is built like it for `profile.md`: `ReadPrevious`, `RecordVersion`,
`OpenFile`, `WriteFile`, `RenameFile` are the steps of `replace_profile` and
`write_atomically`, `RenameFails` and `Stops` their errors. `crossed` remembers
that another request or the operator's editor changed a file after a request
read the text it replaces.

`Access` has the public form (`Submit`, `Claim`, `Store`) and the operator's page
(`Approve`, `AddAccount`, `SendMail` or `MailFails` and `UndoAccount`,
`FinishRequest`; `MarkDone`); `AddByHand` is the command line. `ApprovalDropped`
and `FormDropped` end one request where it awaits, while the others and the
server go on: its client disconnects, which is easy in the seconds a mail takes,
a statement fails, or the server stops, which ends each of them. A mail is sent,
refused, sent and reported as failed, or out or not when its approval is dropped.
`cutOff` has the accounts whose approval ended between their insert and the end
of its mail or its undo. `NoSilentAccount` excuses those and no others.

`Sessions` is one user's: each password is a version, a request carries the
session it loaded and saves it at its end, and the store's save is an upsert.
`Passwd`, `SetDisabled`, `SetEnabled` and `LogOutUser` are the commands, each with
the deletion of sessions as a step of its own. `VisitDropped` ends a request at
any step, without the save, and `CommandDies` a command between its two
statements.

`Feeds` has one discovery stage at a time (it runs under the run lock) with its
statements one by one, failing at any of them (`StageStops`), against the requests
to add and dismiss, against Miniflux's own pages (`Resubscribe`) and the passing
of `RECHECK_DAYS` (`Expire`). `ClickDropped` is an add request that ends with the
feed subscribed and its candidate not yet decided.

`server` checks them with publishing, and whether anything in them can get
stuck (deadlock is checked):

| part | instance | what it shows |
|---|---|---|
| settings | one save and one reload at a time, editors, restarts, a full disk; 2 inodes, 5 times | `FileStaysLoadable`, `LiveFollowsFile` |
| profile | 2 requests, 2 texts, 3 inodes, edits by hand, restarts | `ReplacedIsKept` |
| access | one submission, 2 approvals, 2 rows, 2 addresses, 2 names, every mail fault, requests dropped anywhere | `MailedAccountsStay`, `NoSilentAccount` |
| sessions | 2 requests, 2 sessions, 3 passwords | `PasswordRevokes` |
| feeds | 2 feeds, 2 hosts (one feed has both), one look-up a run, one feed a host, one add request | `NoSubscribedCandidate`, `CheckedMeansStored` |

Bounds: numbers of inodes and times are names that are used again when nothing
refers to them, so they bound what exists at once and not how often something is
written; the instances have as many as the requests can hold (the lock, the
remembered time, the file and each request one). The settings are checked with
one save at a time, because two of them share the temporary file; what that does
is the run `settings_rejected`, with two saves and no other request: a violation.
Two approvals are enough for one to undo what another has mailed; two sessions
and three passwords let one survive a change and the next. `MaxAsked` and
`MaxVersion` cap what grows.

## 9. Proofs

All proofs hold for every value of the constants under the assumptions the
modules name (`JobsAssumption`, `ImportsAssumption`, `PublishingAssumption`,
`LimitAssumption`, `BatchesAssumption`, `CurationAssumption`,
`SettingsAssumption`, `AccessAssumption`, `SessionsAssumption`,
`FeedsAssumption`, `InterestsAssumption`, `DedupeAssumption`,
`ProfileAssumption`, `IngestAssumption`, `SelectionAssumption`), except where a
theorem says more with ASSUME. Every invariant the passing runs check, and every
action property and refinement, is stated by a theorem; `PROJECT.json` lists
which. The types of `PipelineTypeOK` and `ServerTypeOK` are proved for the
specifications of those runs, the other properties for the specification of the
component they are about, whose behaviours these contain.

- `JobsProofs`: `TypeCorrect`; then `OwnerInv`, which adds to the types that
  whoever works on a locking job holds the lock (`LockHolder`) and that a
  process's row is of its own job and not free (`RowOfOwnJob`). `OneWriter` is
  not inductive: it needs to know that it is the lock that keeps the others out.
  From `OwnerInv` follow `RunLockExcludes` and, though `claim` is not atomic,
  `LockedRowHasOneOwner`. With one request at a time, no shell and no timed-out
  systemctl (`OneAtATime`), `SeqInv` ties the three actors together: a living
  process has an active row, and a handler between its check and its start knows
  that its unit is quiet. Without it the step of a handler that acts on what it
  read earlier could not be shown to keep the lifecycle. It gives `OneActiveRow`,
  `LifecycleRefined` (every step is a step of `JobLifecycle` or a stutter) and
  `FinishedIsFinal`. `jobs_duplicate` is why the assumption is there.
- `ImportsProofs`: with the unit alone (`Shell = {}`, since `import-ratings`
  takes no lock) `LoopInv` says that only the unit's process ever has a batch,
  that it loads one with empty hands, and that the rows of its batch are still
  pending; `OneRatingPerImport` follows for each step that appends an event,
  since no other process can be about to record the row. `OrderInv` adds that
  what comes before a row in a batch, or one that was ever rated, is done or in
  the same batch: batches are loaded from the front, and the loop rates the
  first of what is left. So the history of events has the rows in order, however
  often a run was killed and its last row rated again, which is `LaterWins`.
  `ImportTypeCorrect` needs no such assumption.
- `PublishingProofs`: `TypeCorrect`; `FilesInv` orders the run numbers on files
  and rows by the stage the live run has reached, and gives
  `RowsFollowFilesAlways` for any order of dates and any faults; `InOrder`, when
  dates come in order, adds that no run was for a later date than the newest one
  and that the live run's lineup is still eligible when it is recorded, and gives
  `ArchiveIsRefined`, `NoRepeats` and `NumbersAreDays`. `Standing` ties the
  outcome of a run to the stage the live run is at. With it `Swept` says that a
  run past its sweep has both directories within their limits, and that nothing
  puts a file back before the next run publishes one (`RetentionHoldsAlways`;
  `SurplusIsRemoved` counts what the sweep leaves). `Publishes` says what the
  live run has in place at each stage and `OkRuns` what every ok run keeps; the
  hard step is the sweep of another run, which may take a file only for a reason
  `OkMeansPublished` allows (`OkMeansPublishedAlways`). `LastButDry` is there
  because the last word on a date is known only when the live run is over: a dry
  run of the same date must change nothing meanwhile.
- `BatchesProofs`: halving splits a set in two disjoint parts that together are
  the whole (`HalvesSplit`), and so do the chunks (`ChunksSplit`). `OneVerdict`
  is inductive with these: each answer takes one request's articles and gives
  them to one place. `OnlyPoisonRejectedHolds` needs `BlameInv`, that a request
  on the editor's provider without such a fault is about a refused article; it
  rests on the step from "the batch contains a refused article" to "the single
  article is the refused one", which only holds for batches of one.
  `NothingLostHolds` needs `LossInv`: without faults and within budget every
  pending article is on a stack, in a request or has its verdict.
  `BatchesTypeCorrect` includes that no more requests are in flight than
  allowed, which counts requests and so needs them to be finitely many.
- `CurationProofs`: `RowsInv` says that while a stage runs, the articles whose
  verdict is not written have no fresh row; together with `OneVerdict` this gives
  `RowsKeptHolds` over any number of runs, crashes and dropped writes.
  `StageInv` carries the runner's invariants through the stages of a day
  (`EveryStageKeepsPromises`): a stage, a new run and a crash drop everything the
  one before had open. `CurationInv` has the types, and that a live run's meters
  start from what the day has recorded unless that could not be read
  (`CurationTypeCorrect`). `DayCeilingHolds` bounds what was spent together with
  what the requests in flight may still cost: a request is made below the ceiling
  only, so the sum is at most the ceiling and a full set of requests, and an
  answer turns what it could cost into what it did; the profile's call is made
  below the ceiling and with nothing in flight. This is why `CurationAssumption`
  asks for a most a completion can cost. The code sends `max_tokens` to the
  editor's provider only (`src/curate/llm.rs:451`); that a completion of the bulk
  provider has a most is an assumption about the provider.
- `StagesProofs` has a section a component. `Reading`: whoever read names by id
  has, for an id that still exists, its name, because ids are never drawn again.
  `Partitioned`: clusters share no URL. `Fetching`: of the entries that were
  listed all along, no more are missed among the newest `offset` than were
  removed so far. Finding an entry pushes the others back, so a page shows some
  again and hides none; a removal lets one of them slip in front of the next
  page. When a page comes back short, the newest `offset` are all there are
  (`FetchMissesOnlyRemoved`), and a store of a fetch in which nothing was removed
  leaves no gap (`NoEntryFallsBetween`). `SelectInv`: what is forced on the
  shortlist never loses its place. `FillUnder` is a recursion over the candidates in
  order of their score; `FillTurns` gives it turn by turn and `Filled` says what
  it comes to: it leaves a candidate off a list with room only if its cluster is
  at the cap, and stays there (`ShortlistsAreDiverse`). `AutoIncludedStay` is
  about the two cuts behind it. `PipelineTypes` puts the parts together.
- `ServerProofs`, likewise. Settings, with one save at a time
  (`Saver = {one}`) and any number of reloads, edits, inodes and times:
  `SettingsTypeOK` says who holds the lock; `OnDisk` says what a save's place
  tells of the temporary file and of the document it carries, and gives
  `SaveKeepsFileLoadable`; `InMemory` says that where the remembered time, or one
  that a request has read and is about to remember, is the file's, the
  configuration beside it is the file's too, and gives
  `LiveConfigurationFollows`. `Approvals`: an approval that is about to mail or
  undo an account is the only one with that account, which is not reported yet,
  since only a name that is free is added; a dropped one leaves its account in `cutOff`,
  and nobody else touches that account (`NoneSilent`). `Tickets`: what a request carries was
  signed in with the version it carries. `Clicks`, `Reconciled` and `RowsFirst`:
  an add request has a stored row, a reconciled stage has no covered candidate
  and none on its queue, and what is to be memoized is stored and linked first.
  `Kept`: a request that nobody crossed knows what each of the two files of the
  profile says. `ServerTypes` puts the parts together.
- `FiniteOrders`: the library's induction theorems take an operator as a
  parameter, which the installed provers cannot instantiate. Strict inclusion of
  the subsets of a finite set is well-founded, and that takes none: it gives the
  smallest and the largest of a bounded set of numbers (`Smallest`, `Largest`),
  induction up to a bound (`Upwards`), the values of a recursive function up to a
  bound (`Recursion`), and what the first k of an ordered set have in them
  (`RankOrders`, `FirstOnes`). The sweep by count, the pages and the selection
  rest on it.

Only model-checked: the liveness properties (`RequestsResolve`,
`StartableAgain`, `NothingLostSilently`, `StageEnds`). They depend on fairness,
whose meaning is ENABLED, and are out of the prover's reach. The six violations
are found by TLC and need no proof.

## 10. What the code does otherwise

Six runs show a difference between the code and what its comments, pages or
documents say; `PROJECT.json` quotes them: two requests can start one unit twice
(`jobs_duplicate`), a killed job's row says running for ever (`jobs_killed`), an
import can miss rows it was said to pick up (`imports_missed`), a crash
between publishing and recording lets the next issue repeat articles
(`publishing_repeat`), a run that fails before stage 11 leaves its costs out
of what the next run of the day counts (`curation_spend`), and a save that is
answered as rejected may have written `config.toml`, since two saves share one
temporary file (`settings_rejected`).

Others were met on the way, without a run.

Jobs and imports:

- With `timeout`, a row that start_job marked failed can still be claimed and
  set running again.
- `import-ratings` takes no lock; a shell and the unit can rate a row twice.
- A request that is cut off between the commit of its imports and `start_job`
  leaves them pending with no job, until the next request
  (`src/web/dashboard/ratings.rs:694`).
- The table `rating_imports` does not know the verdict `slop` that the form
  offers (`migrations/0006_rating_imports.sql:4`).

Runs and issues:

- A regeneration whose conversion fails keeps the older XTC file and, by
  `COALESCE`, the path to it, next to new EPUBs (`src/publish.rs:217`).
- An issue for a date before the first one gets a number of 0 or less, and later
  issues keep theirs (`src/db.rs:489`). Articles of later issues are not excluded
  when an older date is generated (`src/db.rs:402`).
- A run that fails after it published its editions is `failed`, which
  `src/report.rs:27` explains as "No issue was produced."
- Between two ok runs the XTC directory may exceed its cap: files that crashed
  runs left are counted by the next sweep only (`src/publish.rs:222`).
- The ingest watermark is written (`src/pipeline.rs:399`) and read by nothing.
  Entries Miniflux finds later than the windows overlap, or in a gap of more than
  `lookback_hours`, are never considered; a fetch stops silently at `MAX_PAGES`.
- Deduplication may choose another entry as the richest from one run to the
  next, so that one story gets a second article id, which hygiene does not know
  (`src/db.rs:296`).

Curation:

- A permanent error of the bulk provider (an invalid key, an empty account) is
  taken for a rejection like any other: a whole batch is halved down, and every
  article of it is recorded as `provider_rejected` (`src/curate/batch.rs:182`).
  This is why `OnlyPoisonRejected` has its premise.
- `Rejection` says that both providers refused the article
  (`src/curate/batch.rs:68`); a timeout or a spent budget of the second is
  enough.
- `profile_version` is NULL in every assessment: `src/pipeline.rs:523` parses
  `kv[profile_version]` as an integer, and `store_version`
  (`src/curate/profile/mod.rs:200`) writes JSON.
- A weekly rewrite of the profile whose model call fails still counts as a
  rebuild: version and build time move on (`src/curate/profile/mod.rs:366`).
- `categorize` gives a model the interests without a category and then writes by
  id: a category the operator set meanwhile is overwritten
  (`src/interests.rs:387`). What the call costs is on a meter of its own that no
  run counts (`src/interests.rs:333`).

The server:

- An approval that is dropped while its mail is sent, as when the operator closes
  the page, leaves an account whose password nobody may have, and a request that
  is still open; approving it again says the name is taken
  (`src/web/dashboard/users.rs:163`).
- Two saves that read `config.toml` before either renames over it lose the first
  one's change, and a form that was opened before a provider was removed brings
  its table back (`src/web/dashboard/settings.rs:1130`).
- Of two saves of `profile.md` at a time, the text of one may be in no version,
  and for a moment the file may be empty (`src/web/dashboard/profile.rs:67`).
- A sign-out is undone by the save of a request in flight
  (`src/web/session.rs:89`); only a password change is final, which is what
  `PasswordRevokes` says. A password change verifies the old password against the
  hash the request loaded and then updates whatever is there
  (`src/web/session.rs:456`).
- Two submissions at a time can claim one user name, and two approvals of one
  request under different names make two accounts
  (`src/web/dashboard/users.rs:132`).
- A dismissal and a reconciliation of one candidate overwrite one another
  (`src/discovery.rs:331`, `src/web/dashboard/feeds.rs:256`).

## 11. What is not modelled

- Ratings on the web: each vote is one insert, and the current verdict is the
  newest event of an article. The import form is in `Imports`.
- The learned part of the profile is rebuilt under the run lock, one statement
  after the other, by one process. What its call costs is in `Curation`.
- Extraction, social references, comments and the world briefing: network reads
  whose failure is a warning, with caches that only save requests.
- EPUB, covers and images: rendering into the run's own directory.
- Public pages, OPDS, statistics, the link to BookOrbit: they read. (The refresh
  of a BookOrbit link clears its two ids before it looks them up,
  `src/web/issue.rs:1274`; a failed look-up leaves none.)
- Scoring, ranking arithmetic, prompts, templates and the validation of single
  settings are functions over text and floating-point numbers; where a module
  needs their result it is a choice within the limits the code states.
- Of users: roles, the sign-in limiter, and the end of a session by time. Of
  settings, a save reads the
  file and the live configuration in one step; entries published in the same
  second are taken to have a fixed order.

SQLite, systemd, the file system, the mail server and Miniflux are taken as they
document themselves: a committed statement stays, a rename is atomic, the kernel
releases a dead process's lock.

More than half of the lines under `src/` are tests, rendering, prompts and text
processing, which these modules leave out on purpose: a model of them would
restate them. What the modules cover is the share whose correctness depends on
the order of steps.
