------------------------------- MODULE Settings -------------------------------
(***************************************************************************)
(* The settings of the dashboard: config.toml, the live configuration of   *)
(* the server, the modification time it remembers, and the requests that   *)
(* read and write them.  Handlers run on several threads, so any two of    *)
(* them interleave at every file operation and every lock.                 *)
(*                                                                         *)
(* A file is an inode, since renaming and writing are told apart: `file`   *)
(* is the one named config.toml, `tmp` the one named                       *)
(* config.toml.tmp.<pid>, a name all requests of the server share.         *)
(***************************************************************************)
EXTENDS Naturals, FiniteSets

CONSTANTS
  Saver,    \* requests that save settings, add or remove a provider
  Reader,   \* requests that only reload: the settings page, job starts
  Inode,    \* numbers of the files that can exist at one time
  Stamp,    \* modification times that can be remembered at one time
  DiskFails \* whether writing the temporary file may fail

ASSUME SettingsAssumption ==
  /\ Saver \cap Reader = {} /\ 0 \notin Saver \cup Reader
  /\ Inode \subseteq Nat \ {0} /\ Inode # {}
  /\ Stamp \subseteq Nat \ {0} /\ Stamp # {}
  /\ DiskFails \in BOOLEAN

Absent == 0    \* no such name; no modification time yet
Nobody == 0

\* What a file says, as far as loading it goes: a provider `p` beside the
\* built-in `own` one, and the provider the role llm.bulk names.
Empty == [parses |-> TRUE, bulk |-> "own", declared |-> FALSE]   \* all defaults
Garbled == [Empty EXCEPT !.parses = FALSE]
Doc == [parses : {TRUE}, bulk : {"own", "p"}, declared : BOOLEAN] \cup {Garbled}

\* Config::load accepts it: it parses, and every role names a provider.
Loads(c) == c.parses /\ (c.bulk = "p" => c.declared)

VARIABLES
  file, tmp,      \* the inodes with these names
  data,           \* the contents of the inodes
  mtime,          \* the modification time of config.toml
  up,             \* the server runs
  live,           \* its configuration
  cached,         \* the modification time it remembers
  holder,         \* who holds the lock around `cached`, across a reload
  at,             \* at[r]: where request r is
  doc,            \* doc[r]: the configuration r carries
  seen,           \* seen[r]: the modification time r read
  handle,         \* handle[s]: the temporary file s opened
  overtaken       \* another write or reload fell into an installation (history)

diskVars == <<file, tmp, data, mtime>>
liveVars == <<live, cached, holder>>
settingsVars == <<diskVars, up, liveVars, at, doc, seen, handle, overtaken>>

Request == Saver \cup Reader

SettingsInit ==
  /\ \E f \in Inode : (\A g \in Inode : f <= g) /\ file = f
  /\ \E t \in Stamp : (\A u \in Stamp : t <= u) /\ mtime = t
  /\ tmp = Absent /\ data = [g \in Inode |-> Empty]
  /\ up = TRUE /\ live = Empty /\ cached = Absent /\ holder = Nobody
  /\ at = [r \in Request |-> "idle"]
  /\ doc = [r \in Request |-> Empty]
  /\ seen = [r \in Request |-> Absent]
  /\ handle = [s \in Saver |-> Absent]
  /\ overtaken = FALSE

\* A new file takes an inode, and every write a time, that nothing refers to.
FreshInode(f) ==
  LET unused == Inode \ ({file, tmp} \cup {handle[s] : s \in Saver})
  IN f \in unused /\ \A g \in unused : f <= g
NewTime ==
  LET unused == Stamp \ ({cached, mtime} \cup {seen[r] : r \in Request})
  IN \E t \in unused : (\A u \in unused : t <= u) /\ mtime' = t

\* What a file says that has lost its name is forgotten.
Unlink(f) == data' = [g \in Inode |-> IF g = f THEN Empty ELSE data[g]]

Goes(r, place) == at' = [at EXCEPT ![r] = place]
Forgets(r) == /\ doc' = [doc EXCEPT ![r] = Empty]
              /\ seen' = [seen EXCEPT ![r] = Absent]
Ends(r) == Goes(r, "idle") /\ Forgets(r)

Installing(s) == at[s] \in {"record", "install", "stamp"}

-----------------------------------------------------------------------------
(* WebState::reload_if_changed.                                            *)

\* Where a request goes on after its reload, whatever came of it.
Continue(r) == IF r \in Saver THEN Goes(r, "plan") /\ Forgets(r) ELSE Ends(r)

\* The modification time is read first, outside the lock.
ReadStamp(r) ==
  /\ up /\ at[r] = "idle"
  /\ seen' = [seen EXCEPT ![r] = mtime]
  /\ Goes(r, "lock")
  /\ UNCHANGED <<diskVars, up, liveVars, doc, handle, overtaken>>

\* Nothing changed, or the file does not load: the configuration stays.
KeepLive(r) ==
  /\ at[r] = "lock" /\ holder = Nobody
  /\ cached = seen[r] \/ ~Loads(data[file])
  /\ Continue(r)
  /\ UNCHANGED <<diskVars, up, liveVars, handle, overtaken>>

Load(r) ==
  /\ at[r] = "lock" /\ holder = Nobody
  /\ cached # seen[r] /\ Loads(data[file])
  /\ holder' = r
  /\ doc' = [doc EXCEPT ![r] = data[file]]
  /\ Goes(r, "swap")
  /\ UNCHANGED <<diskVars, up, live, cached, seen, handle, overtaken>>

\* Faulty variant: the lock is given up before the time is remembered.
SwapUnlocked(r) ==
  /\ at[r] = "swap"
  /\ live' = doc[r] /\ holder' = Nobody
  /\ overtaken' = (overtaken \/ \E s \in Saver : at[s] \in {"stamp", "store"})
  /\ Goes(r, "cache")
  /\ UNCHANGED <<diskVars, up, cached, doc, seen, handle>>

Swap(r) ==
  /\ at[r] = "swap"
  /\ live' = doc[r]
  /\ overtaken' = (overtaken \/ \E s \in Saver : at[s] \in {"stamp", "store"})
  /\ Goes(r, "cache")
  /\ UNCHANGED <<diskVars, up, cached, holder, doc, seen, handle>>

\* Faulty variant: the time is read again after the file.
CacheNow(r) ==
  /\ at[r] = "cache"
  /\ cached' = mtime /\ holder' = Nobody
  /\ Continue(r)
  /\ UNCHANGED <<diskVars, up, live, handle, overtaken>>

Cache(r) ==
  /\ at[r] = "cache"
  /\ cached' = seen[r] /\ holder' = Nobody
  /\ Continue(r)
  /\ UNCHANGED <<diskVars, up, live, handle, overtaken>>

Reload(r) == ReadStamp(r) \/ KeepLive(r) \/ Load(r) \/ Swap(r) \/ Cache(r)

-----------------------------------------------------------------------------
(* save_settings, add_provider, remove_provider; write_validated; install. *)

\* A form posts every field the live configuration has; those of `p` bring
\* back its table if the file has lost it meanwhile.
Posted == {f \in [bulk : {"own", "p"}, declared : BOOLEAN] : f.bulk = "p" \/ f.declared => live.declared}

PostForm(c) == {[c EXCEPT !.bulk = f.bulk, !.declared = @ \/ f.declared] : f \in Posted}

AddProvider(c) == {[c EXCEPT !.declared = TRUE] : x \in {y \in {c} : ~live.declared /\ ~y.declared}}

RemoveProvider(c) == {[c EXCEPT !.declared = FALSE] : x \in {y \in {c} : live.bulk # "p" /\ y.declared}}

Changes(c) ==
  IF c.parses THEN (PostForm(c) \cup AddProvider(c) \cup RemoveProvider(c)) \ {c} ELSE {}

\* The request is refused as it stands, or changes nothing.
Refuse(s) ==
  /\ at[s] = "plan" /\ Ends(s)
  /\ UNCHANGED <<diskVars, up, liveVars, handle, overtaken>>

\* The document and the live configuration are read here, and both may be out
\* of date when the document is written.
Plan(s) ==
  /\ at[s] = "plan"
  /\ \E c \in Changes(data[file]) : doc' = [doc EXCEPT ![s] = c]
  /\ Goes(s, "open")
  /\ UNCHANGED <<diskVars, up, liveVars, seen, handle, overtaken>>

\* fs::write creates the temporary file, or empties the one that is there.
Open(s) ==
  /\ at[s] = "open"
  /\ \E f \in Inode :
       /\ IF tmp = Absent THEN FreshInode(f) ELSE f = tmp
       /\ tmp' = f
       /\ handle' = [handle EXCEPT ![s] = f]
       /\ data' = [data EXCEPT ![f] = Empty]
  /\ Goes(s, "write")
  /\ UNCHANGED <<file, mtime, up, liveVars, doc, seen, overtaken>>

\* The temporary file may be config.toml by now, if another save renamed it.
Write(s) ==
  /\ at[s] = "write"
  /\ data' = [data EXCEPT ![handle[s]] = doc[s]]
  /\ IF handle[s] = file THEN NewTime ELSE UNCHANGED mtime
  /\ Goes(s, "check") /\ Forgets(s)
  /\ UNCHANGED <<file, tmp, up, liveVars, handle, overtaken>>

\* Config::load of the temporary file fails, or the write did, or the rename
\* finds no such name: clean up, and answer that the save was rejected.
Reject(s) ==
  /\ \/ at[s] = "write" /\ DiskFails
     \/ at[s] = "check" /\ (tmp # Absent => ~Loads(data[tmp]))
     \/ at[s] = "rename" /\ tmp = Absent
  /\ tmp' = Absent /\ Unlink(tmp)
  /\ Goes(s, "rejected")
  /\ UNCHANGED <<file, mtime, up, liveVars, doc, seen, handle, overtaken>>

\* Faulty variant: the file only has to parse.
CheckParses(s) ==
  /\ at[s] = "check" /\ tmp # Absent /\ data[tmp].parses
  /\ doc' = [doc EXCEPT ![s] = data[tmp]]
  /\ Goes(s, "rename")
  /\ UNCHANGED <<diskVars, up, liveVars, seen, handle, overtaken>>

\* The configuration that will be installed is the one loaded here.
Check(s) ==
  /\ at[s] = "check" /\ tmp # Absent /\ Loads(data[tmp])
  /\ doc' = [doc EXCEPT ![s] = data[tmp]]
  /\ Goes(s, "rename")
  /\ UNCHANGED <<diskVars, up, liveVars, seen, handle, overtaken>>

Rename(s) ==
  /\ at[s] = "rename" /\ tmp # Absent
  /\ file' = tmp /\ tmp' = Absent /\ Unlink(file) /\ NewTime
  /\ overtaken' = (\E t \in Saver : Installing(t))
  /\ handle' = [handle EXCEPT ![s] = Absent]
  /\ Goes(s, "record")
  /\ UNCHANGED <<up, liveVars, doc, seen>>

\* record_changes, the only place a save awaits: its rows are written, or the
\* request ends here, by an error or because its client went away, the file
\* changed and nothing installed.
Record(s) ==
  /\ at[s] = "record" /\ Goes(s, "install")
  /\ UNCHANGED <<diskVars, up, liveVars, doc, seen, handle, overtaken>>

RecordFails(s) ==
  /\ at[s] = "record" /\ Ends(s)
  /\ UNCHANGED <<diskVars, up, liveVars, handle, overtaken>>

Install(s) ==
  /\ at[s] = "install"
  /\ live' = doc[s]
  /\ Goes(s, "stamp") /\ Forgets(s)
  /\ UNCHANGED <<diskVars, up, cached, holder, handle, overtaken>>

InstallStamp(s) ==
  /\ at[s] = "stamp"
  /\ seen' = [seen EXCEPT ![s] = mtime]
  /\ Goes(s, "store")
  /\ UNCHANGED <<diskVars, up, liveVars, doc, handle, overtaken>>

InstallStore(s) ==
  /\ at[s] = "store" /\ holder = Nobody
  /\ cached' = seen[s]
  /\ Goes(s, "saved")
  /\ UNCHANGED <<diskVars, up, live, holder, doc, seen, handle, overtaken>>

Answer(s) ==
  /\ at[s] \in {"saved", "rejected"} /\ Ends(s)
  /\ handle' = [handle EXCEPT ![s] = Absent]
  /\ UNCHANGED <<diskVars, up, liveVars, overtaken>>

Save(s) ==
  \/ Refuse(s) \/ Plan(s) \/ Open(s) \/ Write(s) \/ Reject(s) \/ Check(s) \/ Rename(s)
  \/ Record(s) \/ RecordFails(s) \/ Install(s) \/ InstallStamp(s) \/ InstallStore(s) \/ Answer(s)

-----------------------------------------------------------------------------
\* An editor writes config.toml, well or badly.
Edit ==
  /\ (\E c \in Doc : data' = [data EXCEPT ![file] = c]) /\ NewTime
  /\ overtaken' = (\E s \in Saver : Installing(s))
  /\ UNCHANGED <<file, tmp, up, liveVars, at, doc, seen, handle>>

\* The server stops: requests and memory are gone; a temporary file that is
\* left has the old process in its name.
ServerStops ==
  /\ up /\ up' = FALSE
  /\ tmp' = Absent /\ Unlink(tmp)
  /\ live' = Empty /\ cached' = Absent /\ holder' = Nobody
  /\ at' = [r \in Request |-> "idle"]
  /\ doc' = [r \in Request |-> Empty]
  /\ seen' = [r \in Request |-> Absent]
  /\ handle' = [s \in Saver |-> Absent]
  /\ overtaken' = FALSE
  /\ UNCHANGED <<file, mtime>>

\* serve: a file that does not load keeps it from starting.
ServerStarts ==
  /\ ~up /\ Loads(data[file])
  /\ up' = TRUE /\ live' = data[file]
  /\ UNCHANGED <<diskVars, cached, holder, at, doc, seen, handle, overtaken>>

SettingsNext ==
  \/ \E r \in Request : Reload(r)
  \/ \E s \in Saver : Save(s)
  \/ Edit \/ ServerStops \/ ServerStarts

SettingsSpec == SettingsInit /\ [][SettingsNext]_settingsVars

-----------------------------------------------------------------------------
\* Types of the variables, and the lock's holder is the one that reloads.
SettingsTypeOK ==
  /\ file \in Inode /\ tmp \in Inode \cup {Absent}
  /\ data \in [Inode -> Doc] /\ mtime \in Stamp
  /\ up \in BOOLEAN /\ live \in Doc
  /\ cached \in Stamp \cup {Absent}
  /\ holder \in Request \cup {Nobody}
  /\ at \in [Request -> {"idle", "lock", "swap", "cache", "plan", "open", "write", "check",
                         "rename", "record", "install", "stamp", "store", "saved", "rejected"}]
  /\ doc \in [Request -> Doc]
  /\ seen \in [Request -> Stamp \cup {Absent}]
  /\ handle \in [Saver -> Inode \cup {Absent}]
  /\ overtaken \in BOOLEAN
  /\ \A r \in Request : at[r] \in {"swap", "cache"} <=> holder = r

\* Only an editor can make config.toml stop loading: no save does, at any
\* point it may stop, though the configuration it was planned against and the
\* file it read are both out of date by then.
FileStaysLoadable ==
  [][Loads(data[file]) /\ ~Loads(data'[file']) => Edit]_settingsVars

\* When the remembered time is that of the file, so that no reload will come,
\* the live configuration is what the file says: whatever reloads, edits,
\* failed records and restarts went before.  The exception is an installation
\* that another write or reload fell into.
LiveFollowsFile ==
  up /\ cached = mtime /\ ~overtaken => live = data[file]

\* `On any failure the original is untouched`: what a rejected save wrote is
\* not config.toml.
RejectedWritesNothing ==
  \A s \in Saver : at[s] = "rejected" => handle[s] # file
=============================================================================
