----------------------------- MODULE ServerProofs -----------------------------
(***************************************************************************)
(* The web server's requests read rows and files, wait for a lock, a mail  *)
(* or Miniflux, and write rows and files: what holds of them all the same, *)
(* for any number of them: one section per component, and the types of all *)
(* of them in one behaviour.                                               *)
(***************************************************************************)
EXTENDS MCServer, PublishingProofs

-----------------------------------------------------------------------------
(* Settings.  With one save at a time, whatever reloads, edits, failures   *)
(* and restarts fall between its steps: no save leaves a config.toml that  *)
(* does not load, and the server never goes on with an older configuration *)
(* while it believes to have the file's.  With two saves at once neither   *)
(* holds: see RejectedWritesNothing.                                       *)

Place == {"idle", "lock", "swap", "cache", "plan", "open", "write", "check",
          "rename", "record", "install", "stamp", "store", "saved", "rejected"}

LEMMA EmptyIsDoc == Empty \in Doc /\ Garbled \in Doc
BY DEF Empty, Garbled, Doc

\* A configuration planned against a file is again one.
LEMMA ChangesAreDocs == ASSUME NEW c \in Doc PROVE Changes(c) \subseteq Doc
<1>1. CASE c.parses
  <2>1. c \in [parses : {TRUE}, bulk : {"own", "p"}, declared : BOOLEAN]
    BY <1>1 DEF Doc, Garbled, Empty
  <2>2. PostForm(c) \subseteq Doc
    <3> SUFFICES ASSUME NEW f \in Posted
                 PROVE  [c EXCEPT !.bulk = f.bulk, !.declared = @ \/ f.declared] \in Doc
      BY DEF PostForm
    <3>1. f.bulk \in {"own", "p"} /\ (c.declared \/ f.declared) \in BOOLEAN
      BY DEF Posted
    <3> QED BY <2>1, <3>1 DEF Doc
  <2>3. AddProvider(c) \subseteq Doc /\ RemoveProvider(c) \subseteq Doc
    BY <2>1 DEF AddProvider, RemoveProvider, Doc
  <2> QED BY <2>2, <2>3 DEF Changes
<1>2. CASE ~c.parses
  BY <1>2 DEF Changes
<1> QED BY <1>1, <1>2

\* A new modification time is none that anybody remembers.
LEMMA NewTimeIsNew ==
  NewTime => mtime' \in Stamp /\ mtime' \notin {cached, mtime} /\ \A r \in Request : mtime' # seen[r]
BY DEF NewTime

LEMMA TypesInit == SettingsInit => SettingsTypeOK
<1> SUFFICES ASSUME SettingsInit PROVE SettingsTypeOK
  OBVIOUS
<1>1. file \in Inode /\ mtime \in Stamp
  BY DEF SettingsInit
<1>2. data \in [Inode -> Doc] /\ live \in Doc /\ doc \in [Request -> Doc]
  BY EmptyIsDoc DEF SettingsInit
<1>3. \A r \in Request : at[r] \in {"swap", "cache"} <=> holder = r
  BY SettingsAssumption DEF SettingsInit, Nobody, Request
<1> QED BY <1>1, <1>2, <1>3 DEF SettingsInit, SettingsTypeOK, Request

LEMMA TypesStep == SettingsTypeOK /\ [SettingsNext]_settingsVars => SettingsTypeOK'
<1> SUFFICES ASSUME SettingsTypeOK, [SettingsNext]_settingsVars PROVE SettingsTypeOK'
  OBVIOUS
<1> USE SettingsAssumption DEF SettingsTypeOK, Request, Nobody, Absent, Goes, Forgets, Ends, Continue,
        Unlink, diskVars, liveVars
<1>1. ASSUME NEW r \in Request, ReadStamp(r) PROVE SettingsTypeOK'
  BY <1>1 DEF ReadStamp
<1>2. ASSUME NEW r \in Request, KeepLive(r) PROVE SettingsTypeOK'
  <2>1. at' = [at EXCEPT ![r] = "plan"] \/ at' = [at EXCEPT ![r] = "idle"]
    BY <1>2 DEF KeepLive
  <2>2. doc' = [doc EXCEPT ![r] = Empty] /\ seen' = [seen EXCEPT ![r] = Absent]
    BY <1>2 DEF KeepLive
  <2>3. at[r] = "lock"
    BY <1>2 DEF KeepLive
  <2>4. at' \in [Request -> Place] /\ \A q \in Request : at'[q] \in {"swap", "cache"} <=> holder = q
    BY <2>1, <2>3 DEF Place
  <2> QED BY <1>2, <2>2, <2>4, EmptyIsDoc DEF KeepLive, Place
<1>3. ASSUME NEW r \in Request, Load(r) PROVE SettingsTypeOK'
  BY <1>3 DEF Load
<1>4. ASSUME NEW r \in Request, Swap(r) PROVE SettingsTypeOK'
  BY <1>4 DEF Swap
<1>5. ASSUME NEW r \in Request, Cache(r) PROVE SettingsTypeOK'
  BY <1>5, EmptyIsDoc DEF Cache
<1>6. ASSUME NEW s \in Saver, Refuse(s) \/ RecordFails(s) \/ Answer(s) PROVE SettingsTypeOK'
  BY <1>6, EmptyIsDoc DEF Refuse, RecordFails, Answer
<1>7. ASSUME NEW s \in Saver, Plan(s) PROVE SettingsTypeOK'
  <2>1. PICK c \in Doc : doc' = [doc EXCEPT ![s] = c]
    BY <1>7, ChangesAreDocs DEF Plan
  <2> QED BY <1>7, <2>1 DEF Plan
<1>8. ASSUME NEW s \in Saver, Open(s) PROVE SettingsTypeOK'
  BY <1>8, EmptyIsDoc DEF Open
<1>9. ASSUME NEW s \in Saver, Write(s) PROVE SettingsTypeOK'
  <2>1. mtime' \in Stamp
    BY <1>9, NewTimeIsNew DEF Write
  <2>2. data' \in [Inode -> Doc]
    BY <1>9 DEF Write
  <2> QED BY <1>9, <2>1, <2>2, EmptyIsDoc DEF Write
<1>10. ASSUME NEW s \in Saver, Reject(s) PROVE SettingsTypeOK'
  BY <1>10, EmptyIsDoc DEF Reject
<1>11. ASSUME NEW s \in Saver, Check(s) PROVE SettingsTypeOK'
  BY <1>11 DEF Check
<1>12. ASSUME NEW s \in Saver, Rename(s) PROVE SettingsTypeOK'
  <2>1. mtime' \in Stamp
    BY <1>12, NewTimeIsNew DEF Rename
  <2> QED BY <1>12, <2>1, EmptyIsDoc DEF Rename
<1>13. ASSUME NEW s \in Saver, Record(s) \/ InstallStamp(s) \/ InstallStore(s) PROVE SettingsTypeOK'
  BY <1>13 DEF Record, InstallStamp, InstallStore
<1>14. ASSUME NEW s \in Saver, Install(s) PROVE SettingsTypeOK'
  BY <1>14, EmptyIsDoc DEF Install
<1>15. CASE Edit
  BY <1>15, NewTimeIsNew DEF Edit
<1>16. CASE ServerStops
  BY <1>16, EmptyIsDoc DEF ServerStops
<1>17. CASE ServerStarts
  BY <1>17 DEF ServerStarts
<1>18. CASE UNCHANGED settingsVars
  BY <1>18 DEF settingsVars
<1> QED
  BY <1>1, <1>2, <1>3, <1>4, <1>5, <1>6, <1>7, <1>8, <1>9, <1>10, <1>11, <1>12, <1>13, <1>14,
     <1>15, <1>16, <1>17, <1>18 DEF SettingsNext, Reload, Save

\* SettingsTypeOK, for any number of saves and reloads at once.
THEOREM SettingsTypes == SettingsSpec => []SettingsTypeOK
BY TypesInit, TypesStep, PTL DEF SettingsSpec

-----------------------------------------------------------------------------
(* One save at a time.                                                     *)

\* The temporary file is the save's own, and what is about to become
\* config.toml has been loaded.
OnDisk ==
  /\ tmp # file
  /\ \A s \in Saver :
       /\ at[s] = "write" => handle[s] = tmp
       /\ at[s] \in {"write", "check", "rename"} <=> tmp # Absent
       /\ at[s] = "rename" => Loads(data[tmp]) /\ doc[s] = data[tmp]

LEMMA OnDiskInit == SettingsInit => OnDisk
BY SettingsAssumption DEF SettingsInit, OnDisk, Absent, Request

LEMMA OnDiskStep ==
  ASSUME NEW one, Saver = {one}, SettingsTypeOK, OnDisk, [SettingsNext]_settingsVars
  PROVE  OnDisk'
<1> USE SettingsAssumption DEF SettingsTypeOK, OnDisk, Request, Absent, Goes, Forgets, Ends, Unlink,
        diskVars, liveVars
<1>1. ASSUME NEW r \in Request, Reload(r) PROVE OnDisk'
  <2>1. UNCHANGED <<file, tmp, data, handle>>
    BY <1>1 DEF Reload, ReadStamp, KeepLive, Load, Swap, Cache
  <2>2. /\ at[r] \notin {"write", "check", "rename"}
        /\ at'[r] \notin {"write", "check", "rename"}
        /\ \A q \in Request : q # r => at'[q] = at[q] /\ doc'[q] = doc[q]
    BY <1>1 DEF Reload, ReadStamp, KeepLive, Load, Swap, Cache, Continue
  <2> QED BY <2>1, <2>2
<1>2. ASSUME NEW s \in Saver, Refuse(s) \/ RecordFails(s) \/ Answer(s) PROVE OnDisk'
  BY <1>2 DEF Refuse, RecordFails, Answer
<1>3. ASSUME NEW s \in Saver, Plan(s) PROVE OnDisk'
  BY <1>3 DEF Plan
<1>4. ASSUME NEW s \in Saver, Open(s) PROVE OnDisk'
  BY <1>4 DEF Open, FreshInode
<1>5. ASSUME NEW s \in Saver, Write(s) PROVE OnDisk'
  BY <1>5 DEF Write
<1>6. ASSUME NEW s \in Saver, Reject(s) PROVE OnDisk'
  BY <1>6 DEF Reject
<1>7. ASSUME NEW s \in Saver, Check(s) PROVE OnDisk'
  BY <1>7 DEF Check
<1>8. ASSUME NEW s \in Saver, Rename(s) PROVE OnDisk'
  BY <1>8 DEF Rename
<1>9. ASSUME NEW s \in Saver, Record(s) \/ Install(s) \/ InstallStamp(s) \/ InstallStore(s)
      PROVE  OnDisk'
  BY <1>9 DEF Record, Install, InstallStamp, InstallStore
<1>10. CASE Edit
  BY <1>10 DEF Edit
<1>11. CASE ServerStops
  BY <1>11 DEF ServerStops
<1>12. CASE ServerStarts
  BY <1>12 DEF ServerStarts
<1>13. CASE UNCHANGED settingsVars
  BY <1>13 DEF settingsVars
<1> QED
  BY <1>1, <1>2, <1>3, <1>4, <1>5, <1>6, <1>7, <1>8, <1>9, <1>10, <1>11, <1>12, <1>13
     DEF SettingsNext, Save

LEMMA OnDiskAlways ==
  ASSUME NEW one, Saver = {one}
  PROVE  SettingsSpec => [](SettingsTypeOK /\ OnDisk)
<1>1. SettingsTypeOK /\ OnDisk /\ [SettingsNext]_settingsVars => OnDisk'
  BY OnDiskStep
<1> QED BY <1>1, OnDiskInit, SettingsTypes, PTL DEF SettingsSpec

\* FileStaysLoadable: with one save at a time and any number of reloads, only
\* an editor makes config.toml unloadable.
THEOREM SaveKeepsFileLoadable ==
  ASSUME NEW one, Saver = {one}
  PROVE  SettingsSpec => FileStaysLoadable
<1>1. SettingsTypeOK /\ OnDisk /\ [SettingsNext]_settingsVars
        => [Loads(data[file]) /\ ~Loads(data'[file']) => Edit]_settingsVars
  <2> SUFFICES ASSUME SettingsTypeOK, OnDisk, SettingsNext, ~Edit, Loads(data[file])
               PROVE  Loads(data'[file'])
    OBVIOUS
  <2> USE DEF SettingsTypeOK, OnDisk, Absent, Unlink, diskVars
  <2>1. ASSUME NEW r \in Request, Reload(r) PROVE data'[file'] = data[file]
    BY <2>1 DEF Reload, ReadStamp, KeepLive, Load, Swap, Cache
  <2>2. ASSUME NEW s \in Saver, Save(s), ~Rename(s) PROVE data'[file'] = data[file]
    <3>1. CASE Open(s)
      BY <3>1, SettingsAssumption DEF Open, FreshInode
    <3>2. CASE Write(s)
      BY <3>2, SettingsAssumption DEF Write
    <3>3. CASE Reject(s)
      BY <3>3 DEF Reject
    <3>4. CASE ~Open(s) /\ ~Write(s) /\ ~Reject(s)
      BY <2>2, <3>4 DEF Save, Refuse, Plan, Check, Record, RecordFails, Install, InstallStamp,
                        InstallStore, Answer
    <3> QED BY <3>1, <3>2, <3>3, <3>4
  <2>3. ASSUME NEW s \in Saver, Rename(s) PROVE Loads(data'[file'])
    <3>1. data'[file'] = data[tmp] /\ Loads(data[tmp])
      BY <2>3 DEF Rename
    <3> QED BY <3>1
  <2>4. CASE ServerStops \/ ServerStarts
    BY <2>4 DEF ServerStops, ServerStarts
  <2> QED BY <2>1, <2>2, <2>3, <2>4 DEF SettingsNext
<1> QED BY <1>1, OnDiskAlways, PTL DEF SettingsSpec, FileStaysLoadable

-----------------------------------------------------------------------------
(* The live configuration.                                                 *)

\* A reload that read the file before the time it will remember has what the
\* file says; so has an installation nothing fell into, before and after it
\* makes the configuration live.
InMemory ==
  /\ \A r \in Request :
       /\ at[r] = "swap" /\ mtime \in {seen[r], cached} => doc[r] = data[file]
       /\ at[r] = "cache" /\ seen[r] = mtime /\ ~overtaken => live = data[file]
  /\ \A s \in Saver :
       /\ at[s] \in {"record", "install"} /\ ~overtaken => doc[s] = data[file]
       /\ at[s] = "stamp" /\ ~overtaken => live = data[file]
       /\ at[s] = "store" /\ seen[s] = mtime /\ ~overtaken => live = data[file]
  /\ LiveFollowsFile

LEMMA InMemoryInit == SettingsInit => InMemory
BY SettingsAssumption DEF SettingsInit, InMemory, LiveFollowsFile, Absent, Request

LEMMA InMemoryStep ==
  ASSUME NEW one, Saver = {one}, SettingsTypeOK, OnDisk, InMemory, [SettingsNext]_settingsVars
  PROVE  InMemory'
<1> USE SettingsAssumption DEF SettingsTypeOK, InMemory, LiveFollowsFile, Request, Absent, Nobody, Goes,
        Forgets, Ends, diskVars, liveVars
<1>1. ASSUME NEW r \in Request, ReadStamp(r) PROVE InMemory'
  BY <1>1 DEF ReadStamp
<1>2. ASSUME NEW r \in Request, KeepLive(r) PROVE InMemory'
  BY <1>2 DEF KeepLive, Continue
<1>3. ASSUME NEW r \in Request, Load(r) PROVE InMemory'
  BY <1>3 DEF Load
<1>4. ASSUME NEW r \in Request, Swap(r) PROVE InMemory'
  BY <1>4 DEF Swap
<1>5. ASSUME NEW r \in Request, Cache(r) PROVE InMemory'
  BY <1>5 DEF Cache, Continue
<1>6. ASSUME NEW s \in Saver, Refuse(s) \/ Plan(s) \/ RecordFails(s) \/ Answer(s) PROVE InMemory'
  BY <1>6 DEF Refuse, Plan, RecordFails, Answer
<1>7. ASSUME NEW s \in Saver, Open(s) \/ Write(s) \/ Reject(s) PROVE InMemory'
  <2>1. data'[file] = data[file] /\ mtime' = mtime
    BY <1>7 DEF OnDisk, Open, Write, Reject, FreshInode, Unlink
  <2>2. UNCHANGED <<file, up, live, cached, overtaken>>
    BY <1>7 DEF Open, Write, Reject
  <2>3. /\ at'[s] \in {"write", "check", "rejected"}
        /\ \A r \in Request : r # s => at'[r] = at[r] /\ doc'[r] = doc[r] /\ seen'[r] = seen[r]
    BY <1>7 DEF Open, Write, Reject
  <2> QED BY <2>1, <2>2, <2>3
<1>8. ASSUME NEW s \in Saver, Check(s) PROVE InMemory'
  BY <1>8 DEF Check
<1>9. ASSUME NEW s \in Saver, Rename(s) PROVE InMemory'
  <2>1. mtime' # cached /\ \A r \in Request : mtime' # seen[r]
    BY <1>9, NewTimeIsNew DEF Rename
  <2>2. doc[s] = data'[file']
    BY <1>9 DEF Rename, OnDisk, Unlink
  <2> QED BY <1>9, <2>1, <2>2 DEF Rename
<1>10. ASSUME NEW s \in Saver, Record(s) PROVE InMemory'
  BY <1>10 DEF Record
<1>11. ASSUME NEW s \in Saver, Install(s) PROVE InMemory'
  BY <1>11 DEF Install
<1>12. ASSUME NEW s \in Saver, InstallStamp(s) PROVE InMemory'
  BY <1>12 DEF InstallStamp
<1>13. ASSUME NEW s \in Saver, InstallStore(s) PROVE InMemory'
  BY <1>13 DEF InstallStore
<1>14. CASE Edit
  <2>1. mtime' # cached /\ \A r \in Request : mtime' # seen[r]
    BY <1>14, NewTimeIsNew DEF Edit
  <2> QED BY <1>14, <2>1 DEF Edit, Installing
<1>15. CASE ServerStops
  BY <1>15 DEF ServerStops
<1>16. CASE ServerStarts
  BY <1>16 DEF ServerStarts
<1>17. CASE UNCHANGED settingsVars
  BY <1>17 DEF settingsVars
<1> QED
  BY <1>1, <1>2, <1>3, <1>4, <1>5, <1>6, <1>7, <1>8, <1>9, <1>10, <1>11, <1>12, <1>13, <1>14,
     <1>15, <1>16, <1>17 DEF SettingsNext, Reload, Save

\* LiveFollowsFile: with one save at a time, once no reload will come any more
\* the live configuration is what the file says.
THEOREM LiveConfigurationFollows ==
  ASSUME NEW one, Saver = {one}
  PROVE  SettingsSpec => []LiveFollowsFile
<1>1. SettingsTypeOK /\ OnDisk /\ InMemory /\ [SettingsNext]_settingsVars => InMemory'
  BY InMemoryStep
<1>2. InMemory => LiveFollowsFile
  BY DEF InMemory
<1> QED BY <1>1, <1>2, InMemoryInit, OnDiskAlways, PTL DEF SettingsSpec

-----------------------------------------------------------------------------
(* Access requests.                                                        *)

\* The account an approval has made is its own until its mail is reported.
Mailing(x) == task[x].at \in {"mail", "undo"}

Approvals ==
  /\ AccessTypeOK
  /\ \A x \in Approver : task[x].at # "idle" => task[x].name \in Name
  /\ \A x \in Approver : Mailing(x) => task[x].name \in accounts \ reported
  /\ \A x, y \in Approver : x # y /\ Mailing(x) /\ Mailing(y) => task[x].name # task[y].name
  /\ MailedAccountsStay
  /\ NoSilentAccount

LEMMA ApprovalsInit == AccessInit => Approvals
<1> SUFFICES ASSUME AccessInit PROVE Approvals
  OBVIOUS
<1> USE AccessAssumption DEF AccessInit, NoForm, NoTask, NotAsked
<1>1. AccessTypeOK
  <2>1. asked \in [Asked -> [status : {"none", "open", "done"}, email : Email \cup {Unset}, name : Name \cup {Unset}]]
    OBVIOUS
  <2>2. form \in [Visitor -> [at : {"idle", "claim", "store"}, email : Email \cup {Unset}, name : Name \cup {Unset}]]
    OBVIOUS
  <2>3. task \in [Approver -> [at : {"idle", "add", "mail", "undo", "finish"}, row : Asked \cup {0}, name : Name \cup {Unset}]]
    OBVIOUS
  <2> QED BY <2>1, <2>2, <2>3 DEF AccessTypeOK
<1> QED BY <1>1 DEF Approvals, Mailing, MailedAccountsStay, NoSilentAccount

\* A request that ends, or none does, while it has no account to mail.
LEMMA QuietEnd ==
  ASSUME Approvals, NEW x \in Approver,
         (task' = [task EXCEPT ![x] = NoTask] /\ task[x].at \in {"add", "finish"}) \/ task' = task,
         UNCHANGED <<accounts, approved, letters, reported, cutOff, form>>,
         asked' \in [Asked -> [status : {"none", "open", "done"}, email : Email \cup {Unset}, name : Name \cup {Unset}]]
  PROVE  Approvals'
<1> USE AccessAssumption DEF Approvals, AccessTypeOK, Mailing, MailedAccountsStay, NoSilentAccount, NoTask
<1>1. task' \in [Approver -> [at : {"idle", "add", "mail", "undo", "finish"}, row : Asked \cup {0}, name : Name \cup {Unset}]]
  OBVIOUS
<1>2. \A y \in Approver :
        \/ task'[y] = task[y]
        \/ task[y].at \in {"add", "finish"} /\ task'[y].at = "idle"
  OBVIOUS
<1>3. \A y \in Approver : Mailing(y) => task'[y] = task[y]
  BY <1>2
<1>4. \A y \in Approver : Mailing(y)' => task'[y] = task[y]
  BY <1>2
<1>5. NoSilentAccount'
  BY <1>3
<1>6. AccessTypeOK'
  BY <1>1
<1> QED BY <1>1, <1>2, <1>3, <1>4, <1>5, <1>6

LEMMA ApprovalsStep == Approvals /\ [AccessNext]_accessVars => Approvals'
<1> SUFFICES ASSUME Approvals, [AccessNext]_accessVars PROVE Approvals'
  OBVIOUS
<1> USE AccessAssumption DEF Approvals, AccessTypeOK, Mailing, MailedAccountsStay, NoSilentAccount,
        TaskAt, TaskGoes, Deliver, Handled, NoForm, NoTask, NotAsked
<1>1. ASSUME NEW v \in Visitor, Submit(v) PROVE Approvals'
  BY <1>1 DEF Submit
<1>2. ASSUME NEW v \in Visitor, Claim(v) PROVE Approvals'
  BY <1>2 DEF Claim
<1>3. ASSUME NEW v \in Visitor, Store(v) PROVE Approvals'
  <2>1. PICK q \in Asked : asked' = [asked EXCEPT ![q] = [status |-> "open", email |-> form[v].email, name |-> form[v].name]]
    BY <1>3 DEF Store, OpenRows
  <2>2. form[v].email \in Email \cup {Unset} /\ form[v].name \in Name \cup {Unset}
    OBVIOUS
  <2>3. asked' \in [Asked -> [status : {"none", "open", "done"}, email : Email \cup {Unset}, name : Name \cup {Unset}]]
    BY <2>1, <2>2
  <2>4. form' \in [Visitor -> [at : {"idle", "claim", "store"}, email : Email \cup {Unset}, name : Name \cup {Unset}]]
    BY <1>3 DEF Store
  <2> QED BY <1>3, <2>3, <2>4 DEF Store
<1>4. ASSUME NEW x \in Approver, Approve(x) PROVE Approvals'
  BY <1>4 DEF Approve, OpenRows
<1>5. ASSUME NEW x \in Approver, AddAccount(x) PROVE Approvals'
  <2>1. CASE task[x].name \in accounts
    <3>1. task' = [task EXCEPT ![x] = NoTask] /\ task[x].at = "add"
      BY <1>5, <2>1 DEF AddAccount
    <3>2. UNCHANGED <<asked, accounts, approved, letters, reported, cutOff, form>>
      BY <1>5, <2>1 DEF AddAccount
    <3> QED BY <3>1, <3>2, QuietEnd
  <2>2. CASE task[x].name \notin accounts
    <3>1. /\ task' = [task EXCEPT ![x] = [@ EXCEPT !.at = "mail"]]
          /\ accounts' = accounts \cup {task[x].name} /\ approved' = approved \cup {task[x].name}
          /\ UNCHANGED <<asked, letters, reported, cutOff, form>>
      BY <1>5, <2>2 DEF AddAccount
    <3>2. task[x].name \in Name /\ task'[x].at = "mail" /\ task'[x].name = task[x].name
      BY <1>5, <3>1 DEF AddAccount
    <3>3. AccessTypeOK'
      <4>0. [task[x] EXCEPT !.at = "mail"] \in [at : {"idle", "add", "mail", "undo", "finish"}, row : Asked \cup {0}, name : Name \cup {Unset}]
        OBVIOUS
      <4>1. task' \in [Approver -> [at : {"idle", "add", "mail", "undo", "finish"}, row : Asked \cup {0}, name : Name \cup {Unset}]]
        BY <3>1, <4>0
      <4>2. accounts' \subseteq Name /\ approved' \subseteq accounts'
        BY <3>1, <3>2
      <4>3. asked' = asked /\ letters' = letters /\ reported' = reported /\ cutOff' = cutOff /\ form' = form
        BY <3>1
      <4> QED BY <4>1, <4>2, <4>3
    <3>4. \A y \in Approver : y # x => task'[y] = task[y]
      BY <3>1
    <3> QED BY <2>2, <3>1, <3>2, <3>3, <3>4
  <2> QED BY <2>1, <2>2
<1>6. ASSUME NEW x \in Approver, SendMail(x) PROVE Approvals'
  BY <1>6 DEF SendMail
<1>7. ASSUME NEW x \in Approver, MailFails(x) PROVE Approvals'
  BY <1>7 DEF MailFails
<1>8. ASSUME NEW x \in Approver, UndoAccount(x) PROVE Approvals'
  BY <1>8 DEF UndoAccount
<1>9. ASSUME NEW x \in Approver, FinishRequest(x) \/ MarkDone(x) PROVE Approvals'
  <2>1. PICK q \in Asked \cup {0} : asked' = [asked EXCEPT ![q] = [NotAsked EXCEPT !.status = "done"]]
    BY <1>9 DEF FinishRequest, MarkDone, OpenRows
  <2>2. asked' \in [Asked -> [status : {"none", "open", "done"}, email : Email \cup {Unset}, name : Name \cup {Unset}]]
    BY <2>1
  <2>3. (task' = [task EXCEPT ![x] = NoTask] /\ task[x].at = "finish") \/ task' = task
    BY <1>9 DEF FinishRequest, MarkDone
  <2>4. UNCHANGED <<accounts, approved, letters, reported, cutOff, form>>
    BY <1>9 DEF FinishRequest, MarkDone
  <2> QED BY <2>2, <2>3, <2>4, QuietEnd
<1>10. CASE AddByHand
  BY <1>10 DEF AddByHand
<1>11. ASSUME NEW x \in Approver, ApprovalDropped(x) PROVE Approvals'
  <2>1. task' = [task EXCEPT ![x] = NoTask]
    BY <1>11 DEF ApprovalDropped
  <2>2. CASE task[x].at \in {"add", "finish"}
    <3>1. UNCHANGED <<accounts, approved, letters, reported, cutOff, form>> /\ asked' = asked
      BY <1>11, <2>2 DEF ApprovalDropped
    <3> QED BY <2>1, <2>2, <3>1, QuietEnd
  <2>3. CASE Mailing(x)
    <3>1. /\ cutOff' = cutOff \cup {task[x].name} /\ task[x].name \in Name
          /\ letters' \in {letters, letters \cup {task[x].name}}
          /\ UNCHANGED <<asked, accounts, approved, reported, form>>
      BY <1>11, <2>3 DEF ApprovalDropped
    <3>2. \A y \in Approver : y # x => task'[y] = task[y]
      BY <2>1
    <3>3. task'[x].at = "idle"
      BY <2>1
    <3>4. AccessTypeOK'
      BY <2>1, <3>1
    <3>5. NoSilentAccount'
      BY <3>1, <3>2
    <3>6. MailedAccountsStay'
      BY <3>1
    <3>7. \A y \in Approver : Mailing(y)' => y # x /\ task'[y] = task[y] /\ Mailing(y)
      BY <3>2, <3>3
    <3>8. \A y \in Approver : task'[y].at # "idle" => task'[y].name \in Name
      BY <3>2, <3>3
    <3>9. \A y \in Approver : Mailing(y)' => task'[y].name \in accounts' \ reported'
      BY <3>1, <3>7
    <3>10. \A y, z \in Approver : y # z /\ Mailing(y)' /\ Mailing(z)' => task'[y].name # task'[z].name
      BY <3>7
    <3> HIDE DEF AccessTypeOK, MailedAccountsStay, NoSilentAccount, Mailing
    <3> QED BY <3>4, <3>5, <3>6, <3>8, <3>9, <3>10
  <2> QED BY <1>11, <2>2, <2>3 DEF ApprovalDropped
<1>12. ASSUME NEW v \in Visitor, FormDropped(v) PROVE Approvals'
  BY <1>12 DEF FormDropped
<1>13. CASE UNCHANGED accessVars
  BY <1>13 DEF accessVars
<1> QED
  BY <1>1, <1>2, <1>3, <1>4, <1>5, <1>6, <1>7, <1>8, <1>9, <1>10, <1>11, <1>12, <1>13 DEF AccessNext, Review

LEMMA ApprovalsAlways == AccessSpec => []Approvals
BY ApprovalsInit, ApprovalsStep, PTL DEF AccessSpec

\* MailedAccountsStay: no approval takes away an account whose mail another
\* one reported as sent, for any number of them and of names.
THEOREM MailedStay == AccessSpec => []MailedAccountsStay
<1>1. Approvals => MailedAccountsStay
  BY DEF Approvals
<1> QED BY <1>1, ApprovalsAlways, PTL

\* NoSilentAccount: an account whose password nobody got has an approval that
\* still is to mail it or take it back, or that was itself cut off there, by
\* whatever ends a request: no other approval makes one, for any number of them.
THEOREM NoneSilent == AccessSpec => []NoSilentAccount
<1>1. Approvals => NoSilentAccount
  BY DEF Approvals
<1> QED BY <1>1, ApprovalsAlways, PTL

-----------------------------------------------------------------------------
(* Sessions.                                                               *)

\* Whoever carries a session, carries one that was signed in with the
\* password it has in it; so does every row.
Carries(v) == visit[v].at \in {"loaded", "page", "logout", "everywhere", "change"}

Tickets ==
  /\ SessionsTypeOK
  /\ \A k \in Ticket : sessions[k] # NoVersion => sessions[k] \in opened[k] /\ k \in issued
  /\ \A v \in Visit :
       /\ visit[v].at \notin {"idle", "signin"} => visit[v].ticket \in issued
       /\ visit[v].at # "idle" => visit[v].saw \in Version
       /\ Carries(v) => visit[v].saw \in opened[visit[v].ticket]

LEMMA TicketsInit == SessionsInit => Tickets
<1> SUFFICES ASSUME SessionsInit PROVE Tickets
  OBVIOUS
<1> USE SessionsAssumption DEF SessionsInit, Carries, Away, NoVersion
<1>1. hash \in Version
  BY DEF Version
<1>2. sessions \in [Ticket -> Version \cup {NoVersion}] /\ opened \in [Ticket -> SUBSET Version]
  OBVIOUS
<1>3. \A v \in Visit : visit[v] = Away
  OBVIOUS
<1>4. visit \in [Visit -> [at : {"idle", "signin", "loaded", "page", "logout", "everywhere", "change",
                                 "delete", "relogin"},
                           ticket : Ticket \cup {NoTicket}, saw : Version \cup {NoVersion}]]
  OBVIOUS
<1>5. SessionsTypeOK
  BY <1>1, <1>2, <1>4 DEF SessionsTypeOK
<1> QED BY <1>3, <1>5 DEF Tickets

LEMMA TicketsStep == Tickets /\ [SessionsNext]_sessionVars => Tickets'
<1> SUFFICES ASSUME Tickets, [SessionsNext]_sessionVars PROVE Tickets'
  OBVIOUS
<1> USE SessionsAssumption DEF Tickets, SessionsTypeOK, Carries, Away, VisitAt, VisitGoes, Leaves,
        NoVersion, Rows
<1>1. ASSUME NEW v \in Visit, SignIn(v) PROVE Tickets'
  BY <1>1 DEF SignIn, Version
<1>2. ASSUME NEW v \in Visit, CreateSession(v) PROVE Tickets'
  BY <1>2 DEF CreateSession, SaveSession, Version
<1>3. ASSUME NEW v \in Visit, LoadSession(v) PROVE Tickets'
  BY <1>3 DEF LoadSession
<1>4. ASSUME NEW v \in Visit, TurnedAway(v) PROVE Tickets'
  BY <1>4 DEF TurnedAway, DeleteSession
<1>5. ASSUME NEW v \in Visit, EnterHandler(v) PROVE Tickets'
  BY <1>5 DEF EnterHandler
<1>6. ASSUME NEW v \in Visit, AnswerPage(v) PROVE Tickets'
  BY <1>6 DEF AnswerPage, SaveSession
<1>7. ASSUME NEW v \in Visit, LogOut(v) PROVE Tickets'
  BY <1>7 DEF LogOut, DeleteSession
<1>8. ASSUME NEW v \in Visit, LogOutEverywhere(v) PROVE Tickets'
  BY <1>8 DEF LogOutEverywhere, DeleteForUser
<1>9. ASSUME NEW v \in Visit, ChangePassword(v) PROVE Tickets'
  <2>1. hash + 1 \in Version
    BY <1>9 DEF ChangePassword, Version
  <2> QED BY <1>9, <2>1 DEF ChangePassword
<1>10. ASSUME NEW v \in Visit, DeleteAfterChange(v) PROVE Tickets'
  BY <1>10 DEF DeleteAfterChange, DeleteForUser
<1>11. ASSUME NEW v \in Visit, Relogin(v) PROVE Tickets'
  BY <1>11 DEF Relogin, SaveSession
<1>12. CASE Passwd \/ SetDisabled \/ SetEnabled
  <2>1. hash' \in Version
    BY <1>12 DEF Passwd, SetDisabled, SetEnabled, Version
  <2>2. command' \in {"idle", "delete"} /\ disabled' \in BOOLEAN
    BY <1>12 DEF Passwd, SetDisabled, SetEnabled
  <2> QED BY <1>12, <2>1, <2>2 DEF Passwd, SetDisabled, SetEnabled
<1>13. CASE LogOutUser
  BY <1>13 DEF LogOutUser, DeleteForUser
<1>14. ASSUME CommandDies \/ \E v \in Visit : VisitDropped(v) PROVE Tickets'
  BY <1>14 DEF CommandDies, VisitDropped
<1>15. CASE UNCHANGED sessionVars
  BY <1>15 DEF sessionVars
<1> QED
  BY <1>1, <1>2, <1>3, <1>4, <1>5, <1>6, <1>7, <1>8, <1>9, <1>10, <1>11, <1>12, <1>13, <1>14, <1>15
     DEF SessionsNext, Use

\* PasswordRevokes: for any number of requests and passwords, whatever session
\* is brought back by a late save, it is of no use after a password change.
THEOREM PasswordChangeRevokes == SessionsSpec => []PasswordRevokes
<1>1. Tickets => PasswordRevokes
  BY DEF Tickets, PasswordRevokes, Rows
<1> QED BY <1>1, TicketsInit, TicketsStep, PTL DEF SessionsSpec

-----------------------------------------------------------------------------
(* Feed discovery.                                                         *)

\* What the stage still has to reconcile, and what it may add.
Reconciled ==
  /\ stage.at = "reconcile" => \A f \in Candidates : Covered(f, stage.known) => f \in stage.flips
  /\ stage.at = "lookup" => stage.queue \cap SubscribedHosts(stage.known) = {}
  /\ stage.at = "write" =>
       /\ stage.queue \cap SubscribedHosts(stage.known) = {}
       /\ stage.host \notin SubscribedHosts(stage.known)
       /\ stage.kept \cap stage.known = {}
  /\ NoSubscribedCandidate

RowsFirst ==
  /\ stage.feed # NoFeed => stage.feed \in Stored
  /\ linked \subseteq Stored
  /\ CheckedMeansStored

Clicks == FeedsTypeOK /\ \A a \in Clicker : click[a].at # "idle" => click[a].feed \in Feed

LEMMA FeedsTypesInit == FeedsInit => Clicks
BY FeedsAssumption DEF FeedsInit, Clicks, FeedsTypeOK, NotFound, NoStage, NotChecked, NoClick

LEMMA StatusTypes ==
  ASSUME NEW f \in Feed, FeedsTypeOK, NEW status \in {"added", "dismissed"}, SetStatus(f, status)
  PROVE  cand' \in [Feed -> [status : {"none", "candidate", "added", "dismissed"}, host : Host \cup {NoHost}]]
<1>1. cand \in [Feed -> [status : {"none", "candidate", "added", "dismissed"}, host : Host \cup {NoHost}]]
  BY DEF FeedsTypeOK
<1>2. cand[f].host \in Host \cup {NoHost}
  BY <1>1
<1> QED BY <1>1, <1>2 DEF SetStatus

\* A decision makes no candidate and keeps all rows.
LEMMA StatusKeeps ==
  ASSUME FeedsTypeOK, NEW f \in Feed, NEW status \in {"added", "dismissed"}, SetStatus(f, status)
  PROVE  \A g \in Feed : /\ cand'[g].host = cand[g].host
                         /\ cand'[g].status = "candidate" => cand[g].status = "candidate"
                         /\ cand[g].status # "none" => cand'[g].status # "none"
<1>1. cand \in [Feed -> [status : {"none", "candidate", "added", "dismissed"}, host : Host \cup {NoHost}]]
  BY DEF FeedsTypeOK
<1> QED BY <1>1 DEF SetStatus

LEMMA FeedsTypesStep == Clicks /\ [FeedsNext]_feedsVars => Clicks'
<1> SUFFICES ASSUME Clicks, [FeedsNext]_feedsVars PROVE Clicks'
  OBVIOUS
<1> DEFINE Stages == [at : {"idle", "load", "reconcile", "lookup", "write"}, known : SUBSET Feed,
                      flips : SUBSET Feed, queue : SUBSET Host, host : Host \cup {NoHost},
                      kept : SUBSET Feed, feed : Feed \cup {NoFeed}]
<1>a. FeedsTypeOK <=> /\ subs \subseteq Feed /\ linked \subseteq Feed /\ stage \in Stages
                      /\ cand \in [Feed -> [status : {"none", "candidate", "added", "dismissed"}, host : Host \cup {NoHost}]]
                      /\ memo \in [Host -> [recent : BOOLEAN, found : SUBSET Feed]]
                      /\ click \in [Clicker -> [at : {"idle", "create", "decide"}, feed : Feed \cup {NoFeed}]]
  BY DEF FeedsTypeOK
<1>b. NoStage \in Stages
  BY DEF NoStage
<1> USE FeedsAssumption DEF Clicks, FeedsTypeOK, NotFound, NotChecked, NoClick, SetStatus
<1>1. CASE StartStage \/ LoadCandidates \/ StageStops
  <2>1. CASE StartStage
    BY <2>1 DEF StartStage, NoStage
  <2>2. CASE LoadCandidates
    <3>1. {f \in Candidates : Covered(f, stage.known)} \subseteq Feed
      BY DEF Candidates
    <3> QED BY <2>2, <3>1 DEF LoadCandidates
  <2>3. CASE StageStops
    BY <2>3, <1>b DEF StageStops
  <2> QED BY <1>1, <2>1, <2>2, <2>3
<1>2. ASSUME NEW f \in Feed, Reconcile(f) PROVE Clicks'
  <2>1. stage' \in Stages
    <3>1. stage.flips \ {f} \subseteq Feed /\ stage' = [stage EXCEPT !.flips = stage.flips \ {f}]
      BY <1>2 DEF Reconcile
    <3> QED BY <3>1
  <2>2. cand' \in [Feed -> [status : {"none", "candidate", "added", "dismissed"}, host : Host \cup {NoHost}]]
    BY <1>2, StatusTypes DEF Reconcile
  <2> QED BY <1>2, <2>1, <2>2 DEF Reconcile
<1>3. CASE Group
  <2>1. PICK articleHosts \in SUBSET Host :
          /\ linked' = linked \cup {f \in Candidates : cand[f].host \in {h \in WantedHosts(articleHosts) : memo[h].recent}}
          /\ \E queue \in SUBSET WantedHosts(articleHosts) :
               stage' = NoStage \/ stage' = [stage EXCEPT !.at = "lookup", !.queue = queue]
    BY <1>3 DEF Group
  <2>2. linked' \subseteq Feed
    BY <2>1 DEF Candidates
  <2>3. WantedHosts(articleHosts) \subseteq Host
    BY DEF WantedHosts
  <2>4. stage' \in Stages
    <3>1. CASE stage' = NoStage
      BY <3>1, <1>b
    <3>2. ASSUME NEW queue \in SUBSET WantedHosts(articleHosts),
                 stage' = [stage EXCEPT !.at = "lookup", !.queue = queue]
          PROVE  stage' \in Stages
      <4>1. queue \subseteq Host
        BY <2>3
      <4> QED BY <3>2, <4>1
    <3> QED BY <2>1, <3>1, <3>2
  <2> QED BY <1>3, <2>2, <2>4 DEF Group
<1>4. ASSUME NEW h \in Host, LookUp(h) PROVE Clicks'
  <2>1. CASE stage' = [stage EXCEPT !.queue = @ \ {h}]
    BY <1>4, <2>1 DEF LookUp
  <2>2. ASSUME NEW kept \in SUBSET Feed, stage' = [stage EXCEPT !.at = "write", !.host = h, !.kept = kept]
        PROVE  Clicks'
    <3>1. stage' \in Stages
      BY <1>a, <2>2
    <3> QED BY <1>4, <3>1 DEF LookUp
  <2>3. stage' = [stage EXCEPT !.queue = @ \ {h}]
        \/ \E kept \in SUBSET Feed : stage' = [stage EXCEPT !.at = "write", !.host = h, !.kept = kept]
    BY <1>4 DEF LookUp
  <2> QED BY <2>1, <2>2, <2>3
<1>5. ASSUME NEW f \in Feed, UpsertCandidate(f) PROVE Clicks'
  BY <1>5 DEF UpsertCandidate
<1>6. CASE LinkArticles
  BY <1>6 DEF LinkArticles
<1>7. CASE MarkHostChecked
  BY <1>7 DEF MarkHostChecked
<1>8. ASSUME NEW a \in Clicker, StartAdd(a) \/ CreateFeed(a) \/ DecideAdded(a) PROVE Clicks'
  <2>1. CASE StartAdd(a)
    BY <2>1 DEF StartAdd, Stored
  <2>2. CASE CreateFeed(a)
    <3>1. click[a].feed \in Feed
      BY <2>2 DEF CreateFeed
    <3>2. subs' \subseteq Feed
      BY <2>2, <3>1 DEF CreateFeed
    <3>3. click' = [click EXCEPT ![a].at = "decide"] \/ click' = [click EXCEPT ![a] = NoClick]
      BY <2>2 DEF CreateFeed
    <3>4. CASE click' = [click EXCEPT ![a].at = "decide"]
      BY <2>2, <3>1, <3>2, <3>4 DEF CreateFeed
    <3>5. CASE click' = [click EXCEPT ![a] = NoClick]
      BY <2>2, <3>2, <3>5 DEF CreateFeed
    <3> QED BY <3>3, <3>4, <3>5
  <2>3. CASE DecideAdded(a)
    <3>1. click[a].feed \in Feed /\ SetStatus(click[a].feed, "added") /\ click' = [click EXCEPT ![a] = NoClick]
      BY <2>3 DEF DecideAdded
    <3>2. cand' \in [Feed -> [status : {"none", "candidate", "added", "dismissed"}, host : Host \cup {NoHost}]]
      BY <3>1, StatusTypes
    <3> QED BY <2>3, <3>1, <3>2 DEF DecideAdded
  <2> QED BY <1>8, <2>1, <2>2, <2>3
<1>9. ASSUME NEW f \in Feed, Dismiss(f) PROVE Clicks'
  BY <1>9, StatusTypes DEF Dismiss
<1>10. ASSUME Resubscribe \/ \E a \in Clicker : ClickDropped(a) PROVE Clicks'
  <2>1. CASE Resubscribe
    BY <2>1 DEF Resubscribe
  <2>2. ASSUME NEW a \in Clicker, ClickDropped(a) PROVE Clicks'
    BY <2>2 DEF ClickDropped
  <2> QED BY <1>10, <2>1, <2>2
<1>11. ASSUME NEW h \in Host, Expire(h) PROVE Clicks'
  BY <1>11 DEF Expire
<1>12. CASE UNCHANGED feedsVars
  BY <1>12 DEF feedsVars
<1> QED
  BY <1>1, <1>2, <1>3, <1>4, <1>5, <1>6, <1>7, <1>8, <1>9, <1>10, <1>11, <1>12 DEF FeedsNext, Stage

LEMMA ReconciledInit == FeedsInit => Reconciled
BY DEF FeedsInit, Reconciled, NoSubscribedCandidate, NoStage

\* Only a look-up's own rows become candidates; a row that is one keeps its
\* host, and so keeps being covered by the subscriptions the stage knows.
LEMMA ReconciledStep == Clicks /\ Reconciled /\ [FeedsNext]_feedsVars => Reconciled'
<1> SUFFICES ASSUME Clicks, Reconciled, [FeedsNext]_feedsVars PROVE Reconciled'
  OBVIOUS
<1> USE FeedsAssumption DEF Clicks, FeedsTypeOK, Reconciled, NoSubscribedCandidate, Candidates, Covered,
        SubscribedHosts
<1>1. CASE StartStage \/ StageStops
  <2>1. CASE StartStage
    <3>1. stage'.at = "load" /\ cand' = cand
      BY <2>1 DEF StartStage, NoStage
    <3> QED BY <3>1
  <2>2. CASE StageStops
    <3>1. stage'.at = "idle" /\ cand' = cand
      BY <2>2 DEF StageStops, NoStage
    <3> QED BY <3>1
  <2> QED BY <1>1, <2>1, <2>2
<1>2. CASE LoadCandidates
  BY <1>2 DEF LoadCandidates
<1>3. ASSUME NEW f \in Feed, Reconcile(f) PROVE Reconciled'
  BY <1>3 DEF Reconcile, SetStatus
<1>4. CASE Group
  BY <1>4 DEF Group, WantedHosts, NoStage
<1>5. ASSUME NEW h \in Host, LookUp(h) PROVE Reconciled'
  <2>1. CASE stage' = [stage EXCEPT !.queue = @ \ {h}]
    BY <1>5, <2>1 DEF LookUp
  <2>2. CASE \E kept \in SUBSET (Feed \ stage.known) :
               stage' = [stage EXCEPT !.at = "write", !.host = h, !.kept = kept]
    <3>1. PICK kept \in SUBSET (Feed \ stage.known) :
             stage' = [stage EXCEPT !.at = "write", !.host = h, !.kept = kept]
      BY <2>2
    <3>2. stage.at = "lookup" /\ h \in stage.queue /\ UNCHANGED cand
      BY <1>5 DEF LookUp
    <3>3. /\ stage'.at = "write" /\ stage'.known = stage.known /\ stage'.queue = stage.queue
          /\ stage'.host = h /\ stage'.kept \cap stage.known = {}
      BY <3>1
    <3> QED BY <3>2, <3>3
  <2> QED BY <1>5, <2>1, <2>2 DEF LookUp
<1>6. ASSUME NEW f \in Feed, UpsertCandidate(f) PROVE Reconciled'
  BY <1>6 DEF UpsertCandidate, Stored
<1>7. CASE LinkArticles \/ MarkHostChecked
  <2>1. CASE LinkArticles
    BY <2>1 DEF LinkArticles
  <2>2. CASE MarkHostChecked
    BY <2>2 DEF MarkHostChecked
  <2> QED BY <1>7, <2>1, <2>2
<1>8. ASSUME NEW a \in Clicker, StartAdd(a) \/ CreateFeed(a) \/ DecideAdded(a) PROVE Reconciled'
  <2>1. CASE StartAdd(a) \/ CreateFeed(a)
    BY <2>1 DEF StartAdd, CreateFeed
  <2>2. CASE DecideAdded(a)
    <3>1. click[a].feed \in Feed /\ SetStatus(click[a].feed, "added") /\ UNCHANGED <<linked, memo, stage>>
      BY <2>2 DEF DecideAdded
    <3> QED BY <3>1, StatusKeeps
  <2> QED BY <1>8, <2>1, <2>2
<1>9. ASSUME NEW f \in Feed, Dismiss(f) PROVE Reconciled'
  BY <1>9, StatusKeeps DEF Dismiss
<1>10. ASSUME Resubscribe \/ (\E a \in Clicker : ClickDropped(a)) \/ \E h \in Host : Expire(h) PROVE Reconciled'
  BY <1>10 DEF ClickDropped, Resubscribe, Expire
<1>11. CASE UNCHANGED feedsVars
  BY <1>11 DEF feedsVars
<1> QED
  BY <1>1, <1>2, <1>3, <1>4, <1>5, <1>6, <1>7, <1>8, <1>9, <1>10, <1>11 DEF FeedsNext, Stage

LEMMA RowsFirstInit == FeedsInit => RowsFirst
BY DEF FeedsInit, RowsFirst, CheckedMeansStored, NoStage, NotChecked

LEMMA RowsFirstStep == Clicks /\ RowsFirst /\ [FeedsNext]_feedsVars => RowsFirst'
<1> SUFFICES ASSUME Clicks, RowsFirst, [FeedsNext]_feedsVars PROVE RowsFirst'
  OBVIOUS
<1> USE FeedsAssumption DEF Clicks, FeedsTypeOK, RowsFirst, CheckedMeansStored, Stored
<1>1. CASE StartStage \/ LoadCandidates \/ StageStops
  <2>1. UNCHANGED <<cand, linked, memo>>
    BY <1>1 DEF StartStage, LoadCandidates, StageStops
  <2>2. CASE StartStage \/ StageStops
    <3>1. CASE StartStage
      BY <3>1, <2>1 DEF StartStage, NoStage
    <3>2. CASE StageStops
      BY <3>2, <2>1 DEF StageStops, NoStage
    <3> QED BY <2>2, <3>1, <3>2
  <2>3. CASE LoadCandidates
    <3>1. stage'.feed = stage.feed
      BY <2>3 DEF LoadCandidates
    <3> QED BY <2>1, <3>1
  <2> QED BY <1>1, <2>2, <2>3
<1>2. ASSUME NEW f \in Feed, Reconcile(f) PROVE RowsFirst'
  BY <1>2 DEF Reconcile, SetStatus
<1>3. CASE Group
  BY <1>3 DEF Group, NoStage, Candidates
<1>4. ASSUME NEW h \in Host, LookUp(h) PROVE RowsFirst'
  BY <1>4 DEF LookUp
<1>5. ASSUME NEW f \in Feed, UpsertCandidate(f) PROVE RowsFirst'
  BY <1>5 DEF UpsertCandidate
<1>6. CASE LinkArticles
  BY <1>6 DEF LinkArticles
<1>7. CASE MarkHostChecked
  BY <1>7 DEF MarkHostChecked
<1>8. ASSUME NEW a \in Clicker, StartAdd(a) \/ CreateFeed(a) \/ DecideAdded(a) PROVE RowsFirst'
  <2>1. CASE StartAdd(a) \/ CreateFeed(a)
    BY <2>1 DEF StartAdd, CreateFeed
  <2>2. CASE DecideAdded(a)
    <3>1. click[a].feed \in Feed /\ SetStatus(click[a].feed, "added") /\ UNCHANGED <<linked, memo, stage>>
      BY <2>2 DEF DecideAdded
    <3> QED BY <3>1, StatusKeeps
  <2> QED BY <1>8, <2>1, <2>2
<1>9. ASSUME NEW f \in Feed, Dismiss(f) PROVE RowsFirst'
  BY <1>9, StatusKeeps DEF Dismiss
<1>10. ASSUME Resubscribe \/ (\E a \in Clicker : ClickDropped(a)) \/ \E h \in Host : Expire(h) PROVE RowsFirst'
  BY <1>10 DEF ClickDropped, Resubscribe, Expire, NotChecked
<1>11. CASE UNCHANGED feedsVars
  BY <1>11 DEF feedsVars
<1> QED
  BY <1>1, <1>2, <1>3, <1>4, <1>5, <1>6, <1>7, <1>8, <1>9, <1>10, <1>11 DEF FeedsNext, Stage

\* NoSubscribedCandidate: for any feeds, hosts and requests, a stage that has
\* reconciled leaves and adds no candidate its subscriptions cover.
THEOREM SubscribedAreNoCandidates == FeedsSpec => []NoSubscribedCandidate
<1>1. Reconciled => NoSubscribedCandidate
  BY DEF Reconciled
<1> QED BY <1>1, FeedsTypesInit, FeedsTypesStep, ReconciledInit, ReconciledStep, PTL DEF FeedsSpec

\* CheckedMeansStored: wherever a stage is cut off, a host that is passed over
\* from then on has all its feeds in the table.
THEOREM CheckedHostsAreStored == FeedsSpec => []CheckedMeansStored
<1>1. RowsFirst => CheckedMeansStored
  BY DEF RowsFirst
<1> QED BY <1>1, FeedsTypesInit, FeedsTypesStep, RowsFirstInit, RowsFirstStep, PTL DEF FeedsSpec

-----------------------------------------------------------------------------
(* The versions of the profile.                                            *)

Inodes == File \cup {NoInode}

WriteType ==
  [at : {"idle", "read", "record", "open", "write", "rename"},
   text : Text \cup {Blank}, previous : Text \cup {Blank},
   open : Inodes, crossed : BOOLEAN]

\* What a request that no other crosses relies on, at each place, of the
\* inodes of the two names, what they say and the versions.
Relies(x, onFile, onTmp, said, kept) ==
  /\ x.at = "record" => onFile # NoInode /\ said[onFile] = x.previous
  /\ x.at \in {"open", "write", "rename"} /\ onFile # NoInode => said[onFile] \in kept \cup {x.text}
  /\ x.at = "write" => onTmp # NoInode /\ x.open = onTmp
  /\ x.at = "rename" => onTmp # NoInode /\ said[onTmp] = x.text

Free(x) == x.at \in {"idle", "read"} \/ x.crossed

Kept ==
  /\ ProfileTypeOK
  /\ \A w \in Writer : Free(write[w]) \/ Relies(write[w], md, mdTmp, says, versions)

LEMMA KeptInit == ProfileInit => Kept
<1> SUFFICES ASSUME ProfileInit PROVE Kept
  OBVIOUS
<1>1. \A w \in Writer : write[w] = NoWrite
  BY DEF ProfileInit
<1>2. NoWrite \in WriteType /\ Free(NoWrite)
  BY DEF NoWrite, WriteType, Free, Inodes
<1>3. write \in [Writer -> WriteType]
  BY <1>2 DEF ProfileInit
<1>4. says \in [File -> Text \cup {Blank}] /\ md \in Inodes /\ mdTmp = NoInode /\ versions = {}
  BY ProfileAssumption DEF ProfileInit, File, Inodes
<1> QED BY <1>1, <1>2, <1>3, <1>4 DEF Kept, ProfileTypeOK, WriteType, Inodes

\* A step of request w that changes files: only w can go on relying on them.
LEMMA Across ==
  ASSUME write \in [Writer -> WriteType], NEW w \in Writer, NEW x \in WriteType, StepAcross(w, x)
  PROVE  /\ write' \in [Writer -> WriteType]
         /\ write'[w] = x
         /\ \A v \in Writer : v # w => Free(write'[v])
<1>1. \A v \in Writer : Crossed(v) \in WriteType /\ Free(Crossed(v))
  BY DEF Crossed, WriteAt, WriteType, Free
<1> QED BY <1>1 DEF StepAcross

\* A step of request w that changes no file.
LEMMA Alone ==
  ASSUME Kept, NEW w \in Writer, NEW x \in WriteType, write' = [write EXCEPT ![w] = x],
         UNCHANGED <<md, mdTmp, says>>,
         versions' \subseteq Text \cup {Blank}, versions \subseteq versions',
         Free(x) \/ Relies(x, md, mdTmp, says, versions')
  PROVE  Kept'
<1>1. write \in [Writer -> WriteType]
  BY DEF Kept, ProfileTypeOK, WriteType, Inodes
<1>2. write' \in [Writer -> WriteType] /\ write'[w] = x /\ \A v \in Writer : v # w => write'[v] = write[v]
  BY <1>1
<1>3. \A v \in Writer : Free(write'[v]) \/ Relies(write'[v], md', mdTmp', says', versions')
  BY <1>2 DEF Kept, Relies
<1> QED BY <1>2, <1>3 DEF Kept, ProfileTypeOK, WriteType, Inodes

LEMMA KeptStep == Kept /\ [ProfileNext]_profileVars => Kept'
<1> SUFFICES ASSUME Kept, [ProfileNext]_profileVars PROVE Kept'
  OBVIOUS
<1>a. ProfileTypeOK /\ write \in [Writer -> WriteType]
  BY DEF Kept, ProfileTypeOK, WriteType, Inodes
<1>b. NoWrite \in WriteType /\ Free(NoWrite)
  BY DEF NoWrite, WriteType, Inodes, Free
<1>c. NoInode \notin File
  BY DEF NoInode, File
<1>d. /\ md \in Inodes /\ mdTmp \in Inodes /\ (md = mdTmp => md = NoInode)
      /\ says \in [File -> Text \cup {Blank}] /\ versions \subseteq Text \cup {Blank}
  BY <1>a DEF ProfileTypeOK, Inodes
<1>1. ASSUME NEW w \in Writer, SaveProfile(w) \/ RestoreVersion(w) PROVE Kept'
  <2>1. PICK t \in Text : write' = [write EXCEPT ![w] = [NoWrite EXCEPT !.at = "read", !.text = t]]
    BY <1>1 DEF SaveProfile, RestoreVersion
  <2> DEFINE x == [NoWrite EXCEPT !.at = "read", !.text = t]
  <2>2. x \in WriteType /\ Free(x)
    BY DEF NoWrite, WriteType, Inodes, Free
  <2>3. UNCHANGED <<md, mdTmp, says, versions>> /\ write' = [write EXCEPT ![w] = x]
    BY <1>1, <2>1 DEF SaveProfile, RestoreVersion
  <2> HIDE DEF x
  <2> QED BY <1>d, <2>2, <2>3, Alone
<1>2. ASSUME NEW w \in Writer, ReadPrevious(w) PROVE Kept'
  <2>1. write[w] \in WriteType /\ UNCHANGED <<md, mdTmp, says, versions>>
    BY <1>a, <1>2 DEF ReadPrevious
  <2> DEFINE x == [write[w] EXCEPT !.at = "record", !.previous = says[md]]
             y == [write[w] EXCEPT !.at = "open"]
  <2>2. CASE md # NoInode /\ says[md] # write[w].text
    <3>1. says[md] \in Text \cup {Blank}
      BY <1>d, <2>2 DEF Inodes
    <3>2. x \in WriteType /\ Relies(x, md, mdTmp, says, versions)
      BY <2>1, <2>2, <3>1 DEF WriteType, Relies
    <3>3. write' = [write EXCEPT ![w] = x]
      BY <1>2, <1>a, <2>2 DEF ReadPrevious, WriteType
    <3> HIDE DEF x
    <3> QED BY <1>d, <2>1, <3>2, <3>3, Alone
  <2>3. CASE ~(md # NoInode /\ says[md] # write[w].text)
    <3>1. y \in WriteType /\ Relies(y, md, mdTmp, says, versions)
      BY <2>1, <2>3 DEF WriteType, Relies
    <3>2. write' = [write EXCEPT ![w] = y]
      BY <1>2, <1>a, <2>3 DEF ReadPrevious, Step, WriteType
    <3> HIDE DEF y
    <3> QED BY <1>d, <2>1, <3>1, <3>2, Alone
  <2> QED BY <2>2, <2>3
<1>3. ASSUME NEW w \in Writer, RecordVersion(w) PROVE Kept'
  <2> DEFINE x == [write[w] EXCEPT !.at = "open", !.previous = Blank]
  <2>1. write[w] \in WriteType /\ write[w].at = "record" /\ x \in WriteType
    BY <1>a, <1>3 DEF RecordVersion, WriteAt, WriteType
  <2>2. UNCHANGED <<md, mdTmp, says>> /\ versions' = versions \cup {write[w].previous}
    BY <1>3 DEF RecordVersion
  <2>3. write' = [write EXCEPT ![w] = x]
    BY <1>3, <1>a DEF RecordVersion, WriteType
  <2>4. versions' \subseteq Text \cup {Blank}
    BY <1>d, <2>1, <2>2 DEF WriteType
  <2>5. Free(x) \/ Relies(x, md, mdTmp, says, versions')
    BY <2>1, <2>2 DEF Free, Relies, WriteType, Kept
  <2> HIDE DEF x
  <2> QED BY <2>1, <2>2, <2>3, <2>4, <2>5, Alone
<1>4. ASSUME NEW w \in Writer, OpenFile(w) PROVE Kept'
  <2>1. PICK f \in File :
          /\ IF mdTmp = NoInode THEN FreeFile(f) ELSE f = mdTmp
          /\ mdTmp' = f
          /\ says' = [says EXCEPT ![f] = Blank]
          /\ StepAcross(w, [write[w] EXCEPT !.at = "write", !.open = f])
    BY <1>4 DEF OpenFile
  <2> DEFINE x == [write[w] EXCEPT !.at = "write", !.open = f]
  <2>2. write[w] \in WriteType /\ write[w].at = "open" /\ x \in WriteType
    BY <1>a, <1>4 DEF OpenFile, WriteAt, WriteType, Inodes
  <2>3. f # md /\ f # NoInode
    BY <2>1, <1>c, <1>d DEF FreeFile
  <2>4. md' = md /\ versions' = versions
    BY <1>4 DEF OpenFile
  <2>5. says' \in [File -> Text \cup {Blank}] /\ (md # NoInode => says'[md] = says[md])
    BY <1>d, <2>1, <2>3 DEF Inodes
  <2>6. Free(x) \/ Relies(x, md', mdTmp', says', versions')
    BY <2>1, <2>2, <2>3, <2>4, <2>5 DEF Free, Relies, WriteType, Kept
  <2>7. /\ write' \in [Writer -> WriteType] /\ write'[w] = x
        /\ \A v \in Writer : v # w => Free(write'[v])
    BY <1>a, <2>1, <2>2, Across
  <2> HIDE DEF x
  <2> QED BY <1>d, <2>1, <2>3, <2>4, <2>5, <2>6, <2>7 DEF Kept, ProfileTypeOK, WriteType, Inodes
<1>5. ASSUME NEW w \in Writer, WriteFile(w) PROVE Kept'
  <2> DEFINE x == [write[w] EXCEPT !.at = "rename", !.open = NoInode]
             f == write[w].open
  <2>1. write[w] \in WriteType /\ write[w].at = "write" /\ x \in WriteType
    BY <1>a, <1>5 DEF WriteFile, WriteAt, WriteType, Inodes
  <2>2. says' = [says EXCEPT ![f] = write[w].text] /\ StepAcross(w, x) /\ UNCHANGED <<md, mdTmp, versions>>
    BY <1>5 DEF WriteFile
  <2>3. says' \in [File -> Text \cup {Blank}]
    BY <1>d, <2>1, <2>2 DEF WriteType
  <2>4. ASSUME ~Free(x) PROVE Relies(x, md', mdTmp', says', versions')
    <3>1. Relies(write[w], md, mdTmp, says, versions)
      BY <2>1, <2>4 DEF Free, Kept, WriteType
    <3>2. f = mdTmp /\ f \in File
      BY <1>d, <2>1, <3>1 DEF Relies, Inodes
    <3>3. says'[mdTmp] = write[w].text /\ (md # NoInode => says'[md] = says[md])
      BY <1>d, <2>2, <3>2 DEF Inodes
    <3>4. x.at = "rename" /\ x.text = write[w].text
      BY <2>1 DEF WriteType
    <3> HIDE DEF x
    <3> QED BY <1>c, <2>1, <2>2, <3>1, <3>2, <3>3, <3>4 DEF Relies
  <2>5. /\ write' \in [Writer -> WriteType] /\ write'[w] = x
        /\ \A v \in Writer : v # w => Free(write'[v])
    BY <1>a, <2>1, <2>2, Across
  <2> HIDE DEF x
  <2> QED BY <1>d, <2>2, <2>3, <2>4, <2>5 DEF Kept, ProfileTypeOK, WriteType, Inodes
<1>6. ASSUME NEW w \in Writer, RenameFile(w) \/ RenameFails(w) PROVE Kept'
  <2>1. StepAcross(w, NoWrite)
    BY <1>6 DEF RenameFile, RenameFails
  <2>2. write' \in [Writer -> WriteType] /\ \A v \in Writer : Free(write'[v])
    BY <1>a, <1>b, <2>1, Across
  <2>3. says' \in [File -> Text \cup {Blank}]
    BY <1>6, <1>d DEF RenameFile, RenameFails, Unnamed
  <2>4. md' \in Inodes /\ mdTmp' = NoInode /\ versions' = versions
    BY <1>6, <1>d DEF RenameFile, RenameFails, Inodes
  <2> QED BY <1>d, <2>2, <2>3, <2>4 DEF Kept, ProfileTypeOK, WriteType, Inodes
<1>7. ASSUME NEW w \in Writer, Stops(w) PROVE Kept'
  BY <1>7, <1>b, <1>d, Alone DEF Stops, Drop
<1>8. CASE EditByHand
  <2>1. PICK t \in Text, f \in File :
          /\ IF md = NoInode THEN FreeFile(f) ELSE f = md
          /\ md' = f
          /\ says' = [says EXCEPT ![f] = t]
    BY <1>8 DEF EditByHand
  <2>2. \A v \in Writer : Crossed(v) \in WriteType /\ Free(Crossed(v))
    BY <1>a DEF Crossed, WriteAt, WriteType, Free
  <2>3. write' \in [Writer -> WriteType] /\ \A v \in Writer : Free(write'[v])
    BY <1>8, <2>2 DEF EditByHand
  <2>4. f # mdTmp /\ says' \in [File -> Text \cup {Blank}] /\ UNCHANGED <<mdTmp, versions>>
    BY <1>8, <1>c, <1>d, <2>1 DEF EditByHand, FreeFile
  <2> QED BY <1>d, <2>1, <2>3, <2>4 DEF Kept, ProfileTypeOK, WriteType, Inodes
<1>9. CASE ProfileServerStops
  <2>1. write' \in [Writer -> WriteType] /\ \A v \in Writer : Free(write'[v])
    BY <1>9, <1>b DEF ProfileServerStops
  <2> QED BY <1>9, <1>d, <2>1 DEF ProfileServerStops, Kept, ProfileTypeOK, WriteType, Inodes
<1>10. CASE UNCHANGED profileVars
  BY <1>10 DEF profileVars, Kept, ProfileTypeOK
<1> QED BY <1>1, <1>2, <1>3, <1>4, <1>5, <1>6, <1>7, <1>8, <1>9, <1>10 DEF ProfileNext

\* ReplacedIsKept: for any number of requests, texts and inodes.
THEOREM ProfilesAreKept == ProfileSpec => ReplacedIsKept
<1>1. Kept /\ [ProfileNext]_profileVars =>
        [\A w \in Writer :
           RenameFile(w) /\ ~write[w].crossed =>
             /\ says'[md'] = write[w].text
             /\ md # NoInode => says[md] \in versions \cup {write[w].text}]_profileVars
  <2> SUFFICES ASSUME Kept, NEW w \in Writer, RenameFile(w), ~write[w].crossed
               PROVE  /\ says'[md'] = write[w].text
                      /\ md # NoInode => says[md] \in versions \cup {write[w].text}
    OBVIOUS
  <2>1. ~Free(write[w]) /\ write[w].at = "rename"
    BY DEF RenameFile, WriteAt, Free
  <2>2. Relies(write[w], md, mdTmp, says, versions)
    BY <2>1 DEF Kept
  <2>3. mdTmp \in File /\ mdTmp # md /\ md' = mdTmp /\ says'[mdTmp] = says[mdTmp]
    BY DEF RenameFile, Unnamed, Kept, ProfileTypeOK
  <2> QED BY <2>1, <2>2, <2>3 DEF Relies
<1> QED BY <1>1, KeptInit, KeptStep, PTL DEF ProfileSpec, ReplacedIsKept

-----------------------------------------------------------------------------
(* The parts in one behaviour.                                             *)

\* Whichever part acts, it is as it would be on its own.
ServerInv ==
  /\ acting = "publishing" => TypeOK
  /\ acting = "settings" => SettingsTypeOK
  /\ acting = "access" => Approvals
  /\ acting = "sessions" => Tickets
  /\ acting = "feeds" => Clicks
  /\ acting = "profile" => Kept

\* ServerTypeOK: for any constants of the parts.
THEOREM ServerTypes == ServerSpec => []ServerTypeOK
<1>1. ServerInit => ServerInv
  BY TypeInit, TypesInit, ApprovalsInit, TicketsInit, FeedsTypesInit, KeptInit DEF ServerInit, ServerInv
<1>2. ServerInv /\ [ServerNext]_serverVars => ServerInv'
  <2> SUFFICES ASSUME ServerInv, [ServerNext]_serverVars PROVE ServerInv'
    OBVIOUS
  <2>1. acting' = acting
    BY DEF ServerNext, serverVars
  <2>2. acting = "publishing" => [Next]_vars
    BY DEF ServerNext, serverVars, partVars, PublishingActs, SettingsAct, AccessActs, SessionsAct,
           FeedsAct, ProfileActs
  <2>3. acting = "settings" => [SettingsNext]_settingsVars
    BY DEF ServerNext, serverVars, partVars, PublishingActs, SettingsAct, AccessActs, SessionsAct,
           FeedsAct, ProfileActs
  <2>4. acting = "access" => [AccessNext]_accessVars
    BY DEF ServerNext, serverVars, partVars, PublishingActs, SettingsAct, AccessActs, SessionsAct,
           FeedsAct, ProfileActs
  <2>5. acting = "sessions" => [SessionsNext]_sessionVars
    BY DEF ServerNext, serverVars, partVars, PublishingActs, SettingsAct, AccessActs, SessionsAct,
           FeedsAct, ProfileActs
  <2>6. acting = "feeds" => [FeedsNext]_feedsVars
    BY DEF ServerNext, serverVars, partVars, PublishingActs, SettingsAct, AccessActs, SessionsAct,
           FeedsAct, ProfileActs
  <2>7. acting = "profile" => [ProfileNext]_profileVars
    BY DEF ServerNext, serverVars, partVars, PublishingActs, SettingsAct, AccessActs, SessionsAct,
           FeedsAct, ProfileActs
  <2> QED BY <2>1, <2>2, <2>3, <2>4, <2>5, <2>6, <2>7, TypeStep, TypesStep, ApprovalsStep, TicketsStep,
             FeedsTypesStep, KeptStep DEF ServerInv
<1>3. ServerInv => ServerTypeOK
  BY DEF ServerInv, ServerTypeOK, Approvals, Tickets, Clicks, Kept
<1> QED BY <1>1, <1>2, <1>3, PTL DEF ServerSpec
===============================================================================
