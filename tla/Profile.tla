--------------------------------- MODULE Profile ---------------------------------
(***************************************************************************)
(* The editor of profile.md on the dashboard: a save or a restore records  *)
(* the text it replaces as a version, writes a temporary file and renames  *)
(* it.  Handlers run on several threads, the temporary file has one name   *)
(* for all of them, and the operator edits profile.md by hand as well.     *)
(*                                                                         *)
(* A file is an inode; reading, opening, writing and renaming one are      *)
(* steps, and so is the statement that records a version.                  *)
(***************************************************************************)
EXTENDS Naturals

CONSTANTS
  Writer,      \* requests in flight
  Text,        \* profiles
  Blank,       \* what a file says before it is written
  MaxFiles     \* inodes that can exist at one time

ASSUME ProfileAssumption == Blank \notin Text /\ MaxFiles \in Nat \ {0}

File == 1..MaxFiles
NoInode == 0

VARIABLES
  md, mdTmp,   \* the inodes named profile.md and profile.md.tmp
  says,        \* what the inodes say
  versions,    \* profile_versions: the texts recorded
  write        \* write[w]: where request w is, its text, the text it read, its
               \* open file, and whether others wrote since it read (history)

profileVars == <<md, mdTmp, says, versions, write>>

NoWrite == [at |-> "idle", text |-> Blank, previous |-> Blank, open |-> NoInode, crossed |-> FALSE]

ProfileInit ==
  /\ md \in {NoInode, 1} /\ mdTmp = NoInode
  /\ \E t \in Text : says = [f \in File |-> IF f = md THEN t ELSE Blank]
  /\ versions = {}
  /\ write = [w \in Writer |-> NoWrite]

WriteAt(w, place) == write[w].at = place
Step(w, place) == write' = [write EXCEPT ![w].at = place]
Drop(w) == write' = [write EXCEPT ![w] = NoWrite]

\* The files change under every request that has read the previous text.
Crossed(v) ==
  IF WriteAt(v, "idle") \/ WriteAt(v, "read") THEN write[v] ELSE [write[v] EXCEPT !.crossed = TRUE]

\* Request w has changed a file, and is now as given.
StepAcross(w, then) == write' = [v \in Writer |-> IF v = w THEN then ELSE Crossed(v)]

-----------------------------------------------------------------------------
(* save and restore.                                                       *)

\* The text typed differs from the one on file.
SaveProfile(w) ==
  /\ WriteAt(w, "idle")
  /\ \E t \in Text :
       /\ md # NoInode => says[md] # t
       /\ write' = [write EXCEPT ![w] = [NoWrite EXCEPT !.at = "read", !.text = t]]
  /\ UNCHANGED <<md, mdTmp, says, versions>>

\* Faulty variant: the text a restore replaces is not recorded.
RestoreUnrecorded(w) ==
  /\ WriteAt(w, "idle")
  /\ \E t \in versions \cap Text : write' = [write EXCEPT ![w] = [NoWrite EXCEPT !.at = "open", !.text = t]]
  /\ UNCHANGED <<md, mdTmp, says, versions>>

\* A version that is empty fails validation.
RestoreVersion(w) ==
  /\ WriteAt(w, "idle")
  /\ \E t \in versions \cap Text : write' = [write EXCEPT ![w] = [NoWrite EXCEPT !.at = "read", !.text = t]]
  /\ UNCHANGED <<md, mdTmp, says, versions>>

-----------------------------------------------------------------------------
(* replace_profile and write_atomically.                                   *)

\* The file is read again here, later than when the request was accepted.
ReadPrevious(w) ==
  /\ WriteAt(w, "read")
  /\ IF md # NoInode /\ says[md] # write[w].text
     THEN write' = [write EXCEPT ![w].at = "record", ![w].previous = says[md]]
     ELSE Step(w, "open")
  /\ UNCHANGED <<md, mdTmp, says, versions>>

RecordVersion(w) ==
  /\ WriteAt(w, "record")
  /\ versions' = versions \cup {write[w].previous}
  /\ write' = [write EXCEPT ![w].at = "open", ![w].previous = Blank]
  /\ UNCHANGED <<md, mdTmp, says>>

FreeFile(f) ==
  LET used == {md, mdTmp} \cup {write[w].open : w \in Writer}
  IN f \notin used /\ \A g \in File : g < f => g \in used

\* fs::write creates the temporary file, or empties the one that is there.
OpenFile(w) ==
  /\ WriteAt(w, "open")
  /\ \E f \in File :
       /\ IF mdTmp = NoInode THEN FreeFile(f) ELSE f = mdTmp
       /\ mdTmp' = f
       /\ says' = [says EXCEPT ![f] = Blank]
       /\ StepAcross(w, [write[w] EXCEPT !.at = "write", !.open = f])
  /\ UNCHANGED <<md, versions>>

WriteFile(w) ==
  /\ WriteAt(w, "write")
  /\ says' = [says EXCEPT ![write[w].open] = write[w].text]
  /\ StepAcross(w, [write[w] EXCEPT !.at = "rename", !.open = NoInode])
  /\ UNCHANGED <<md, mdTmp, versions>>

Unnamed(f) == says' = [g \in File |-> IF g = f THEN Blank ELSE says[g]]

RenameFile(w) ==
  /\ WriteAt(w, "rename") /\ mdTmp # NoInode
  /\ md' = mdTmp /\ mdTmp' = NoInode /\ Unnamed(md)
  /\ StepAcross(w, NoWrite)
  /\ UNCHANGED versions

\* No such name to rename, or permissions cannot be set: clean up.
RenameFails(w) ==
  /\ WriteAt(w, "rename")
  /\ mdTmp' = NoInode /\ Unnamed(mdTmp)
  /\ StepAcross(w, NoWrite)
  /\ UNCHANGED <<md, versions>>

\* Reading, recording or writing failed, and the request ends with an error.
Stops(w) ==
  /\ ~WriteAt(w, "idle") /\ ~WriteAt(w, "rename")
  /\ Drop(w)
  /\ UNCHANGED <<md, mdTmp, says, versions>>

-----------------------------------------------------------------------------
\* The operator writes profile.md by hand.
EditByHand ==
  /\ \E t \in Text, f \in File :
       /\ IF md = NoInode THEN FreeFile(f) ELSE f = md
       /\ md' = f
       /\ says' = [says EXCEPT ![f] = t]
  /\ write' = [v \in Writer |-> Crossed(v)]
  /\ UNCHANGED <<mdTmp, versions>>

\* The server stops and starts; the temporary file stays as it is.
ProfileServerStops ==
  /\ write' = [w \in Writer |-> NoWrite]
  /\ UNCHANGED <<md, mdTmp, says, versions>>

ProfileNext ==
  \/ \E w \in Writer :
       \/ SaveProfile(w) \/ RestoreVersion(w) \/ ReadPrevious(w) \/ RecordVersion(w)
       \/ OpenFile(w) \/ WriteFile(w) \/ RenameFile(w) \/ RenameFails(w) \/ Stops(w)
  \/ EditByHand \/ ProfileServerStops

ProfileSpec == ProfileInit /\ [][ProfileNext]_profileVars

-----------------------------------------------------------------------------
\* Types of the variables; the two names are never one file.
ProfileTypeOK ==
  /\ md \in File \cup {NoInode} /\ mdTmp \in File \cup {NoInode}
  /\ md = mdTmp => md = NoInode
  /\ says \in [File -> Text \cup {Blank}]
  /\ versions \subseteq Text \cup {Blank}
  /\ write \in [Writer -> [at : {"idle", "read", "record", "open", "write", "rename"},
                           text : Text \cup {Blank}, previous : Text \cup {Blank},
                           open : File \cup {NoInode}, crossed : BOOLEAN]]

\* A save that no other write crosses leaves its own text on file, whole, and
\* the text it replaced in the versions, whatever the saves, edits and stops
\* before it left behind.
ReplacedIsKept ==
  [][\A w \in Writer :
       RenameFile(w) /\ ~write[w].crossed =>
         /\ says'[md'] = write[w].text
         /\ md # NoInode => says[md] \in versions \cup {write[w].text}]_profileVars
=================================================================================
