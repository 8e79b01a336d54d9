------------------------------- MODULE Interests -------------------------------
(***************************************************************************)
(* Standing interests: the rows the operator adds, files and deletes, and  *)
(* the work that reads them, waits for a model, and writes to their ids    *)
(* afterwards: a run that embeds and matches them, a categorizer, and the  *)
(* one-time import.                                                        *)
(*                                                                         *)
(* A name stands for all spellings of it, which are unique without regard  *)
(* to case.  The category a model (or a theme of the import) gives a name  *)
(* is told by that name, so that a wrong filing shows.                     *)
(***************************************************************************)
EXTENDS Naturals, FiniteSets

CONSTANTS
  Subject,      \* names of interests
  NoSubject,    \* no name, no category
  ByHand,       \* a category the operator typed
  Filer,        \* categorizers: one of a run and one of a job may overlap
  MaxIds        \* bound on ids ever drawn

ASSUME InterestsAssumption ==
  /\ NoSubject \notin Subject /\ ByHand \notin Subject \cup {NoSubject}
  /\ MaxIds \in Nat \ {0}

Id == 1..MaxIds

VARIABLES
  lastId,     \* the id AUTOINCREMENT drew last
  named,      \* named[i]: the name of interest i, NoSubject when there is none
  filed,      \* filed[i]: its category
  matched,    \* matched[i]: the name its article_interests rows were scored for
  vectors,    \* names in interest_embeddings
  matcher,    \* a run or a backfill, and the names it read
  filer,      \* filer[c]: a categorizer, and what it read
  importing   \* the import, and what it added

interestsVars == <<lastId, named, filed, matched, vectors, matcher, filer, importing>>

NoNames == [i \in Id |-> NoSubject]
Asleep == [at |-> "idle", read |-> NoNames, have |-> {}]

InterestsInit ==
  /\ lastId = 0
  /\ named = NoNames /\ filed = NoNames /\ matched = NoNames
  /\ vectors = {}
  /\ matcher = Asleep
  /\ filer = [c \in Filer |-> Asleep]
  /\ importing = Asleep

Present == {i \in Id : named[i] # NoSubject}
Names == {named[i] : i \in Present}
Read(job) == {i \in Id : job.read[i] # NoSubject}
Only(f, S) == [i \in Id |-> IF i \in S THEN f[i] ELSE NoSubject]

-----------------------------------------------------------------------------
(* add, set_category, delete.                                              *)

\* Faulty variant: without AUTOINCREMENT the highest id is drawn again.
InsertReusing(n, category, i) ==
  /\ n \notin Names /\ i = 1 + Cardinality({k \in Id : \E j \in Present : k <= j})
  /\ lastId' = i
  /\ named' = [named EXCEPT ![i] = n]
  /\ filed' = [filed EXCEPT ![i] = category]

\* INSERT OR IGNORE: an existing name is left as it is.
Insert(n, category, i) ==
  /\ n \notin Names /\ i = lastId + 1
  /\ lastId' = i
  /\ named' = [named EXCEPT ![i] = n]
  /\ filed' = [filed EXCEPT ![i] = category]

AddInterest ==
  /\ \E n \in Subject, i \in Id, category \in {NoSubject, ByHand} : Insert(n, category, i)
  /\ UNCHANGED <<matched, vectors, matcher, filer, importing>>

\* UPDATE ... WHERE id: nothing happens to a row that is gone.
FileRow(i, category) == filed' = IF i \in Present THEN [filed EXCEPT ![i] = category] ELSE filed

SetCategory ==
  /\ \E i \in Present, category \in {NoSubject, ByHand} : FileRow(i, category)
  /\ UNCHANGED <<lastId, named, matched, vectors, matcher, filer, importing>>

\* One transaction: the row, by cascade its matches, and its vector.
DeleteInterest(i) ==
  /\ i \in Present
  /\ named' = [named EXCEPT ![i] = NoSubject]
  /\ filed' = [filed EXCEPT ![i] = NoSubject]
  /\ matched' = [matched EXCEPT ![i] = NoSubject]
  /\ vectors' = vectors \ {named[i]}
  /\ UNCHANGED <<lastId, matcher, filer, importing>>

-----------------------------------------------------------------------------
(* A run or a backfill, under the run lock: list, vectors, matches.        *)

ListInterests ==
  /\ matcher.at = "idle"
  /\ matcher' = [at |-> "embed", read |-> named, have |-> {}]
  /\ UNCHANGED <<lastId, named, filed, matched, vectors, filer, importing>>

\* EmbeddingService::interests: what is cached and what the provider answers.
\* A vector that comes after its interest was deleted stays in the cache.
EmbedInterests ==
  /\ matcher.at = "embed"
  /\ LET wanted == {matcher.read[i] : i \in Read(matcher)}
     IN \E got \in SUBSET (wanted \ vectors) :
          /\ vectors' = vectors \cup got
          /\ matcher' = [matcher EXCEPT !.at = "write", !.have = (wanted \cap vectors) \cup got]
  /\ UNCHANGED <<lastId, named, filed, matched, filer, importing>>

\* write_matches: one transaction by id, for interests some article matched.
\* A row for an interest that is gone breaks the foreign key, and none is
\* written.
WriteMatches ==
  /\ matcher.at = "write"
  /\ \E hits \in SUBSET {i \in Read(matcher) : matcher.read[i] \in matcher.have} :
       matched' = IF hits \subseteq Present
                  THEN [i \in Id |-> IF i \in hits THEN matcher.read[i] ELSE matched[i]]
                  ELSE matched
  /\ matcher' = Asleep
  /\ UNCHANGED <<lastId, named, filed, vectors, filer, importing>>

-----------------------------------------------------------------------------
(* categorize: the uncategorized rows, one call, one update per answer.    *)

ListUncategorized(c) ==
  /\ filer[c].at = "idle"
  /\ LET pending == Only(named, {i \in Present : filed[i] = NoSubject})
     IN /\ pending # NoNames
        /\ filer' = [filer EXCEPT ![c] = [Asleep EXCEPT !.at = "file", !.read = pending]]
  /\ UNCHANGED <<lastId, named, filed, matched, vectors, matcher, importing>>

\* The model answers in any order; other names, second answers for an
\* interest and categories too long are passed over.
FileAnswer(c) ==
  /\ filer[c].at = "file"
  /\ \E i \in Read(filer[c]) :
       /\ FileRow(i, filer[c].read[i])
       /\ filer' = [filer EXCEPT ![c].read[i] = NoSubject]
  /\ UNCHANGED <<lastId, named, matched, vectors, matcher, importing>>

\* The answers are through, or the call failed, or the process died.
EndFiling(c) ==
  /\ filer[c].at = "file"
  /\ filer' = [filer EXCEPT ![c] = Asleep]
  /\ UNCHANGED <<lastId, named, filed, matched, vectors, matcher, importing>>

-----------------------------------------------------------------------------
(* `interests import`: the names of the OPML file one by one, then the     *)
(* themes the built-in list knows.                                         *)

ImportName ==
  /\ importing.at = "idle"
  /\ \E n \in Subject, i \in Id :
       /\ Insert(n, NoSubject, i)
       /\ importing' = [importing EXCEPT !.read[i] = n]
  /\ UNCHANGED <<matched, vectors, matcher, filer>>

ImportTheme ==
  /\ \E i \in Read(importing) :
       /\ FileRow(i, importing.read[i])
       /\ importing' = [at |-> "themes", read |-> [importing.read EXCEPT ![i] = NoSubject], have |-> {}]
  /\ UNCHANGED <<lastId, named, matched, vectors, matcher, filer>>

EndImport ==
  /\ importing # Asleep /\ importing' = Asleep
  /\ UNCHANGED <<lastId, named, filed, matched, vectors, matcher, filer>>

MatcherStops ==
  /\ matcher.at # "idle" /\ matcher' = Asleep
  /\ UNCHANGED <<lastId, named, filed, matched, vectors, filer, importing>>

InterestsNext ==
  \/ AddInterest \/ SetCategory \/ \E i \in Id : DeleteInterest(i)
  \/ ListInterests \/ EmbedInterests \/ WriteMatches \/ MatcherStops
  \/ \E c \in Filer : ListUncategorized(c) \/ FileAnswer(c) \/ EndFiling(c)
  \/ ImportName \/ ImportTheme \/ EndImport

InterestsSpec == InterestsInit /\ [][InterestsNext]_interestsVars

-----------------------------------------------------------------------------
\* Types of the variables.
JobType(places) == [at : places, read : [Id -> Subject \cup {NoSubject}], have : SUBSET Subject]

InterestsTypeOK ==
  /\ lastId \in 0..MaxIds
  /\ named \in [Id -> Subject \cup {NoSubject}]
  /\ filed \in [Id -> Subject \cup {NoSubject, ByHand}]
  /\ matched \in [Id -> Subject \cup {NoSubject}]
  /\ vectors \subseteq Subject
  /\ matcher \in JobType({"idle", "embed", "write"})
  /\ filer \in [Filer -> JobType({"idle", "file"})]
  /\ importing \in JobType({"idle", "themes"})

\* Work done for a name reaches only the interest of that name: whatever was
\* deleted, added again or filed while a model was asked, no interest gets
\* the category or the matches of another, and none has any when it is gone.
WorkStaysWithItsName ==
  \A i \in Id :
    /\ matched[i] \in {NoSubject, named[i]}
    /\ filed[i] \in {NoSubject, ByHand, named[i]}
    /\ named[i] = NoSubject => filed[i] = NoSubject
=============================================================================
