----------------------------- MODULE StagesProofs -----------------------------
(***************************************************************************)
(* The stages of a run, and what works beside them: ingest, the clusters   *)
(* of its entries, the standing interests and the selection: one section   *)
(* per component, and the types of all of them in one behaviour.           *)
(***************************************************************************)
EXTENDS MCPipeline, BatchesProofs, FiniteOrders

-----------------------------------------------------------------------------
(* Interests.                                                              *)

\* A name that was read with an id is still the name of that id, or the id is
\* nobody's: ids are never drawn twice.
Knows(job) == \A i \in Id : job.read[i] # NoSubject => i <= lastId /\ named[i] \in {NoSubject, job.read[i]}

Reading ==
  /\ InterestsTypeOK
  /\ \A i \in Id : i > lastId => named[i] = NoSubject
  /\ Knows(matcher) /\ Knows(importing) /\ \A c \in Filer : Knows(filer[c])
  /\ WorkStaysWithItsName

LEMMA ReadingInit == InterestsInit => Reading
<1> SUFFICES ASSUME InterestsInit PROVE Reading
  OBVIOUS
<1> USE InterestsAssumption DEF InterestsInit, NoNames, Asleep
<1>1. NoNames \in [Id -> Subject \cup {NoSubject}] /\ \A i \in Id : NoNames[i] = NoSubject
  OBVIOUS
<1>2. InterestsTypeOK
  BY <1>1 DEF InterestsTypeOK, JobType
<1> QED BY <1>1, <1>2 DEF Reading, Knows, WorkStaysWithItsName

\* A new row has an id above all that anybody read.
LEMMA Inserted ==
  ASSUME Reading, NEW n \in Subject, NEW i \in Id, NEW category \in {NoSubject, ByHand}, Insert(n, category, i)
  PROVE  /\ lastId' \in 0..MaxIds
         /\ named' \in [Id -> Subject \cup {NoSubject}]
         /\ filed' \in [Id -> Subject \cup {NoSubject, ByHand}]
         /\ \A k \in Id : k > lastId' => named'[k] = NoSubject
         /\ \A k \in Id : k <= lastId => named'[k] = named[k] /\ filed'[k] = filed[k]
         /\ lastId' = lastId + 1 /\ i = lastId' /\ named'[i] = n /\ filed'[i] = category /\ named[i] = NoSubject
         /\ \A k \in Id : k > lastId /\ k # i => named'[k] = NoSubject /\ filed'[k] = filed[k]
BY InterestsAssumption DEF Reading, InterestsTypeOK, Insert, Id

\* A category given to a row for its own name, or by hand.
LEMMA Filing ==
  ASSUME Reading, NEW i \in Id, NEW category \in Subject \cup {NoSubject, ByHand},
         i \in Present => category \in {NoSubject, ByHand, named[i]},
         FileRow(i, category), UNCHANGED <<named, matched>>
  PROVE  filed' \in [Id -> Subject \cup {NoSubject, ByHand}] /\ WorkStaysWithItsName'
BY DEF Reading, InterestsTypeOK, FileRow, Present, WorkStaysWithItsName

LEMMA ReadingStep == Reading /\ [InterestsNext]_interestsVars => Reading'
<1> SUFFICES ASSUME Reading, [InterestsNext]_interestsVars PROVE Reading'
  OBVIOUS
<1> USE InterestsAssumption
<1>1. CASE AddInterest
  <2>1. PICK n \in Subject, i \in Id, category \in {NoSubject, ByHand} : Insert(n, category, i)
    BY <1>1 DEF AddInterest
  <2>2. UNCHANGED <<matched, vectors, matcher, filer, importing>>
    BY <1>1 DEF AddInterest
  <2>3. lastId \in 0..MaxIds /\ \A k \in Id : k \in Nat
    BY DEF Reading, InterestsTypeOK, Id
  <2> QED BY <2>1, <2>2, <2>3, Inserted DEF Reading, InterestsTypeOK, Knows, WorkStaysWithItsName
<1>2. CASE SetCategory
  <2>1. PICK i \in Present, category \in {NoSubject, ByHand} : FileRow(i, category)
    BY <1>2 DEF SetCategory
  <2>2. UNCHANGED <<lastId, named, matched, vectors, matcher, filer, importing>>
    BY <1>2 DEF SetCategory
  <2>3. filed' \in [Id -> Subject \cup {NoSubject, ByHand}] /\ WorkStaysWithItsName'
    BY <2>1, <2>2, Filing DEF Present
  <2> QED BY <2>2, <2>3 DEF Reading, InterestsTypeOK, Knows
<1>3. ASSUME NEW i \in Id, DeleteInterest(i) PROVE Reading'
  BY <1>3 DEF DeleteInterest, Reading, InterestsTypeOK, Knows, WorkStaysWithItsName
<1>4. CASE ListInterests
  <2>1. matcher' \in JobType({"idle", "embed", "write"}) /\ matcher'.read = named
    BY <1>4 DEF ListInterests, Reading, InterestsTypeOK, JobType
  <2>2. \A i \in Id : named[i] # NoSubject => i <= lastId
    BY DEF Reading, InterestsTypeOK, Id
  <2> QED BY <1>4, <2>1, <2>2 DEF ListInterests, Reading, InterestsTypeOK, Knows, WorkStaysWithItsName
<1>5. CASE EmbedInterests
  <2>1. PICK got \in SUBSET {matcher.read[i] : i \in Read(matcher)} : vectors' = vectors \cup got
    BY <1>5 DEF EmbedInterests
  <2>2. {matcher.read[i] : i \in Read(matcher)} \subseteq Subject
    BY DEF Read, Reading, InterestsTypeOK, JobType
  <2>3. \E have \in SUBSET Subject : matcher' = [matcher EXCEPT !.at = "write", !.have = have]
    BY <1>5, <2>2 DEF EmbedInterests
  <2>4. matcher' \in JobType({"idle", "embed", "write"}) /\ matcher'.read = matcher.read
    BY <2>3 DEF Reading, InterestsTypeOK, JobType
  <2> QED BY <1>5, <2>1, <2>2, <2>4 DEF EmbedInterests, Reading, InterestsTypeOK, Knows, WorkStaysWithItsName
<1>6. CASE WriteMatches
  <2>1. PICK hits \in SUBSET Read(matcher) :
          matched' = IF hits \subseteq Present
                     THEN [i \in Id |-> IF i \in hits THEN matcher.read[i] ELSE matched[i]] ELSE matched
    BY <1>6 DEF WriteMatches
  <2>2. matched' \in [Id -> Subject \cup {NoSubject}] /\ \A i \in Id : matched'[i] \in {NoSubject, named[i]}
    BY <2>1 DEF Reading, InterestsTypeOK, JobType, Knows, WorkStaysWithItsName, Present, Read
  <2>3. matcher' \in JobType({"idle", "embed", "write"}) /\ \A i \in Id : matcher'.read[i] = NoSubject
    BY <1>6 DEF WriteMatches, Asleep, NoNames, JobType
  <2> QED BY <1>6, <2>2, <2>3 DEF WriteMatches, Reading, InterestsTypeOK, Knows, WorkStaysWithItsName
<1>7. ASSUME NEW c \in Filer, ListUncategorized(c) PROVE Reading'
  <2> DEFINE later == Only(named, {i \in Present : filed[i] = NoSubject})
             fresh == [Asleep EXCEPT !.at = "file", !.read = later]
  <2>1. later \in [Id -> Subject \cup {NoSubject}] /\ \A i \in Id : later[i] \in {NoSubject, named[i]}
    BY DEF Only, Reading, InterestsTypeOK
  <2> HIDE DEF later
  <2>2. fresh \in JobType({"idle", "file"}) /\ fresh.read = later
    <3>1. Asleep \in [at : {"idle"}, read : [Id -> Subject \cup {NoSubject}], have : SUBSET Subject]
      BY DEF Asleep, NoNames
    <3> QED BY <2>1, <3>1 DEF JobType
  <2> HIDE DEF fresh
  <2>3. /\ filer' = [filer EXCEPT ![c] = fresh]
        /\ filer' \in [Filer -> JobType({"idle", "file"})]
    BY <1>7, <2>2 DEF ListUncategorized, Reading, InterestsTypeOK, later, fresh
  <2>4. \A b \in Filer, i \in Id : filer'[b].read[i] \in {NoSubject, filer[b].read[i], named[i]}
    BY <2>1, <2>2, <2>3 DEF Reading, InterestsTypeOK
  <2>5. \A i \in Id : named[i] # NoSubject => i <= lastId
    BY DEF Reading, InterestsTypeOK, Id
  <2>6. UNCHANGED <<lastId, named, filed, matched, vectors, matcher, importing>>
    BY <1>7 DEF ListUncategorized
  <2> QED BY <2>3, <2>4, <2>5, <2>6 DEF Reading, InterestsTypeOK, Knows, WorkStaysWithItsName
<1>8. ASSUME NEW c \in Filer, FileAnswer(c) PROVE Reading'
  <2>1. PICK i \in Id : /\ filer[c].read[i] # NoSubject
                        /\ FileRow(i, filer[c].read[i])
                        /\ filer' = [filer EXCEPT ![c].read[i] = NoSubject]
    BY <1>8 DEF FileAnswer, Read
  <2>2. UNCHANGED <<lastId, named, matched, vectors, matcher, importing>>
    BY <1>8 DEF FileAnswer
  <2>3. filer[c].read \in [Id -> Subject \cup {NoSubject}]
    BY DEF Reading, InterestsTypeOK, JobType
  <2>4. i \in Present => filer[c].read[i] = named[i]
    BY <2>1 DEF Reading, Knows, Present
  <2>5. filed' \in [Id -> Subject \cup {NoSubject, ByHand}] /\ WorkStaysWithItsName'
    BY <2>1, <2>2, <2>3, <2>4, Filing
  <2>6. filer' \in [Filer -> JobType({"idle", "file"})]
    BY <2>1 DEF Reading, InterestsTypeOK, JobType
  <2>7. \A b \in Filer, k \in Id : filer'[b].read[k] \in {NoSubject, filer[b].read[k]}
    BY <2>1 DEF Reading, InterestsTypeOK, JobType
  <2> QED BY <2>2, <2>5, <2>6, <2>7 DEF Reading, InterestsTypeOK, Knows
<1>9. ASSUME NEW c \in Filer, EndFiling(c) PROVE Reading'
  <2>1. \A i \in Id : Asleep.read[i] = NoSubject
    BY DEF Asleep, NoNames
  <2>2. Asleep \in JobType({"idle", "file"})
    BY DEF Asleep, NoNames, JobType
  <2>3. filer' \in [Filer -> JobType({"idle", "file"})]
    BY <1>9, <2>2 DEF EndFiling, Reading, InterestsTypeOK
  <2>4. \A b \in Filer, i \in Id : filer'[b].read[i] \in {NoSubject, filer[b].read[i]}
    BY <1>9, <2>1 DEF EndFiling, Reading, InterestsTypeOK
  <2> QED BY <1>9, <2>3, <2>4 DEF EndFiling, Reading, InterestsTypeOK, Knows, WorkStaysWithItsName
<1>10. CASE ImportName
  <2>1. PICK n \in Subject, i \in Id : Insert(n, NoSubject, i) /\ importing' = [importing EXCEPT !.read[i] = n]
    BY <1>10 DEF ImportName
  <2>2. UNCHANGED <<matched, vectors, matcher, filer>>
    BY <1>10 DEF ImportName
  <2>3. lastId \in 0..MaxIds /\ \A k \in Id : k \in Nat
    BY DEF Reading, InterestsTypeOK, Id
  <2>4. importing' \in JobType({"idle", "themes"})
    BY <2>1 DEF Reading, InterestsTypeOK, JobType
  <2>5. importing'.read[i] = n /\ \A k \in Id : k # i => importing'.read[k] = importing.read[k]
    BY <2>1 DEF Reading, InterestsTypeOK, JobType
  <2>6. Knows(importing)' /\ Knows(matcher)' /\ \A c \in Filer : Knows(filer[c])'
    BY <2>1, <2>2, <2>3, <2>5, Inserted DEF Reading, Knows
  <2>7. WorkStaysWithItsName'
    BY <2>1, <2>2, <2>3, Inserted DEF Reading, InterestsTypeOK, WorkStaysWithItsName
  <2> QED BY <2>1, <2>2, <2>4, <2>6, <2>7, Inserted DEF Reading, InterestsTypeOK
<1>11. CASE ImportTheme
  <2>1. PICK i \in Id : /\ importing.read[i] # NoSubject
                        /\ FileRow(i, importing.read[i])
                        /\ importing' = [at |-> "themes", read |-> [importing.read EXCEPT ![i] = NoSubject], have |-> {}]
    BY <1>11 DEF ImportTheme, Read
  <2>2. UNCHANGED <<lastId, named, matched, vectors, matcher, filer>>
    BY <1>11 DEF ImportTheme
  <2>3. importing.read \in [Id -> Subject \cup {NoSubject}]
    BY DEF Reading, InterestsTypeOK, JobType
  <2>4. i \in Present => importing.read[i] = named[i]
    BY <2>1 DEF Reading, Knows, Present
  <2>5. filed' \in [Id -> Subject \cup {NoSubject, ByHand}] /\ WorkStaysWithItsName'
    BY <2>1, <2>2, <2>3, <2>4, Filing
  <2>6. importing' \in JobType({"idle", "themes"})
    BY <2>1, <2>3 DEF JobType
  <2>7. \A k \in Id : importing'.read[k] \in {NoSubject, importing.read[k]}
    BY <2>1, <2>3
  <2> QED BY <2>2, <2>5, <2>6, <2>7 DEF Reading, InterestsTypeOK, Knows
<1>12. CASE EndImport \/ MatcherStops
  <2>1. \A i \in Id : Asleep.read[i] = NoSubject
    BY DEF Asleep, NoNames
  <2>2. Asleep \in JobType({"idle", "themes"}) /\ Asleep \in JobType({"idle", "embed", "write"})
    BY DEF Asleep, NoNames, JobType
  <2> QED BY <1>12, <2>1, <2>2
          DEF EndImport, MatcherStops, Reading, InterestsTypeOK, Knows, WorkStaysWithItsName
<1>13. CASE UNCHANGED interestsVars
  BY <1>13 DEF interestsVars, Reading, InterestsTypeOK, Knows, WorkStaysWithItsName
<1> QED
  BY <1>1, <1>2, <1>3, <1>4, <1>5, <1>6, <1>7, <1>8, <1>9, <1>10, <1>11, <1>12, <1>13 DEF InterestsNext

\* WorkStaysWithItsName: for any number of categorizers and interests, with
\* deletions and re-additions while models are asked.
THEOREM InterestsKeepTheirWork == InterestsSpec => []WorkStaysWithItsName
<1>1. Reading => WorkStaysWithItsName
  BY DEF Reading
<1> QED BY <1>1, ReadingInit, ReadingStep, PTL DEF InterestsSpec

-----------------------------------------------------------------------------
(* Deduplication.                                                          *)

\* The clusters share no URL, and an article has a URL of its cluster.
Partitioned ==
  /\ DedupeTypeOK
  /\ Grouped \subseteq 1..entries
  /\ \A i \in Slot : \A u \in clusters[i] : byUrl[u] = i
  /\ \A i \in Slot : idOf[i] # NoUrl => idOf[i] \in clusters[i]

LEMMA FewClusters == Partitioned => NewCluster \in 1..(entries + 1)
<1> SUFFICES ASSUME Partitioned PROVE NewCluster \in 1..(entries + 1)
  OBVIOUS
<1>1. IsFiniteSet(1..entries) /\ Cardinality(1..entries) = entries
  BY FS_Interval DEF Partitioned, DedupeTypeOK
<1>2. Cardinality(Grouped) <= entries /\ Cardinality(Grouped) \in Nat
  <2>1. Grouped \in SUBSET (1..entries)
    BY DEF Partitioned
  <2>2. IsFiniteSet(Grouped) /\ Cardinality(Grouped) <= Cardinality(1..entries)
    BY <1>1, <2>1, FS_Subset
  <2> QED BY <1>1, <2>2, FS_CardinalityType
<1> QED BY <1>2 DEF NewCluster, Partitioned, DedupeTypeOK

LEMMA PartitionedInit == DedupeInit => Partitioned
BY DedupeAssumption DEF DedupeInit, Partitioned, DedupeTypeOK, Grouped, Slot

LEMMA PartitionedStep == Partitioned /\ [DedupeNext]_dedupeVars => Partitioned'
<1> SUFFICES ASSUME Partitioned, [DedupeNext]_dedupeVars PROVE Partitioned'
  OBVIOUS
<1> USE DedupeAssumption DEF Partitioned, DedupeTypeOK
<1>1. ASSUME NEW u \in Url, NEW t \in TitleKey \cup {NoKey}, ClusterEntry(u, t) PROVE Partitioned'
  <2> DEFINE i == Place(u, t)
  <2>1. entries \in 0..MaxEntries /\ entries < MaxEntries /\ entries' = entries + 1
    BY <1>1 DEF ClusterEntry
  <2>2. i \in 1..(entries + 1) /\ i \in Slot /\ (byUrl[u] # 0 => i = byUrl[u])
    <3>1. byUrl[u] \in 0..entries /\ OfTitle(t) \in 0..entries
      BY DEF OfTitle
    <3> QED BY <2>1, <3>1, FewClusters DEF Place, Slot
  <2> HIDE DEF i
  <2>3. clusters' = [clusters EXCEPT ![i] = @ \cup {u}] /\ clusters' \in [Slot -> SUBSET Url]
    BY <1>1, <2>2 DEF ClusterEntry, i
  <2>4. byUrl' = [byUrl EXCEPT ![u] = IF @ = 0 THEN i ELSE @]
    BY <1>1 DEF ClusterEntry, i
  <2>5. byUrl'[u] = i /\ \A w \in Url : w # u => byUrl'[w] = byUrl[w]
    BY <2>2, <2>4
  <2>6. byUrl' \in [Url -> 0..entries']
    BY <2>1, <2>2, <2>4
  <2>7. byTitle' \in [TitleKey -> 0..entries']
    BY <1>1, <2>1, <2>2 DEF ClusterEntry, i
  <2>8. Grouped' \subseteq 1..entries'
    BY <2>1, <2>2, <2>3 DEF Grouped, Slot
  <2>9. \A k \in Slot : \A w \in clusters'[k] : byUrl'[w] = k
    BY <2>2, <2>3, <2>5, 0 \notin Slot DEF Slot
  <2>10. UNCHANGED <<idOf, known>>
    BY <1>1 DEF ClusterEntry
  <2> QED BY <2>1, <2>3, <2>6, <2>7, <2>8, <2>9, <2>10
<1>2. ASSUME NEW i \in Slot, PersistArticle(i) PROVE Partitioned'
  BY <1>2 DEF PersistArticle, Grouped
<1>3. CASE NextWindow
  BY <1>3 DEF NextWindow, NoClusters, Grouped, Slot
<1>4. CASE UNCHANGED dedupeVars
  BY <1>4 DEF dedupeVars, Grouped
<1> QED BY <1>1, <1>2, <1>3, <1>4 DEF DedupeNext

\* ArticlesKeptApart: for any entries, URLs and titles, in any order.
THEOREM ClustersAreArticles == DedupeSpec => []ArticlesKeptApart
<1>1. Partitioned => ArticlesKeptApart
  BY DEF Partitioned, ArticlesKeptApart
<1> QED BY <1>1, PartitionedInit, PartitionedStep, PTL DEF DedupeSpec

-----------------------------------------------------------------------------
(* Ingest.                                                                 *)

LEMMA Times ==
  /\ Hour \subseteq Nat /\ IsFiniteSet(Hour)
  /\ {MaxTime, HoursADay, Lookback, Delay, PageLimit, MaxPages} \subseteq Nat /\ MaxRemoved \in Nat
  /\ PageLimit > 0 /\ Delay <= Lookback /\ MaxTime > 0 /\ MaxPages > 0
<1>1. MaxTime \in Nat /\ Hour \subseteq Nat /\ IsFiniteSet(Hour)
  <2>1. MaxTime \in Nat /\ MaxTime \in Int /\ 1 \in Int
    BY IngestAssumption
  <2> QED BY <2>1, FS_Interval DEF Hour
<1>2. /\ {MaxTime, HoursADay, Lookback, Delay, PageLimit, MaxPages} \subseteq Nat /\ MaxRemoved \in Nat
      /\ PageLimit > 0 /\ Delay <= Lookback /\ MaxTime > 0 /\ MaxPages > 0
  BY IngestAssumption
<1> QED BY <1>1, <1>2

\* How many entries of M are newer than x, and the k newest.
Newer(M, x) == Cardinality({d \in M : d > x})
Recent(M, k) == {x \in M : Newer(M, x) < k}

LEMMA RankTypes ==
  ASSUME NEW M \in SUBSET Hour, NEW x
  PROVE  IsFiniteSet({d \in M : d > x}) /\ Newer(M, x) \in Nat /\ IsFiniteSet(M) /\ Cardinality(M) \in Nat
<1>1. IsFiniteSet(M)
  BY Times, FS_Subset
<1>2. {d \in M : d > x} \in SUBSET M
  OBVIOUS
<1> QED BY <1>1, <1>2, FS_Subset, FS_CardinalityType DEF Newer

LEMMA RecentCounts ==
  ASSUME NEW M \in SUBSET Hour, NEW k \in Nat
  PROVE  /\ Recent(M, k) \in SUBSET M /\ IsFiniteSet(Recent(M, k))
         /\ Cardinality(Recent(M, k)) \in Nat /\ Cardinality(Recent(M, k)) <= k
         /\ Recent(M, k) = M \/ Cardinality(Recent(M, k)) = k
<1> DEFINE newer == [x \in M |-> {d \in M : d > x}]
<1>1. IsFiniteSet(M) /\ \A x \in M : x \in Nat
  BY Times, FS_Subset
<1>2. Ordered(M, newer)
  <2>1. newer \in [M -> SUBSET M] /\ \A x \in M : x \notin newer[x]
    BY <1>1
  <2>2. \A x, y \in M : x # y => x \in newer[y] \/ y \in newer[x]
    BY <1>1
  <2>3. \A x, y \in M : y \in newer[x] => newer[y] \subseteq newer[x]
    BY <1>1
  <2> HIDE DEF newer
  <2> QED BY <2>1, <2>2, <2>3 DEF Ordered
<1>3. Recent(M, k) = FirstOf(M, newer, k)
  BY DEF Recent, FirstOf, Newer
<1> HIDE DEF newer
<1> QED BY <1>1, <1>2, <1>3, FirstOnes

LEMMA RecentGrows ==
  ASSUME NEW M \in SUBSET Hour, NEW k \in Nat, NEW j \in Nat, j <= k
  PROVE  Recent(M, j) \subseteq Recent(M, k)
<1> SUFFICES ASSUME NEW x \in M, Newer(M, x) < j PROVE Newer(M, x) < k
  BY DEF Recent
<1>1. Newer(M, x) \in Nat
  BY RankTypes
<1> QED BY <1>1

\* Between the k newest and the next limit there are no more than the limit,
\* and as many unless the entries run out.
LEMMA NextOnes ==
  ASSUME NEW M \in SUBSET Hour, NEW k \in Nat, NEW n \in Nat
  PROVE  LET next == Recent(M, k + n) \ Recent(M, k)
         IN  /\ IsFiniteSet(next) /\ Cardinality(next) \in Nat /\ Cardinality(next) <= n
             /\ Recent(M, k + n) = M \/ Cardinality(next) = n
             /\ Recent(M, k) = M \/ Cardinality(Recent(M, k)) = k
             /\ Recent(M, k + n) # M => k + n < Cardinality(M)
<1> DEFINE next == Recent(M, k + n) \ Recent(M, k)
<1>0. k + n \in Nat /\ k <= k + n
  OBVIOUS
<1>1. /\ IsFiniteSet(Recent(M, k)) /\ IsFiniteSet(Recent(M, k + n))
      /\ Cardinality(Recent(M, k)) \in Nat /\ Cardinality(Recent(M, k + n)) \in Nat
      /\ Cardinality(Recent(M, k)) <= k /\ Cardinality(Recent(M, k + n)) <= k + n
      /\ Recent(M, k) = M \/ Cardinality(Recent(M, k)) = k
      /\ Recent(M, k + n) = M \/ Cardinality(Recent(M, k + n)) = k + n
      /\ Recent(M, k) \in SUBSET M /\ Recent(M, k + n) \in SUBSET M
  BY <1>0, RecentCounts
<1>2. Recent(M, k) \subseteq Recent(M, k + n)
  BY <1>0, RecentGrows
<1>3. Recent(M, k + n) \cap Recent(M, k) = Recent(M, k)
  BY <1>2
<1>4. IsFiniteSet(next) /\ Cardinality(next) = Cardinality(Recent(M, k + n)) - Cardinality(Recent(M, k))
  <2>1. IsFiniteSet(next) /\ Cardinality(next) =
          Cardinality(Recent(M, k + n)) - Cardinality(Recent(M, k + n) \cap Recent(M, k))
    BY <1>1, FS_Difference, Zenon
  <2> QED BY <1>3, <2>1
<1>5. Cardinality(next) \in Nat
  BY <1>4, FS_CardinalityType
<1>6. CASE Recent(M, k) = M
  <2>1. next = {} /\ Recent(M, k + n) = M
    BY <1>1, <1>2, <1>6
  <2>2. Cardinality(next) = 0
    BY <2>1, FS_EmptySet
  <2>3. Cardinality(next) <= n
    BY <2>2
  <2> QED BY <1>4, <1>5, <1>6, <2>1, <2>3
<1>7. CASE Recent(M, k) # M
  <2>1. Cardinality(Recent(M, k)) = k
    BY <1>1, <1>7
  <2>2. Cardinality(next) <= n /\ (Recent(M, k + n) = M \/ Cardinality(next) = n)
    BY <1>1, <1>4, <2>1
  <2>3. ASSUME Recent(M, k + n) # M PROVE k + n < Cardinality(M)
    <3>1. IsFiniteSet(M) /\ Cardinality(M) \in Nat
      BY RankTypes
    <3>2. Cardinality(Recent(M, k + n)) <= Cardinality(M)
          /\ Cardinality(Recent(M, k + n)) # Cardinality(M)
      BY <1>1, <2>3, <3>1, FS_Subset
    <3> QED BY <1>1, <2>3, <3>1, <3>2
  <2> QED BY <1>4, <1>5, <2>1, <2>2, <2>3
<1> QED BY <1>6, <1>7

\* An entry that is found pushes others back, one that is removed lets at most
\* one in.
LEMMA FindPushes ==
  ASSUME NEW M \in SUBSET Hour, NEW W \in SUBSET Hour, M \subseteq W, NEW k \in Nat
  PROVE  Recent(W, k) \cap M \subseteq Recent(M, k)
<1> SUFFICES ASSUME NEW x \in M, Newer(W, x) < k PROVE Newer(M, x) < k
  BY DEF Recent
<1>1. {d \in M : d > x} \in SUBSET {d \in W : d > x}
  OBVIOUS
<1>2. Newer(M, x) <= Newer(W, x)
  BY <1>1, RankTypes, FS_Subset DEF Newer
<1>3. Newer(M, x) \in Nat /\ Newer(W, x) \in Nat
  BY RankTypes
<1> QED BY <1>2, <1>3

LEMMA RemovalLetsIn ==
  ASSUME NEW M \in SUBSET Hour, NEW e, NEW k \in Nat
  PROVE  /\ Recent(M \ {e}, k) \subseteq Recent(M, k + 1)
         /\ Cardinality(Recent(M, k + 1) \ Recent(M, k)) <= 1
         /\ IsFiniteSet(Recent(M, k + 1) \ Recent(M, k))
<1>1. ASSUME NEW x \in M, x # e, Newer(M \ {e}, x) < k PROVE Newer(M, x) < k + 1
  <2>1. {d \in M \ {e} : d > x} = {d \in M : d > x} \ {e} /\ IsFiniteSet({d \in M : d > x})
    BY RankTypes
  <2>2. Newer(M \ {e}, x) = Newer(M, x) \/ Newer(M \ {e}, x) = Newer(M, x) - 1
    BY <2>1, FS_RemoveElement DEF Newer
  <2>3. Newer(M, x) \in Nat
    BY RankTypes
  <2> QED BY <1>1, <2>2, <2>3
<1>2. Recent(M \ {e}, k) \subseteq Recent(M, k + 1)
  BY <1>1 DEF Recent
<1> QED BY <1>2, NextOnes

LEMMA PageIsNext ==
  ASSUME Matching \in SUBSET Hour, fetch.offset \in Nat
  PROVE  Page = Recent(Matching, fetch.offset + PageLimit) \ Recent(Matching, fetch.offset)
<1>1. PageLimit \in Nat
  BY Times
<1>2. ASSUME NEW e \in Matching
      PROVE  Newer(Matching, e) \in fetch.offset .. fetch.offset + PageLimit - 1 <=>
               Newer(Matching, e) < fetch.offset + PageLimit /\ ~(Newer(Matching, e) < fetch.offset)
  <2>1. Newer(Matching, e) \in Nat
    BY RankTypes
  <2> QED BY <1>1, <2>1
<1> QED BY <1>2 DEF Page, Recent, Newer

\* The window and the bookkeeping of a fetch, and what it may have missed: of
\* the entries that were listed all along, no more than were removed are among
\* the newest `offset` and have not been seen; what is not among them was found
\* too late to matter to the window.
Fetching ==
  /\ listed \cap removed = {} /\ shifts <= Cardinality(removed) /\ Cardinality(removed) <= MaxRemoved
  /\ covered.upto <= now
  /\ fetch.at # "idle" =>
       /\ fetch.until <= now /\ fetch.since = Minus(fetch.until, Lookback)
       /\ there \subseteq Matching
       /\ \A e \in Matching \ there : e \in tardy \/ e + Delay >= fetch.until
  /\ fetch.at = "page" =>
       /\ fetch.pages < MaxPages /\ fetch.count = fetch.offset
       /\ Cardinality((there \ fetch.got) \cap Recent(Matching, fetch.offset)) <= shifts
  /\ FetchComplete

IngestInv == IngestTypeOK /\ Fetching /\ NothingFallsBetween

Numbers ==
  /\ now \in Nat /\ listed \in SUBSET Hour /\ removed \in SUBSET Hour /\ tardy \in SUBSET Hour
  /\ there \in SUBSET Hour /\ stored \in SUBSET Hour /\ fetch.got \in SUBSET Hour
  /\ Matching \in SUBSET Hour
  /\ fetch.since \in Nat /\ fetch.until \in Nat /\ fetch.offset \in Nat /\ fetch.count \in Nat
  /\ fetch.pages \in Nat /\ shifts \in Nat /\ covered.from \in Nat /\ covered.upto \in Nat
  /\ IsFiniteSet(removed) /\ Cardinality(removed) \in Nat

LEMMA IngestTyped == IngestTypeOK => Numbers
<1> SUFFICES ASSUME IngestTypeOK PROVE Numbers
  OBVIOUS
<1>1. removed \in SUBSET Hour /\ Matching \in SUBSET Hour /\ now \in Nat
  BY Times DEF IngestTypeOK, Matching
<1>2. IsFiniteSet(removed) /\ Cardinality(removed) \in Nat
  BY <1>1, Times, FS_Subset, FS_CardinalityType
<1>3. MaxTime \in Nat /\ MaxPages \in Nat /\ MaxRemoved \in Nat
  BY Times
<1> QED BY <1>1, <1>2, <1>3 DEF IngestTypeOK, Numbers

LEMMA IngestStarts == IngestInit => IngestInv
<1> SUFFICES ASSUME IngestInit PROVE IngestInv
  OBVIOUS
<1> USE Times DEF IngestInit, NoFetch
<1>1. IngestTypeOK
  BY DEF IngestTypeOK, Hour
<1>2. Cardinality(removed) = 0
  BY FS_EmptySet
<1>3. Fetching
  BY <1>2 DEF Fetching, FetchComplete
<1>4. NothingFallsBetween
  BY DEF NothingFallsBetween
<1> QED BY <1>1, <1>3, <1>4 DEF IngestInv

\* The steps of Miniflux and the clock.
LEMMA TickStep == ASSUME IngestInv, Tick PROVE IngestInv'
<1> USE Times DEF IngestInv, Tick
<1>1. IngestTypeOK'
  <2>1. now' \in Hour
    BY DEF IngestTypeOK, Hour
  <2> QED BY <2>1 DEF IngestTypeOK
<1>2. now \in Nat /\ fetch.until \in Nat /\ covered.upto \in Nat
  BY IngestTyped DEF Numbers
<1>3. Fetching'
  BY <1>2 DEF Fetching, FetchComplete, Matching
<1>4. NothingFallsBetween'
  BY DEF NothingFallsBetween
<1> QED BY <1>1, <1>3, <1>4

LEMMA FindStep == ASSUME IngestInv, NEW e \in Hour, Find(e) PROVE IngestInv'
<1> USE Times DEF IngestInv
<1>0. Numbers
  BY IngestTyped
<1>1. UNCHANGED <<now, removed, fetch, there, shifts, stored, covered>> /\ listed' = listed \cup {e}
      /\ tardy \subseteq tardy' /\ e \notin listed /\ e \notin removed
      /\ (e \in tardy' \/ now <= e + Delay)
  BY <1>0 DEF Find, Numbers
<1>2. IngestTypeOK'
  <2>1. tardy' \in SUBSET Hour /\ listed' \in SUBSET Hour
    <3>1. tardy' = tardy \cup {e} \/ tardy' = tardy
      BY DEF Find
    <3> QED BY <1>0, <1>1, <3>1 DEF Numbers
  <2>2. {listed, removed, tardy, there, stored}' \subseteq SUBSET Hour
    BY <1>0, <1>1, <2>1 DEF Numbers
  <2>3. UNCHANGED <<now, fetch, shifts, covered>>
    BY <1>1
  <2> QED BY <2>2, <2>3 DEF IngestTypeOK
<1>4. Matching \subseteq Matching' /\ Matching' \subseteq Matching \cup {e}
  BY <1>1 DEF Matching
<1>3. Matching' \in SUBSET Hour
  BY <1>0, <1>4 DEF Numbers
<1>5. fetch.at # "idle" => \A d \in Matching' \ there' : d \in tardy' \/ d + Delay >= fetch.until
  BY <1>0, <1>1, <1>4 DEF Fetching, Numbers
<1>6. fetch.at = "page" =>
        Cardinality((there \ fetch.got) \cap Recent(Matching', fetch.offset)) <= shifts
  <2> SUFFICES ASSUME fetch.at = "page"
               PROVE  Cardinality((there \ fetch.got) \cap Recent(Matching', fetch.offset)) <= shifts
    OBVIOUS
  <2>1. there \subseteq Matching /\ fetch.offset \in Nat /\ Matching \in SUBSET Hour /\ Matching' \in SUBSET Hour
    BY <1>0, <1>3 DEF Fetching, Numbers
  <2>2. Recent(Matching', fetch.offset) \cap Matching \subseteq Recent(Matching, fetch.offset)
    BY <1>4, <2>1, FindPushes
  <2> DEFINE before == (there \ fetch.got) \cap Recent(Matching, fetch.offset)
             after == (there \ fetch.got) \cap Recent(Matching', fetch.offset)
  <2>3. after \in SUBSET before /\ before \in SUBSET Hour
    BY <2>1, <2>2
  <2>4. IsFiniteSet(before)
    BY <2>3, FS_Subset
  <2>5. Cardinality(after) <= Cardinality(before) /\ Cardinality(before) \in Nat /\ Cardinality(after) \in Nat
    BY <2>3, <2>4, FS_Subset, FS_CardinalityType
  <2>6. Cardinality(before) <= shifts
    BY DEF Fetching
  <2> QED BY <1>0, <2>5, <2>6 DEF Numbers
<1>7. there' \subseteq Matching' \/ fetch.at = "idle"
  BY <1>1, <1>4 DEF Fetching
<1>8. Fetching'
  BY <1>1, <1>5, <1>6, <1>7 DEF Fetching, FetchComplete
<1>9. NothingFallsBetween'
  BY <1>0, <1>1 DEF NothingFallsBetween, Fetching, Numbers
<1> QED BY <1>2, <1>8, <1>9

LEMMA RemoveStep == ASSUME IngestInv, NEW e \in Hour, Remove(e) PROVE IngestInv'
<1> USE Times DEF IngestInv
<1>0. Numbers
  BY IngestTyped
<1>1. UNCHANGED <<now, tardy, fetch, stored, covered>> /\ listed' = listed \ {e}
      /\ removed' = removed \cup {e} /\ there' = there \ {e} /\ e \in listed
      /\ shifts' = (IF fetch.at = "page" THEN shifts + 1 ELSE shifts)
      /\ Cardinality(removed) < MaxRemoved
  BY DEF Remove
<1>2. Cardinality(removed') = Cardinality(removed) + 1
  BY <1>0, <1>1, FS_AddElement DEF Fetching, Numbers
<1>3. shifts' \in Nat /\ shifts' <= Cardinality(removed') /\ Cardinality(removed') <= MaxRemoved
  BY <1>0, <1>1, <1>2 DEF Fetching, Numbers
<1>4. IngestTypeOK'
  BY <1>0, <1>1, <1>2, <1>3 DEF IngestTypeOK, Numbers
<1>5. Matching' = Matching \ {e}
  BY <1>1 DEF Matching
<1>6. fetch.at = "page" =>
        Cardinality((there' \ fetch.got) \cap Recent(Matching', fetch.offset)) <= shifts + 1
  <2> SUFFICES ASSUME fetch.at = "page"
               PROVE  Cardinality((there' \ fetch.got) \cap Recent(Matching', fetch.offset)) <= shifts + 1
    OBVIOUS
  <2> DEFINE o == fetch.offset
             before == (there \ fetch.got) \cap Recent(Matching, o)
             more == Recent(Matching, o + 1) \ Recent(Matching, o)
             after == (there' \ fetch.got) \cap Recent(Matching', o)
  <2>1. o \in Nat /\ Matching \in SUBSET Hour /\ shifts \in Nat
    BY <1>0 DEF Numbers
  <2>2. Recent(Matching', o) \subseteq Recent(Matching, o + 1) /\ Cardinality(more) <= 1 /\ IsFiniteSet(more)
    BY <1>5, <2>1, RemovalLetsIn
  <2>3. after \in SUBSET (before \cup more)
    BY <1>1, <2>2
  <2>4. before \in SUBSET Hour
    BY <1>0 DEF Numbers
  <2>5. IsFiniteSet(before)
    BY <2>4, FS_Subset
  <2>6. Cardinality(before) <= shifts
    BY DEF Fetching
  <2> HIDE DEF before, more, after
  <2>7. /\ Cardinality(before) \in Nat /\ Cardinality(more) \in Nat
        /\ IsFiniteSet(before \cap more) /\ Cardinality(before \cap more) \in Nat
    BY <2>2, <2>5, FS_CardinalityType, FS_Intersection
  <2>8. /\ IsFiniteSet(before \cup more)
        /\ Cardinality(before \cup more) = Cardinality(before) + Cardinality(more) - Cardinality(before \cap more)
    BY <2>2, <2>5, FS_Union
  <2>9. Cardinality(after) <= Cardinality(before \cup more) /\ Cardinality(after) \in Nat
    BY <2>3, <2>8, FS_Subset, FS_CardinalityType
  <2>10. Cardinality(after) <= shifts + 1
    BY <2>1, <2>2, <2>6, <2>7, <2>8, <2>9
  <2> QED BY <2>10 DEF after
<1>7. fetch.at = "store" /\ fetch.pages < MaxPages => Cardinality(there' \ fetch.got) <= shifts
  <2>1. there \ fetch.got \in SUBSET Hour /\ there' \ fetch.got \in SUBSET (there \ fetch.got)
    BY <1>0, <1>1 DEF Numbers
  <2>2. IsFiniteSet(there \ fetch.got)
    BY <2>1, FS_Subset
  <2>3. Cardinality(there' \ fetch.got) <= Cardinality(there \ fetch.got)
        /\ Cardinality(there' \ fetch.got) \in Nat /\ Cardinality(there \ fetch.got) \in Nat
    BY <2>1, <2>2, FS_Subset, FS_CardinalityType
  <2> QED BY <1>0, <2>3 DEF Fetching, FetchComplete, Numbers
<1>8. Fetching'
  BY <1>1, <1>3, <1>5, <1>6, <1>7 DEF Fetching, FetchComplete
<1>9. NothingFallsBetween'
  BY <1>1 DEF NothingFallsBetween
<1> QED BY <1>4, <1>8, <1>9

\* The steps of the stage.
LEMMA StartIngestStep == ASSUME IngestInv, StartIngest PROVE IngestInv'
<1> USE Times DEF IngestInv
<1>0. Numbers
  BY IngestTyped
<1>1. PICK day \in Hour :
        LET until == Smaller(day * HoursADay, now)
        IN  /\ fetch' = [NoFetch EXCEPT !.at = "page", !.since = Since(day, until), !.until = until]
            /\ there' = {e \in listed : e > Since(day, until)}
  BY DEF StartIngest
<1> DEFINE until == Smaller(day * HoursADay, now)
           since == Minus(until, Lookback)
<1>2. day * HoursADay \in Nat /\ Lookback \in Nat
  OBVIOUS
<1>3. until \in Nat /\ until <= now /\ since \in Nat /\ since <= until
  BY <1>0, <1>2 DEF Smaller, Minus, Numbers
<1>4. now <= MaxTime /\ MaxTime \in Nat
  BY DEF IngestTypeOK, Hour
<1>5. until \in 0..MaxTime /\ since \in 0..MaxTime
  BY <1>0, <1>3, <1>4 DEF Numbers
<1>6. fetch' = [at |-> "page", since |-> since, until |-> until, offset |-> 0, count |-> 0,
                pages |-> 0, got |-> {}]
      /\ there' = {e \in listed : e > since}
  BY <1>1 DEF NoFetch, Since
<1>7. UNCHANGED <<now, listed, removed, tardy, stored, covered>> /\ shifts' = 0
  BY DEF StartIngest
<1> HIDE DEF until, since
<1>8. IngestTypeOK'
  <2>1. {listed, removed, tardy, there, stored}' \subseteq SUBSET Hour
    BY <1>0, <1>6, <1>7 DEF Numbers
  <2>2. fetch' \in [at : {"idle", "page", "store"}, since : 0..MaxTime, until : 0..MaxTime,
                    offset : Nat, count : Nat, pages : 0..MaxPages, got : SUBSET Hour]
    BY <1>5, <1>6
  <2> QED BY <1>7, <2>1, <2>2 DEF IngestTypeOK
<1>9. Matching' = there'
  BY <1>6, <1>7 DEF Matching
<1>10. Cardinality((there' \ {}) \cap Recent(Matching', 0)) = 0
  <2>1. Matching' \in SUBSET Hour
    BY <1>0, <1>6, <1>9 DEF Numbers
  <2>2. Recent(Matching', 0) = {}
    <3>1. \A x \in Matching' : Newer(Matching', x) \in Nat
      BY <2>1, RankTypes
    <3> QED BY <3>1 DEF Recent
  <2> QED BY <2>2, FS_EmptySet
<1>11. Fetching'
  <2>1. listed \cap removed = {} /\ shifts' <= Cardinality(removed) /\ Cardinality(removed) <= MaxRemoved
        /\ covered.upto <= now
    BY <1>0, <1>7 DEF Fetching, Numbers
  <2>2. fetch'.until <= now /\ fetch'.since = Minus(fetch'.until, Lookback)
    BY <1>3, <1>6 DEF since
  <2>3. fetch'.pages < MaxPages /\ fetch'.count = fetch'.offset /\ fetch'.at = "page"
        /\ fetch'.got = {} /\ fetch'.offset = 0
    BY <1>6
  <2> QED BY <1>7, <1>9, <1>10, <2>1, <2>2, <2>3 DEF Fetching, FetchComplete
<1>12. NothingFallsBetween'
  BY <1>7 DEF NothingFallsBetween
<1> QED BY <1>8, <1>11, <1>12

LEMMA FetchPageStep == ASSUME IngestInv, FetchPage PROVE IngestInv'
<1> USE Times DEF IngestInv
<1>0. Numbers
  BY IngestTyped
<1> DEFINE o == fetch.offset
           count == fetch.count + Cardinality(Page)
           last == LastPage(count, fetch.pages + 1)
           missed == (there \ fetch.got) \cap Recent(Matching, o)
<1>1. UNCHANGED <<now, listed, removed, tardy, there, shifts, stored, covered>> /\ fetch.at = "page"
      /\ fetch' = [fetch EXCEPT !.at = IF last THEN "store" ELSE "page",
                                !.offset = IF last THEN @ ELSE @ + PageLimit,
                                !.count = count, !.pages = @ + 1, !.got = @ \cup Page]
  BY DEF FetchPage
<1>2. o \in Nat /\ PageLimit \in Nat /\ Matching \in SUBSET Hour /\ fetch.count = o /\ there \subseteq Matching
      /\ fetch.pages < MaxPages /\ fetch.pages \in Nat /\ MaxPages \in Nat /\ shifts \in Nat
  BY <1>0, <1>1 DEF Numbers, Fetching
<1>3. Page = Recent(Matching, o + PageLimit) \ Recent(Matching, o)
  BY <1>2, PageIsNext
<1>4. /\ Cardinality(Page) \in Nat /\ Cardinality(Page) <= PageLimit
      /\ Recent(Matching, o + PageLimit) = Matching \/ Cardinality(Page) = PageLimit
      /\ Recent(Matching, o + PageLimit) # Matching => o + PageLimit < Cardinality(Matching)
  BY <1>2, <1>3, NextOnes
<1>5. Page \in SUBSET Hour /\ Cardinality(Matching) \in Nat
  BY <1>2, <1>3, RankTypes DEF Recent
<1>6. fetch' \in [at : {"idle", "page", "store"}, since : 0..MaxTime, until : 0..MaxTime,
                  offset : Nat, count : Nat, pages : 0..MaxPages, got : SUBSET Hour]
  <2>a. count \in Nat /\ o + PageLimit \in Nat /\ fetch.pages + 1 \in 0..MaxPages
    BY <1>2, <1>4
  <2>b. fetch.got \cup Page \in SUBSET Hour
    BY <1>0, <1>5 DEF Numbers
  <2>1. count \in Nat /\ o + PageLimit \in Nat /\ fetch.pages + 1 \in 0..MaxPages
        /\ fetch.got \cup Page \in SUBSET Hour
    BY <2>a, <2>b
  <2>2. fetch \in [at : {"idle", "page", "store"}, since : 0..MaxTime, until : 0..MaxTime,
                   offset : Nat, count : Nat, pages : 0..MaxPages, got : SUBSET Hour]
    BY DEF IngestTypeOK
  <2> HIDE DEF last, count
  <2> QED BY <1>1, <2>1, <2>2
<1>7. IngestTypeOK'
  <2>1. {listed, removed, tardy, there, stored}' \subseteq SUBSET Hour
    BY <1>0, <1>1 DEF Numbers
  <2> QED BY <1>1, <1>6, <2>1 DEF IngestTypeOK
<1>8. fetch'.since = fetch.since /\ fetch'.until = fetch.until /\ fetch'.got = fetch.got \cup Page
      /\ fetch'.count = count /\ fetch'.pages = fetch.pages + 1
      /\ fetch'.at = (IF last THEN "store" ELSE "page")
      /\ fetch'.offset = (IF last THEN o ELSE o + PageLimit)
  <2>1. fetch \in [at : {"idle", "page", "store"}, since : 0..MaxTime, until : 0..MaxTime,
                   offset : Nat, count : Nat, pages : 0..MaxPages, got : SUBSET Hour]
    BY DEF IngestTypeOK
  <2> HIDE DEF last, count
  <2> QED BY <1>1, <2>1
<1>9. Matching' = Matching
  BY <1>1, <1>8 DEF Matching
<1>10. Cardinality(missed) <= shifts /\ IsFiniteSet(missed) /\ Cardinality(missed) \in Nat
  <2>1. missed \in SUBSET Hour
    BY <1>0 DEF Numbers
  <2>2. Cardinality(missed) <= shifts
    BY <1>1 DEF Fetching
  <2> QED BY <2>1, <2>2, FS_Subset, FS_CardinalityType
<1>11. ASSUME NEW left \in SUBSET missed PROVE Cardinality(left) <= shifts
  <2> HIDE DEF missed
  <2>1. Cardinality(left) <= Cardinality(missed) /\ IsFiniteSet(left)
    BY <1>10, FS_Subset
  <2>2. Cardinality(left) \in Nat
    BY <2>1, FS_CardinalityType
  <2> QED BY <1>2, <1>10, <2>1, <2>2
<1>12. ASSUME ~last
       PROVE  /\ fetch'.pages < MaxPages /\ fetch'.count = fetch'.offset
              /\ Cardinality((there' \ fetch'.got) \cap Recent(Matching', fetch'.offset)) <= shifts'
  <2>1. ~(Cardinality(Page) < PageLimit) /\ fetch.pages + 1 # MaxPages
    BY <1>12 DEF LastPage
  <2>2. (there \ (fetch.got \cup Page)) \cap Recent(Matching, o + PageLimit) \in SUBSET missed
    BY <1>3
  <2>3. Cardinality((there \ (fetch.got \cup Page)) \cap Recent(Matching, o + PageLimit)) <= shifts
    BY <1>11, <2>2
  <2>4. (there' \ fetch'.got) \cap Recent(Matching', fetch'.offset) =
          (there \ (fetch.got \cup Page)) \cap Recent(Matching, o + PageLimit)
    BY <1>1, <1>8, <1>9, <1>12
  <2>5. fetch'.pages < MaxPages /\ fetch'.count = fetch'.offset
    BY <1>2, <1>4, <1>8, <1>12, <2>1
  <2> QED BY <1>1, <2>3, <2>4, <2>5
<1>13. ASSUME last, fetch'.pages < MaxPages PROVE Cardinality(there' \ fetch'.got) <= shifts'
  <2>1. Cardinality(Page) < PageLimit \/ count >= Cardinality(Matching)
    BY <1>2, <1>8, <1>13 DEF LastPage
  <2>2. Recent(Matching, o + PageLimit) = Matching
    BY <1>2, <1>4, <1>5, <2>1
  <2>3. there' \ fetch'.got \in SUBSET missed
    BY <1>1, <1>2, <1>3, <1>8, <2>2
  <2> QED BY <1>1, <1>11, <2>3
<1>14. Fetching'
  <2>1. /\ listed' \cap removed' = {} /\ shifts' <= Cardinality(removed')
        /\ Cardinality(removed') <= MaxRemoved /\ covered'.upto <= now'
    BY <1>1 DEF Fetching
  <2>2. /\ fetch'.until <= now' /\ fetch'.since = Minus(fetch'.until, Lookback)
        /\ there' \subseteq Matching'
        /\ \A e \in Matching' \ there' : e \in tardy' \/ e + Delay >= fetch'.until
    <3>1. /\ fetch.until <= now /\ fetch.since = Minus(fetch.until, Lookback)
          /\ there \subseteq Matching
          /\ \A e \in Matching \ there : e \in tardy \/ e + Delay >= fetch.until
      BY <1>1 DEF Fetching
    <3>2. now' = now /\ there' = there /\ tardy' = tardy
      BY <1>1
    <3>3. fetch'.since = fetch.since /\ fetch'.until = fetch.until
      BY <1>8
    <3> QED BY <1>9, <3>1, <3>2, <3>3
  <2>3. fetch'.at = (IF last THEN "store" ELSE "page")
    BY <1>8
  <2> HIDE DEF last
  <2> QED BY <1>12, <1>13, <2>1, <2>2, <2>3 DEF Fetching, FetchComplete
<1>15. NothingFallsBetween'
  BY <1>1 DEF NothingFallsBetween
<1> QED BY <1>7, <1>14, <1>15

LEMMA StoreStep == ASSUME IngestInv, StoreEntries PROVE IngestInv'
<1> USE Times DEF IngestInv
<1>0. Numbers
  BY IngestTyped
<1>1. /\ fetch.at = "store" /\ stored' = stored \cup {e \in fetch.got : e <= fetch.until}
      /\ fetch' = NoFetch /\ there' = {} /\ shifts' = 0
      /\ UNCHANGED <<now, listed, removed, tardy>>
  BY DEF StoreEntries
<1>2. \/ covered' = covered
      \/ /\ Complete /\ covered' = [covered EXCEPT !.upto = fetch.until]
         /\ fetch.until < covered.upto + (Lookback - Delay)
      \/ Complete /\ covered' = [from |-> fetch.since, upto |-> fetch.until]
  BY DEF StoreEntries
<1>3. fetch.until \in 0..MaxTime /\ fetch.since \in 0..MaxTime
      /\ covered \in [from : 0..MaxTime, upto : 0..MaxTime]
  BY DEF IngestTypeOK
<1>4. covered' \in [from : 0..MaxTime, upto : 0..MaxTime]
  BY <1>2, <1>3
<1>5. IngestTypeOK'
  <2>1. {listed, removed, tardy, there, stored}' \subseteq SUBSET Hour
    BY <1>0, <1>1 DEF Numbers
  <2>2. NoFetch \in [at : {"idle", "page", "store"}, since : 0..MaxTime, until : 0..MaxTime,
                     offset : Nat, count : Nat, pages : 0..MaxPages, got : SUBSET Hour]
    BY DEF NoFetch
  <2> QED BY <1>1, <1>4, <2>1, <2>2 DEF IngestTypeOK
<1>6. covered'.upto <= now
  BY <1>1, <1>2, <1>3 DEF Fetching
<1>7. Fetching'
  BY <1>0, <1>1, <1>6 DEF Fetching, FetchComplete, NoFetch, Numbers
\* What a complete fetch has seen of its window.
<1>8. ASSUME Complete, NEW e \in listed, e \notin tardy, e > fetch.since, e + Delay < fetch.until
      PROVE  e \in stored'
  <2>1. e \in Matching /\ e \in Hour
    BY <1>0, <1>8 DEF Matching, Numbers
  <2>n. e \in Nat /\ Delay \in Nat /\ fetch.until \in Nat
    BY <1>0, <2>1 DEF Numbers
  <2>2. e \in there
    <3>1. e \notin there => e + Delay >= fetch.until
      BY <1>1, <1>8, <2>1 DEF Fetching
    <3> QED BY <1>8, <2>n, <3>1
  <2>3. there \ fetch.got = {}
    <3>1. there \ fetch.got \in SUBSET Hour
      BY <1>0 DEF Numbers
    <3>2. IsFiniteSet(there \ fetch.got) /\ Cardinality(there \ fetch.got) \in Nat
      BY <3>1, FS_Subset, FS_CardinalityType
    <3>3. Cardinality(there \ fetch.got) <= 0
      BY <1>1, <1>8 DEF Fetching, FetchComplete, Complete
    <3> QED BY <3>2, <3>3, FS_EmptySet
  <2>4. e \in fetch.got /\ e <= fetch.until
    BY <1>8, <2>n, <2>2, <2>3
  <2> QED BY <1>1, <2>4
<1>9. NothingFallsBetween'
  <2> SUFFICES ASSUME NEW e \in Hour \ (tardy' \cup removed'), e \in listed', covered'.from < e,
                      e + Delay < covered'.upto
               PROVE  e \in stored'
    BY DEF NothingFallsBetween
  <2>1. e \in listed /\ e \notin tardy /\ e \notin removed /\ e \in Nat
    BY <1>0, <1>1 DEF Numbers
  <2>2. covered.from < e /\ e + Delay < covered.upto => e \in stored'
    BY <1>1, <2>1 DEF NothingFallsBetween
  <2>3. CASE covered' = covered
    BY <2>2, <2>3
  <2>4. CASE /\ Complete /\ covered' = [covered EXCEPT !.upto = fetch.until]
             /\ fetch.until < covered.upto + (Lookback - Delay)
    <3>1. covered.from < e /\ e + Delay < fetch.until
      BY <1>3, <2>4
    <3>2. ~(e + Delay < covered.upto) => e > fetch.since
      <4>1. fetch.since = Minus(fetch.until, Lookback)
        BY <1>1 DEF Fetching
      <4>2. Lookback \in Nat /\ Delay \in Nat /\ covered.upto \in Nat /\ fetch.until \in Nat /\ e > 0
        BY <1>0 DEF Numbers, Hour
      <4> QED BY <2>1, <2>4, <4>1, <4>2 DEF Minus
    <3> QED BY <1>8, <2>1, <2>2, <2>4, <3>1, <3>2
  <2>5. CASE Complete /\ covered' = [from |-> fetch.since, upto |-> fetch.until]
    BY <1>8, <2>1, <2>5
  <2> QED BY <1>2, <2>3, <2>4, <2>5
<1> QED BY <1>5, <1>7, <1>9

LEMMA IngestFailsStep == ASSUME IngestInv, IngestFails PROVE IngestInv'
<1> USE Times DEF IngestInv
<1>0. Numbers
  BY IngestTyped
<1>1. fetch' = NoFetch /\ there' = {} /\ shifts' = 0
      /\ UNCHANGED <<now, listed, removed, tardy, stored, covered>>
  BY DEF IngestFails
<1>2. IngestTypeOK'
  <2>1. {listed, removed, tardy, there, stored}' \subseteq SUBSET Hour
    BY <1>0, <1>1 DEF Numbers
  <2>2. NoFetch \in [at : {"idle", "page", "store"}, since : 0..MaxTime, until : 0..MaxTime,
                     offset : Nat, count : Nat, pages : 0..MaxPages, got : SUBSET Hour]
    BY DEF NoFetch
  <2> QED BY <1>1, <2>1, <2>2 DEF IngestTypeOK
<1>3. Fetching'
  BY <1>0, <1>1 DEF Fetching, FetchComplete, NoFetch, Numbers
<1>4. NothingFallsBetween'
  BY <1>1 DEF NothingFallsBetween
<1> QED BY <1>2, <1>3, <1>4

LEMMA IngestStep == IngestInv /\ [IngestNext]_ingestVars => IngestInv'
<1> SUFFICES ASSUME IngestInv, [IngestNext]_ingestVars PROVE IngestInv'
  OBVIOUS
<1>1. CASE UNCHANGED ingestVars
  BY <1>1 DEF ingestVars, IngestInv, IngestTypeOK, Fetching, FetchComplete, Matching,
              NothingFallsBetween
<1> QED BY <1>1, TickStep, FindStep, RemoveStep, StartIngestStep, FetchPageStep, StoreStep,
           IngestFailsStep DEF IngestNext

LEMMA IngestAlways == IngestSpec => []IngestInv
BY IngestStarts, IngestStep, PTL DEF IngestSpec

\* FetchComplete: for any window, page size and number of entries, however many
\* are found and removed between the requests.
THEOREM FetchMissesOnlyRemoved == IngestSpec => []FetchComplete
<1>1. IngestInv => FetchComplete
  BY DEF IngestInv, Fetching
<1> QED BY <1>1, IngestAlways, PTL

\* NothingFallsBetween: for any order of runs, issues of earlier days included.
THEOREM NoEntryFallsBetween == IngestSpec => []NothingFallsBetween
<1>1. IngestInv => NothingFallsBetween
  BY DEF IngestInv
<1> QED BY <1>1, IngestAlways, PTL

-----------------------------------------------------------------------------
(* Selection.                                                              *)

LEMMA Limits ==
  /\ MaxEligible \in Nat /\ TriageMax \in Nat /\ DeepKeep \in Nat /\ ExplorationSlots \in Nat
  /\ Protected \in Nat /\ ShortlistKeep \in Nat /\ PerClusterCap \in Nat /\ SoftTarget \in Nat
  /\ HardMax \in Nat /\ PerClusterCap >= 1
  /\ IsFiniteSet(Candidate) /\ \A a \in Candidate : a \in Nat
<1>1. MaxEligible \in Nat /\ MaxEligible \in Int /\ 1 \in Int
  BY SelectionAssumption
<1>2. /\ TriageMax \in Nat /\ DeepKeep \in Nat /\ ExplorationSlots \in Nat
      /\ Protected \in Nat /\ ShortlistKeep \in Nat /\ PerClusterCap \in Nat /\ SoftTarget \in Nat
      /\ HardMax \in Nat /\ PerClusterCap >= 1
  BY SelectionAssumption
<1>3. IsFiniteSet(Candidate) /\ \A a \in Candidate : a \in Nat
  BY <1>1, FS_Interval DEF Candidate
<1> QED BY <1>1, <1>2, <1>3

LEMMA Countable ==
  ASSUME NEW S \in SUBSET Candidate
  PROVE  /\ IsFiniteSet(S) /\ Cardinality(S) \in Nat /\ Cardinality(S) <= MaxEligible
         /\ \A T \in SUBSET S : Cardinality(T) <= Cardinality(S)
<1>1. IsFiniteSet(S) /\ Cardinality(S) <= Cardinality(Candidate) /\ Cardinality(S) \in Nat
  BY Limits, FS_Subset, FS_CardinalityType
<1>2. Cardinality(Candidate) = MaxEligible
  BY Limits, FS_Interval DEF Candidate
<1>3. \A T \in SUBSET S : Cardinality(T) <= Cardinality(S)
  BY <1>1, FS_Subset
<1> QED BY <1>1, <1>2, <1>3

\* The first n are n, or all there are.
LEMMA BestCounts ==
  ASSUME NEW S \in SUBSET Candidate, NEW n \in Nat
  PROVE  /\ Best(S, n) \in SUBSET S /\ Cardinality(Best(S, n)) \in Nat
         /\ Cardinality(Best(S, n)) <= n
         /\ Best(S, n) = S \/ Cardinality(Best(S, n)) = n
<1> DEFINE better == [a \in S |-> {b \in S : b < a}]
<1>1. IsFiniteSet(S) /\ \A a \in S : a \in Nat
  BY Limits, Countable
<1>2. Ordered(S, better)
  <2>1. better \in [S -> SUBSET S] /\ \A a \in S : a \notin better[a]
    BY <1>1
  <2>2. \A a, b \in S : a # b => a \in better[b] \/ b \in better[a]
    BY <1>1
  <2>3. \A a, b \in S : b \in better[a] => better[b] \subseteq better[a]
    BY <1>1
  <2> HIDE DEF better
  <2> QED BY <2>1, <2>2, <2>3 DEF Ordered
<1>3. Best(S, n) = FirstOf(S, better, n)
  BY DEF Best, FirstOf
<1> HIDE DEF better
<1> QED BY <1>1, <1>2, <1>3, FirstOnes

\* One candidate's turn at the list.
Turn(a, list, cap, target) ==
  IF a \in chosen /\ Cardinality(list) < target /\ Cardinality(SameCluster(a, list)) < cap
  THEN list \cup {a} ELSE list

\* The recursion of admit_under_cap is defined.
LEMMA FillTurns ==
  ASSUME NEW start \in SUBSET Candidate, NEW cap, NEW target
  PROVE  \E f \in [0..MaxEligible -> SUBSET Candidate] :
           /\ f[0] = start /\ \A a \in 1..MaxEligible : f[a] = Turn(a, f[a - 1], cap, target)
           /\ FillUnder(start, cap, target) = f[MaxEligible]
<1> USE Limits
<1> DEFINE next == [a \in 1..MaxEligible |-> [S \in SUBSET Candidate |-> Turn(a, S, cap, target)]]
           Body(f) == [a \in 0..MaxEligible |->
                         IF a = 0 THEN start
                         ELSE LET before == f[a - 1] IN
                              IF /\ a \in chosen /\ Cardinality(before) < target
                                 /\ Cardinality(SameCluster(a, before)) < cap
                              THEN before \cup {a} ELSE before]
<1>1. next \in [1..MaxEligible -> [SUBSET Candidate -> SUBSET Candidate]]
  BY DEF Turn, Candidate
<1>2. PICK f \in [0..MaxEligible -> SUBSET Candidate] :
        f[0] = start /\ \A a \in 1..MaxEligible : f[a] = next[a][f[a - 1]]
  <2> DEFINE V == SUBSET Candidate
  <2>1. next \in [1..MaxEligible -> [V -> V]] /\ start \in V /\ MaxEligible \in Nat
    BY <1>1
  <2> HIDE DEF next, V
  <2>2. PICK f : Unrolls(f, MaxEligible, V, start, next)
    BY <2>1, Recursion
  <2> QED BY <2>2 DEF Unrolls, V
<1>3. \A a \in 1..MaxEligible : a - 1 \in 0..MaxEligible
  OBVIOUS
<1>4. \A a \in 1..MaxEligible : f[a] = Turn(a, f[a - 1], cap, target)
  BY <1>2, <1>3
<1>5. f = Body(f)
  <2>1. ASSUME NEW a \in 0..MaxEligible PROVE f[a] = Body(f)[a]
    <3>1. CASE a = 0
      BY <1>2, <3>1
    <3>2. CASE a # 0
      <4>1. a \in 1..MaxEligible
        BY <3>2
      <4>2. f[a] = Turn(a, f[a - 1], cap, target)
        BY <1>4, <4>1
      <4> QED BY <3>2, <4>2 DEF Turn
    <3> QED BY <3>1, <3>2
  <2>2. f = [a \in 0..MaxEligible |-> f[a]]
    BY <1>2
  <2> QED BY <2>1, <2>2
<1> DEFINE list == CHOOSE l : l = Body(l)
<1>6. list = Body(list)
  BY <1>5
<1>7. FillUnder(start, cap, target) = list[MaxEligible]
  BY DEF FillUnder
<1> HIDE DEF list
<1>8. list[0] = start /\ \A a \in 1..MaxEligible : list[a] = Turn(a, list[a - 1], cap, target)
  <2>1. \A a \in 0..MaxEligible : list[a] = Body(list)[a]
    BY <1>6, Zenon
  <2>2. list[0] = start
    <3>1. 0 \in 0..MaxEligible
      OBVIOUS
    <3>2. list[0] = Body(list)[0]
      BY <2>1, <3>1
    <3>3. Body(list)[0] = start
      BY <3>1
    <3> QED BY <3>2, <3>3, Zenon
  <2>3. ASSUME NEW a \in 1..MaxEligible PROVE list[a] = Turn(a, list[a - 1], cap, target)
    <3>1. a \in 0..MaxEligible /\ a # 0
      OBVIOUS
    <3>2. list[a] = Body(list)[a]
      BY <2>1, <3>1
    <3> QED BY <3>1, <3>2 DEF Turn
  <2> QED BY <2>2, <2>3
<1>9. \A a \in 0..MaxEligible : list[a] \in SUBSET Candidate
  <2> DEFINE S == {a \in 0..MaxEligible : list[a] \in SUBSET Candidate}
  <2>1. 0 \in S
    BY <1>8
  <2>2. ASSUME NEW a \in 1..MaxEligible, a - 1 \in S PROVE a \in S
    <3>1. list[a] = Turn(a, list[a - 1], cap, target) /\ list[a - 1] \in SUBSET Candidate
      BY <1>8, <2>2
    <3>2. a \in Candidate /\ a \in 0..MaxEligible
      BY DEF Candidate
    <3> QED BY <3>1, <3>2 DEF Turn
  <2>3. \A a \in 0..MaxEligible : a \in S
    <3> HIDE DEF S
    <3> QED BY <2>1, <2>2, Upwards
  <2> QED BY <2>3
<1>10. list \in [0..MaxEligible -> SUBSET Candidate]
  <2>1. list = [a \in 0..MaxEligible |-> list[a]]
    BY <1>6
  <2> QED BY <1>9, <2>1
<1> QED BY <1>7, <1>8, <1>10

\* What admit_under_cap does: it only adds, and nothing to a list that is long
\* enough; it leaves a candidate off a list with room left only if its cluster
\* is at the cap, and adds none beyond it.
Filled(list, start, cap, target) ==
  /\ start \subseteq list /\ list \subseteq start \cup chosen
  /\ Cardinality(start) >= target => list = start
  /\ \A b \in chosen \ list :
       Cardinality(list) >= target \/ Cardinality(SameCluster(b, list)) >= cap
  /\ \A a \in list \ start : Cardinality(SameCluster(a, list)) <= cap

LEMMA FillUnderCap ==
  ASSUME chosen \in SUBSET Candidate, NEW start \in SUBSET Candidate, NEW cap \in Nat,
         NEW target \in Nat, NEW list, list = FillUnder(start, cap, target)
  PROVE  Filled(list, start, cap, target)
<1> USE Limits
<1>1. PICK f \in [0..MaxEligible -> SUBSET Candidate] :
        /\ f[0] = start /\ \A a \in 1..MaxEligible : f[a] = Turn(a, f[a - 1], cap, target)
        /\ list = f[MaxEligible]
  BY FillTurns
<1>2. \A a \in Candidate, S \in SUBSET Candidate :
        /\ SameCluster(a, S) \in SUBSET Candidate /\ Cardinality(SameCluster(a, S)) \in Nat
        /\ Cardinality(S) \in Nat
  <2>1. \A a \in Candidate, S \in SUBSET Candidate : SameCluster(a, S) \in SUBSET Candidate
    BY DEF SameCluster
  <2> QED BY <2>1, Countable
\* The candidates up to n have had their turns.
<1> DEFINE Refused(b, S) == Cardinality(S) >= target \/ Cardinality(SameCluster(b, S)) >= cap
           FilledBy(n) ==
             /\ start \subseteq f[n] /\ f[n] \subseteq start \cup (chosen \cap 1..n)
             /\ Cardinality(start) >= target => f[n] = start
             /\ \A b \in (chosen \cap 1..n) \ f[n] : Refused(b, f[n])
             /\ \A a \in f[n] \ start : Cardinality(SameCluster(a, f[n])) <= cap
<1>3. FilledBy(0)
  <2>1. 1..0 = {}
    OBVIOUS
  <2> QED BY <1>1, <2>1
<1>4. ASSUME NEW n \in 1..MaxEligible, FilledBy(n - 1) PROVE FilledBy(n)
  <2> DEFINE before == f[n - 1]
             after == f[n]
  <2>1. n \in Candidate /\ before \in SUBSET Candidate /\ after \in SUBSET Candidate
        /\ n - 1 \in 0..MaxEligible
    BY <1>1 DEF Candidate
  <2>2. after = Turn(n, before, cap, target)
    BY <1>1
  <2>3. start \subseteq before /\ before \subseteq start \cup (chosen \cap 1..(n - 1))
        /\ (Cardinality(start) >= target => before = start)
        /\ (\A b \in (chosen \cap 1..(n - 1)) \ before : Refused(b, before))
        /\ \A a \in before \ start : Cardinality(SameCluster(a, before)) <= cap
    BY <1>4
  <2>4. 1..n = 1..(n - 1) \cup {n} /\ 1..(n - 1) \subseteq 1..n
    BY Limits
  <2>5. Cardinality(start) \in Nat /\ Cardinality(before) \in Nat /\ Cardinality(after) \in Nat
    BY <1>2, <2>1
  <2> HIDE DEF before, after
  <2>6. CASE n \in chosen /\ Cardinality(before) < target /\ Cardinality(SameCluster(n, before)) < cap
    <3>1. after = before \cup {n}
      BY <2>2, <2>6 DEF Turn
    <3>2. start \subseteq after /\ after \subseteq start \cup (chosen \cap 1..n)
      BY <2>3, <2>4, <2>6, <3>1
    <3>3. ~(Cardinality(start) >= target)
      <4>1. Cardinality(start) >= target => FALSE
        BY <2>3, <2>5, <2>6
      <4> QED BY <4>1
    <3>4. \A b \in Candidate : Refused(b, before) => Refused(b, after)
      <4>1. \A b \in Candidate : SameCluster(b, before) \in SUBSET SameCluster(b, after)
        BY <3>1 DEF SameCluster
      <4>2. \A b \in Candidate : Cardinality(SameCluster(b, before)) <= Cardinality(SameCluster(b, after))
        BY <1>2, <2>1, <4>1, Countable
      <4>3. Cardinality(before) <= Cardinality(after)
        BY <2>1, <3>1, Countable
      <4>4. \A b \in Candidate : Cardinality(SameCluster(b, before)) \in Nat /\ Cardinality(SameCluster(b, after)) \in Nat
        BY <1>2, <2>1
      <4> QED BY <2>5, <4>2, <4>3, <4>4
    <3>5. \A b \in (chosen \cap 1..n) \ after : Refused(b, after)
      <4>1. \A b \in (chosen \cap 1..n) \ after : b \in (chosen \cap 1..(n - 1)) \ before
        BY <2>4, <3>1
      <4> QED BY <2>3, <3>4, <4>1
    <3>6. ASSUME NEW a \in after \ start PROVE Cardinality(SameCluster(a, after)) <= cap
      <4>0. a \in Candidate
        BY <2>1
      <4>1. CASE clusterOf'[n] = clusterOf'[a]
        <5>1. SameCluster(a, after) = SameCluster(n, before) \cup {n}
          BY <3>1, <4>1 DEF SameCluster
        <5>2. IsFiniteSet(SameCluster(n, before)) /\ Cardinality(SameCluster(n, before)) \in Nat
          BY <1>2, <2>1, Countable
        <5>3. Cardinality(SameCluster(a, after)) <= Cardinality(SameCluster(n, before)) + 1
          <6>1. \/ Cardinality(SameCluster(n, before) \cup {n}) = Cardinality(SameCluster(n, before))
                \/ Cardinality(SameCluster(n, before) \cup {n}) = Cardinality(SameCluster(n, before)) + 1
            BY <5>2, FS_AddElement
          <6> QED BY <5>1, <5>2, <6>1
        <5>4. Cardinality(SameCluster(a, after)) \in Nat
          BY <1>2, <2>1, <4>0
        <5> QED BY <2>6, <5>2, <5>3, <5>4
      <4>2. CASE clusterOf'[n] # clusterOf'[a]
        <5>1. a \in before \ start /\ SameCluster(a, after) = SameCluster(a, before)
          BY <3>1, <4>2 DEF SameCluster
        <5> QED BY <2>3, <5>1
      <4> QED BY <4>1, <4>2
    <3> QED BY <3>2, <3>3, <3>5, <3>6 DEF after
  <2>7. CASE ~(n \in chosen /\ Cardinality(before) < target /\ Cardinality(SameCluster(n, before)) < cap)
    <3>1. after = before
      BY <2>2, <2>7 DEF Turn
    <3>2. n \in chosen => Refused(n, after)
      BY <1>2, <2>1, <2>5, <2>7, <3>1
    <3>3. \A b \in (chosen \cap 1..n) \ after : Refused(b, after)
      BY <2>3, <2>4, <3>1, <3>2
    <3>4. start \subseteq after /\ after \subseteq start \cup (chosen \cap 1..n)
          /\ (Cardinality(start) >= target => after = start)
          /\ \A a \in after \ start : Cardinality(SameCluster(a, after)) <= cap
      BY <2>3, <2>4, <3>1
    <3> QED BY <3>3, <3>4 DEF after
  <2> QED BY <2>6, <2>7
<1>5. FilledBy(MaxEligible)
  <2> DEFINE S == {n \in 0..MaxEligible : FilledBy(n)}
  <2>1. 0 \in S /\ \A n \in 1..MaxEligible : n - 1 \in S => n \in S
    <3> HIDE DEF FilledBy
    <3> QED BY <1>3, <1>4
  <2>2. \A n \in 0..MaxEligible : n \in S
    <3> HIDE DEF S
    <3> QED BY <2>1, Upwards
  <2>3. MaxEligible \in 0..MaxEligible
    OBVIOUS
  <2> HIDE DEF FilledBy
  <2> QED BY <2>2, <2>3
<1>6. chosen \cap 1..MaxEligible = chosen
  BY DEF Candidate
<1> QED BY <1>1, <1>5, <1>6 DEF Filled

\* From one stage to the next the auto-included stay among the chosen.
SelectInv ==
  /\ SelectionTypeOK
  /\ chosenBy \in {"pool", "admit", "shortlist"} => included \subseteq chosen
  /\ chosenBy = "admit" => explorer \subseteq chosen
  /\ AutoIncludedPublished /\ ShortlistDiverse

LEMMA AloneIsTyped == Alone \in [Candidate -> Cluster]
BY DEF Alone, Cluster

LEMMA SelectInit == SelectionInit => SelectInv
BY AloneIsTyped DEF SelectionInit, SelectInv, SelectionTypeOK, AutoIncludedPublished, ShortlistDiverse

LEMMA ForcedOnes ==
  ASSUME SelectionTypeOK, included \subseteq chosen, explorer \subseteq chosen
  PROVE  /\ Forced \in SUBSET chosen /\ included \subseteq Forced
         /\ Forced \subseteq Best(chosen, Protected) \cup included \cup explorer
         /\ Forced \in SUBSET Candidate
<1> USE Limits
<1> DEFINE sure == Best(chosen, Protected) \cup included
           room == IF Cardinality(sure) < ShortlistKeep THEN ShortlistKeep - Cardinality(sure) ELSE 0
<1>1. Forced = sure \cup Best(Best(explorer, 3) \ sure, room)
  BY DEF Forced
<1>2. Best(chosen, Protected) \subseteq chosen /\ Best(Best(explorer, 3) \ sure, room) \subseteq explorer
  BY DEF Best
<1>3. chosen \in SUBSET Candidate
  BY DEF SelectionTypeOK
<1> HIDE DEF room
<1> QED BY <1>1, <1>2, <1>3

LEMMA ShortlistStep == ASSUME SelectInv, Shortlist PROVE SelectInv'
<1> USE Limits DEF SelectInv
<1> DEFINE target == Larger(ShortlistKeep, Cardinality(Forced))
           spread == FillUnder(Forced, PerClusterCap, target)
           relaxed == FillUnder(spread, 3, target)
           list == FillUnder(relaxed, MaxEligible + 1, target)
           crowd(a) == Cardinality(SameCluster(a, list))
<1>1. chosenBy = "admit" /\ chosen \in SUBSET Candidate /\ included \in SUBSET Candidate
      /\ explorer \in SUBSET Candidate /\ included \subseteq chosen /\ explorer \subseteq chosen
  BY DEF Shortlist, SelectionTypeOK
<1>2. chosen' = list /\ deep' = chosen /\ chosenBy' = "shortlist" /\ UNCHANGED <<included, explorer>>
  BY DEF Shortlist
<1>3. clusterOf' \in [Candidate -> Cluster]
  <2>1. PICK leader \in [chosen -> chosen] :
          clusterOf' = [a \in Candidate |-> IF a \in chosen THEN leader[a] ELSE a]
    BY DEF Shortlist
  <2> QED BY <1>1, <2>1 DEF Cluster
<1>4. Forced \in SUBSET chosen /\ included \subseteq Forced /\ Forced \in SUBSET Candidate
      /\ Forced \subseteq Best(chosen, Protected) \cup included \cup explorer
  BY <1>1, ForcedOnes
<1>5. target \in Nat /\ target >= ShortlistKeep
  BY <1>4, Countable DEF Larger
<1> HIDE DEF target, spread, relaxed, list
<1>6. /\ Forced \subseteq spread /\ spread \subseteq Forced \cup chosen
      /\ \A b \in chosen \ spread :
           Cardinality(spread) >= target \/ Cardinality(SameCluster(b, spread)) >= PerClusterCap
      /\ \A a \in spread \ Forced : Cardinality(SameCluster(a, spread)) <= PerClusterCap
  <2>1. PerClusterCap \in Nat /\ Forced \in SUBSET Candidate /\ spread = FillUnder(Forced, PerClusterCap, target)
    BY <1>4 DEF spread
  <2>2. Filled(spread, Forced, PerClusterCap, target)
    BY <1>1, <1>5, <2>1, FillUnderCap
  <2> QED BY <2>2 DEF Filled
<1>7. spread \in SUBSET Candidate /\ spread \subseteq chosen
  BY <1>1, <1>4, <1>6
<1>8. /\ spread \subseteq relaxed /\ relaxed \subseteq spread \cup chosen
      /\ Cardinality(spread) >= target => relaxed = spread
  <2>1. 3 \in Nat /\ relaxed = FillUnder(spread, 3, target)
    BY DEF relaxed
  <2>2. Filled(relaxed, spread, 3, target)
    BY <1>1, <1>5, <1>7, <2>1, FillUnderCap
  <2> QED BY <2>2 DEF Filled
<1>9. relaxed \in SUBSET Candidate /\ relaxed \subseteq chosen
  BY <1>1, <1>7, <1>8
<1>10. /\ relaxed \subseteq list /\ list \subseteq relaxed \cup chosen
       /\ Cardinality(relaxed) >= target => list = relaxed
       /\ \A b \in chosen \ list :
            Cardinality(list) >= target \/ Cardinality(SameCluster(b, list)) >= MaxEligible + 1
  <2>1. MaxEligible + 1 \in Nat /\ list = FillUnder(relaxed, MaxEligible + 1, target)
    BY DEF list
  <2>2. Filled(list, relaxed, MaxEligible + 1, target)
    BY <1>1, <1>5, <1>9, <2>1, FillUnderCap
  <2> QED BY <2>2 DEF Filled
<1>11. list \in SUBSET Candidate /\ list \subseteq chosen /\ spread \subseteq list
  BY <1>1, <1>8, <1>9, <1>10
<1>12. \A a : /\ SameCluster(a, list) \in SUBSET Candidate /\ SameCluster(a, list) \in SUBSET list
              /\ SameCluster(a, spread) \in SUBSET SameCluster(a, list)
  BY <1>11 DEF SameCluster
<1>13. \A a : crowd(a) \in Nat /\ crowd(a) <= MaxEligible
              /\ Cardinality(SameCluster(a, spread)) <= crowd(a)
              /\ Cardinality(SameCluster(a, spread)) \in Nat
  <2>1. \A a : SameCluster(a, spread) \in SUBSET Candidate
    BY <1>12
  <2> QED BY <1>12, <2>1, Countable
<1>14. list = chosen \/ Cardinality(list) >= ShortlistKeep
  <2> SUFFICES ASSUME NEW b \in chosen \ list PROVE Cardinality(list) >= ShortlistKeep
    BY <1>11
  <2>1. ~(Cardinality(SameCluster(b, list)) >= MaxEligible + 1)
    BY <1>13
  <2>2. Cardinality(list) >= target
    BY <1>10, <2>1
  <2>3. Cardinality(list) \in Nat
    BY <1>11, Countable
  <2> QED BY <1>5, <2>2, <2>3
\* If the cap alone filled the list nothing was added to it; if it did not, what
\* is left off was at the cap already.
<1>15. ASSUME NEW a \in list \ Forced, NEW b \in chosen \ list, crowd(a) > PerClusterCap
       PROVE  crowd(b) >= PerClusterCap
  <2>1. CASE Cardinality(spread) >= target
    <3>1. relaxed = spread /\ list = spread
      BY <1>8, <1>10, <2>1
    <3>2. Cardinality(SameCluster(a, spread)) <= PerClusterCap
      BY <1>6, <3>1
    <3> QED BY <1>13, <1>15, <3>1, <3>2
  <2>2. CASE ~(Cardinality(spread) >= target)
    <3>1. b \in chosen \ spread
      BY <1>11
    <3>2. Cardinality(SameCluster(b, spread)) >= PerClusterCap
      BY <1>6, <2>2, <3>1
    <3> QED BY <1>13, <3>2
  <2> QED BY <2>1, <2>2
<1>16. ShortlistDiverse'
  <2>1. \A a : {b \in list : clusterOf'[b] = clusterOf'[a]} = SameCluster(a, list)
    BY DEF SameCluster
  <2>2. \A a : Cardinality({b \in list : clusterOf'[b] = clusterOf'[a]}) = crowd(a)
    BY <2>1
  <2>3. Best(deep', Protected) \cup included' \cup explorer' = Best(chosen, Protected) \cup included \cup explorer
    BY <1>2
  <2> HIDE DEF crowd
  <2> QED BY <1>2, <1>4, <1>14, <1>15, <2>2, <2>3 DEF ShortlistDiverse
<1>17. included' \subseteq chosen'
  BY <1>2, <1>4, <1>6, <1>11
<1>18. SelectionTypeOK'
  BY <1>1, <1>2, <1>3, <1>11 DEF SelectionTypeOK
<1> QED BY <1>2, <1>16, <1>17, <1>18 DEF AutoIncludedPublished

LEMMA SelectStep ==
  ASSUME SelectInv, chosenBy = "shortlist", NEW picked \in SUBSET chosen, Select(picked)
  PROVE  SelectInv'
<1> USE Limits DEF SelectInv
<1> DEFINE all == picked \cup (chosen \cap included)
           sure == Best(all \cap included, HardMax)
           rest == Best(all \ included, HardMax - Cardinality(sure))
<1>1. chosenBy' = "editor" /\ chosen' = sure \cup rest /\ included' = included
      /\ explorer' = {} /\ deep' = {} /\ clusterOf' = Alone
  BY DEF Select, Assemble
<1>2. included \subseteq chosen /\ chosen \in SUBSET Candidate /\ included \in SUBSET Candidate
  BY DEF SelectionTypeOK
<1>3. all \cap included = included /\ all \ included \in SUBSET Candidate
  BY <1>2
<1> HIDE DEF all
<1>4. sure \in SUBSET included /\ Cardinality(sure) \in Nat /\ Cardinality(sure) <= HardMax
      /\ (sure = included \/ Cardinality(sure) = HardMax)
  BY <1>2, <1>3, BestCounts
<1> HIDE DEF sure
<1>5. HardMax - Cardinality(sure) \in Nat
  BY <1>4
<1>6. rest \in SUBSET Candidate /\ Cardinality(rest) \in Nat /\ Cardinality(rest) <= HardMax - Cardinality(sure)
  BY <1>3, <1>5, BestCounts
<1> HIDE DEF rest
<1>7. sure \in SUBSET Candidate /\ sure \cup rest \in SUBSET Candidate
  BY <1>2, <1>4, <1>6
<1>8. Cardinality(sure \cup rest) <= HardMax
  <2>1. IsFiniteSet(sure) /\ IsFiniteSet(rest)
    BY <1>6, <1>7, Countable
  <2>2. Cardinality(sure \cup rest) = Cardinality(sure) + Cardinality(rest) - Cardinality(sure \cap rest)
    BY <2>1, FS_Union
  <2>3. sure \cap rest \in SUBSET Candidate
    BY <1>7
  <2>4. Cardinality(sure \cap rest) \in Nat
    BY <2>3, Countable
  <2> QED BY <1>4, <1>6, <2>2, <2>4
<1>9. Cardinality(sure) = HardMax => rest = {}
  <2> SUFFICES ASSUME Cardinality(sure) = HardMax PROVE rest = {}
    OBVIOUS
  <2>1. Cardinality(rest) = 0
    BY <1>6
  <2>2. IsFiniteSet(rest)
    BY <1>6, Countable
  <2> QED BY <2>1, <2>2, FS_EmptySet
<1>10. AutoIncludedPublished'
  <2>1. CASE sure = included
    BY <1>1, <1>8, <2>1 DEF AutoIncludedPublished
  <2>2. CASE Cardinality(sure) = HardMax
    <3>1. chosen' = sure
      BY <1>1, <1>9, <2>2
    <3> QED BY <1>1, <1>4, <2>2, <3>1 DEF AutoIncludedPublished
  <2> QED BY <1>4, <2>1, <2>2
<1>11. SelectionTypeOK'
  BY <1>1, <1>2, <1>7, AloneIsTyped DEF SelectionTypeOK
<1> QED BY <1>1, <1>10, <1>11 DEF ShortlistDiverse

LEMMA SelectionStep == SelectInv /\ [SelectionNext]_selectionVars => SelectInv'
<1> SUFFICES ASSUME SelectInv, [SelectionNext]_selectionVars PROVE SelectInv'
  OBVIOUS
<1> USE DEF SelectInv
<1>1. CASE PoolCap
  BY <1>1 DEF PoolCap, SelectionTypeOK, AutoIncludedPublished, ShortlistDiverse
<1>2. CASE AdmitUnion
  BY <1>2 DEF AdmitUnion, SelectionTypeOK, AutoIncludedPublished, ShortlistDiverse
<1>3. CASE Shortlist
  BY <1>3, ShortlistStep
<1>4. CASE EditorSelects
  BY <1>4, SelectStep DEF EditorSelects
<1>5. CASE SelectWithoutLlm
  <2>1. Best(chosen, SoftTarget) \in SUBSET chosen
    BY DEF Best
  <2> QED BY <1>5, <2>1, SelectStep DEF SelectWithoutLlm
<1>6. CASE UNCHANGED selectionVars
  BY <1>6 DEF selectionVars, SelectionTypeOK, AutoIncludedPublished, ShortlistDiverse
<1> QED BY <1>1, <1>2, <1>3, <1>4, <1>5, <1>6 DEF SelectionNext

LEMMA SelectAlways == SelectionSpec => []SelectInv
BY SelectInit, SelectionStep, PTL DEF SelectionSpec

\* AutoIncludedPublished: for any limits, clusters, signals and answers.
THEOREM AutoIncludedStay == SelectionSpec => []AutoIncludedPublished
<1>1. SelectInv => AutoIncludedPublished
  BY DEF SelectInv
<1> QED BY <1>1, SelectAlways, PTL

\* ShortlistDiverse: for any limits, clusters, signals and number of candidates.
THEOREM ShortlistsAreDiverse == SelectionSpec => []ShortlistDiverse
<1>1. SelectInv => ShortlistDiverse
  BY DEF SelectInv
<1> QED BY <1>1, SelectAlways, PTL
-----------------------------------------------------------------------------
(* The stages in one behaviour.                                            *)

\* Whichever part acts, it is as it would be on its own.
PipelineInv ==
  /\ acting = "dedupe" => Partitioned
  /\ acting = "interests" => Reading
  /\ acting = "batches" => TypeInv
  /\ acting = "selection" => SelectInv
  /\ acting = "ingest" => IngestInv

\* PipelineTypeOK: for any constants of the parts.
THEOREM PipelineTypes == PipelineSpec => []PipelineTypeOK
<1>1. PipelineInit => PipelineInv
  BY PartitionedInit, ReadingInit, BatchesTypesInit, SelectInit, IngestStarts
     DEF PipelineInit, PipelineInv
<1>2. PipelineInv /\ [PipelineNext]_pipelineVars => PipelineInv'
  <2> SUFFICES ASSUME PipelineInv, [PipelineNext]_pipelineVars PROVE PipelineInv'
    OBVIOUS
  <2>1. acting' = acting
    BY DEF PipelineNext, pipelineVars
  <2>2. acting = "dedupe" => [DedupeNext]_dedupeVars
    BY DEF PipelineNext, pipelineVars, partVars, PublishingActs, BatchesAct, DedupeActs, InterestsAct,
           SelectionActs, IngestActs
  <2>3. acting = "interests" => [InterestsNext]_interestsVars
    BY DEF PipelineNext, pipelineVars, partVars, PublishingActs, BatchesAct, DedupeActs, InterestsAct,
           SelectionActs, IngestActs
  <2>4. acting = "batches" => [BatchesNext]_batchVars
    BY DEF PipelineNext, pipelineVars, partVars, PublishingActs, BatchesAct, DedupeActs, InterestsAct,
           SelectionActs, IngestActs
  <2>5. acting = "selection" => [SelectionNext]_selectionVars
    BY DEF PipelineNext, pipelineVars, partVars, PublishingActs, BatchesAct, DedupeActs, InterestsAct,
           SelectionActs, IngestActs
  <2>6. acting = "ingest" => [IngestNext]_ingestVars
    BY DEF PipelineNext, pipelineVars, partVars, PublishingActs, BatchesAct, DedupeActs, InterestsAct,
           SelectionActs, IngestActs
  <2> QED BY <2>1, <2>2, <2>3, <2>4, <2>5, <2>6, PartitionedStep, ReadingStep, BatchesTypesStep,
             SelectionStep, IngestStep DEF PipelineInv
<1>3. PipelineInv => PipelineTypeOK
  BY DEF PipelineInv, PipelineTypeOK, Partitioned, Reading, TypeInv, SelectInv, IngestInv
<1> QED BY <1>1, <1>2, <1>3, PTL DEF PipelineSpec
=============================================================================
