----------------------------- MODULE ImportsProofs -----------------------------
(***************************************************************************)
(* A rating import is rated again only when a run died between rating and  *)
(* recording it, and of two requests for an article the later one decides, *)
(* for any number of imports, URLs, requests and batch size, as long as    *)
(* only the unit runs the job (no operator shell): then there is one       *)
(* import process at a time, although the job takes no run lock.           *)
(***************************************************************************)
EXTENDS Imports, FiniteSetTheorems, TLAPS

\* The import loop of the unit's process works on pending rows only; no other
\* process is in the loop.
LoopInv ==
  /\ istatus \in [Import -> {"none", "pending", "ok", "failed"}]
  /\ events \in Seq(Import)
  /\ step \in [Process -> {"load", "find", "rate", "record"}]
  /\ batch \in [Process -> SUBSET Import]
  /\ verdict \in [Process -> {"none", "ok", "failed"}]
  /\ job = [p \in Process |-> p]
  /\ \A p \in Process :
       /\ step[p] = "load" => batch[p] = {}
       /\ batch[p] # {} => p = ImportJob
       /\ \A i \in batch[p] : istatus[i] = "pending"

\* Every step preserves LoopInv: the form fills free rows, and the only
\* process that changes a pending row is the one that has it in its batch.
LEMMA LoopStep == Shell = {} /\ LoopInv /\ [ImportNext]_allVars => LoopInv'
<1> SUFFICES ASSUME Shell = {}, LoopInv, [ImportNext]_allVars PROVE LoopInv'
  OBVIOUS
<1> USE ImportsAssumption DEF LoopInv, Process, vars, rowVars, procVars, webVars, importVars,
                              tableVars, loopVars, askVars
<1>1. ASSUME NEW p \in Process, Around(p) PROVE LoopInv'
  BY <1>1 DEF Around, Begin, ClaimSelect, ClaimInsert, ClaimUpdate, Finish, Leave, Exit
<1>2. ASSUME NEW p \in Process, LoadBatch(p) PROVE LoopInv'
  BY <1>2 DEF LoadBatch, Loop, NextBatch, Pending
<1>3. ASSUME NEW p \in Process, FindArticle(p) PROVE LoopInv'
  BY <1>3 DEF FindArticle, Loop
<1>4. ASSUME NEW p \in Process, ProcessFails(p) PROVE LoopInv'
  BY <1>4 DEF ProcessFails, Loop
<1>5. ASSUME NEW p \in Process, RateArticle(p) PROVE LoopInv'
  BY <1>5 DEF RateArticle, Loop
<1>6. ASSUME NEW p \in Process, Record(p) PROVE LoopInv'
  BY <1>6 DEF Record, RecordAs, Loop, Current
<1>7. ASSUME NEW p \in Process, Abort(p) PROVE LoopInv'
  BY <1>7 DEF Abort, Forget
<1>8. ASSUME NEW p \in Process, KillImport(p) PROVE LoopInv'
  BY <1>8 DEF KillImport, Kill, Exit, Forget
<1>9. ASSUME NEW w \in Handler, NEW n \in 1..MaxImports, Queue(w, n) PROVE LoopInv'
  BY <1>9 DEF Queue, LowestFree, Free
<1>10. ASSUME NEW w \in Handler, Respond(w) PROVE LoopInv'
  BY <1>10 DEF Respond, StartImport, CheckActive, AlreadyActive, RequestImport, RequestJob,
               InsertRequested, RunnerStart, RunnerError, StartUnit, StartFailed, FinishRow, Reply
<1>11. ASSUME NEW w \in Handler, RequestDropped(w) PROVE LoopInv'
  BY <1>11 DEF RequestDropped, Dropped
<1>12. ASSUME RebootImports PROVE LoopInv'
  BY <1>12 DEF RebootImports, Reboot
<1>13. CASE UNCHANGED allVars
  BY <1>13 DEF allVars
<1>14. QED
  BY <1>1, <1>2, <1>3, <1>4, <1>5, <1>6, <1>7, <1>8, <1>9, <1>10, <1>11, <1>12, <1>13
     DEF ImportNext, ImportLoop

\* LoopInv holds in every reachable state.
LEMMA LoopInvariant == ASSUME Shell = {} PROVE ImportSpec => []LoopInv
<1>1. ImportInit => LoopInv
  BY DEF ImportInit, Init, LoopInv, Process
<1>2. LoopInv /\ [ImportNext]_allVars => LoopInv'
  BY LoopStep
<1>3. QED
  BY <1>1, <1>2, PTL DEF ImportSpec

\* Only RateArticle appends an event, for the row at hand, which is pending
\* and which no process is about to record.
LEMMA RatingStep ==
  ASSUME Shell = {}, LoopInv, [ImportNext]_allVars, NEW i \in Import,
         RatedAt(i) # {}, RatedAt(i)' # RatedAt(i)
  PROVE  Torn(i)
<1> USE DEF vars, rowVars, procVars, webVars, importVars, tableVars, loopVars, askVars
<1>1. events' # events
  BY DEF RatedAt
<1>2. PICK p \in Process : RateArticle(p)
  BY <1>1 DEF allVars, ImportNext, Around, ImportLoop, LoadBatch, FindArticle, ProcessFails,
              Record, RecordAs, Abort, KillImport, Queue, Respond, StartImport, RequestImport,
              AlreadyActive, RequestDropped, RebootImports
<1>3. PICK k \in Import : Current(p, k) /\ events' = Append(events, k)
  BY <1>2 DEF RateArticle
<1>4. i = k
  BY <1>3 DEF RatedAt, LoopInv
<1>5. istatus[i] = "pending" /\ p = ImportJob /\ step[p] = "rate"
  BY <1>2, <1>3, <1>4 DEF LoopInv, Current, RateArticle, Loop
<1>6. ~InHand(i)
  BY <1>5 DEF InHand, Current, LoopInv
<1>7. QED
  BY <1>5, <1>6 DEF Torn

\* OnlyTornRatedAgain, for every value of the constants without operator shells.
THEOREM OneRatingPerImport == ASSUME Shell = {} PROVE ImportSpec => OnlyTornRatedAgain
<1>1. LoopInv /\ [ImportNext]_allVars =>
        [\A i \in Import : RatedAt(i) # {} /\ RatedAt(i)' # RatedAt(i) => Torn(i)]_allVars
  BY RatingStep
<1>2. QED
  BY <1>1, LoopInvariant, PTL DEF ImportSpec, OnlyTornRatedAgain

-----------------------------------------------------------------------------
(* The order of the rating history.                                        *)

Done(i) == istatus[i] \in {"ok", "failed"}

\* Rows are filled, loaded and rated in the order of their ids: what comes
\* before a row that is in a batch, or that was ever rated, is done or in the
\* same batch.  So the history has the rows in order, and who rates a row rates
\* it last.
OrderInv ==
  /\ \A i, k \in Import : i < k /\ istatus[k] # "none" => istatus[i] # "none"
  /\ \A i \in Import : istatus[i] = "ok" => RatedAt(i) # {}
  /\ \A n \in DOMAIN events : \A i \in Import : i < events[n] => Done(i)
  /\ \A m, n \in DOMAIN events : m < n => events[m] <= events[n]
  /\ \A p \in Process :
       /\ \A i \in batch[p], k \in Import : k < i => k \in batch[p] \/ Done(k)
       /\ step[p] = "record" =>
            /\ verdict[p] # "none"
            /\ verdict[p] = "ok" => \A i \in Import : Current(p, i) => RatedAt(i) # {}

LEMMA ImportsFinite == \A S \in SUBSET Import : IsFiniteSet(S) /\ Cardinality(S) \in Nat
<1>1. IsFiniteSet(Import)
  BY FS_Interval, ImportsAssumption DEF Import
<1> QED BY <1>1, FS_Subset, FS_CardinalityType

\* The first few of a set of rows leave out none that is before one of them.
LEMMA FirstFewClosed ==
  ASSUME NEW S \in SUBSET Import, NEW n \in Nat, NEW i \in S, NEW k \in S, i < k,
         Cardinality({j \in S : j < k}) < n
  PROVE  Cardinality({j \in S : j < i}) < n
<1>1. {j \in S : j < i} \in SUBSET {j \in S : j < k}
  <2>1. \A j \in S : j < i => j < k
    <3>1. i \in Nat /\ k \in Nat /\ \A j \in S : j \in Nat
      BY ImportsAssumption DEF Import
    <3> QED BY <3>1
  <2> QED BY <2>1
<1>2. {j \in S : j < k} \in SUBSET Import /\ {j \in S : j < i} \in SUBSET Import
  OBVIOUS
<1>3. Cardinality({j \in S : j < i}) <= Cardinality({j \in S : j < k})
  BY <1>1, <1>2, ImportsFinite, FS_Subset
<1> QED BY <1>2, <1>3, ImportsFinite

\* Steps that leave rows and history alone, and empty batches or leave them.
LEMMA OrderKept ==
  ASSUME LoopInv, OrderInv, NEW p \in Process, UNCHANGED <<istatus, events>>,
         \/ UNCHANGED loopVars
         \/ Forget(p)
         \/ /\ step' = [q \in Process |-> "load"] /\ batch' = [q \in Process |-> {}]
            /\ verdict' = [q \in Process |-> "none"]
         \/ /\ UNCHANGED batch
            /\ \/ /\ \E at \in {"load", "find", "rate"} : step' = [step EXCEPT ![p] = at]
                  /\ UNCHANGED verdict
               \/ /\ step' = [step EXCEPT ![p] = "record"]
                  /\ verdict' = [verdict EXCEPT ![p] = "failed"]
  PROVE  OrderInv'
<1>1. \A i \in Import : RatedAt(i)' = RatedAt(i) /\ Done(i)' = Done(i)
  BY DEF RatedAt, Done
<1>2. /\ \A i, k \in Import : i < k /\ istatus'[k] # "none" => istatus'[i] # "none"
      /\ \A i \in Import : istatus'[i] = "ok" => RatedAt(i)' # {}
      /\ \A n \in DOMAIN events' : \A i \in Import : i < events'[n] => Done(i)'
      /\ \A m, n \in DOMAIN events' : m < n => events'[m] <= events'[n]
  BY <1>1 DEF OrderInv
<1>3. ASSUME NEW q \in Process, NEW i \in batch'[q], NEW k \in Import, k < i
      PROVE  k \in batch'[q] \/ Done(k)'
  BY <1>1, <1>3 DEF OrderInv, LoopInv, Forget, loopVars
<1>4. ASSUME NEW q \in Process, step'[q] = "record"
      PROVE  /\ verdict'[q] # "none"
             /\ verdict'[q] = "ok" => \A i \in Import : Current(q, i)' => RatedAt(i)' # {}
  BY <1>1, <1>4 DEF OrderInv, LoopInv, Forget, loopVars, Current
<1> QED BY <1>2, <1>3, <1>4 DEF OrderInv

LEMMA LoadOrder ==
  ASSUME LoopInv, OrderInv, NEW p \in Process, LoadBatch(p)
  PROVE  OrderInv'
<1> USE ImportsAssumption
<1>1. /\ batch' = [batch EXCEPT ![p] = NextBatch] /\ UNCHANGED <<istatus, events, verdict>>
      /\ step'[p] # "record" /\ \A q \in Process \ {p} : step'[q] = step[q]
  BY DEF LoadBatch, Loop, LoopInv, tableVars
<1>2. \A i \in Import : RatedAt(i)' = RatedAt(i) /\ Done(i)' = Done(i)
  BY <1>1 DEF RatedAt, Done
<1>3. ASSUME NEW i \in NextBatch, NEW k \in Import, k < i PROVE k \in NextBatch \/ Done(k)
  <2>1. istatus[k] # "none" /\ i \in Pending /\ Cardinality({j \in Pending : j < i}) < BatchSize
    BY <1>3 DEF NextBatch, Pending, OrderInv
  <2>2. CASE istatus[k] = "pending"
    <3>1. Pending \in SUBSET Import /\ k \in Pending /\ BatchSize \in Nat
      BY <2>2 DEF Pending
    <3>2. Cardinality({j \in Pending : j < k}) < BatchSize
      BY <1>3, <2>1, <3>1, FirstFewClosed
    <3> QED BY <3>1, <3>2 DEF NextBatch
  <2> QED BY <2>1, <2>2 DEF LoopInv, Done
<1>4. ASSUME NEW q \in Process, NEW i \in batch'[q], NEW k \in Import, k < i
      PROVE  k \in batch'[q] \/ Done(k)'
  BY <1>1, <1>2, <1>3, <1>4 DEF LoopInv, OrderInv
<1>5. ASSUME NEW q \in Process, step'[q] = "record"
      PROVE  /\ verdict'[q] # "none"
             /\ verdict'[q] = "ok" => \A i \in Import : Current(q, i)' => RatedAt(i)' # {}
  BY <1>1, <1>2, <1>5 DEF LoopInv, OrderInv, Current
<1>6. /\ \A i, k \in Import : i < k /\ istatus'[k] # "none" => istatus'[i] # "none"
      /\ \A i \in Import : istatus'[i] = "ok" => RatedAt(i)' # {}
      /\ \A n \in DOMAIN events' : \A i \in Import : i < events'[n] => Done(i)'
      /\ \A m, n \in DOMAIN events' : m < n => events'[m] <= events'[n]
  BY <1>1, <1>2 DEF OrderInv
<1> QED BY <1>4, <1>5, <1>6 DEF OrderInv

\* What is pending was not followed in the history: the new event is the last
\* in order as in time.
LEMMA RateOrder ==
  ASSUME LoopInv, OrderInv, NEW p \in Process, RateArticle(p)
  PROVE  OrderInv'
<1> USE ImportsAssumption DEF Import
<1>1. PICK r \in Import : Current(p, r) /\ events' = Append(events, r)
  BY DEF RateArticle
<1>2. /\ UNCHANGED <<istatus, batch>>
      /\ step' = [step EXCEPT ![p] = "record"] /\ verdict' = [verdict EXCEPT ![p] = "ok"]
  BY DEF RateArticle
<1>3. /\ Len(events) \in Nat /\ DOMAIN events = 1..Len(events) /\ DOMAIN events' = 1..(Len(events) + 1)
      /\ \A n \in DOMAIN events : events'[n] = events[n] /\ events[n] \in Import
      /\ events'[Len(events) + 1] = r
  BY <1>1 DEF LoopInv
<1>4. /\ \A i \in Import : i < r => Done(i)
      /\ istatus[r] = "pending"
  BY <1>1 DEF Current, OrderInv, LoopInv
<1>5. \A n \in DOMAIN events : events[n] <= r
  BY <1>3, <1>4 DEF OrderInv, Done
<1>6. \A i \in Import : RatedAt(i) \subseteq RatedAt(i)' /\ Done(i)' = Done(i)
  BY <1>2, <1>3 DEF RatedAt, Done
<1>7. RatedAt(r)' # {}
  BY <1>3 DEF RatedAt
<1>8. /\ \A i, k \in Import : i < k /\ istatus'[k] # "none" => istatus'[i] # "none"
      /\ \A i \in Import : istatus'[i] = "ok" => RatedAt(i)' # {}
  BY <1>2, <1>6 DEF OrderInv
<1>9. ASSUME NEW n \in DOMAIN events', NEW i \in Import, i < events'[n] PROVE Done(i)'
  BY <1>3, <1>4, <1>6, <1>9 DEF OrderInv
<1>10. ASSUME NEW m \in DOMAIN events', NEW n \in DOMAIN events', m < n PROVE events'[m] <= events'[n]
  <2>1. m \in DOMAIN events
    BY <1>3, <1>10
  <2> QED BY <1>3, <1>5, <1>10, <2>1 DEF OrderInv
<1>11. ASSUME NEW q \in Process, NEW i \in batch'[q], NEW k \in Import, k < i
       PROVE  k \in batch'[q] \/ Done(k)'
  BY <1>2, <1>6, <1>11 DEF OrderInv
<1>12. ASSUME NEW q \in Process, step'[q] = "record"
       PROVE  /\ verdict'[q] # "none"
              /\ verdict'[q] = "ok" => \A i \in Import : Current(q, i)' => RatedAt(i)' # {}
  <2>1. CASE q = p
    <3>1. verdict'[q] = "ok"
      BY <1>2, <2>1 DEF LoopInv
    <3>2. \A i \in Import : Current(q, i)' => i = r
      BY <1>1, <1>2, <2>1 DEF Current
    <3> QED BY <1>7, <3>1, <3>2
  <2>2. CASE q # p
    <3>1. verdict'[q] = verdict[q] /\ step[q] = "record" /\ \A i \in Import : Current(q, i)' <=> Current(q, i)
      BY <1>2, <1>12, <2>2 DEF LoopInv, Current
    <3> QED BY <1>6, <3>1 DEF OrderInv
  <2> QED BY <2>1, <2>2
<1> QED BY <1>8, <1>9, <1>10, <1>11, <1>12 DEF OrderInv

LEMMA RecordOrder ==
  ASSUME LoopInv, OrderInv, NEW p \in Process, Record(p)
  PROVE  OrderInv'
<1> USE ImportsAssumption
<1>1. PICK r \in Import : Current(p, r) /\ RecordAs(p, r, verdict[p])
  BY DEF Record
<1>2. /\ istatus' = [istatus EXCEPT ![r] = verdict[p]] /\ batch' = [batch EXCEPT ![p] = @ \ {r}]
      /\ UNCHANGED events /\ step[p] = "record"
      /\ step'[p] # "record"
      /\ \A q \in Process \ {p} : step'[q] = step[q] /\ verdict'[q] = verdict[q]
  BY <1>1 DEF RecordAs, Record, Loop, LoopInv
<1>3. verdict[p] \in {"ok", "failed"} /\ (verdict[p] = "ok" => RatedAt(r) # {})
  BY <1>1, <1>2 DEF OrderInv, LoopInv
<1>4. istatus'[r] = verdict[p] /\ \A i \in Import \ {r} : istatus'[i] = istatus[i]
  BY <1>2 DEF LoopInv
<1>5. \A i \in Import : RatedAt(i)' = RatedAt(i) /\ (Done(i) => Done(i)')
  BY <1>2, <1>3, <1>4 DEF RatedAt, Done
<1>6. Done(r)'
  BY <1>3, <1>4 DEF Done
<1>7. /\ \A i, k \in Import : i < k /\ istatus'[k] # "none" => istatus'[i] # "none"
      /\ \A i \in Import : istatus'[i] = "ok" => RatedAt(i)' # {}
  <2>1. istatus[r] = "pending"
    BY <1>1 DEF Current, LoopInv
  <2> QED BY <1>3, <1>4, <1>5, <2>1 DEF OrderInv
<1>8. /\ \A n \in DOMAIN events' : \A i \in Import : i < events'[n] => Done(i)'
      /\ \A m, n \in DOMAIN events' : m < n => events'[m] <= events'[n]
  BY <1>2, <1>5 DEF OrderInv
<1>9. ASSUME NEW q \in Process, NEW i \in batch'[q], NEW k \in Import, k < i
      PROVE  k \in batch'[q] \/ Done(k)'
  <2>1. i \in batch[q] /\ (k \in batch[q] => k \in batch'[q] \/ k = r)
    BY <1>2, <1>9 DEF LoopInv
  <2> QED BY <1>5, <1>6, <1>9, <2>1 DEF OrderInv
<1>10. ASSUME NEW q \in Process, step'[q] = "record"
       PROVE  /\ verdict'[q] # "none"
              /\ verdict'[q] = "ok" => \A i \in Import : Current(q, i)' => RatedAt(i)' # {}
  <2>1. q # p /\ step[q] = "record" /\ verdict'[q] = verdict[q] /\ batch'[q] = batch[q]
    BY <1>2, <1>10 DEF LoopInv
  <2> QED BY <1>5, <2>1 DEF OrderInv, Current
<1> QED BY <1>7, <1>8, <1>9, <1>10 DEF OrderInv

\* The form fills the free rows from the lowest on.
LEMMA QueueOrder ==
  ASSUME LoopInv, OrderInv, NEW w \in Handler, NEW n \in 1..MaxImports, Queue(w, n)
  PROVE  OrderInv'
<1> USE ImportsAssumption
<1>1. /\ istatus' = [i \in Import |-> IF i \in LowestFree(n) THEN "pending" ELSE istatus[i]]
      /\ UNCHANGED <<events, step, batch, verdict>>
  BY DEF Queue, loopVars
<1>2. \A i \in LowestFree(n) : istatus[i] = "none" /\ i \in Import
  BY DEF LowestFree, Free
<1>3. \A i \in Import : RatedAt(i)' = RatedAt(i) /\ (Done(i) => Done(i)')
  BY <1>1, <1>2 DEF RatedAt, Done
<1>4. ASSUME NEW i \in Import, NEW k \in Import, i < k, istatus'[k] # "none" PROVE istatus'[i] # "none"
  <2>1. CASE k \in LowestFree(n)
    <3>1. CASE i \in Free
      <4>1. Free \in SUBSET Import /\ k \in Free /\ Cardinality({j \in Free : j < k}) < n /\ n \in Nat
        BY <2>1 DEF LowestFree, Free
      <4>2. i \in LowestFree(n)
        BY <1>4, <3>1, <4>1, FirstFewClosed DEF LowestFree
      <4> QED BY <1>1, <4>2
    <3>2. CASE i \notin Free
      BY <1>1, <3>2 DEF Free
    <3> QED BY <3>1, <3>2
  <2>2. CASE k \notin LowestFree(n)
    BY <1>1, <1>4, <2>2 DEF OrderInv
  <2> QED BY <2>1, <2>2
<1>5. \A i \in Import : istatus'[i] = "ok" => RatedAt(i)' # {}
  BY <1>1, <1>3 DEF OrderInv
<1>6. /\ \A m \in DOMAIN events' : \A i \in Import : i < events'[m] => Done(i)'
      /\ \A l, m \in DOMAIN events' : l < m => events'[l] <= events'[m]
  BY <1>1, <1>3 DEF OrderInv
<1>7. ASSUME NEW q \in Process, NEW i \in batch'[q], NEW k \in Import, k < i
      PROVE  k \in batch'[q] \/ Done(k)'
  BY <1>1, <1>3, <1>7 DEF OrderInv
<1>8. ASSUME NEW q \in Process, step'[q] = "record"
      PROVE  /\ verdict'[q] # "none"
             /\ verdict'[q] = "ok" => \A i \in Import : Current(q, i)' => RatedAt(i)' # {}
  BY <1>1, <1>3, <1>8 DEF OrderInv, Current
<1> QED BY <1>4, <1>5, <1>6, <1>7, <1>8 DEF OrderInv

LEMMA OrderInit == ImportInit => OrderInv
BY DEF ImportInit, OrderInv, RatedAt

LEMMA OrderStep == Shell = {} /\ LoopInv /\ OrderInv /\ [ImportNext]_allVars => OrderInv'
<1> SUFFICES ASSUME Shell = {}, LoopInv, OrderInv, [ImportNext]_allVars PROVE OrderInv'
  OBVIOUS
<1> USE DEF importVars, tableVars, loopVars, askVars
<1>0. ImportJob \in Process
  BY ImportsAssumption DEF Process
<1>1. ASSUME NEW p \in Process, Around(p) PROVE OrderInv'
  BY <1>1, OrderKept DEF Around
<1>2. ASSUME NEW p \in Process, FindArticle(p) \/ ProcessFails(p) PROVE OrderInv'
  BY <1>2, OrderKept DEF FindArticle, ProcessFails
<1>3. ASSUME NEW p \in Process, Abort(p) \/ KillImport(p) PROVE OrderInv'
  BY <1>3, OrderKept DEF Abort, KillImport
<1>4. ASSUME NEW p \in Process, LoadBatch(p) \/ RateArticle(p) \/ Record(p) PROVE OrderInv'
  BY <1>4, LoadOrder, RateOrder, RecordOrder
<1>5. ASSUME NEW w \in Handler, NEW n \in 1..MaxImports, Queue(w, n) PROVE OrderInv'
  BY <1>5, QueueOrder
<1>6. ASSUME NEW w \in Handler, Respond(w) PROVE OrderInv'
  BY <1>0, <1>6, OrderKept DEF Respond, StartImport, RequestImport, AlreadyActive
<1>7. ASSUME NEW w \in Handler, RequestDropped(w) PROVE OrderInv'
  BY <1>0, <1>7, OrderKept DEF RequestDropped
<1>8. ASSUME RebootImports PROVE OrderInv'
  BY <1>0, <1>8, OrderKept DEF RebootImports
<1>9. CASE UNCHANGED allVars
  BY <1>0, <1>9, OrderKept DEF allVars
<1> QED BY <1>1, <1>2, <1>3, <1>4, <1>5, <1>6, <1>7, <1>8, <1>9 DEF ImportNext, ImportLoop

\* LaterRequestWins, for every number of imports, URLs, requests and processes
\* killed, without operator shells.
THEOREM LaterWins == ASSUME Shell = {} PROVE ImportSpec => []LaterRequestWins
<1>1. LoopInv /\ OrderInv => LaterRequestWins
  <2> SUFFICES ASSUME LoopInv, OrderInv, NEW i \in Import, NEW k \in Import, i < k,
                      istatus[i] = "ok", istatus[k] = "ok"
               PROVE  \E n \in RatedAt(k) : \A l \in RatedAt(i) : l < n
    BY DEF LaterRequestWins
  <2>1. PICK n \in RatedAt(k) : TRUE
    BY DEF OrderInv
  <2>2. ASSUME NEW l \in RatedAt(i) PROVE l < n
    <3>1. /\ n \in DOMAIN events /\ l \in DOMAIN events /\ events[n] = k /\ events[l] = i
          /\ n \in Nat /\ l \in Nat /\ n # l
      BY ImportsAssumption DEF RatedAt, LoopInv, Import
    <3>2. n < l => k <= i
      BY <3>1 DEF OrderInv
    <3> QED BY <3>1, <3>2, ImportsAssumption DEF Import
  <2> QED BY <2>2
<1>2. OrderInv /\ LoopInv /\ [ImportNext]_allVars => OrderInv'
  BY OrderStep
<1> QED BY <1>1, <1>2, OrderInit, LoopInvariant, PTL DEF ImportSpec

-----------------------------------------------------------------------------
(* Types.                                                                  *)

\* ImportTypeOK, that only rows with a URL get into a batch, and that a request
\* knows a row of the jobs table or none.
ImportInv ==
  /\ ImportTypeOK
  /\ wrow \in [Handler -> Row \cup {NoRow}]
  /\ \A i \in Import : istatus[i] # "none" => url[i] \in Url
  /\ \A p \in Process :
       /\ \A i \in batch[p] : istatus[i] # "none"
       /\ step[p] = "record" => verdict[p] # "none"

LEMMA ImportInvInit == ImportInit => ImportInv
<1> SUFFICES ASSUME ImportInit PROVE ImportInv
  OBVIOUS
<1>1. events \in Seq(Import)
  BY DEF ImportInit
<1> QED BY <1>1 DEF ImportInit, Init, ImportInv, ImportTypeOK

\* No step but those of a request's own changes what it knows of the jobs table.
LEMMA RequestRows ==
  ASSUME wrow \in [Handler -> Row \cup {NoRow}], [ImportNext]_allVars
  PROVE  wrow' \in [Handler -> Row \cup {NoRow}]
<1> USE DEF vars, rowVars, procVars, webVars
<1>1. ASSUME NEW w \in Handler, Respond(w) PROVE wrow' \in [Handler -> Row \cup {NoRow}]
  BY <1>1 DEF Respond, StartImport, CheckActive, RequestImport, RequestJob, AlreadyActive,
              RunnerStart, RunnerError, StartFailed, Reply
<1>2. ASSUME NEW w \in Handler, RequestDropped(w) PROVE wrow' \in [Handler -> Row \cup {NoRow}]
  BY <1>2 DEF RequestDropped, Dropped, Reply
<1>3. ASSUME RebootImports PROVE wrow' \in [Handler -> Row \cup {NoRow}]
  BY <1>3 DEF RebootImports, Reboot, Idle
<1>4. ASSUME NEW p \in Process, Around(p) \/ ImportLoop(p) \/ Abort(p) \/ KillImport(p)
      PROVE  UNCHANGED wrow
  BY <1>4 DEF Around, Begin, ClaimSelect, ClaimInsert, ClaimUpdate, Finish, Leave, ImportLoop,
              LoadBatch, FindArticle, ProcessFails, RateArticle, Record, RecordAs, Abort,
              KillImport, Kill
<1> QED BY <1>1, <1>2, <1>3, <1>4 DEF ImportNext, RunByHand, Queue, allVars

LEMMA ImportInvStep == ImportInv /\ [ImportNext]_allVars => ImportInv'
<1> SUFFICES ASSUME ImportInv, [ImportNext]_allVars PROVE ImportInv'
  OBVIOUS
<1> USE ImportsAssumption DEF ImportInv, ImportTypeOK
<1>r. wrow' \in [Handler -> Row \cup {NoRow}]
  BY RequestRows
<1>0. ASSUME UNCHANGED importVars PROVE ImportInv'
  BY <1>r, <1>0 DEF importVars, tableVars, loopVars, askVars
<1>1. ASSUME NEW p \in Process, LoadBatch(p) PROVE ImportInv'
  BY <1>r, <1>1 DEF LoadBatch, NextBatch, Pending, tableVars, askVars
<1>2. ASSUME NEW p \in Process, FindArticle(p) PROVE ImportInv'
  <2>1. PICK i \in batch[p] : articles' = articles \cup {url[i]}
    BY <1>2 DEF FindArticle, Current
  <2>2. articles' \subseteq Url
    BY <2>1
  <2> QED BY <1>r, <1>2, <2>2 DEF FindArticle, askVars
<1>3. ASSUME NEW p \in Process, ProcessFails(p) PROVE ImportInv'
  BY <1>r, <1>3 DEF ProcessFails, tableVars, askVars
<1>4. ASSUME NEW p \in Process, RateArticle(p) PROVE ImportInv'
  <2>1. events' \in Seq(Import)
    BY <1>4 DEF RateArticle
  <2> QED BY <1>r, <1>4, <2>1 DEF RateArticle, askVars
<1>5. ASSUME NEW p \in Process, Record(p) PROVE ImportInv'
  <2>1. PICK i \in Import : Current(p, i) /\ RecordAs(p, i, verdict[p])
    BY <1>5 DEF Record
  <2>2. verdict[p] \in {"ok", "failed"} /\ url[i] \in Url
    BY <1>5, <2>1 DEF Record, Loop, Current
  <2> QED BY <1>r, <2>1, <2>2 DEF RecordAs, askVars
<1>6. ASSUME NEW p \in Process, Abort(p) \/ KillImport(p) PROVE ImportInv'
  BY <1>r, <1>6 DEF Abort, KillImport, Forget, tableVars, askVars
<1>7. ASSUME NEW w \in Handler, NEW n \in 1..MaxImports, Queue(w, n) PROVE ImportInv'
  <2>1. LowestFree(n) \subseteq Import
    BY DEF LowestFree, Free
  <2>2. PICK u \in [LowestFree(n) -> Url] :
          url' = [i \in Import |-> IF i \in LowestFree(n) THEN u[i] ELSE url[i]]
    BY <1>7 DEF Queue
  <2> QED BY <1>r, <1>7, <2>1, <2>2 DEF Queue, loopVars
<1>8. ASSUME NEW w \in Handler, RequestImport(w) PROVE ImportInv'
  <2>1. asked' \in [Import -> Row \cup {NoRow}] /\ cutOff' \subseteq Import
    BY <1>r, <1>8 DEF RequestImport
  <2> QED BY <1>r, <1>8, <2>1 DEF RequestImport, tableVars, loopVars
<1>9. ASSUME NEW w \in Handler, Respond(w) PROVE ImportInv'
  BY <1>r, <1>0, <1>8, <1>9 DEF Respond, StartImport, AlreadyActive, tableVars, loopVars
<1>10. ASSUME NEW w \in Handler, RequestDropped(w) PROVE ImportInv'
  BY <1>r, <1>10 DEF RequestDropped, tableVars, loopVars
<1>11. ASSUME RebootImports PROVE ImportInv'
  <2>1. cutOff' \subseteq Import
    BY <1>11 DEF RebootImports
  <2> QED BY <1>r, <1>11, <2>1 DEF RebootImports, tableVars
<1>12. CASE UNCHANGED allVars
  BY <1>r, <1>12 DEF allVars, importVars, tableVars, loopVars, askVars
<1> QED BY <1>0, <1>1, <1>2, <1>3, <1>4, <1>5, <1>6, <1>7, <1>9, <1>10, <1>11, <1>12
     DEF ImportNext, ImportLoop, Around

\* ImportTypeOK, with operator shells as well.
THEOREM ImportTypeCorrect == ImportSpec => []ImportTypeOK
<1>1. ImportInv => ImportTypeOK
  BY DEF ImportInv
<1> QED BY <1>1, ImportInvInit, ImportInvStep, PTL DEF ImportSpec
=============================================================================
