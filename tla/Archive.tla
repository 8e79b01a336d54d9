-------------------------------- MODULE Archive --------------------------------
(***************************************************************************)
(* What the issue archive promises, stages, files and failures left out:   *)
(* the lineup of a date is replaced as a whole, by articles no earlier     *)
(* issue has, and no issue is published behind a later one.                *)
(***************************************************************************)
EXTENDS Integers

CONSTANTS
  Article,      \* article ids
  AutoInclude,  \* articles that are never excluded
  MaxDate       \* issue dates are 1..MaxDate

Date == 1..MaxDate

VARIABLE issues   \* issues[d]: the articles of the issue of date d, {} when none

Init == issues = [d \in Date |-> {}]

Before(d) == UNION {issues[e] : e \in {e \in Date : e < d}}

\* The issue of date d is published, or published again.
Publish(d) ==
  /\ \A e \in Date : e > d => issues[e] = {}
  /\ \E lineup \in SUBSET (AutoInclude \cup (Article \ Before(d))) :
       issues' = [issues EXCEPT ![d] = lineup]

Next == \E d \in Date : Publish(d)

Spec == Init /\ [][Next]_issues

\* No article is in two issues unless it is auto-included.
NoRepeat ==
  \A d, e \in Date : d # e => issues[d] \cap issues[e] \subseteq AutoInclude
===============================================================================
