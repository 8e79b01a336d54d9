---------------------------- MODULE JobLifecycle ----------------------------
(***************************************************************************)
(* What the `jobs` table promises its readers, with no process, unit or    *)
(* handler in sight: a row is requested only while its unit has no active  *)
(* row, it moves requested -> running -> ok | failed (or straight to       *)
(* failed), and a finished row is left alone.                              *)
(***************************************************************************)
CONSTANTS Row, Job, None

VARIABLES status, jobOf

Init == /\ status = [i \in Row |-> "none"]
        /\ jobOf = [i \in Row |-> None]

Active(i) == status[i] \in {"requested", "running"}

Request(i, j) ==
  /\ status[i] = "none"
  /\ \A k \in Row : jobOf[k] = j => ~Active(k)
  /\ status' = [status EXCEPT ![i] = "requested"]
  /\ jobOf' = [jobOf EXCEPT ![i] = j]

Start(i) ==
  /\ status[i] = "requested"
  /\ status' = [status EXCEPT ![i] = "running"]
  /\ jobOf' = jobOf

Complete(i) ==
  /\ status[i] = "running"
  /\ status' = [status EXCEPT ![i] = "ok"]
  /\ jobOf' = jobOf

Fail(i) ==
  /\ Active(i)
  /\ status' = [status EXCEPT ![i] = "failed"]
  /\ jobOf' = jobOf

Next == \E i \in Row : Start(i) \/ Complete(i) \/ Fail(i) \/ \E j \in Job : Request(i, j)

Spec == Init /\ [][Next]_<<status, jobOf>>
=============================================================================
