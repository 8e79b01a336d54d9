-------------------------------- MODULE Access --------------------------------
(***************************************************************************)
(* Access requests: the public form that stores them, the operator's page  *)
(* that approves one (account, mail with a temporary password, done) or    *)
(* marks it done, and the command line that makes accounts too.            *)
(*                                                                         *)
(* A statement or a mail is a step.  An account is its user name, which is *)
(* unique; `letters` are the mails with temporary passwords.               *)
(***************************************************************************)
EXTENDS Naturals, FiniteSets

CONSTANTS
  Visitor,      \* submissions of the public form in flight
  Approver,     \* requests to the operator's page in flight
  Email, Name,  \* addresses and user names
  Unset,        \* neither
  MaxAsked,     \* bound on the rows ever inserted into `account_requests`
  MailFaults    \* of {"refused", "late", "drop"}

ASSUME AccessAssumption ==
  /\ Unset \notin Email \cup Name
  /\ MaxAsked \in Nat
  /\ MailFaults \subseteq {"refused", "late", "drop"}

Asked == 1..MaxAsked

VARIABLES
  asked,        \* asked[q]: row q of `account_requests`, its name as last given
  accounts,     \* user names in `users`
  approved,     \* those made by an approval (history)
  letters,      \* those whose temporary password was mailed
  reported,     \* accounts whose mail was reported as sent (history)
  cutOff,       \* accounts whose approval was dropped with the mail open (history)
  form,         \* form[v]: where submission v is, and what it submits
  task          \* task[x]: where operator request x is, its row and its account

accessVars == <<asked, accounts, approved, letters, reported, cutOff, form, task>>

NoForm == [at |-> "idle", email |-> Unset, name |-> Unset]
NoTask == [at |-> "idle", row |-> 0, name |-> Unset]
NotAsked == [status |-> "none", email |-> Unset, name |-> Unset]

AccessInit ==
  /\ asked = [q \in Asked |-> NotAsked]
  /\ accounts = {} /\ approved = {}
  /\ letters = {} /\ reported = {} /\ cutOff = {}
  /\ form = [v \in Visitor |-> NoForm]
  /\ task = [x \in Approver |-> NoTask]

OpenRows == {q \in Asked : asked[q].status = "open"}
TaskAt(x, place) == task[x].at = place
TaskGoes(x, place) == task' = [task EXCEPT ![x] = IF place = "idle" THEN NoTask ELSE [@ EXCEPT !.at = place]]

-----------------------------------------------------------------------------
(* POST /request-access.                                                   *)

\* A valid form; one for a name that an account has is shown again.
Submit(v) ==
  /\ form[v].at = "idle"
  /\ \E e \in Email, n \in Name :
       form' = IF n \in accounts THEN form
               ELSE [form EXCEPT ![v] = [at |-> "claim", email |-> e, name |-> n]]
  /\ UNCHANGED <<asked, accounts, approved, letters, reported, cutOff, task>>

\* The name is claimed by an open request from another address, or it is not.
Claim(v) ==
  LET f == form[v]
      claimed == \E q \in OpenRows : asked[q].name = f.name /\ asked[q].email # f.email
  IN /\ f.at = "claim"
     /\ form' = [form EXCEPT ![v] = IF claimed THEN NoForm ELSE [@ EXCEPT !.at = "store"]]
     /\ UNCHANGED <<asked, accounts, approved, letters, reported, cutOff, task>>

\* The open request of that address is updated, else there is a new one.
Store(v) ==
  LET f == form[v]
      mine == {q \in OpenRows : asked[q].email = f.email}
      free == {q \in Asked : asked[q].status = "none"}
      rows == IF mine # {} THEN mine ELSE {q \in free : \A k \in free : q <= k}
  IN /\ f.at = "store"
     /\ \E q \in rows : asked' = [asked EXCEPT ![q] = [status |-> "open", email |-> f.email, name |-> f.name]]
     /\ form' = [form EXCEPT ![v] = NoForm]
     /\ UNCHANGED <<accounts, approved, letters, reported, cutOff, task>>

-----------------------------------------------------------------------------
(* The operator's page: approve and mark_done.                             *)

\* open_request: the row is still open; the operator may give another name.
Approve(x) ==
  /\ TaskAt(x, "idle")
  /\ \E q \in OpenRows, n \in Name : task' = [task EXCEPT ![x] = [at |-> "add", row |-> q, name |-> n]]
  /\ UNCHANGED <<asked, accounts, approved, letters, reported, cutOff, form>>

\* Faulty variant: an existing account is given a new password instead.
AddOrReset(x) ==
  /\ TaskAt(x, "add")
  /\ accounts' = accounts \cup {task[x].name}
  /\ approved' = approved \cup {task[x].name}
  /\ TaskGoes(x, "mail")
  /\ UNCHANGED <<asked, letters, reported, cutOff, form>>

\* add_with_temporary_password: the name is free, or the operator is told so.
AddAccount(x) ==
  /\ TaskAt(x, "add")
  /\ IF task[x].name \in accounts
     THEN TaskGoes(x, "idle") /\ UNCHANGED <<accounts, approved>>
     ELSE /\ accounts' = accounts \cup {task[x].name}
          /\ approved' = approved \cup {task[x].name}
          /\ TaskGoes(x, "mail")
  /\ UNCHANGED <<asked, letters, reported, cutOff, form>>

Deliver(x) == letters' = letters \cup {task[x].name}

SendMail(x) ==
  /\ TaskAt(x, "mail")
  /\ Deliver(x)
  /\ reported' = reported \cup {task[x].name}
  /\ TaskGoes(x, "finish")
  /\ UNCHANGED <<asked, accounts, approved, cutOff, form>>

\* Faulty variant: the account stays when its mail cannot be sent.
MailFailsKeeping(x) ==
  /\ TaskAt(x, "mail")
  /\ "refused" \in MailFaults
  /\ TaskGoes(x, "idle")
  /\ UNCHANGED <<asked, accounts, approved, letters, reported, cutOff, form>>

\* The mail cannot be sent, or it can and the answer does not say so.
MailFails(x) ==
  /\ TaskAt(x, "mail")
  /\ \/ "refused" \in MailFaults /\ UNCHANGED letters
     \/ "late" \in MailFaults /\ Deliver(x)
  /\ TaskGoes(x, "undo")
  /\ UNCHANGED <<asked, accounts, approved, reported, cutOff, form>>

UndoAccount(x) ==
  /\ TaskAt(x, "undo")
  /\ accounts' = accounts \ {task[x].name}
  /\ approved' = approved \ {task[x].name}
  /\ letters' = letters \ {task[x].name}
  /\ TaskGoes(x, "idle")
  /\ UNCHANGED <<asked, reported, cutOff, form>>

\* finish_request; a row that is not open any more is answered with 404.  What
\* a handled row says is not read again.
Handled(q) == asked' = [asked EXCEPT ![q] = [NotAsked EXCEPT !.status = "done"]]

FinishRequest(x) ==
  /\ TaskAt(x, "finish")
  /\ Handled(task[x].row)
  /\ TaskGoes(x, "idle")
  /\ UNCHANGED <<accounts, approved, letters, reported, cutOff, form>>

MarkDone(x) ==
  /\ TaskAt(x, "idle")
  /\ \E q \in OpenRows : Handled(q)
  /\ UNCHANGED <<accounts, approved, letters, reported, cutOff, form, task>>

-----------------------------------------------------------------------------
\* `daily-epub user add`, with a password the operator hands over.
AddByHand ==
  /\ \E n \in Name \ accounts : accounts' = accounts \cup {n}
  /\ UNCHANGED <<asked, approved, letters, reported, cutOff, form, task>>

\* A request ends where it awaits, and what it wrote stays: its client goes
\* away, a statement fails, or the server stops, which ends all of them.  A
\* mail that was under way is out, or it is not.
ApprovalDropped(x) ==
  /\ "drop" \in MailFaults /\ ~TaskAt(x, "idle")
  /\ \/ UNCHANGED letters
     \/ TaskAt(x, "mail") /\ Deliver(x)
  /\ cutOff' = IF task[x].at \in {"mail", "undo"} THEN cutOff \cup {task[x].name} ELSE cutOff
  /\ TaskGoes(x, "idle")
  /\ UNCHANGED <<asked, accounts, approved, reported, form>>

FormDropped(v) ==
  /\ "drop" \in MailFaults /\ form[v].at # "idle"
  /\ form' = [form EXCEPT ![v] = NoForm]
  /\ UNCHANGED <<asked, accounts, approved, letters, reported, cutOff, task>>

Review(x) ==
  \/ Approve(x) \/ AddAccount(x) \/ SendMail(x) \/ MailFails(x) \/ UndoAccount(x)
  \/ FinishRequest(x) \/ MarkDone(x)

AccessNext ==
  \/ \E v \in Visitor : Submit(v) \/ Claim(v) \/ Store(v) \/ FormDropped(v)
  \/ \E x \in Approver : Review(x) \/ ApprovalDropped(x)
  \/ AddByHand

AccessSpec == AccessInit /\ [][AccessNext]_accessVars

-----------------------------------------------------------------------------
\* Types of the variables.
AccessTypeOK ==
  /\ asked \in [Asked -> [status : {"none", "open", "done"}, email : Email \cup {Unset}, name : Name \cup {Unset}]]
  /\ accounts \subseteq Name /\ approved \subseteq accounts
  /\ letters \subseteq Name /\ reported \subseteq Name /\ cutOff \subseteq Name
  /\ form \in [Visitor -> [at : {"idle", "claim", "store"}, email : Email \cup {Unset}, name : Name \cup {Unset}]]
  /\ task \in [Approver -> [at : {"idle", "add", "mail", "undo", "finish"}, row : Asked \cup {0}, name : Name \cup {Unset}]]

\* A reader whose mail the server knows to be sent can sign in: no other
\* approval of the same or another request takes that account away, whatever
\* its own mail did and whichever name it was given.
MailedAccountsStay == reported \subseteq accounts

\* An account nobody has the password of exists only while its own approval is
\* about to mail it or take it back, or because that approval was cut off in
\* between: no other approval, dropped or not, and no failing mail leaves one.
NoSilentAccount ==
  \A n \in approved \ letters :
    \/ n \in cutOff
    \/ \E x \in Approver : task[x].at \in {"mail", "undo"} /\ task[x].name = n
=============================================================================
