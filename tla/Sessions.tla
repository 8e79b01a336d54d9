------------------------------- MODULE Sessions -------------------------------
(***************************************************************************)
(* The sessions of one user: sign-in and sign-out, the password form,      *)
(* `sign out everywhere`, the commands that reset a password, disable and  *)
(* sign out, against requests that loaded a session before.                *)
(*                                                                         *)
(* A password hash is a version: every change makes a new one.  Sessions   *)
(* are rows of `sessions`; a request carries the session it loaded, and    *)
(* the store's save is an upsert, at the end of the request.               *)
(***************************************************************************)
EXTENDS Naturals

CONSTANTS
  Visit,        \* requests in flight
  Ticket,       \* session ids
  NoTicket,
  MaxVersion    \* bound on password versions

ASSUME SessionsAssumption ==
  /\ NoTicket \notin Ticket
  /\ MaxVersion \in Nat \ {0}

Version == 1..MaxVersion
NoVersion == 0

VARIABLES
  hash,       \* users.password_hash
  disabled,   \* users.disabled
  sessions,   \* sessions[k]: the auth_hash in session k, 0 when there is no row
  issued,     \* ids drawn so far (a random id is never drawn again)
  opened,     \* opened[k]: the passwords session k was signed in with (history)
  visit,      \* visit[v]: where request v is, its session, the hash it saw
  command     \* where the command line is

sessionVars == <<hash, disabled, sessions, issued, opened, visit, command>>

Away == [at |-> "idle", ticket |-> NoTicket, saw |-> NoVersion]

SessionsInit ==
  /\ hash = 1 /\ disabled = FALSE
  /\ sessions = [k \in Ticket |-> NoVersion]
  /\ issued = {}
  /\ opened = [k \in Ticket |-> {}]
  /\ visit = [v \in Visit |-> Away]
  /\ command = "idle"

Rows == {k \in Ticket : sessions[k] # NoVersion}
VisitAt(v, place) == visit[v].at = place
VisitGoes(v, place) == visit' = [visit EXCEPT ![v].at = place]
Leaves(v) == visit' = [visit EXCEPT ![v] = Away]

DeleteForUser == sessions' = [k \in Ticket |-> NoVersion]
DeleteSession(k) == sessions' = [sessions EXCEPT ![k] = NoVersion]

\* Faulty variant: the session takes the hash the user has by now.
SaveCurrent(k, h) == sessions' = [sessions EXCEPT ![k] = hash]

\* SqliteSessionStore::save.
SaveSession(k, h) == sessions' = [sessions EXCEPT ![k] = h]

-----------------------------------------------------------------------------
(* Signing in: find_by_username, verify, login, and the row.               *)

\* The right password is typed: it is verified against the hash read here, and
\* a moment later the user may have another.
SignIn(v) ==
  /\ VisitAt(v, "idle") /\ ~disabled
  /\ visit' = [visit EXCEPT ![v] = [at |-> "signin", ticket |-> NoTicket, saw |-> hash]]
  /\ UNCHANGED <<hash, disabled, sessions, issued, opened, command>>

CreateSession(v) ==
  /\ VisitAt(v, "signin")
  /\ \E k \in Ticket \ issued :
       /\ SaveSession(k, visit[v].saw)
       /\ issued' = issued \cup {k}
       /\ opened' = [opened EXCEPT ![k] = {visit[v].saw}]
  /\ Leaves(v)
  /\ UNCHANGED <<hash, disabled, command>>

-----------------------------------------------------------------------------
(* A request with the cookie of a session.                                 *)

LoadSession(v) ==
  /\ VisitAt(v, "idle")
  /\ \E k \in Rows : visit' = [visit EXCEPT ![v] = [at |-> "loaded", ticket |-> k, saw |-> sessions[k]]]
  /\ UNCHANGED <<hash, disabled, sessions, issued, opened, command>>

\* axum-login reads the user: a disabled one is nobody, one with another
\* password loses the session, and otherwise the handler runs.
Accepted(v) == ~disabled /\ visit[v].saw = hash

TurnedAway(v) ==
  /\ VisitAt(v, "loaded") /\ ~Accepted(v)
  /\ IF disabled THEN UNCHANGED sessions ELSE DeleteSession(visit[v].ticket)
  /\ Leaves(v)
  /\ UNCHANGED <<hash, disabled, issued, opened, command>>

EnterHandler(v) ==
  /\ VisitAt(v, "loaded") /\ Accepted(v)
  /\ \E place \in {"page", "logout", "everywhere", "change"} : VisitGoes(v, place)
  /\ UNCHANGED <<hash, disabled, sessions, issued, opened, command>>

\* A page may touch the session or leave a flash, and is then saved at the
\* end of the request, whether the row is still there or not.
AnswerPage(v) ==
  /\ VisitAt(v, "page")
  /\ SaveSession(visit[v].ticket, visit[v].saw) \/ UNCHANGED sessions
  /\ Leaves(v)
  /\ UNCHANGED <<hash, disabled, issued, opened, command>>

LogOut(v) ==
  /\ VisitAt(v, "logout")
  /\ DeleteSession(visit[v].ticket)
  /\ Leaves(v)
  /\ UNCHANGED <<hash, disabled, issued, opened, command>>

\* logout_everywhere: all rows of the user, then the request's own session.
LogOutEverywhere(v) ==
  /\ VisitAt(v, "everywhere")
  /\ DeleteForUser
  /\ VisitGoes(v, "logout")
  /\ UNCHANGED <<hash, disabled, issued, opened, command>>

\* change_password: the typed password was verified against the hash the
\* request saw; the update does not look at the hash again.
ChangePassword(v) ==
  /\ VisitAt(v, "change") /\ hash < MaxVersion
  /\ hash' = hash + 1
  /\ visit' = [visit EXCEPT ![v] = [@ EXCEPT !.at = "delete", !.saw = hash + 1]]
  /\ UNCHANGED <<disabled, sessions, issued, opened, command>>

DeleteAfterChange(v) ==
  /\ VisitAt(v, "delete")
  /\ DeleteForUser
  /\ VisitGoes(v, "relogin")
  /\ UNCHANGED <<hash, disabled, issued, opened, command>>

\* The request's own session is signed in again with the new password.
Relogin(v) ==
  /\ VisitAt(v, "relogin")
  /\ SaveSession(visit[v].ticket, visit[v].saw)
  /\ opened' = [opened EXCEPT ![visit[v].ticket] = @ \cup {visit[v].saw}]
  /\ Leaves(v)
  /\ UNCHANGED <<hash, disabled, issued, command>>

-----------------------------------------------------------------------------
(* `daily-epub user passwd | disable | enable | logout`.                   *)

Passwd ==
  /\ command = "idle" /\ hash < MaxVersion
  /\ hash' = hash + 1 /\ command' = "delete"
  /\ UNCHANGED <<disabled, sessions, issued, opened, visit>>

SetDisabled ==
  /\ command = "idle" /\ ~disabled
  /\ disabled' = TRUE /\ command' = "delete"
  /\ UNCHANGED <<hash, sessions, issued, opened, visit>>

SetEnabled ==
  /\ command = "idle" /\ disabled
  /\ disabled' = FALSE
  /\ UNCHANGED <<hash, sessions, issued, opened, visit, command>>

\* users::logout, by itself or after passwd and disable.
LogOutUser ==
  /\ DeleteForUser /\ command' = "idle"
  /\ UNCHANGED <<hash, disabled, issued, opened, visit>>

\* A request ends where it awaits: its client goes away, a statement fails, or
\* the server stops, which ends all of them.
VisitDropped(v) ==
  /\ ~VisitAt(v, "idle") /\ Leaves(v)
  /\ UNCHANGED <<hash, disabled, sessions, issued, opened, command>>

\* A command that dies after its first statement.
CommandDies ==
  /\ command = "delete" /\ command' = "idle"
  /\ UNCHANGED <<hash, disabled, sessions, issued, opened, visit>>

Use(v) ==
  \/ SignIn(v) \/ CreateSession(v) \/ LoadSession(v) \/ TurnedAway(v) \/ EnterHandler(v)
  \/ AnswerPage(v) \/ LogOut(v) \/ LogOutEverywhere(v)
  \/ ChangePassword(v) \/ DeleteAfterChange(v) \/ Relogin(v) \/ VisitDropped(v)

SessionsNext ==
  \/ \E v \in Visit : Use(v)
  \/ Passwd \/ SetDisabled \/ SetEnabled \/ LogOutUser \/ CommandDies

SessionsSpec == SessionsInit /\ [][SessionsNext]_sessionVars

-----------------------------------------------------------------------------
\* Types of the variables.
SessionsTypeOK ==
  /\ hash \in Version /\ disabled \in BOOLEAN
  /\ sessions \in [Ticket -> Version \cup {NoVersion}]
  /\ issued \subseteq Ticket
  /\ opened \in [Ticket -> SUBSET Version]
  /\ visit \in [Visit -> [at : {"idle", "signin", "loaded", "page", "logout", "everywhere", "change",
                                "delete", "relogin"},
                          ticket : Ticket \cup {NoTicket}, saw : Version \cup {NoVersion}]]
  /\ command \in {"idle", "delete"}

\* A session whose row was deleted can come back by the save of a request
\* that had loaded it, but not past a password change: whatever row there is,
\* it is only accepted if it was signed in with the password of now.
PasswordRevokes ==
  \A k \in Rows : sessions[k] = hash => hash \in opened[k]
=============================================================================
