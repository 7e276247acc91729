-------------------------------- MODULE Access --------------------------------
(* The accesses identity hands out: the invitation, the password its person   *)
(* sets with it, the sessions opened with that password, and what closes them *)
(* (modules/identity: create_user, deactivate_user, reactivate_user,          *)
(* authenticate, resolve_session, logout, change_password,                    *)
(* request_password_reset, redeem_token).                                     *)
(*                                                                            *)
(* A login checks the password, which takes a while, and opens the session    *)
(* with what it had read: it is two steps, and anything may happen between    *)
(* them, the password being replaced too, which it does not look at again.    *)
(* Every other operation is one transaction and one step.  Accesses do not    *)
(* depend on each other here; the role of each is in Recipients.              *)
EXTENDS Integers, Sequences

CONSTANTS
    People,
    MaxAttempts,    \* access.max_login_attempts
    MaxSessions,    \* bound: sessions ever opened by one person
    MaxPasswords,   \* bound: times the password of one person is set or taken away
    NoAccess,       \* somebody who has not been given one
    NoLogin         \* nobody is logging in

VARIABLES
    access,         \* public.users, each with whether it has a row in user_passwords
    sessions,       \* [People -> Seq of rows of public.sessions]
    links,          \* [People -> the last credential token of each purpose]
    login,          \* [People -> what the login being checked read, or NoLogin]
    epoch           \* how many times the password was set or taken away
accessVars == <<access, sessions, links, login, epoch>>

\* Whether an access is locked: a lock whose time is over stays written.
AccessRow == [active : BOOLEAN, password : BOOLEAN, activated : BOOLEAN, failed : Nat,
              locked : {"NO", "YES", "OVER"}]
\* Of a login and of the session it opens: which password was checked, and how many
\* times it was replaced before the session was opened.
LoginRow == [failed : Nat, locked : {"NO", "YES", "OVER"}, since : Nat, caught : Nat]
SessionRow == [revoked : BOOLEAN, seen : {"NOW", "BEFORE", "IDLE"}, since : Nat, caught : Nat]

ASSUME AccessAssumption ==
    /\ MaxAttempts \in Nat \ {0} /\ MaxSessions \in Nat /\ MaxPasswords \in Nat
    /\ NoAccess \notin AccessRow /\ NoLogin \notin LoginRow

\* Issuing a link spends the earlier one of its purpose, which leaves one to remember.
Purposes == {"INVITATION", "PASSWORD_RESET"}
Issue(p, purpose) == links' = [links EXCEPT ![p][purpose] = "USABLE"]

Invite(p) == Issue(p, "INVITATION")

OpenSession(read) ==
    [revoked |-> FALSE, seen |-> "NOW", since |-> read.since, caught |-> read.caught]

\* Whether get_live_session and resolve_session find somebody behind the session.
Answers(p, i) ==
    /\ ~sessions[p][i].revoked
    /\ sessions[p][i].seen # "IDLE"
    /\ access[p].active

RevokeSessionsOf(p, keep) ==
    [i \in DOMAIN sessions[p] |->
        IF i = keep THEN sessions[p][i] ELSE [sessions[p][i] EXCEPT !.revoked = TRUE]]

\* The password is set or taken away: a login half way does not learn of it.
Replace(p) ==
    /\ epoch' = [epoch EXCEPT ![p] = @ + 1]
    /\ login' = IF login[p] = NoLogin THEN login ELSE [login EXCEPT ![p].caught = @ + 1]

GrantAccess(p) ==
    /\ access[p] = NoAccess
    /\ access' = [access EXCEPT ![p] = [active |-> TRUE, password |-> FALSE, activated |-> FALSE,
                                        failed |-> 0, locked |-> "NO"]]
    /\ Invite(p)
    /\ UNCHANGED <<sessions, login, epoch>>

WithdrawAccess(p) ==
    /\ access[p] # NoAccess
    /\ access' = [access EXCEPT ![p].active = FALSE]
    /\ sessions' = [sessions EXCEPT ![p] = RevokeSessionsOf(p, 0)]
    /\ UNCHANGED <<links, login, epoch>>

\* The person comes back through an invitation, without a password.
Invited(p) ==
    access' = [access EXCEPT ![p] = [active |-> TRUE, password |-> FALSE, activated |-> FALSE,
                                     failed |-> 0, locked |-> "NO"]]

\* A mutant: the withdrawal already closed them.
RestoreAccessOnly(p) ==
    /\ access[p] # NoAccess /\ ~access[p].active
    /\ epoch[p] < MaxPasswords
    /\ Invited(p)
    /\ Replace(p)
    /\ Invite(p)
    /\ UNCHANGED sessions

\* A login the withdrawal caught half way has left a session: it is closed here.
RestoreAccess(p) ==
    /\ access[p] # NoAccess /\ ~access[p].active
    /\ epoch[p] < MaxPasswords
    /\ Invited(p)
    /\ Replace(p)
    /\ sessions' = [sessions EXCEPT ![p] = RevokeSessionsOf(p, 0)]
    /\ Invite(p)

\* authenticate up to the password: whoever is locked out, withdrawn or without a
\* password is turned away, which leaves nothing but a line of the log.
MayLogIn(p) ==
    /\ access[p] # NoAccess
    /\ access[p].locked # "YES"
    /\ access[p].active
    /\ access[p].password

\* The right one: what was read of the counters is what the session's step compares with.
PasswordMatches(p) ==
    /\ MayLogIn(p) /\ login[p] = NoLogin
    /\ login' = [login EXCEPT ![p] = [failed |-> access[p].failed, locked |-> access[p].locked,
                                      since |-> epoch[p], caught |-> 0]]
    /\ UNCHANGED <<access, sessions, links, epoch>>

\* A wrong one is counted, and the last one allowed locks the access.
Counted(a) ==
    IF a.failed + 1 >= MaxAttempts THEN [a EXCEPT !.failed = 0, !.locked = "YES"]
    ELSE [a EXCEPT !.failed = a.failed + 1]

PasswordFails(p) ==
    /\ MayLogIn(p)
    /\ access' = [access EXCEPT ![p] = Counted(access[p])]
    /\ UNCHANGED <<sessions, links, login, epoch>>

\* Only counters read as something else than what they are reset to are written.
Reset(a, read) ==
    [a EXCEPT !.failed = IF read.failed = 0 THEN a.failed ELSE 0,
              !.locked = IF read.locked = "NO" THEN a.locked ELSE "NO"]

\* The session is opened whatever happened since.
LogIn(p) ==
    /\ login[p] # NoLogin
    /\ Len(sessions[p]) < MaxSessions
    /\ sessions' = [sessions EXCEPT ![p] = Append(@, OpenSession(login[p]))]
    /\ access' = [access EXCEPT ![p] = Reset(access[p], login[p])]
    /\ login' = [login EXCEPT ![p] = NoLogin]
    /\ UNCHANGED <<links, epoch>>

\* A session used within the minute is not written.
UseSession(p, i) ==
    /\ Answers(p, i) /\ sessions[p][i].seen = "BEFORE"
    /\ sessions' = [sessions EXCEPT ![p][i].seen = "NOW"]
    /\ UNCHANGED <<access, links, login, epoch>>

LogOut(p, i) ==
    /\ Answers(p, i)
    /\ sessions' = [sessions EXCEPT ![p][i].revoked = TRUE]
    /\ UNCHANGED <<access, links, login, epoch>>

\* Asked from a session, which is the one that stays.
ChangePassword(p, i) ==
    /\ Answers(p, i)
    /\ access[p].password
    /\ epoch[p] < MaxPasswords
    /\ Replace(p)
    /\ sessions' = [sessions EXCEPT ![p] =
                       [RevokeSessionsOf(p, i) EXCEPT ![i].since = epoch[p] + 1, ![i].caught = 0]]
    /\ UNCHANGED <<access, links>>

RequestPasswordReset(p) ==
    /\ access[p] # NoAccess /\ access[p].active
    /\ Issue(p, "PASSWORD_RESET")
    /\ UNCHANGED <<access, sessions, login, epoch>>

\* A link that is spent, expired or of somebody withdrawn is refused.
RedeemToken(p, purpose) ==
    /\ links[p][purpose] = "USABLE"
    /\ access[p].active
    /\ epoch[p] < MaxPasswords
    /\ Replace(p)
    /\ links' = [links EXCEPT ![p][purpose] = "SPENT"]
    /\ access' = [access EXCEPT ![p] = [active |-> TRUE, password |-> TRUE, activated |-> TRUE,
                                        failed |-> 0, locked |-> "NO"]]
    /\ sessions' = [sessions EXCEPT ![p] = RevokeSessionsOf(p, 0)]

(* Time: a session not used for a minute, or for the minutes of the parameter; *)
(* the end of a lock; the end of a link.                                        *)
SessionAges(p, i) ==
    /\ ~sessions[p][i].revoked
    /\ sessions[p][i].seen # "IDLE"
    /\ sessions' = [sessions EXCEPT ![p][i].seen = IF @ = "NOW" THEN "BEFORE" ELSE "IDLE"]
    /\ UNCHANGED <<access, links, login, epoch>>

\* session.idle_minutes grows: a session that was idle may answer again.
IdleMinutesGrow(p, i) ==
    /\ ~sessions[p][i].revoked
    /\ sessions[p][i].seen = "IDLE"
    /\ sessions' = [sessions EXCEPT ![p][i].seen = "BEFORE"]
    /\ UNCHANGED <<access, links, login, epoch>>

LockEnds(p) ==
    /\ access[p] # NoAccess /\ access[p].locked = "YES"
    /\ access' = [access EXCEPT ![p].locked = "OVER"]
    /\ UNCHANGED <<sessions, links, login, epoch>>

LinkExpires(p, purpose) ==
    /\ links[p][purpose] = "USABLE"
    /\ links' = [links EXCEPT ![p][purpose] = "EXPIRED"]
    /\ UNCHANGED <<access, sessions, login, epoch>>

AccessInit ==
    /\ access = [p \in People |-> NoAccess]
    /\ sessions = [p \in People |-> <<>>]
    /\ links = [p \in People |-> [purpose \in Purposes |-> "NONE"]]
    /\ login = [p \in People |-> NoLogin]
    /\ epoch = [p \in People |-> 0]

AccessNext == \E p \in People :
    \/ GrantAccess(p) \/ WithdrawAccess(p) \/ RestoreAccess(p)
    \/ PasswordMatches(p) \/ PasswordFails(p) \/ LogIn(p) \/ LockEnds(p)
    \/ RequestPasswordReset(p)
    \/ \E purpose \in Purposes : RedeemToken(p, purpose) \/ LinkExpires(p, purpose)
    \/ \E i \in DOMAIN sessions[p] :
          \/ UseSession(p, i) \/ LogOut(p, i) \/ ChangePassword(p, i)
          \/ SessionAges(p, i) \/ IdleMinutesGrow(p, i)

AccessSpec == AccessInit /\ [][AccessNext]_accessVars

AccessTypeOK ==
    /\ access \in [People -> AccessRow \cup {NoAccess}]
    /\ sessions \in [People -> Seq(SessionRow)]
    /\ links \in [People -> [Purposes -> {"NONE", "USABLE", "SPENT", "EXPIRED"}]]
    /\ login \in [People -> LoginRow \cup {NoLogin}]
    /\ epoch \in [People -> Nat]

\* Nobody logs in before being given an access.
NothingBeforeAccess ==
    \A p \in People : access[p] = NoAccess => sessions[p] = <<>> /\ login[p] = NoLogin

\* Whatever is open counts from then: also what belongs to somebody withdrawn, whose
\* sessions do not answer until the access is restored, and a login half way.
CountsFromThen(row, p) == row.since + row.caught = epoch[p]
OpenSinceThen ==
    \A p \in People :
        /\ login[p] # NoLogin => CountsFromThen(login[p], p)
        /\ \A i \in DOMAIN sessions[p] :
              ~sessions[p][i].revoked => CountsFromThen(sessions[p][i], p)
ActivatedWithPassword ==
    \A p \in People : access[p] # NoAccess => access[p].activated = access[p].password

\* The inductive invariant.
AccessInv == AccessTypeOK /\ NothingBeforeAccess /\ OpenSinceThen /\ ActivatedWithPassword

\* A session that answers was opened with the password in force, or is the one its person
\* changed it from; and an access counts as activated exactly while it has a password
\* (service.py:369-395, 242-263, 425-442).  A login that was half way when the access was
\* withdrawn leaves no session that outlives its restoration.  The exception is the login
\* that was half way when the password was replaced: it opens a session with the one that
\* is no longer (service.py:289-295, against 379-380), which answers until the next
\* replacement; every replacement since its own check found it half way.
NoSessionOutlivesItsPassword ==
    \A p \in People : access[p] # NoAccess =>
        /\ access[p].activated = access[p].password
        /\ \A i \in DOMAIN sessions[p] : Answers(p, i) =>
              sessions[p][i].since + sessions[p][i].caught = epoch[p]
===============================================================================
