----------------------------- MODULE PeopleProofs -----------------------------
(* Theorems about Access, for any number of people, of attempts, of sessions  *)
(* and of passwords: the invariant says of everything open, answering or not, *)
(* that its password is the last one or was replaced while it was opened,     *)
(* which is what lets the restoration of an access start from nothing; about Recipients, for any     *)
(* users, telephones and kinds of alert: the copy notifications keeps agrees  *)
(* with identity, and so do the alerts; about Inbox, for any messages,        *)
(* telephones and number of readings: what is typed is shown or asked, and an *)
(* urgent message is announced once; and about AlertWindow, for any settings  *)
(* and days: the alerts leave when the window opens.                          *)
EXTENDS Access, Recipients, Inbox, AlertWindow, Integers, FiniteSetTheorems, SequenceTheorems,
        TLAPS

-------------------------------------------------------------------------------
(* Access.                                                                    *)

Counts(row, e) == row.since + row.caught = e

\* What the invariant says of one person: their access, sessions, login and epoch.
GoodFor(a, s, l, e) ==
    /\ a \in AccessRow \cup {NoAccess}
    /\ s \in Seq(SessionRow)
    /\ l \in LoginRow \cup {NoLogin}
    /\ e \in Nat
    /\ a = NoAccess => s = <<>> /\ l = NoLogin
    /\ a # NoAccess => a.activated = a.password
    /\ l # NoLogin => Counts(l, e)
    /\ \A i \in DOMAIN s : ~s[i].revoked => Counts(s[i], e)

LinksTyped == links \in [People -> [Purposes -> {"NONE", "USABLE", "SPENT", "EXPIRED"}]]
Mapped == /\ access = [p \in People |-> access[p]]
          /\ sessions = [p \in People |-> sessions[p]]
          /\ login = [p \in People |-> login[p]]
          /\ epoch = [p \in People |-> epoch[p]]

\* The invariant is that of each person.
LEMMA PersonByPerson ==
  AccessInv <=> /\ Mapped /\ LinksTyped
                /\ \A p \in People : GoodFor(access[p], sessions[p], login[p], epoch[p])
  BY DEF AccessInv, AccessTypeOK, NothingBeforeAccess, OpenSinceThen, ActivatedWithPassword,
         Mapped, LinksTyped, GoodFor, CountsFromThen, Counts

\* A step that concerns one person keeps the invariant if it keeps theirs.
LEMMA OnePersonMoves ==
  ASSUME AccessInv, NEW p \in People, NEW a, NEW s, NEW l, NEW e,
         access' = [access EXCEPT ![p] = a], sessions' = [sessions EXCEPT ![p] = s],
         login' = [login EXCEPT ![p] = l], epoch' = [epoch EXCEPT ![p] = e],
         GoodFor(a, s, l, e), LinksTyped'
  PROVE  AccessInv'
<1>1. Mapped /\ \A q \in People : GoodFor(access[q], sessions[q], login[q], epoch[q])
  BY PersonByPerson
<1>2. Mapped'
  BY <1>1 DEF Mapped
<1>3. ASSUME NEW q \in People
      PROVE  GoodFor(access'[q], sessions'[q], login'[q], epoch'[q])
  <2>1. CASE q = p
    <3>1. access'[q] = a /\ sessions'[q] = s /\ login'[q] = l /\ epoch'[q] = e
      BY <1>1, <2>1 DEF Mapped
    <3> QED
      BY <3>1
  <2>2. CASE q # p
    <3>1. access'[q] = access[q] /\ sessions'[q] = sessions[q] /\ login'[q] = login[q]
          /\ epoch'[q] = epoch[q]
      BY <1>1, <2>2 DEF Mapped
    <3> QED
      BY <1>1, <3>1
  <2> QED
    BY <2>1, <2>2
<1>4. AccessInv' <=> /\ Mapped' /\ LinksTyped'
                     /\ \A q \in People : GoodFor(access'[q], sessions'[q], login'[q], epoch'[q])
  BY DEF AccessInv, AccessTypeOK, NothingBeforeAccess, OpenSinceThen, ActivatedWithPassword,
         Mapped, LinksTyped, GoodFor, CountsFromThen, Counts
<1> QED
  BY <1>2, <1>3, <1>4

-----------------------------------------------------------------------------
(* Sessions.                                                               *)

\* A table of sessions changed row by row is a table of sessions.
LEMMA SameLength ==
  ASSUME NEW s \in Seq(SessionRow), NEW t, t \in [DOMAIN s -> SessionRow]
  PROVE  t \in Seq(SessionRow) /\ DOMAIN t = DOMAIN s
<1>1. DOMAIN s = 1 .. Len(s) /\ Len(s) \in Nat
  BY LenProperties
<1>2. t \in [1 .. Len(s) -> SessionRow]
  BY <1>1
<1>3. t \in Seq(SessionRow)
  BY <1>1, <1>2, SeqDef
<1> QED
  BY <1>3

\* Closing the sessions of somebody leaves at most the one that is kept.
LEMMA Revoked ==
  ASSUME NEW p \in People, sessions[p] \in Seq(SessionRow), NEW keep
  PROVE  /\ RevokeSessionsOf(p, keep) \in Seq(SessionRow)
         /\ DOMAIN RevokeSessionsOf(p, keep) = DOMAIN sessions[p]
         /\ \A i \in DOMAIN sessions[p] :
               IF i = keep THEN RevokeSessionsOf(p, keep)[i] = sessions[p][i]
               ELSE RevokeSessionsOf(p, keep)[i].revoked
<1>1. \A i \in DOMAIN sessions[p] : sessions[p][i] \in SessionRow
  BY ElementOfSeq, LenProperties
<1>2. \A i \in DOMAIN sessions[p] : [sessions[p][i] EXCEPT !.revoked = TRUE] \in SessionRow
  BY <1>1 DEF SessionRow
<1>3. RevokeSessionsOf(p, keep) \in [DOMAIN sessions[p] -> SessionRow]
  BY <1>1, <1>2 DEF RevokeSessionsOf
<1>4. \A i \in DOMAIN sessions[p] : [sessions[p][i] EXCEPT !.revoked = TRUE].revoked
  BY <1>1 DEF SessionRow
<1> QED
  BY <1>3, <1>4, SameLength DEF RevokeSessionsOf

\* Rows of sessions are numbered from one: keeping none closes all.
LEMMA NoneOpen ==
  ASSUME NEW p \in People, sessions[p] \in Seq(SessionRow)
  PROVE  \A i \in DOMAIN RevokeSessionsOf(p, 0) : RevokeSessionsOf(p, 0)[i].revoked
<1>1. DOMAIN sessions[p] = 1 .. Len(sessions[p]) /\ Len(sessions[p]) \in Nat
  BY LenProperties
<1>2. 0 \notin DOMAIN sessions[p]
  BY <1>1
<1> QED
  BY <1>2, Revoked

\* A session is changed in its row.
LEMMA RowChanged ==
  ASSUME NEW s \in Seq(SessionRow), NEW i \in DOMAIN s, NEW row \in SessionRow
  PROVE  /\ [s EXCEPT ![i] = row] \in Seq(SessionRow)
         /\ DOMAIN [s EXCEPT ![i] = row] = DOMAIN s
         /\ [s EXCEPT ![i] = row][i] = row
         /\ \A j \in DOMAIN s : j # i => [s EXCEPT ![i] = row][j] = s[j]
<1>1. \A j \in DOMAIN s : s[j] \in SessionRow
  BY ElementOfSeq, LenProperties
<1>2. [s EXCEPT ![i] = row] \in [DOMAIN s -> SessionRow]
  BY <1>1
<1> QED
  BY <1>2, SameLength

-----------------------------------------------------------------------------
(* The steps.                                                              *)

\* What everybody's step starts from.
LEMMA Before ==
  ASSUME AccessInv, NEW p \in People
  PROVE  /\ GoodFor(access[p], sessions[p], login[p], epoch[p])
         /\ access = [access EXCEPT ![p] = access[p]]
         /\ sessions = [sessions EXCEPT ![p] = sessions[p]]
         /\ login = [login EXCEPT ![p] = login[p]]
         /\ epoch = [epoch EXCEPT ![p] = epoch[p]]
  BY PersonByPerson DEF Mapped

LEMMA LinksKept == LinksTyped /\ UNCHANGED links => LinksTyped'
  BY DEF LinksTyped

LEMMA LinkMoves ==
  ASSUME LinksTyped, NEW p \in People, NEW purpose \in Purposes,
         NEW state \in {"NONE", "USABLE", "SPENT", "EXPIRED"},
         links' = [links EXCEPT ![p][purpose] = state]
  PROVE  LinksTyped'
  BY DEF LinksTyped

LEMMA InvitationIsAPurpose == "INVITATION" \in Purposes /\ "PASSWORD_RESET" \in Purposes
  BY DEF Purposes

\* The access somebody invited has, and the one of somebody who has just set a password.
LEMMA NewRows ==
  ASSUME NEW with \in BOOLEAN
  PROVE  LET a == [active |-> TRUE, password |-> with, activated |-> with,
                   failed |-> 0, locked |-> "NO"]
         IN  a \in AccessRow /\ a # NoAccess /\ a.activated = a.password
<1> DEFINE a == [active |-> TRUE, password |-> with, activated |-> with,
                 failed |-> 0, locked |-> "NO"]
<1>1. a \in AccessRow
  BY DEF AccessRow
<1> QED
  BY <1>1, AccessAssumption

\* Whatever changes of an access but its password and whether it was activated.
LEMMA SamePassword ==
  ASSUME NEW a \in AccessRow, NEW b \in AccessRow, NEW s, NEW l, NEW m, NEW e,
         GoodFor(a, s, l, e), b.password = a.password, b.activated = a.activated,
         m \in LoginRow \cup {NoLogin}, m # NoLogin => Counts(m, e)
  PROVE  GoodFor(b, s, m, e)
  BY AccessAssumption DEF GoodFor

\* The login half way of somebody whose password is replaced.
CaughtLogin(l) == IF l = NoLogin THEN l ELSE [l EXCEPT !.caught = l.caught + 1]
LEMMA LoginIsCaught ==
  ASSUME AccessInv, NEW p \in People, Replace(p)
  PROVE  /\ login' = [login EXCEPT ![p] = CaughtLogin(login[p])]
         /\ epoch' = [epoch EXCEPT ![p] = epoch[p] + 1] /\ epoch[p] + 1 \in Nat
         /\ CaughtLogin(login[p]) \in LoginRow \cup {NoLogin}
         /\ CaughtLogin(login[p]) # NoLogin => Counts(CaughtLogin(login[p]), epoch[p] + 1)
         /\ login[p] = NoLogin => CaughtLogin(login[p]) = NoLogin
<1> DEFINE l == login[p]
           n == epoch[p]
           c == CaughtLogin(l)
<1>1. l \in LoginRow \cup {NoLogin} /\ n \in Nat /\ (l # NoLogin => Counts(l, n))
  BY Before DEF GoodFor
<1>2. login = [login EXCEPT ![p] = l]
  BY Before
<1>3. /\ login' = IF l = NoLogin THEN login ELSE [login EXCEPT ![p] = [l EXCEPT !.caught = l.caught + 1]]
      /\ epoch' = [epoch EXCEPT ![p] = n + 1]
  BY DEF Replace
<1> HIDE DEF l, n
<1>4. CASE l = NoLogin
  <2>1. c = NoLogin
    BY <1>4 DEF CaughtLogin
  <2> QED
    BY <1>1, <1>2, <1>3, <1>4, <2>1 DEF l, n
<1>5. CASE l # NoLogin
  <2> DEFINE m == l.caught + 1
  <2>1. l \in LoginRow /\ m \in Nat /\ l.since \in Nat /\ l.caught \in Nat
        /\ l.since + l.caught = n
    BY <1>1, <1>5 DEF LoginRow, Counts
  <2>2. c = [l EXCEPT !.caught = m] /\ l.since + m = n + 1
    BY <1>1, <1>5, <2>1 DEF CaughtLogin
  <2>3. m = l.caught + 1
    OBVIOUS
  <2> HIDE DEF m, c
  <2>4. c \in LoginRow /\ c.since = l.since /\ c.caught = m
    BY <2>1, <2>2 DEF LoginRow
  <2>5. Counts(c, n + 1)
    BY <2>2, <2>4 DEF Counts
  <2>6. login' = [login EXCEPT ![p] = c]
    BY <1>3, <1>5, <2>2, <2>3
  <2>7. epoch' = [epoch EXCEPT ![p] = n + 1] /\ n + 1 \in Nat
    BY <1>1, <1>3
  <2>8. c \in LoginRow \cup {NoLogin} /\ (l = NoLogin => c = NoLogin)
    BY <1>5, <2>4
  <2> QED
    BY <2>5, <2>6, <2>7, <2>8 DEF c, l, n
<1> QED
  BY <1>4, <1>5

LEMMA GrantKeeps ==
  ASSUME AccessInv, NEW p \in People, GrantAccess(p)
  PROVE  AccessInv'
<1> DEFINE a == [active |-> TRUE, password |-> FALSE, activated |-> FALSE,
                 failed |-> 0, locked |-> "NO"]
<1>1. a \in AccessRow /\ a # NoAccess /\ a.activated = a.password
  BY NewRows
<1> HIDE DEF a
<1>2. GoodFor(a, sessions[p], login[p], epoch[p])
  BY <1>1, Before DEF GoodFor
<1>3. access' = [access EXCEPT ![p] = a]
  BY DEF GrantAccess, a
<1>4. sessions' = [sessions EXCEPT ![p] = sessions[p]] /\ login' = [login EXCEPT ![p] = login[p]]
      /\ epoch' = [epoch EXCEPT ![p] = epoch[p]]
  BY Before DEF GrantAccess
<1>5. LinksTyped'
  BY PersonByPerson, InvitationIsAPurpose, LinkMoves DEF GrantAccess, Invite, Issue
<1> QED
  BY <1>2, <1>3, <1>4, <1>5, OnePersonMoves

LEMMA WithdrawKeeps ==
  ASSUME AccessInv, NEW p \in People, WithdrawAccess(p)
  PROVE  AccessInv'
<1> DEFINE a == [access[p] EXCEPT !.active = FALSE]
           s == RevokeSessionsOf(p, 0)
<1>1. access[p] \in AccessRow /\ access[p].activated = access[p].password
      /\ sessions[p] \in Seq(SessionRow)
  BY Before DEF GoodFor, WithdrawAccess
<1>2. a \in AccessRow /\ a.activated = a.password
  BY <1>1 DEF AccessRow
<1>3. a # NoAccess
  BY <1>2, AccessAssumption
<1>4. s \in Seq(SessionRow) /\ \A i \in DOMAIN s : s[i].revoked
  BY <1>1, Revoked, NoneOpen
<1>5. access' = [access EXCEPT ![p] = a] /\ sessions' = [sessions EXCEPT ![p] = s]
  BY DEF WithdrawAccess
<1>6. login' = [login EXCEPT ![p] = login[p]] /\ epoch' = [epoch EXCEPT ![p] = epoch[p]]
  BY Before DEF WithdrawAccess
<1>7. LinksTyped'
  BY PersonByPerson, LinksKept DEF WithdrawAccess
<1> HIDE DEF a, s
<1>8. GoodFor(a, s, login[p], epoch[p])
  BY <1>2, <1>3, <1>4, Before DEF GoodFor
<1> QED
  BY <1>5, <1>6, <1>7, <1>8, OnePersonMoves

LEMMA RestoreKeeps ==
  ASSUME AccessInv, NEW p \in People, RestoreAccess(p)
  PROVE  AccessInv'
<1> DEFINE a == [active |-> TRUE, password |-> FALSE, activated |-> FALSE,
                 failed |-> 0, locked |-> "NO"]
           s == RevokeSessionsOf(p, 0)
           l == CaughtLogin(login[p])
<1>1. a \in AccessRow /\ a # NoAccess /\ a.activated = a.password
  BY NewRows
<1>2. sessions[p] \in Seq(SessionRow)
  BY Before DEF GoodFor
<1>3. s \in Seq(SessionRow) /\ \A i \in DOMAIN s : s[i].revoked
  BY <1>2, Revoked, NoneOpen
<1>4. access' = [access EXCEPT ![p] = a] /\ sessions' = [sessions EXCEPT ![p] = s]
      /\ Replace(p)
  BY DEF RestoreAccess, Invited
<1>5. /\ login' = [login EXCEPT ![p] = l] /\ epoch' = [epoch EXCEPT ![p] = epoch[p] + 1]
      /\ l \in LoginRow \cup {NoLogin} /\ epoch[p] + 1 \in Nat
      /\ l # NoLogin => Counts(l, epoch[p] + 1)
  BY <1>4, LoginIsCaught
<1>6. LinksTyped'
  BY PersonByPerson, InvitationIsAPurpose, LinkMoves DEF RestoreAccess, Invite, Issue
<1> HIDE DEF a, s, l
<1>7. GoodFor(a, s, l, epoch[p] + 1)
  BY <1>1, <1>3, <1>5 DEF GoodFor
<1> QED
  BY <1>4, <1>5, <1>6, <1>7, OnePersonMoves

LEMMA RedeemKeeps ==
  ASSUME AccessInv, NEW p \in People, NEW purpose \in Purposes, RedeemToken(p, purpose)
  PROVE  AccessInv'
<1> DEFINE a == [active |-> TRUE, password |-> TRUE, activated |-> TRUE,
                 failed |-> 0, locked |-> "NO"]
           s == RevokeSessionsOf(p, 0)
           l == CaughtLogin(login[p])
<1>1. a \in AccessRow /\ a # NoAccess /\ a.activated = a.password
  BY NewRows
<1>2. sessions[p] \in Seq(SessionRow)
  BY Before DEF GoodFor
<1>3. s \in Seq(SessionRow) /\ \A i \in DOMAIN s : s[i].revoked
  BY <1>2, Revoked, NoneOpen
<1>4. access' = [access EXCEPT ![p] = a] /\ sessions' = [sessions EXCEPT ![p] = s]
      /\ Replace(p)
  BY DEF RedeemToken
<1>5. /\ login' = [login EXCEPT ![p] = l] /\ epoch' = [epoch EXCEPT ![p] = epoch[p] + 1]
      /\ l \in LoginRow \cup {NoLogin} /\ epoch[p] + 1 \in Nat
      /\ l # NoLogin => Counts(l, epoch[p] + 1)
  BY <1>4, LoginIsCaught
<1>6. LinksTyped'
  BY PersonByPerson, LinkMoves DEF RedeemToken
<1> HIDE DEF a, s, l
<1>7. GoodFor(a, s, l, epoch[p] + 1)
  BY <1>1, <1>3, <1>5 DEF GoodFor
<1> QED
  BY <1>4, <1>5, <1>6, <1>7, OnePersonMoves

LEMMA PasswordMatchesKeeps ==
  ASSUME AccessInv, NEW p \in People, PasswordMatches(p)
  PROVE  AccessInv'
<1> DEFINE l == [failed |-> access[p].failed, locked |-> access[p].locked,
                 since |-> epoch[p], caught |-> 0]
<1>1. access[p] \in AccessRow /\ epoch[p] \in Nat
  BY Before DEF GoodFor, PasswordMatches, MayLogIn
<1>2. l \in LoginRow /\ Counts(l, epoch[p])
  BY <1>1 DEF AccessRow, LoginRow, Counts
<1>3. login' = [login EXCEPT ![p] = l]
  BY DEF PasswordMatches
<1>4. access' = [access EXCEPT ![p] = access[p]]
      /\ sessions' = [sessions EXCEPT ![p] = sessions[p]]
      /\ epoch' = [epoch EXCEPT ![p] = epoch[p]]
  BY Before DEF PasswordMatches
<1>5. LinksTyped'
  BY PersonByPerson, LinksKept DEF PasswordMatches
<1> HIDE DEF l
<1>6. GoodFor(access[p], sessions[p], l, epoch[p])
  BY <1>1, <1>2, Before, SamePassword
<1> QED
  BY <1>3, <1>4, <1>5, <1>6, OnePersonMoves

\* Counting or locking is nothing to the sessions.
LEMMA CountersAreGood ==
  ASSUME AccessInv, NEW p \in People, NEW a \in AccessRow, access[p] # NoAccess,
         a.password = access[p].password, a.activated = access[p].activated
  PROVE  GoodFor(a, sessions[p], login[p], epoch[p])
<1>1. GoodFor(access[p], sessions[p], login[p], epoch[p]) /\ access[p] \in AccessRow
      /\ login[p] \in LoginRow \cup {NoLogin} /\ (login[p] # NoLogin => Counts(login[p], epoch[p]))
  BY Before DEF GoodFor
<1> QED
  BY <1>1, SamePassword

LEMMA PasswordFailsKeeps ==
  ASSUME AccessInv, NEW p \in People, PasswordFails(p)
  PROVE  AccessInv'
<1> DEFINE a == Counted(access[p])
<1>1. access[p] \in AccessRow /\ access[p] # NoAccess
  BY Before DEF GoodFor, PasswordFails, MayLogIn
<1>2. a \in AccessRow /\ a.password = access[p].password
      /\ a.activated = access[p].activated
  <2>1. [access[p] EXCEPT !.failed = 0, !.locked = "YES"] \in AccessRow
    BY <1>1 DEF AccessRow
  <2>2. access[p].failed \in Nat
    BY <1>1 DEF AccessRow
  <2>3. [access[p] EXCEPT !.failed = access[p].failed + 1] \in AccessRow
    BY <1>1, <2>2 DEF AccessRow
  <2>4. CASE access[p].failed + 1 >= MaxAttempts
    <3>1. a = [access[p] EXCEPT !.failed = 0, !.locked = "YES"]
      BY <2>4 DEF Counted
    <3> QED
      BY <1>1, <2>1, <3>1 DEF AccessRow
  <2>5. CASE ~(access[p].failed + 1 >= MaxAttempts)
    <3>1. a = [access[p] EXCEPT !.failed = access[p].failed + 1]
      BY <2>5 DEF Counted
    <3> QED
      BY <1>1, <2>3, <3>1 DEF AccessRow
  <2> QED
    BY <2>4, <2>5
<1>3. access' = [access EXCEPT ![p] = a]
  BY DEF PasswordFails
<1>4. sessions' = [sessions EXCEPT ![p] = sessions[p]] /\ login' = [login EXCEPT ![p] = login[p]]
      /\ epoch' = [epoch EXCEPT ![p] = epoch[p]]
  BY Before DEF PasswordFails
<1>5. LinksTyped'
  BY PersonByPerson, LinksKept DEF PasswordFails
<1> HIDE DEF a
<1>6. GoodFor(a, sessions[p], login[p], epoch[p])
  BY <1>1, <1>2, CountersAreGood
<1> QED
  BY <1>3, <1>4, <1>5, <1>6, OnePersonMoves

LEMMA LockEndsKeeps ==
  ASSUME AccessInv, NEW p \in People, LockEnds(p)
  PROVE  AccessInv'
<1> DEFINE a == [access[p] EXCEPT !.locked = "OVER"]
<1>1. access[p] \in AccessRow /\ access[p] # NoAccess
  BY Before DEF GoodFor, LockEnds
<1>2. a \in AccessRow /\ a.password = access[p].password
      /\ a.activated = access[p].activated
  BY <1>1 DEF AccessRow
<1>3. access' = [access EXCEPT ![p] = a]
  BY DEF LockEnds
<1>4. sessions' = [sessions EXCEPT ![p] = sessions[p]] /\ login' = [login EXCEPT ![p] = login[p]]
      /\ epoch' = [epoch EXCEPT ![p] = epoch[p]]
  BY Before DEF LockEnds
<1>5. LinksTyped'
  BY PersonByPerson, LinksKept DEF LockEnds
<1> HIDE DEF a
<1>6. GoodFor(a, sessions[p], login[p], epoch[p])
  BY <1>1, <1>2, CountersAreGood
<1> QED
  BY <1>3, <1>4, <1>5, <1>6, OnePersonMoves

\* The session of a login counts from the password that was checked.
LEMMA LogInKeeps ==
  ASSUME AccessInv, NEW p \in People, LogIn(p)
  PROVE  AccessInv'
<1> DEFINE a == Reset(access[p], login[p])
           row == OpenSession(login[p])
           s == Append(sessions[p], row)
<1>1. access[p] \in AccessRow /\ access[p] # NoAccess /\ sessions[p] \in Seq(SessionRow)
      /\ epoch[p] \in Nat /\ GoodFor(access[p], sessions[p], login[p], epoch[p])
      /\ login[p] \in LoginRow /\ Counts(login[p], epoch[p])
  BY Before DEF GoodFor, LogIn
<1>2. a \in AccessRow /\ a.password = access[p].password
      /\ a.activated = access[p].activated
  BY <1>1 DEF AccessRow, Reset
<1>3. row \in SessionRow /\ Counts(row, epoch[p])
  BY <1>1 DEF OpenSession, SessionRow, LoginRow, Counts
<1> HIDE DEF row
<1>4. /\ s \in Seq(SessionRow)
      /\ \A i \in DOMAIN s : \/ i \in DOMAIN sessions[p] /\ s[i] = sessions[p][i]
                             \/ s[i] = row
  BY <1>1, <1>3, AppendProperties, LenProperties
<1>5. access' = [access EXCEPT ![p] = a]
  BY DEF LogIn
<1>6. sessions' = [sessions EXCEPT ![p] = s] /\ login' = [login EXCEPT ![p] = NoLogin]
  BY DEF LogIn, row
<1>7. epoch' = [epoch EXCEPT ![p] = epoch[p]]
  BY Before DEF LogIn
<1>8. LinksTyped'
  BY PersonByPerson, LinksKept DEF LogIn
<1> HIDE DEF a, s
<1>9. GoodFor(a, sessions[p], NoLogin, epoch[p])
  BY <1>1, <1>2, SamePassword
<1>10. a # NoAccess
  BY <1>2, AccessAssumption
<1>11. GoodFor(a, s, NoLogin, epoch[p])
  BY <1>3, <1>4, <1>9, <1>10 DEF GoodFor
<1> QED
  BY <1>5, <1>6, <1>7, <1>8, <1>11, OnePersonMoves

\* A step that only writes sessions of one person.
LEMMA OnlySessionsMove ==
  ASSUME AccessInv, NEW p \in People, NEW s, GoodFor(access[p], s, login[p], epoch[p]),
         sessions' = [sessions EXCEPT ![p] = s], UNCHANGED <<access, links, login, epoch>>
  PROVE  AccessInv'
<1>1. Mapped /\ LinksTyped
      /\ \A q \in People : GoodFor(access[q], sessions[q], login[q], epoch[q])
  BY PersonByPerson
<1>2. Mapped' /\ LinksTyped'
  BY <1>1 DEF Mapped, LinksTyped
<1>3. ASSUME NEW q \in People
      PROVE  GoodFor(access[q], sessions'[q], login[q], epoch[q])
  <2>1. q = p => sessions'[q] = s
    BY <1>1 DEF Mapped
  <2>2. q # p => sessions'[q] = sessions[q]
    BY <1>1 DEF Mapped
  <2> QED
    BY <1>1, <2>1, <2>2
<1>4. \A q \in People : GoodFor(access'[q], sessions'[q], login'[q], epoch'[q])
  BY <1>3
<1> QED
  BY <1>2, <1>4 DEF AccessInv, AccessTypeOK, NothingBeforeAccess, OpenSinceThen,
     ActivatedWithPassword, Mapped, LinksTyped, GoodFor, CountsFromThen, Counts

\* A row of a session changes in nothing but what was seen of it, or is closed.
SameCount(row, old) == row.since = old.since /\ row.caught = old.caught
LEMMA RowIsGood ==
  ASSUME AccessInv, NEW p \in People, NEW i \in DOMAIN sessions[p], NEW row \in SessionRow,
         SameCount(row, sessions[p][i]), ~row.revoked => ~sessions[p][i].revoked
  PROVE  GoodFor(access[p], [sessions[p] EXCEPT ![i] = row], login[p], epoch[p])
<1> DEFINE s == [sessions[p] EXCEPT ![i] = row]
<1>1. GoodFor(access[p], sessions[p], login[p], epoch[p])
  BY Before
<1>2. sessions[p] \in Seq(SessionRow)
  BY <1>1 DEF GoodFor
<1>3. /\ s \in Seq(SessionRow) /\ DOMAIN s = DOMAIN sessions[p] /\ s[i] = row
      /\ \A j \in DOMAIN sessions[p] : j # i => s[j] = sessions[p][j]
  BY <1>2, RowChanged
<1>4. sessions[p] # <<>>
  BY <1>2
<1> HIDE DEF s
<1>5. GoodFor(access[p], s, login[p], epoch[p])
  BY <1>1, <1>3, <1>4 DEF GoodFor, SameCount, Counts
<1> QED
  BY <1>5 DEF s

\* What a session looks like when it is used, closed, or left alone for a while.
LEMMA RowsSeen ==
  ASSUME AccessInv, NEW p \in People, NEW i \in DOMAIN sessions[p]
  PROVE  /\ sessions[p][i] \in SessionRow
         /\ \A seen \in {"NOW", "BEFORE", "IDLE"} :
               LET row == [sessions[p][i] EXCEPT !.seen = seen]
               IN  row \in SessionRow /\ SameCount(row, sessions[p][i])
                   /\ row.revoked = sessions[p][i].revoked
         /\ LET row == [sessions[p][i] EXCEPT !.revoked = TRUE]
            IN  row \in SessionRow /\ SameCount(row, sessions[p][i]) /\ row.revoked
<1>1. sessions[p] \in Seq(SessionRow)
  BY Before DEF GoodFor
<1>2. sessions[p][i] \in SessionRow
  BY <1>1, ElementOfSeq, LenProperties
<1> QED
  BY <1>2 DEF SessionRow, SameCount

LEMMA RowStepsKeep ==
  ASSUME AccessInv, NEW p \in People, NEW i \in DOMAIN sessions[p],
         \/ UseSession(p, i) \/ LogOut(p, i) \/ SessionAges(p, i) \/ IdleMinutesGrow(p, i)
  PROVE  AccessInv'
<1>1. CASE UseSession(p, i)
  <2> DEFINE row == [sessions[p][i] EXCEPT !.seen = "NOW"]
  <2>1. row \in SessionRow /\ SameCount(row, sessions[p][i])
        /\ row.revoked = sessions[p][i].revoked
    BY RowsSeen
  <2>2. sessions' = [sessions EXCEPT ![p] = [sessions[p] EXCEPT ![i] = row]]
    BY <1>1 DEF UseSession
  <2> HIDE DEF row
  <2>3. GoodFor(access[p], [sessions[p] EXCEPT ![i] = row], login[p], epoch[p])
    BY <2>1, RowIsGood
  <2> QED
    BY <1>1, <2>2, <2>3, OnlySessionsMove DEF UseSession
<1>2. CASE LogOut(p, i)
  <2> DEFINE row == [sessions[p][i] EXCEPT !.revoked = TRUE]
  <2>1. row \in SessionRow /\ SameCount(row, sessions[p][i]) /\ row.revoked
    BY RowsSeen
  <2>2. sessions' = [sessions EXCEPT ![p] = [sessions[p] EXCEPT ![i] = row]]
    BY <1>2 DEF LogOut
  <2> HIDE DEF row
  <2>3. GoodFor(access[p], [sessions[p] EXCEPT ![i] = row], login[p], epoch[p])
    BY <2>1, RowIsGood
  <2> QED
    BY <1>2, <2>2, <2>3, OnlySessionsMove DEF LogOut
<1>3. CASE SessionAges(p, i)
  <2> DEFINE row == [sessions[p][i] EXCEPT !.seen = IF sessions[p][i].seen = "NOW"
                                                    THEN "BEFORE" ELSE "IDLE"]
  <2>1. row \in SessionRow /\ SameCount(row, sessions[p][i])
        /\ row.revoked = sessions[p][i].revoked
    BY ZenonT(40), RowsSeen
  <2>2. sessions' = [sessions EXCEPT ![p] = [sessions[p] EXCEPT ![i] = row]]
    BY <1>3 DEF SessionAges
  <2> HIDE DEF row
  <2>3. GoodFor(access[p], [sessions[p] EXCEPT ![i] = row], login[p], epoch[p])
    BY <2>1, RowIsGood
  <2> QED
    BY <1>3, <2>2, <2>3, OnlySessionsMove DEF SessionAges
<1>4. CASE IdleMinutesGrow(p, i)
  <2> DEFINE row == [sessions[p][i] EXCEPT !.seen = "BEFORE"]
  <2>1. row \in SessionRow /\ SameCount(row, sessions[p][i])
        /\ row.revoked = sessions[p][i].revoked
    BY RowsSeen
  <2>2. sessions' = [sessions EXCEPT ![p] = [sessions[p] EXCEPT ![i] = row]]
    BY <1>4 DEF IdleMinutesGrow
  <2> HIDE DEF row
  <2>3. GoodFor(access[p], [sessions[p] EXCEPT ![i] = row], login[p], epoch[p])
    BY <2>1, RowIsGood
  <2> QED
    BY <1>4, <2>2, <2>3, OnlySessionsMove DEF IdleMinutesGrow
<1> QED
  BY <1>1, <1>2, <1>3, <1>4

\* The session that asks for the change stays, in the epoch the change opens.
LEMMA ChangeKeeps ==
  ASSUME AccessInv, NEW p \in People, NEW i \in DOMAIN sessions[p], ChangePassword(p, i)
  PROVE  AccessInv'
<1> DEFINE r == RevokeSessionsOf(p, i)
           row == [r[i] EXCEPT !.since = epoch[p] + 1, !.caught = 0]
           l == CaughtLogin(login[p])
           s == [r EXCEPT ![i] = row]
<1>1. GoodFor(access[p], sessions[p], login[p], epoch[p])
  BY Before
<1>2. sessions[p] \in Seq(SessionRow) /\ epoch[p] \in Nat
  BY <1>1 DEF GoodFor
<1>3. r \in Seq(SessionRow) /\ DOMAIN r = DOMAIN sessions[p]
      /\ \A j \in DOMAIN sessions[p] : j # i => r[j].revoked
  BY <1>2, Revoked
<1>4. r[i] \in SessionRow
  BY <1>3, ElementOfSeq, LenProperties
<1>5. row \in SessionRow /\ Counts(row, epoch[p] + 1)
  <2> DEFINE old == r[i]
             now == epoch[p] + 1
  <2>1. old \in SessionRow /\ now \in Nat
    BY <1>2, <1>4
  <2> HIDE DEF old, now
  <2> DEFINE half == [old EXCEPT !.since = now]
             new == [half EXCEPT !.caught = 0]
  <2>2. half \in SessionRow /\ half.since = now
    BY <2>1 DEF SessionRow
  <2>3. row = new
    BY <2>1 DEF old, now
  <2> HIDE DEF half
  <2>4. new \in SessionRow /\ new.since = now /\ new.caught = 0
    BY <2>2 DEF SessionRow
  <2> HIDE DEF new, row
  <2>5. Counts(row, now)
    BY <2>1, <2>3, <2>4 DEF Counts
  <2> QED
    BY <2>3, <2>4, <2>5 DEF now
<1>6. sessions' = [sessions EXCEPT ![p] = s]
  BY DEF ChangePassword
<1> HIDE DEF r, row
<1>7. /\ s \in Seq(SessionRow) /\ DOMAIN s = DOMAIN sessions[p] /\ s[i] = row
      /\ \A j \in DOMAIN sessions[p] : j # i => s[j] = r[j]
  BY <1>3, <1>5, RowChanged
<1>8. sessions[p] # <<>>
  BY <1>2
<1>9. /\ login' = [login EXCEPT ![p] = l] /\ epoch' = [epoch EXCEPT ![p] = epoch[p] + 1]
      /\ l \in LoginRow \cup {NoLogin} /\ epoch[p] + 1 \in Nat
      /\ (l # NoLogin => Counts(l, epoch[p] + 1)) /\ (login[p] = NoLogin => l = NoLogin)
  <2>1. Replace(p)
    BY DEF ChangePassword
  <2> QED
    BY <2>1, LoginIsCaught
<1>10. access' = [access EXCEPT ![p] = access[p]]
  BY Before DEF ChangePassword
<1>11. LinksTyped'
  BY PersonByPerson, LinksKept DEF ChangePassword
<1> HIDE DEF s, l
<1>12. GoodFor(access[p], s, l, epoch[p] + 1)
  BY <1>1, <1>3, <1>5, <1>7, <1>8, <1>9 DEF GoodFor
<1> QED
  BY <1>6, <1>9, <1>10, <1>11, <1>12, OnePersonMoves

\* Issuing a link, or its end, is nothing to the rest.
LEMMA OnlyLinksMove ==
  ASSUME AccessInv, LinksTyped', UNCHANGED <<access, sessions, login, epoch>>
  PROVE  AccessInv'
  BY DEF AccessInv, AccessTypeOK, NothingBeforeAccess, OpenSinceThen, ActivatedWithPassword,
         LinksTyped, CountsFromThen

LEMMA LinkStepsKeep ==
  ASSUME AccessInv, NEW p \in People, NEW purpose \in Purposes,
         RequestPasswordReset(p) \/ LinkExpires(p, purpose)
  PROVE  AccessInv'
<1>1. LinksTyped
  BY PersonByPerson
<1>2. CASE RequestPasswordReset(p)
  <2>1. LinksTyped'
    BY <1>1, <1>2, InvitationIsAPurpose, LinkMoves DEF RequestPasswordReset, Issue
  <2> QED
    BY <1>2, <2>1, OnlyLinksMove DEF RequestPasswordReset
<1>3. CASE LinkExpires(p, purpose)
  <2>1. LinksTyped'
    BY <1>1, <1>3, LinkMoves DEF LinkExpires
  <2> QED
    BY <1>3, <2>1, OnlyLinksMove DEF LinkExpires
<1> QED
  BY <1>2, <1>3

LEMMA AccessStarts == AccessInit => AccessInv
<1> SUFFICES ASSUME AccessInit PROVE AccessInv
  OBVIOUS
<1>1. <<>> \in Seq(SessionRow) /\ DOMAIN <<>> = {}
  OBVIOUS
<1>2. AccessTypeOK
  BY <1>1 DEF AccessInit, AccessTypeOK
<1>3. NothingBeforeAccess /\ OpenSinceThen /\ ActivatedWithPassword
  BY <1>1 DEF AccessInit, NothingBeforeAccess, OpenSinceThen, ActivatedWithPassword
<1> QED
  BY <1>2, <1>3 DEF AccessInv

LEMMA AccessSteps == AccessInv /\ [AccessNext]_accessVars => AccessInv'
<1> SUFFICES ASSUME AccessInv, [AccessNext]_accessVars PROVE AccessInv'
  OBVIOUS
<1>1. CASE UNCHANGED accessVars
  <2>1. LinksTyped'
    BY <1>1, PersonByPerson, LinksKept DEF accessVars
  <2> QED
    BY <1>1, <2>1, OnlyLinksMove DEF accessVars
<1>2. CASE AccessNext
  <2>1. PICK p \in People :
           \/ GrantAccess(p) \/ WithdrawAccess(p) \/ RestoreAccess(p)
           \/ PasswordMatches(p) \/ PasswordFails(p) \/ LogIn(p) \/ LockEnds(p)
           \/ RequestPasswordReset(p)
           \/ \E purpose \in Purposes : RedeemToken(p, purpose) \/ LinkExpires(p, purpose)
           \/ \E i \in DOMAIN sessions[p] :
                 \/ UseSession(p, i) \/ LogOut(p, i) \/ ChangePassword(p, i)
                 \/ SessionAges(p, i) \/ IdleMinutesGrow(p, i)
    BY <1>2 DEF AccessNext
  <2>2. CASE GrantAccess(p) \/ WithdrawAccess(p) \/ RestoreAccess(p)
    BY <2>2, GrantKeeps, WithdrawKeeps, RestoreKeeps
  <2>3. CASE PasswordMatches(p) \/ PasswordFails(p) \/ LogIn(p) \/ LockEnds(p)
    BY <2>3, PasswordMatchesKeeps, PasswordFailsKeeps, LogInKeeps, LockEndsKeeps
  <2>4. CASE RequestPasswordReset(p)
    BY <2>4, InvitationIsAPurpose, LinkStepsKeep
  <2>5. CASE \E purpose \in Purposes : RedeemToken(p, purpose) \/ LinkExpires(p, purpose)
    BY <2>5, RedeemKeeps, LinkStepsKeep
  <2>6. CASE \E i \in DOMAIN sessions[p] :
                \/ UseSession(p, i) \/ LogOut(p, i) \/ ChangePassword(p, i)
                \/ SessionAges(p, i) \/ IdleMinutesGrow(p, i)
    BY <2>6, RowStepsKeep, ChangeKeeps
  <2> QED
    BY <2>1, <2>2, <2>3, <2>4, <2>5, <2>6
<1> QED
  BY <1>1, <1>2

LEMMA AccessImplies == AccessInv => NoSessionOutlivesItsPassword
  BY DEF AccessInv, OpenSinceThen, ActivatedWithPassword, NoSessionOutlivesItsPassword, Answers,
         CountsFromThen

\* Every reachable state of the accesses is well typed, for any number of people and
\* sessions (identity models.py).
THEOREM AccessesAreTyped == AccessSpec => []AccessTypeOK
<1>1. AccessInv => AccessTypeOK
  BY DEF AccessInv
<1> QED
  BY <1>1, AccessStarts, AccessSteps, PTL DEF AccessSpec

\* A session that answers was opened with the password in force, or is the one its person
\* changed it from, however logins, withdrawals, restorations and links interleave
\* (identity service.py:225-442); but for the one of a login that every replacement since
\* its own check found half way.
THEOREM SessionsFollowThePassword == AccessSpec => []NoSessionOutlivesItsPassword
  BY AccessStarts, AccessSteps, AccessImplies, PTL DEF AccessSpec

-------------------------------------------------------------------------------
(* Recipients.                                                                *)

\* What the invariant says of one user and of their copy.
Agree(user, copy) ==
    /\ user \in UserRow \cup {NoUser}
    /\ copy \in RecipientRow \cup {NoUser}
    /\ copy # NoUser <=> user # NoUser /\ user.announced
    /\ copy # NoUser => /\ copy.role = user.role /\ copy.active = user.active
                        /\ user.moved \/ copy.phone = user.phone

Tables == /\ users = [u \in Users |-> users[u]]
          /\ recipients = [u \in Users |-> recipients[u]]
          /\ routes \in [Kinds -> Roles \cup {NoRole}]

LEMMA UserByUser ==
  RecipientsInv <=> Tables /\ \A u \in Users : Agree(users[u], recipients[u])
  BY DEF RecipientsInv, RecipientsTypeOK, CopyAgrees, Tables, Agree

\* A step about one user keeps the invariant if user and copy still agree.
LEMMA OneUserMoves ==
  ASSUME RecipientsInv, NEW u \in Users, NEW user, NEW copy, Agree(user, copy),
         users' = [users EXCEPT ![u] = user], recipients' = [recipients EXCEPT ![u] = copy],
         UNCHANGED routes
  PROVE  RecipientsInv'
<1>1. Tables /\ \A v \in Users : Agree(users[v], recipients[v])
  BY UserByUser
<1>2. Tables'
  BY <1>1 DEF Tables
<1>3. ASSUME NEW v \in Users PROVE Agree(users'[v], recipients'[v])
  <2>1. v = u => users'[v] = user /\ recipients'[v] = copy
    BY <1>1 DEF Tables
  <2>2. v # u => users'[v] = users[v] /\ recipients'[v] = recipients[v]
    BY <1>1 DEF Tables
  <2> QED
    BY <1>1, <2>1, <2>2
<1> QED
  BY <1>2, <1>3 DEF RecipientsInv, RecipientsTypeOK, CopyAgrees, Tables, Agree

LEMMA CopyStays ==
  ASSUME RecipientsInv, NEW u \in Users
  PROVE  recipients = [recipients EXCEPT ![u] = recipients[u]]
  BY UserByUser DEF Tables

LEMMA FirstOwnerKeeps ==
  ASSUME RecipientsInv, NEW u \in Users, NEW phone \in Phones, CreateFirstOwner(u, phone)
  PROVE  RecipientsInv'
<1> DEFINE user == [role |-> "OWNER", active |-> TRUE, phone |-> phone, announced |-> FALSE,
                    moved |-> FALSE]
<1>1. user \in UserRow /\ ~user.announced
  BY DEF UserRow, Roles
<1>2. recipients[u] = NoUser
  BY UserByUser DEF Agree, CreateFirstOwner
<1>3. users' = [users EXCEPT ![u] = user] /\ UNCHANGED routes
  BY DEF CreateFirstOwner
<1>4. recipients' = [recipients EXCEPT ![u] = recipients[u]]
  BY CopyStays DEF CreateFirstOwner
<1> HIDE DEF user
<1>5. Agree(user, recipients[u])
  BY <1>1, <1>2, NobodyAssumption DEF Agree
<1> QED
  BY <1>3, <1>4, <1>5, OneUserMoves

LEMMA CreateKeeps ==
  ASSUME RecipientsInv, NEW u \in Users, NEW role \in Roles, NEW phone \in Phones,
         CreateUser(u, role, phone)
  PROVE  RecipientsInv'
<1> DEFINE user == [role |-> role, active |-> TRUE, phone |-> phone, announced |-> TRUE,
                    moved |-> FALSE]
           copy == [role |-> role, active |-> TRUE, phone |-> phone]
<1>1. /\ user \in UserRow /\ copy \in RecipientRow
      /\ user.announced /\ copy.role = user.role /\ copy.active = user.active
      /\ copy.phone = user.phone
  BY DEF UserRow, RecipientRow
<1>2. users' = [users EXCEPT ![u] = user] /\ recipients' = [recipients EXCEPT ![u] = copy]
      /\ UNCHANGED routes
  BY DEF CreateUser
<1> HIDE DEF user, copy
<1>3. Agree(user, copy)
  BY <1>1, NobodyAssumption DEF Agree
<1> QED
  BY <1>2, <1>3, OneUserMoves

\* What a change of role does to a copy, and what a change of access does to it.
LEMMA Followed ==
  ASSUME NEW user \in UserRow, NEW copy, Agree(user, copy), NEW role \in Roles,
         NEW phone \in Phones, NEW active \in BOOLEAN
  PROVE  /\ Agree([user EXCEPT !.role = role, !.phone = phone,
                               !.moved = user.moved \/ phone # user.phone],
                  IF copy = NoUser THEN copy ELSE [copy EXCEPT !.role = role])
         /\ Agree([user EXCEPT !.active = active],
                  IF copy = NoUser THEN copy ELSE [copy EXCEPT !.active = active])
<1> DEFINE gone == user.moved \/ phone # user.phone
           user1 == [user EXCEPT !.role = role, !.phone = phone, !.moved = gone]
           user2 == [user EXCEPT !.active = active]
<1>0. gone \in BOOLEAN /\ (~gone => phone = user.phone /\ ~user.moved)
  BY DEF UserRow
<1> HIDE DEF gone
<1>1. /\ user1 \in UserRow /\ user1.role = role /\ user1.active = user.active
      /\ user1.announced = user.announced /\ user1.phone = phone /\ user1.moved = gone
  BY <1>0 DEF UserRow
<1>4. /\ user2 \in UserRow /\ user2.role = user.role /\ user2.active = active
      /\ user2.announced = user.announced /\ user2.phone = user.phone
      /\ user2.moved = user.moved
  BY DEF UserRow
<1> HIDE DEF user1, user2
<1>2. CASE copy = NoUser
  <2>1. ~user.announced
    BY <1>2, NobodyAssumption DEF Agree
  <2>2. Agree(user1, copy) /\ Agree(user2, copy)
    BY <1>1, <1>2, <1>4, <2>1, NobodyAssumption DEF Agree
  <2> QED
    BY <1>2, <2>2 DEF user1, user2, gone
<1>3. CASE copy # NoUser
  <2>1. /\ copy \in RecipientRow /\ user.announced
        /\ copy.role = user.role /\ copy.active = user.active
        /\ user.moved \/ copy.phone = user.phone
    BY <1>3 DEF Agree
  <2> DEFINE byRole == [copy EXCEPT !.role = role]
             byAccess == [copy EXCEPT !.active = active]
  <2>2. /\ byRole \in RecipientRow /\ byRole.role = role /\ byRole.active = copy.active
        /\ byRole.phone = copy.phone
        /\ byAccess \in RecipientRow /\ byAccess.role = copy.role /\ byAccess.active = active
        /\ byAccess.phone = copy.phone
    BY <2>1 DEF RecipientRow
  <2> HIDE DEF byRole, byAccess
  <2>3. Agree(user1, byRole)
    BY <1>0, <1>1, <2>1, <2>2, NobodyAssumption DEF Agree
  <2>4. Agree(user2, byAccess)
    BY <1>4, <2>1, <2>2, NobodyAssumption DEF Agree
  <2> QED
    BY <1>3, <2>3, <2>4 DEF byRole, byAccess, user1, user2, gone
<1> QED
  BY <1>2, <1>3

LEMMA UpdateKeeps ==
  ASSUME RecipientsInv, NEW u \in Users, NEW role \in Roles, NEW phone \in Phones,
         UpdateUser(u, role, phone)
  PROVE  RecipientsInv'
<1> DEFINE user == [users[u] EXCEPT !.role = role, !.phone = phone,
                                    !.moved = users[u].moved \/ phone # users[u].phone]
           copy == IF recipients[u] = NoUser THEN recipients[u]
                   ELSE [recipients[u] EXCEPT !.role = role]
<1>1. Agree(users[u], recipients[u]) /\ users[u] # NoUser
  BY UserByUser DEF UpdateUser, Existing
<1>2. users[u] \in UserRow
  BY <1>1 DEF Agree
<1>3. Agree(user, copy)
  BY <1>1, <1>2, Followed
<1>4. users' = [users EXCEPT ![u] = user] /\ UNCHANGED routes
  BY UserByUser DEF UpdateUser, Tables
<1>5. recipients' = [recipients EXCEPT ![u] = copy]
  <2>1. CASE recipients[u] = NoUser
    <3>1. recipients' = recipients /\ copy = recipients[u]
      BY <2>1 DEF UpdateUser, FollowRole
    <3> QED
      BY <3>1, CopyStays
  <2>2. CASE recipients[u] # NoUser /\ role # users[u].role
    <3>1. recipients' = [recipients EXCEPT ![u].role = role]
      BY <2>2 DEF UpdateUser, FollowRole
    <3>2. copy = [recipients[u] EXCEPT !.role = role]
      BY <2>2
    <3> QED
      BY <3>1, <3>2
  <2>3. CASE recipients[u] # NoUser /\ role = users[u].role
    <3>1. recipients' = recipients
      BY <2>3 DEF UpdateUser
    <3>2. recipients[u] \in RecipientRow /\ recipients[u].role = role
      BY <1>1, <2>3 DEF Agree
    <3>3. [recipients[u] EXCEPT !.role = role] = recipients[u]
      BY <3>2 DEF RecipientRow
    <3> QED
      BY <2>3, <3>1, <3>3, CopyStays
  <2> QED
    BY <2>1, <2>2, <2>3
<1> HIDE DEF user, copy
<1> QED
  BY <1>3, <1>4, <1>5, OneUserMoves

LEMMA ActiveKeeps ==
  ASSUME RecipientsInv, NEW u \in Users, NEW active \in BOOLEAN, u \in Existing,
         users' = [users EXCEPT ![u].active = active], SetActive(u, active), UNCHANGED routes
  PROVE  RecipientsInv'
<1> DEFINE user == [users[u] EXCEPT !.active = active]
           copy == IF recipients[u] = NoUser THEN recipients[u]
                   ELSE [recipients[u] EXCEPT !.active = active]
<1>1. Agree(users[u], recipients[u]) /\ users[u] # NoUser
  BY UserByUser DEF Existing
<1>2. users[u] \in UserRow
  BY <1>1 DEF Agree
<1>3. \A role \in Roles, phone \in Phones : Agree(user, copy)
  BY <1>1, <1>2, Followed
<1>4. users[u].role \in Roles /\ users[u].phone \in Phones
  BY <1>2 DEF UserRow
<1>5. Agree(user, copy)
  BY <1>3, <1>4
<1>6. users' = [users EXCEPT ![u] = user]
  BY DEF SetActive
<1>7. recipients' = [recipients EXCEPT ![u] = copy]
  <2>1. CASE recipients[u] = NoUser
    BY <2>1, CopyStays DEF SetActive
  <2>2. CASE recipients[u] # NoUser
    BY <2>2 DEF SetActive
  <2> QED
    BY <2>1, <2>2
<1> HIDE DEF user, copy
<1> QED
  BY <1>5, <1>6, <1>7, OneUserMoves

LEMMA RecipientsStart == RecipientsInit => RecipientsInv
  BY DEF RecipientsInit, RecipientsInv, RecipientsTypeOK, CopyAgrees

LEMMA RecipientsSteps == RecipientsInv /\ [RecipientsNext]_recipientVars => RecipientsInv'
<1> SUFFICES ASSUME RecipientsInv, [RecipientsNext]_recipientVars PROVE RecipientsInv'
  OBVIOUS
<1>1. ASSUME NEW u \in Users, NEW phone \in Phones, CreateFirstOwner(u, phone)
      PROVE  RecipientsInv'
  BY <1>1, FirstOwnerKeeps
<1>2. ASSUME NEW u \in Users, NEW phone \in Phones, NEW role \in Roles,
             CreateUser(u, role, phone) \/ UpdateUser(u, role, phone)
      PROVE  RecipientsInv'
  BY <1>2, CreateKeeps, UpdateKeeps
<1>3. ASSUME NEW u \in Users, NEW actor \in Users, DeactivateUser(u, actor)
      PROVE  RecipientsInv'
  BY <1>3, ActiveKeeps DEF DeactivateUser
<1>4. ASSUME NEW u \in Users, ReactivateUser(u)
      PROVE  RecipientsInv'
  BY <1>4, ActiveKeeps DEF ReactivateUser
<1>5. ASSUME NEW kind \in Kinds, NEW role \in {"OWNER", "PURCHASING"}, SetRoute(kind, role)
      PROVE  RecipientsInv'
  BY <1>5 DEF SetRoute, RecipientsInv, RecipientsTypeOK, CopyAgrees, Roles
<1>6. CASE UNCHANGED recipientVars
  BY <1>6 DEF recipientVars, RecipientsInv, RecipientsTypeOK, CopyAgrees
<1> QED
  BY <1>1, <1>2, <1>3, <1>4, <1>5, <1>6 DEF RecipientsNext

\* Whoever the copy says holds a role is whoever holds it, of those announced.
LEMMA HoldersAgree ==
  ASSUME RecipientsInv, NEW role
  PROVE  ActiveWithRole(role) =
            {u \in Existing : users[u].announced /\ users[u].active /\ users[u].role = role}
<1>1. \A u \in Users : Agree(users[u], recipients[u])
  BY UserByUser
<1> QED
  BY <1>1 DEF Agree, ActiveWithRole, Remembered, Existing

LEMMA RecipientsImply == RecipientsInv => AlertsReachWhoHoldsTheRole
<1> SUFFICES ASSUME RecipientsInv, NEW kind \in Kinds
             PROVE  LET announced == {u \in Existing : users[u].announced /\ users[u].active}
                        holders == {u \in announced : users[u].role = RouteOf(kind)}
                        reached == IF holders # {} THEN holders ELSE announced \cap Owners
                    IN  /\ AlertedFor(kind) = reached
                        /\ PhonesFor(kind) = {IF users[u].moved THEN recipients[u].phone
                                              ELSE users[u].phone : u \in reached}
  BY DEF AlertsReachWhoHoldsTheRole
<1> DEFINE announced == {u \in Existing : users[u].announced /\ users[u].active}
           holders == {u \in announced : users[u].role = RouteOf(kind)}
           reached == IF holders # {} THEN holders ELSE announced \cap Owners
<1>1. ActiveWithRole(RouteOf(kind)) = holders
  BY HoldersAgree
<1>2. ActiveWithRole("OWNER") = announced \cap Owners
  BY HoldersAgree DEF Owners
<1> HIDE DEF holders, announced
<1>3. AlertedFor(kind) = reached
  BY <1>1, <1>2 DEF AlertedFor
<1>4. \A u \in reached : users[u].moved \/ recipients[u].phone = users[u].phone
  <2>1. reached \subseteq {u \in Existing : users[u].announced}
    BY DEF holders, announced
  <2>2. \A u \in Users : Agree(users[u], recipients[u])
    BY UserByUser
  <2> QED
    BY <2>1, <2>2 DEF Agree, Existing
<1> HIDE DEF reached
<1>5. PhonesFor(kind) = {IF users[u].moved THEN recipients[u].phone
                         ELSE users[u].phone : u \in reached}
  BY <1>3, <1>4 DEF PhonesFor
<1> QED
  BY <1>3, <1>5 DEF reached, holders, announced

\* The users and their copy are well typed and agree, for any users and telephones
\* (notifications handlers.py:128-151).
THEOREM CopyFollowsIdentity == RecipientsSpec => [](RecipientsTypeOK /\ CopyAgrees)
<1>1. RecipientsInv => RecipientsTypeOK /\ CopyAgrees
  BY DEF RecipientsInv
<1> QED
  BY <1>1, RecipientsStart, RecipientsSteps, PTL DEF RecipientsSpec

\* An alert goes to whoever holds its role and is active, and to the owner when nobody
\* does, on the telephone of each unless it was changed since the copy was made, whatever
\* the number of users, telephones and kinds (delivery.py:42-57).
THEOREM AlertsFollowTheRole == RecipientsSpec => []AlertsReachWhoHoldsTheRole
  BY RecipientsStart, RecipientsSteps, RecipientsImply, PTL DEF RecipientsSpec

-------------------------------------------------------------------------------
(* The inbox.                                                                 *)

DeliveryRow == [message : Messages, to : Telephones, retries : Nat,
                state : {"QUEUED", "SENT", "UNSENT", "GIVEN_UP"}, of : Nat, copy : Nat]

InboxTypeOK ==
    /\ inbox \subseteq Messages
    /\ registered \subseteq Messages
    /\ silent \subseteq registered
    /\ deliveries \subseteq DeliveryRow
    /\ undone \in [Messages -> Nat]
    /\ readings \in Nat
    /\ reading.open \in BOOLEAN

\* What the table of messages holds was typed.
RegisteredIsTyped == IdsOf(registered) \subseteq typed

\* A reading in progress brings what was not typed, one message of each id that can be
\* announced; it alerts of the urgent ones unless it is the first.
ReadingIsNew ==
    reading.open =>
        /\ reading.unseen \subseteq Messages
        /\ IdsOf(reading.unseen) \cap typed = {}
        /\ reading.fresh \subseteq Announced(reading.unseen)
        /\ IdsOf(reading.fresh) = IdsOf(Announced(reading.unseen))
        /\ reading.first \in BOOLEAN
        /\ reading.alerted = IF reading.first THEN {} ELSE reading.fresh \cap Urgent

\* An alert is known by its message, its telephone, the reading that queued it and which
\* copy of it the broker handed over.
AlertsAreTold ==
    /\ \A d \in deliveries : d.of < readings
    /\ \A d, e \in deliveries :
           d.message = e.message /\ d.to = e.to /\ d.of = e.of /\ d.copy = e.copy => d = e

\* What is given up on is written, on the message or before it.
GivenUpIsWritten ==
    \A d \in deliveries : d.state = "GIVEN_UP" => d.message \in failed \cup early

FailedWasGivenUp ==
    \A m \in failed : \E d \in deliveries : d.message = m /\ d.state = "GIVEN_UP"

\* Those that were queued, whatever was handed over again.
AlertsOf(m) == {d \in deliveries : d.message = m /\ d.copy = 0}
Owed(m) == (IF m \in (registered \ silent) \cap Urgent THEN 1 ELSE 0)
           + (IF reading.open /\ m \in reading.alerted THEN 1 ELSE 0)
WellCounted ==
    \A m \in Messages :
        /\ IsFiniteSet(AlertsOf(m))
        /\ Cardinality(AlertsOf(m)) = Cardinality(Telephones) * (Owed(m) + undone[m])

InboxInv ==
    /\ InboxTypeOK
    /\ RegisteredIsTyped
    /\ ReadingIsNew
    /\ AlertsAreTold
    /\ GivenUpIsWritten
    /\ FailedWasGivenUp
    /\ WellCounted
    /\ TypedIsShownOrAsked

\* The alerts of a reading: one for each telephone.
LEMMA OnePerTelephone ==
  ASSUME NEW m, NEW r
  PROVE  LET S == {[message |-> m, to |-> phone, retries |-> 0, state |-> "QUEUED",
                    of |-> r, copy |-> 0] : phone \in Telephones}
         IN  IsFiniteSet(S) /\ Cardinality(S) = Cardinality(Telephones)
<1> DEFINE S == {[message |-> m, to |-> phone, retries |-> 0, state |-> "QUEUED",
                  of |-> r, copy |-> 0] : phone \in Telephones}
           f == [phone \in Telephones |->
                    [message |-> m, to |-> phone, retries |-> 0, state |-> "QUEUED", of |-> r,
                     copy |-> 0]]
<1>1. f \in Injection(Telephones, S)
  <2>1. f \in [Telephones -> S]
    OBVIOUS
  <2>2. \A a, b \in Telephones : f[a] = f[b] => a = b
    OBVIOUS
  <2> QED
    BY <2>1, <2>2 DEF Injection, IsInjective
<1>2. f \in Surjection(Telephones, S)
  BY DEF Surjection
<1>3. ExistsBijection(Telephones, S)
  BY <1>1, <1>2 DEF ExistsBijection, Bijection
<1> QED
  BY <1>3, TelephonesAssumption, FS_Bijection

\* Two sets of alerts that are apart are counted one after the other.
LEMMA CountApart ==
  ASSUME NEW S, NEW T, IsFiniteSet(S), IsFiniteSet(T), S \cap T = {}
  PROVE  IsFiniteSet(S \cup T) /\ Cardinality(S \cup T) = Cardinality(S) + Cardinality(T)
<1>1. Cardinality(S \cap T) = 0
  BY FS_EmptySet
<1>2. Cardinality(S) \in Nat /\ Cardinality(T) \in Nat
  BY FS_CardinalityType
<1>3. /\ IsFiniteSet(S \cup T)
      /\ Cardinality(S \cup T) = Cardinality(S) + Cardinality(T) - Cardinality(S \cap T)
  BY FS_Union
<1>4. \A a, b, c \in Nat : c = 0 => a + b - c = a + b
  OBVIOUS
<1> QED
  BY <1>1, <1>2, <1>3, <1>4

\* An alert that changes is counted as before.
LEMMA CountReplaced ==
  ASSUME NEW S, IsFiniteSet(S), NEW d \in S, NEW e, e = d \/ e \notin S
  PROVE  /\ IsFiniteSet((S \ {d}) \cup {e})
         /\ Cardinality((S \ {d}) \cup {e}) = Cardinality(S)
<1>1. IsFiniteSet(S \ {d}) /\ Cardinality(S \ {d}) = Cardinality(S) - 1
  BY FS_RemoveElement
<1>2. e \notin S \ {d}
  OBVIOUS
<1>3. Cardinality(S) \in Nat
  BY FS_CardinalityType
<1> DEFINE R == S \ {d}
<1> HIDE DEF R
<1>4. IsFiniteSet(R) /\ Cardinality(R) = Cardinality(S) - 1 /\ e \notin R
  BY <1>1, <1>2 DEF R
<1>5. IsFiniteSet(R \cup {e}) /\ Cardinality(R \cup {e}) = Cardinality(R) + 1
  BY <1>4, FS_AddElement
<1>6. Cardinality(R \cup {e}) = Cardinality(S)
  BY <1>3, <1>4, <1>5
<1> QED
  BY <1>5, <1>6 DEF R

\* Multiples of the telephones.
LEMMA OneMore ==
  ASSUME NEW a \in Nat, NEW b \in Nat, NEW c \in Nat, c = b + 1
  PROVE  a * b + a = a * c
OBVIOUS

LEMMA InboxStarts ==
  InboxInit => InboxInv
<1> SUFFICES ASSUME InboxInit PROVE InboxInv
  OBVIOUS
<1> USE DEF InboxInit
<1>1. InboxTypeOK
  BY DEF InboxTypeOK, NotReading
<1>2. RegisteredIsTyped /\ ReadingIsNew /\ AlertsAreTold /\ GivenUpIsWritten
      /\ FailedWasGivenUp /\ TypedIsShownOrAsked
  BY DEF RegisteredIsTyped, ReadingIsNew, AlertsAreTold, GivenUpIsWritten, FailedWasGivenUp,
         TypedIsShownOrAsked, IdsOf, NotReading
<1>3. WellCounted
  <2> SUFFICES ASSUME NEW m \in Messages
               PROVE  /\ IsFiniteSet(AlertsOf(m))
                      /\ Cardinality(AlertsOf(m))
                           = Cardinality(Telephones) * (Owed(m) + undone[m])
    BY DEF WellCounted
  <2>1. AlertsOf(m) = {}
    BY DEF AlertsOf
  <2>2. Owed(m) = 0 /\ undone[m] = 0
    BY DEF Owed, NotReading
  <2>3. Cardinality(Telephones) \in Nat
    BY TelephonesAssumption, FS_CardinalityType
  <2> QED
    BY <2>1, <2>2, <2>3, FS_EmptySet
<1> QED
  BY <1>1, <1>2, <1>3 DEF InboxInv

\* A reading.
LEMMA ReadKeeps ==
  ASSUME InboxInv, NEW fresh \in SUBSET Messages, ReadInbox(fresh), MessagesAssumption
  PROVE  InboxInv'
<1> DEFINE unseen == {m \in inbox : ExternalId[m] \notin typed}
           first == typed = {}
           alerted == IF first THEN {} ELSE fresh \cap Urgent
           Row(m, phone) == [message |-> m, to |-> phone, retries |-> 0,
                             state |-> "QUEUED", of |-> readings, copy |-> 0]
           New == {Row(m, phone) : m \in alerted, phone \in Telephones}
<1>1. /\ ~reading.open
      /\ fresh \subseteq Announced(unseen)
      /\ IdsOf(fresh) = IdsOf(Announced(unseen))
      /\ reading' = [open |-> TRUE, unseen |-> unseen, fresh |-> fresh,
                     first |-> first, alerted |-> alerted]
      /\ deliveries' = deliveries \cup New
      /\ readings' = readings + 1
      /\ UNCHANGED <<inbox, typed, asked, registered, silent, failed, undone, early>>
  BY DEF ReadInbox
<1>2. alerted \subseteq Messages
  OBVIOUS
<1>3. unseen \subseteq Messages /\ unseen \subseteq inbox
  BY DEF InboxInv, InboxTypeOK
<1>4. first \in BOOLEAN
  OBVIOUS
<1>5. \A m \in unseen : ExternalId[m] \notin typed
  OBVIOUS
<1>a. \A m, phone : m \in alerted /\ phone \in Telephones => Row(m, phone) \in New
  OBVIOUS
<1>b. \A d \in New : \E m \in alerted, phone \in Telephones : d = Row(m, phone)
  OBVIOUS
<1>c. \A m, phone : /\ Row(m, phone).message = m /\ Row(m, phone).to = phone
                    /\ Row(m, phone).of = readings /\ Row(m, phone).state = "QUEUED"
                    /\ Row(m, phone).copy = 0
  OBVIOUS
<1>d. New \subseteq DeliveryRow
  <2> SUFFICES ASSUME NEW m \in alerted, NEW phone \in Telephones
               PROVE  Row(m, phone) \in DeliveryRow
    BY <1>b
  <2> QED
    BY <1>2 DEF DeliveryRow, InboxInv, InboxTypeOK
<1>e. alerted = IF first THEN {} ELSE fresh \cap Urgent
  OBVIOUS
<1>6. \A m : {d \in New : d.message = m} =
               IF m \in alerted
               THEN {[message |-> m, to |-> phone, retries |-> 0, state |-> "QUEUED",
                      of |-> readings, copy |-> 0] : phone \in Telephones}
               ELSE {}
  <2> SUFFICES ASSUME NEW m
               PROVE {d \in New : d.message = m} =
                     IF m \in alerted THEN {Row(m, phone) : phone \in Telephones} ELSE {}
    OBVIOUS
  <2> HIDE DEF Row, New, alerted
  <2>1. CASE m \in alerted
    <3>1. \A d \in New : d.message = m => d \in {Row(m, phone) : phone \in Telephones}
      BY <1>b, <1>c
    <3>2. \A d \in {Row(m, phone) : phone \in Telephones} : d \in New /\ d.message = m
      BY <1>a, <1>c, <2>1
    <3> QED
      BY <3>1, <3>2, <2>1
  <2>2. CASE m \notin alerted
    BY <1>b, <1>c, <2>2
  <2> QED
    BY <2>1, <2>2
<1> HIDE DEF unseen, first, alerted, Row, New
<1>7. InboxTypeOK'
  BY <1>1, <1>d DEF InboxInv, InboxTypeOK
<1>8. RegisteredIsTyped'
  BY <1>1 DEF InboxInv, RegisteredIsTyped
<1>9. ReadingIsNew'
  <2>1. IdsOf(unseen) \cap typed = {}
    BY <1>5 DEF IdsOf
  <2> QED
    BY <1>1, <1>3, <1>4, <1>e, <2>1 DEF ReadingIsNew
<1>10. AlertsAreTold'
  <2>1. \A d \in New : d.of = readings
    BY <1>b, <1>c
  <2>2. \A d, e \in New : d.message = e.message /\ d.to = e.to => d = e
    BY <1>b, <1>c
  <2>3. \A d \in deliveries : d.of < readings /\ d.of \in Nat
    BY DEF InboxInv, AlertsAreTold, InboxTypeOK, DeliveryRow
  <2>4. readings \in Nat
    BY DEF InboxInv, InboxTypeOK
  <2>5. \A d, e \in deliveries :
           d.message = e.message /\ d.to = e.to /\ d.of = e.of /\ d.copy = e.copy => d = e
    BY DEF InboxInv, AlertsAreTold
  <2> QED
    BY <1>1, <2>1, <2>2, <2>3, <2>4, <2>5 DEF AlertsAreTold
<1>11. GivenUpIsWritten' /\ FailedWasGivenUp'
  <2>1. \A d \in New : d.state = "QUEUED"
    BY <1>b, <1>c
  <2> QED
    BY <1>1, <2>1 DEF InboxInv, GivenUpIsWritten, FailedWasGivenUp
<1>12. WellCounted'
  <2> SUFFICES ASSUME NEW m \in Messages
               PROVE  /\ IsFiniteSet(AlertsOf(m)')
                      /\ Cardinality(AlertsOf(m)')
                           = Cardinality(Telephones) * (Owed(m)' + undone'[m])
    BY DEF WellCounted
  <2> DEFINE Told == {d \in New : d.message = m}
  <2>0. \A d \in New : d.copy = 0
    BY <1>b, <1>c
  <2>1. AlertsOf(m)' = AlertsOf(m) \cup Told
    BY <1>1, <2>0 DEF AlertsOf
  <2>2. AlertsOf(m) \cap Told = {}
    <3>1. \A d \in New : d.of = readings
      BY <1>b, <1>c
    <3>2. \A d \in deliveries : d.of < readings /\ d.of \in Nat
      BY DEF InboxInv, AlertsAreTold, InboxTypeOK, DeliveryRow
    <3>3. readings \in Nat
      BY DEF InboxInv, InboxTypeOK
    <3> QED
      BY <3>1, <3>2, <3>3 DEF AlertsOf
  <2>3. /\ IsFiniteSet(AlertsOf(m))
        /\ Cardinality(AlertsOf(m)) = Cardinality(Telephones) * (Owed(m) + undone[m])
    BY DEF InboxInv, WellCounted
  <2>4. undone'[m] = undone[m] /\ undone[m] \in Nat
    BY <1>1 DEF InboxInv, InboxTypeOK
  <2>5. Owed(m) \in Nat /\ Owed(m)' = Owed(m) + IF m \in alerted THEN 1 ELSE 0
    BY <1>1 DEF Owed
  <2>6. Cardinality(Telephones) \in Nat
    BY TelephonesAssumption, FS_CardinalityType
  <2>7. CASE m \in alerted
    <3>1. IsFiniteSet(Told) /\ Cardinality(Told) = Cardinality(Telephones)
      <4> DEFINE Each == {[message |-> m, to |-> phone, retries |-> 0, state |-> "QUEUED",
                           of |-> readings, copy |-> 0] : phone \in Telephones}
      <4>1. Told = Each
        BY <1>6, <2>7
      <4>2. IsFiniteSet(Each) /\ Cardinality(Each) = Cardinality(Telephones)
        BY OnePerTelephone
      <4> HIDE DEF Told, Each
      <4> QED
        BY <4>1, <4>2
    <3>2. /\ IsFiniteSet(AlertsOf(m)')
          /\ Cardinality(AlertsOf(m)') = Cardinality(AlertsOf(m)) + Cardinality(Told)
      BY <2>1, <2>2, <2>3, <3>1, CountApart
    <3>3. Owed(m)' + undone'[m] = (Owed(m) + undone[m]) + 1
      BY <2>4, <2>5, <2>7
    <3>4. Owed(m) + undone[m] \in Nat /\ Owed(m)' + undone'[m] \in Nat
      BY <2>4, <2>5, <2>7
    <3>5. Cardinality(Telephones) * (Owed(m) + undone[m]) + Cardinality(Telephones)
            = Cardinality(Telephones) * (Owed(m)' + undone'[m])
      BY <2>6, <3>3, <3>4, OneMore
    <3> QED
      BY <2>3, <3>1, <3>2, <3>5
  <2>8. CASE m \notin alerted
    <3>1. Told = {}
      BY <1>6, <2>8
    <3>2. AlertsOf(m)' = AlertsOf(m)
      BY <2>1, <3>1
    <3>3. Owed(m)' = Owed(m)
      BY <2>5, <2>8
    <3> QED
      BY <2>3, <2>4, <3>2, <3>3
  <2> QED
    BY <2>7, <2>8
<1>13. TypedIsShownOrAsked'
  BY <1>1 DEF InboxInv, TypedIsShownOrAsked
<1> QED
  BY <1>7, <1>8, <1>9, <1>10, <1>11, <1>12, <1>13 DEF InboxInv

\* Its end.
LEMMA CommitKeeps ==
  ASSUME InboxInv, CommitReading, MessagesAssumption
  PROVE  InboxInv'
<1>1. /\ reading.open
      /\ typed' = typed \cup IdsOf(reading.unseen)
      /\ asked' = asked \cup {m \in reading.unseen : ~IsReadable(m)}
      /\ registered' = registered \cup reading.fresh
      /\ silent' = silent \cup IF reading.first THEN reading.fresh ELSE {}
      /\ reading' = NotReading
      /\ UNCHANGED <<inbox, failed, deliveries, undone, early, readings>>
  BY DEF CommitReading
<1>2. /\ reading.unseen \subseteq Messages
      /\ IdsOf(reading.unseen) \cap typed = {}
      /\ reading.fresh \subseteq Announced(reading.unseen)
      /\ IdsOf(reading.fresh) = IdsOf(Announced(reading.unseen))
      /\ reading.first \in BOOLEAN
      /\ reading.alerted = IF reading.first THEN {} ELSE reading.fresh \cap Urgent
  BY <1>1 DEF InboxInv, ReadingIsNew
<1>3. reading.fresh \subseteq reading.unseen
  BY <1>2 DEF Announced
<1>4. ~reading'.open
  BY <1>1 DEF NotReading
<1>5. InboxTypeOK'
  <2>1. reading'.open \in BOOLEAN
    BY <1>1 DEF NotReading
  <2> QED
    BY <1>1, <1>2, <1>3, <2>1 DEF InboxInv, InboxTypeOK
<1>6. RegisteredIsTyped'
  BY <1>1, <1>3 DEF InboxInv, RegisteredIsTyped, IdsOf
<1>7. ReadingIsNew'
  BY <1>4 DEF ReadingIsNew
<1>8. AlertsAreTold' /\ GivenUpIsWritten' /\ FailedWasGivenUp'
  BY <1>1 DEF InboxInv, AlertsAreTold, GivenUpIsWritten, FailedWasGivenUp
<1>9. WellCounted'
  <2> SUFFICES ASSUME NEW m \in Messages
               PROVE  /\ IsFiniteSet(AlertsOf(m)')
                      /\ Cardinality(AlertsOf(m)')
                           = Cardinality(Telephones) * (Owed(m)' + undone'[m])
    BY DEF WellCounted
  <2>1. AlertsOf(m)' = AlertsOf(m) /\ undone'[m] = undone[m]
    BY <1>1 DEF AlertsOf
  <2>2. m \in reading.fresh => m \notin registered
    BY <1>2, <1>3 DEF InboxInv, RegisteredIsTyped, IdsOf
  <2>3. silent \subseteq registered
    BY DEF InboxInv, InboxTypeOK
  <2>4. Owed(m)' = IF m \in (registered' \ silent') \cap Urgent THEN 1 ELSE 0
    BY <1>4 DEF Owed
  <2>5. Owed(m) = (IF m \in (registered \ silent) \cap Urgent THEN 1 ELSE 0)
                  + IF m \in reading.alerted THEN 1 ELSE 0
    BY <1>1 DEF Owed
  <2>6. Owed(m)' = Owed(m)
    <3>1. CASE m \in reading.fresh
      BY <1>1, <1>2, <2>2, <2>3, <2>4, <2>5, <3>1
    <3>2. CASE m \notin reading.fresh
      BY <1>1, <1>2, <2>4, <2>5, <3>2
    <3> QED
      BY <3>1, <3>2
  <2> QED
    BY <2>1, <2>6 DEF InboxInv, WellCounted
<1>10. TypedIsShownOrAsked'
  <2> SUFFICES ASSUME NEW id \in typed'
               PROVE  \/ id \in IdsOf(registered') \cup IdsOf(asked')
                      \/ id \in IdsOf(Undated \cap HasOwnId)
    BY DEF TypedIsShownOrAsked
  <2>1. CASE id \in typed
    BY <1>1, <2>1 DEF InboxInv, TypedIsShownOrAsked, IdsOf
  <2>2. CASE id \in IdsOf(reading.unseen)
    <3>1. PICK m \in reading.unseen : id = ExternalId[m]
      BY <2>2 DEF IdsOf
    <3>2. CASE ~IsReadable(m)
      BY <1>1, <3>1, <3>2 DEF IdsOf
    <3>3. CASE IsReadable(m) /\ m \in Undated
      BY <3>1, <3>3 DEF IdsOf, IsReadable
    <3>4. CASE IsReadable(m) /\ m \notin Undated
      <4>1. m \in Announced(reading.unseen)
        BY <3>1, <3>4 DEF Announced
      <4>2. id \in IdsOf(reading.fresh)
        BY <1>2, <3>1, <4>1 DEF IdsOf
      <4> QED
        BY <1>1, <4>2 DEF IdsOf
    <3> QED
      BY <3>2, <3>3, <3>4
  <2> QED
    BY <1>1, <2>1, <2>2
<1> QED
  BY <1>5, <1>6, <1>7, <1>8, <1>9, <1>10 DEF InboxInv

LEMMA RollbackKeeps ==
  ASSUME InboxInv, RollbackReading
  PROVE  InboxInv'
<1>1. /\ reading.open
      /\ undone' = [m \in Messages |-> undone[m] + IF m \in reading.alerted THEN 1 ELSE 0]
      /\ reading' = NotReading
      /\ UNCHANGED <<inbox, typed, asked, registered, silent, failed, deliveries, early,
                     readings>>
  BY DEF RollbackReading
<1>2. ~reading'.open /\ reading'.open \in BOOLEAN
  BY <1>1 DEF NotReading
<1>3. InboxTypeOK'
  BY <1>1, <1>2 DEF InboxInv, InboxTypeOK
<1>4. WellCounted'
  <2> SUFFICES ASSUME NEW m \in Messages
               PROVE  /\ IsFiniteSet(AlertsOf(m)')
                      /\ Cardinality(AlertsOf(m)')
                           = Cardinality(Telephones) * (Owed(m)' + undone'[m])
    BY DEF WellCounted
  <2>1. AlertsOf(m)' = AlertsOf(m)
    BY <1>1 DEF AlertsOf
  <2>2. undone[m] \in Nat
    BY DEF InboxInv, InboxTypeOK
  <2>3. Owed(m)' = IF m \in (registered \ silent) \cap Urgent THEN 1 ELSE 0
    BY <1>1, <1>2 DEF Owed
  <2>4. Owed(m) = (IF m \in (registered \ silent) \cap Urgent THEN 1 ELSE 0)
                  + IF m \in reading.alerted THEN 1 ELSE 0
    BY <1>1 DEF Owed
  <2>5. undone'[m] = undone[m] + IF m \in reading.alerted THEN 1 ELSE 0
    BY <1>1
  <2>6. Owed(m)' + undone'[m] = Owed(m) + undone[m]
    BY <2>2, <2>3, <2>4, <2>5
  <2> QED
    BY <2>1, <2>6 DEF InboxInv, WellCounted
<1> QED
  BY <1>1, <1>2, <1>3, <1>4
  DEF InboxInv, RegisteredIsTyped, ReadingIsNew, AlertsAreTold, GivenUpIsWritten,
      FailedWasGivenUp, TypedIsShownOrAsked

\* A delivery moves: it stays the delivery of that message, telephone, reading and copy.
LEMMA DeliveryMoves ==
  ASSUME InboxInv, NEW d \in deliveries, NEW e \in DeliveryRow, Becomes(d, e),
         d.state = "QUEUED", e.message = d.message, e.to = d.to, e.of = d.of, e.copy = d.copy,
         e.state = "GIVEN_UP" => e.message \in failed' \cup early',
         failed \subseteq failed', early \subseteq early',
         failed' # failed => e.state = "GIVEN_UP" /\ failed' = failed \cup {e.message},
         UNCHANGED <<inbox, typed, asked, registered, silent, reading, undone, readings>>
  PROVE  InboxInv'
<1>1. deliveries' = (deliveries \ {d}) \cup {e}
  BY DEF Becomes
<1>2. e = d \/ e \notin deliveries
  BY DEF InboxInv, AlertsAreTold
<1>3. InboxTypeOK'
  BY <1>1 DEF InboxInv, InboxTypeOK
<1>4. AlertsAreTold'
  <2>1. \A a \in deliveries : a.of < readings
    BY DEF InboxInv, AlertsAreTold
  <2>2. \A a, b \in deliveries :
           a.message = b.message /\ a.to = b.to /\ a.of = b.of /\ a.copy = b.copy => a = b
    BY DEF InboxInv, AlertsAreTold
  <2>3. \A a \in deliveries \ {d} :
           ~(a.message = e.message /\ a.to = e.to /\ a.of = e.of /\ a.copy = e.copy)
    BY <2>2
  <2> QED
    BY <1>1, <2>1, <2>2, <2>3 DEF AlertsAreTold
<1>5. GivenUpIsWritten'
  BY <1>1 DEF InboxInv, GivenUpIsWritten
<1>7. FailedWasGivenUp'
  <2> SUFFICES ASSUME NEW m \in failed'
               PROVE  \E a \in deliveries' : a.message = m /\ a.state = "GIVEN_UP"
    BY DEF FailedWasGivenUp
  <2>1. CASE m \in failed
    <3>1. PICK a \in deliveries : a.message = m /\ a.state = "GIVEN_UP"
      BY <2>1 DEF InboxInv, FailedWasGivenUp
    <3>2. a \in deliveries'
      BY <1>1, <3>1
    <3> QED
      BY <3>1, <3>2
  <2>2. CASE m \notin failed
    BY <1>1, <2>2
  <2> QED
    BY <2>1, <2>2
<1>6. WellCounted'
  <2> SUFFICES ASSUME NEW m \in Messages
               PROVE  /\ IsFiniteSet(AlertsOf(m)')
                      /\ Cardinality(AlertsOf(m)')
                           = Cardinality(Telephones) * (Owed(m)' + undone'[m])
    BY DEF WellCounted
  <2>1. Owed(m)' = Owed(m) /\ undone'[m] = undone[m]
    BY DEF Owed
  <2>2. /\ IsFiniteSet(AlertsOf(m))
        /\ Cardinality(AlertsOf(m)) = Cardinality(Telephones) * (Owed(m) + undone[m])
    BY DEF InboxInv, WellCounted
  <2>3. CASE m = d.message /\ d.copy = 0
    <3>1. AlertsOf(m)' = (AlertsOf(m) \ {d}) \cup {e}
      BY <1>1, <2>3 DEF AlertsOf
    <3>2. d \in AlertsOf(m) /\ (e = d \/ e \notin AlertsOf(m))
      BY <1>2, <2>3 DEF AlertsOf
    <3> QED
      BY <2>1, <2>2, <3>1, <3>2, CountReplaced
  <2>4. CASE m # d.message \/ d.copy # 0
    <3>1. AlertsOf(m)' = AlertsOf(m)
      BY <1>1, <2>4 DEF AlertsOf
    <3> QED
      BY <2>1, <2>2, <3>1
  <2> QED
    BY <2>3, <2>4
<1> QED
  BY <1>3, <1>4, <1>5, <1>6, <1>7
  DEF InboxInv, RegisteredIsTyped, ReadingIsNew, TypedIsShownOrAsked

\* It is sent, or its task ends having neither sent it nor asked for a retry.
LEMMA EndKeeps ==
  ASSUME InboxInv, NEW d \in deliveries, NEW end \in {"SENT", "UNSENT"}, d.state = "QUEUED",
         Becomes(d, [d EXCEPT !.state = end]),
         UNCHANGED <<inbox, typed, asked, registered, silent, failed, reading, undone, early,
                     readings>>
  PROVE  InboxInv'
<1>1. d \in DeliveryRow
  BY DEF InboxInv, InboxTypeOK
<1> DEFINE e == [d EXCEPT !.state = end]
<1>2. /\ e \in DeliveryRow /\ e.message = d.message /\ e.to = d.to /\ e.of = d.of
      /\ e.copy = d.copy /\ e.state = end
  BY <1>1 DEF DeliveryRow
<1>3. Becomes(d, e)
  OBVIOUS
<1> HIDE DEF e
<1> QED
  BY <1>2, <1>3, DeliveryMoves

LEMMA SentKeeps ==
  ASSUME InboxInv, NEW d \in deliveries, Sent(d) \/ RetryUnsent(d)
  PROVE  InboxInv'
<1>1. CASE Sent(d)
  BY <1>1, EndKeeps DEF Sent
<1>2. CASE RetryUnsent(d)
  BY <1>2, EndKeeps DEF RetryUnsent
<1> QED
  BY <1>1, <1>2

LEMMA RetryKeeps ==
  ASSUME InboxInv, NEW d \in deliveries, RetryDelivery(d)
  PROVE  InboxInv'
<1>1. d \in DeliveryRow
  BY DEF InboxInv, InboxTypeOK
<1> DEFINE e == [d EXCEPT !.retries = @ + 1]
<1>2. /\ e \in DeliveryRow /\ e.message = d.message /\ e.to = d.to /\ e.of = d.of
      /\ e.copy = d.copy /\ e.state = d.state
  BY <1>1 DEF DeliveryRow
<1>3. /\ d.state = "QUEUED" /\ Becomes(d, e)
      /\ UNCHANGED <<inbox, typed, asked, registered, silent, failed, reading,
                     undone, early, readings>>
  BY DEF RetryDelivery
<1> HIDE DEF e
<1> QED
  BY <1>2, <1>3, DeliveryMoves

LEMMA GiveUpKeeps ==
  ASSUME InboxInv, NEW d \in deliveries, NEW configured, GiveUp(d, configured)
  PROVE  InboxInv'
<1>1. d \in DeliveryRow
  BY DEF InboxInv, InboxTypeOK
<1> DEFINE e == [d EXCEPT !.state = "GIVEN_UP"]
<1>2. /\ e \in DeliveryRow /\ e.message = d.message /\ e.to = d.to /\ e.of = d.of
      /\ e.copy = d.copy /\ e.state = "GIVEN_UP"
  BY <1>1 DEF DeliveryRow
<1>3. /\ d.state = "QUEUED" /\ Becomes(d, e)
      /\ failed' = IF d.message \in registered THEN failed \cup {d.message} ELSE failed
      /\ early' = IF d.message \in registered THEN early ELSE early \cup {d.message}
      /\ UNCHANGED <<inbox, typed, asked, registered, silent, reading, undone, readings>>
  BY DEF GiveUp
<1> HIDE DEF e
<1>4. /\ e.message \in failed' \cup early' /\ failed \subseteq failed' /\ early \subseteq early'
      /\ failed' # failed => failed' = failed \cup {e.message}
  BY <1>2, <1>3
<1> QED
  BY <1>2, <1>3, <1>4, DeliveryMoves

\* What is handed over again is not one more of those queued.
LEMMA RedeliverKeeps ==
  ASSUME InboxInv, NEW d \in deliveries, NEW retries \in 0..MaxRetries,
         NEW copy \in 1..MaxCopies, Redeliver(d, retries, copy)
  PROVE  InboxInv'
<1>1. d \in DeliveryRow
  BY DEF InboxInv, InboxTypeOK
<1> DEFINE e == [d EXCEPT !.state = "QUEUED", !.retries = retries, !.copy = copy]
<1>2. retries \in Nat /\ copy \in Nat /\ copy # 0
  BY RetriesAssumption
<1>3. /\ e \in DeliveryRow /\ e.message = d.message /\ e.to = d.to /\ e.of = d.of
      /\ e.copy = copy /\ e.state = "QUEUED"
  BY <1>1, <1>2 DEF DeliveryRow
<1>4. /\ deliveries' = deliveries \cup {e}
      /\ \A a \in deliveries : a.copy # copy
      /\ UNCHANGED <<inbox, typed, asked, registered, silent, failed, reading, undone, early,
                     readings>>
  BY DEF Redeliver
<1> HIDE DEF e
<1>5. InboxTypeOK'
  BY <1>3, <1>4 DEF InboxInv, InboxTypeOK
<1>6. AlertsAreTold'
  BY <1>3, <1>4 DEF InboxInv, AlertsAreTold
<1>7. GivenUpIsWritten' /\ FailedWasGivenUp'
  BY <1>3, <1>4 DEF InboxInv, GivenUpIsWritten, FailedWasGivenUp
<1>8. \A m : AlertsOf(m)' = AlertsOf(m)
  BY <1>2, <1>3, <1>4 DEF AlertsOf
<1>9. WellCounted'
  BY <1>4, <1>8 DEF InboxInv, WellCounted, Owed
<1> QED
  BY <1>4, <1>5, <1>6, <1>7, <1>9
  DEF InboxInv, RegisteredIsTyped, ReadingIsNew, TypedIsShownOrAsked

LEMMA PublishKeeps ==
  ASSUME InboxInv, NEW m \in Messages, PublishMessage(m)
  PROVE  InboxInv'
<1>1. /\ inbox' = inbox \cup {m}
      /\ UNCHANGED <<typed, asked, registered, silent, failed, reading, deliveries, undone,
                     early, readings>>
  BY DEF PublishMessage
<1> QED
  BY <1>1
  DEF InboxInv, InboxTypeOK, RegisteredIsTyped, ReadingIsNew, AlertsAreTold, GivenUpIsWritten,
      FailedWasGivenUp, WellCounted, AlertsOf, Owed, TypedIsShownOrAsked

LEMMA InboxStep ==
  InboxInv /\ [InboxNext]_inboxVars => InboxInv'
<1> SUFFICES ASSUME InboxInv, [InboxNext]_inboxVars PROVE InboxInv'
  OBVIOUS
<1>1. ASSUME NEW fresh \in SUBSET Messages, ReadInbox(fresh) PROVE InboxInv'
  BY <1>1, ReadKeeps, MessagesAssumption
<1>2. CASE CommitReading
  BY <1>2, CommitKeeps, MessagesAssumption
<1>3. CASE RollbackReading
  BY <1>3, RollbackKeeps
<1>4. ASSUME NEW d \in deliveries,
             \/ Sent(d) \/ RetryDelivery(d) \/ RetryUnsent(d)
             \/ GiveUp(d, TRUE) \/ GiveUp(d, FALSE)
      PROVE  InboxInv'
  BY <1>4, SentKeeps, RetryKeeps, GiveUpKeeps
<1>7. ASSUME NEW d \in deliveries, NEW retries \in 0..MaxRetries, NEW copy \in 1..MaxCopies,
             Redeliver(d, retries, copy)
      PROVE  InboxInv'
  BY <1>7, RedeliverKeeps
<1>5. ASSUME NEW m \in Messages, PublishMessage(m) PROVE InboxInv'
  BY <1>5, PublishKeeps
<1>6. CASE UNCHANGED inboxVars
  BY <1>6
  DEF inboxVars, InboxInv, InboxTypeOK, RegisteredIsTyped, ReadingIsNew, AlertsAreTold,
      GivenUpIsWritten, FailedWasGivenUp, WellCounted, AlertsOf, Owed, TypedIsShownOrAsked
<1> QED
  BY <1>1, <1>2, <1>3, <1>4, <1>5, <1>6, <1>7 DEF InboxNext

LEMMA InboxInvariant == InboxSpec => []InboxInv
  BY InboxStarts, InboxStep, PTL DEF InboxSpec

\* Whatever the portal publishes and whichever readings commit, a message that was typed,
\* and is therefore never read again, became a message of the inbox or a question, but for
\* those with an id of their own and no date (ingestion service.py:686-724).
THEOREM TypedMessagesAreHeard == InboxSpec => []TypedIsShownOrAsked
<1>1. InboxInv => TypedIsShownOrAsked
  BY DEF InboxInv
<1> QED
  BY <1>1, InboxInvariant, PTL

\* For any messages, telephones and readings that commit or roll back: the alerts of a
\* message are one per telephone and reading that announced it, but for what the broker
\* hands over again, whatever became of each of them; one that is over and was not sent is
\* written on its message, or was given up on before the message existed, or asked for a
\* retry that did not leave; and a failure written is of one given up on (messaging
\* service.py:102-114, notifications tasks.py:88-123).
THEOREM AlertsAreCounted == InboxSpec => []UrgentIsToldOnceOrShown
<1>1. InboxInv => UrgentIsToldOnceOrShown
  <2> SUFFICES ASSUME InboxInv, NEW m \in Messages
               PROVE  LET told == {d \in deliveries : d.message = m}
                      IN  /\ Cardinality({d \in told : d.copy = 0})
                                = Cardinality(Telephones) * (Owed(m) + undone[m])
                          /\ \A d \in told : \/ d.state \in {"QUEUED", "SENT", "UNSENT"}
                                              \/ m \in failed \cup early
                          /\ m \in failed => \E d \in told : d.state = "GIVEN_UP"
    BY DEF UrgentIsToldOnceOrShown, Owed
  <2> DEFINE told == {d \in deliveries : d.message = m}
  <2>1. {d \in told : d.copy = 0} = AlertsOf(m)
    BY DEF AlertsOf
  <2>2. Cardinality(AlertsOf(m)) = Cardinality(Telephones) * (Owed(m) + undone[m])
    BY DEF InboxInv, WellCounted
  <2>3. \A d \in told : d.state \in {"QUEUED", "SENT", "UNSENT"} \/ m \in failed \cup early
    BY DEF InboxInv, InboxTypeOK, DeliveryRow, GivenUpIsWritten
  <2>4. m \in failed => \E d \in told : d.state = "GIVEN_UP"
    BY DEF InboxInv, FailedWasGivenUp
  <2> HIDE DEF told
  <2>5. Cardinality({d \in told : d.copy = 0}) = Cardinality(Telephones) * (Owed(m) + undone[m])
    BY <2>1, <2>2
  <2> QED
    BY <2>3, <2>4, <2>5 DEF told
<1> QED
  BY <1>1, InboxInvariant, PTL

-------------------------------------------------------------------------------
(* The hours of the alerts.                                                   *)

Values == [Keys -> Hours \cup {NoHour}]
Started(values) == InEffect(values, "window_start")
Ended(values) == InEffect(values, "window_end")

WindowInv ==
    /\ setting \in Values
    /\ stored = setting
    /\ alert.queued =>
           alert.at \in Nat /\ alert.delay = DelayUntilWindow(alert.at)
    /\ alert.queued \in BOOLEAN

\* An instant is its day and its time.
LEMMA MomentsSplit ==
  ASSUME NEW m \in Nat
  PROVE  /\ m \div SlotsPerDay \in Nat /\ TimeOf(m) \in Nat /\ TimeOf(m) < SlotsPerDay
         /\ m = (m \div SlotsPerDay) * SlotsPerDay + TimeOf(m)
  BY SlotsAssumption DEF TimeOf

LEMMA MomentsJoin ==
  ASSUME NEW day \in Nat, NEW time \in Nat, time < SlotsPerDay
  PROVE  /\ day * SlotsPerDay + time \in Nat
         /\ (day * SlotsPerDay + time) \div SlotsPerDay = day
         /\ TimeOf(day * SlotsPerDay + time) = time
         /\ DayOf(day * SlotsPerDay + time) = day % 7
<1>1. SlotsPerDay \in Nat \ {0} /\ time \in 0..(SlotsPerDay - 1)
  BY SlotsAssumption
<1>2. (day * SlotsPerDay + time) \div SlotsPerDay = day
  BY <1>1
<1>3. (day * SlotsPerDay + time) % SlotsPerDay = time
  BY <1>1
<1>4. day * SlotsPerDay + time \in Nat
  BY <1>1
<1> QED
  BY <1>2, <1>3, <1>4 DEF TimeOf, DayOf, DaysInAWeek

\* Multiples of the slots of a day keep the order of the days.
LEMMA DaysInOrder ==
  ASSUME NEW a \in Nat, NEW b \in Nat, a <= b
  PROVE  a * SlotsPerDay <= b * SlotsPerDay
  BY SlotsAssumption

LEMMA NextDay ==
  ASSUME NEW a \in Nat
  PROVE  (a + 1) * SlotsPerDay = a * SlotsPerDay + SlotsPerDay /\ a * SlotsPerDay \in Nat
  BY SlotsAssumption

\* There is a working day within the week, and DaysToWork is the first.
LEMMA FirstWorkingDay ==
  ASSUME NEW day \in Nat
  PROVE  /\ DaysToWork(day) \in 0..7
         /\ (day + DaysToWork(day)) % 7 \in WorkingDays
         /\ \A j \in 0..7 : j < DaysToWork(day) => (day + j) % 7 \notin WorkingDays
         /\ day % 7 \in WorkingDays => DaysToWork(day) = 0
<1> DEFINE First(k) == /\ (day + k) % DaysInAWeek \in WorkingDays
                       /\ \A j \in 0..DaysInAWeek : j < k => (day + j) % DaysInAWeek \notin WorkingDays
<1>1. \A j \in 0..7 : (day + j) % 7 = ((day % 7) + j) % 7
  OBVIOUS
<1>2. day % 7 \in 0..6
  OBVIOUS
<1>3. \E k \in 0..7 : First(k)
  <2>1. CASE day % 7 \in 0..4
    <3>1. (day + 0) % 7 \in 0..4
      BY <2>1
    <3> QED
      BY <3>1 DEF DaysInAWeek, WorkingDays
  <2>2. CASE day % 7 = 5
    <3>1. /\ (day + 0) % 7 = 5 /\ (day + 1) % 7 = 6 /\ (day + 2) % 7 = 0
      BY <2>2
    <3> QED
      BY <3>1 DEF DaysInAWeek, WorkingDays
  <2>3. CASE day % 7 = 6
    <3>1. /\ (day + 0) % 7 = 6 /\ (day + 1) % 7 = 0
      BY <2>3
    <3> QED
      BY <3>1 DEF DaysInAWeek, WorkingDays
  <2> QED
    BY <1>2, <2>1, <2>2, <2>3
<1>4. DaysToWork(day) = CHOOSE k \in 0..7 : First(k)
  BY DEF DaysToWork, DaysInAWeek
<1>5. DaysToWork(day) \in 0..7 /\ First(DaysToWork(day))
  BY <1>3, <1>4
<1>6. day % 7 \in WorkingDays => DaysToWork(day) = 0
  <2>1. day % 7 = (day + 0) % 7
    OBVIOUS
  <2> QED
    BY <1>5, <2>1 DEF DaysInAWeek
<1> QED
  BY <1>5, <1>6 DEF DaysInAWeek

\* Hours the right way round are times of a day.
LEMMA HoursOfADay ==
  ASSUME NEW v \in Values, Started(v) <= Ended(v)
  PROVE  Started(v) \in Nat /\ Ended(v) \in Nat /\ Ended(v) < SlotsPerDay
<1>1. v["window_start"] \in Hours \cup {NoHour} /\ v["window_end"] \in Hours \cup {NoHour}
  BY DEF Values, Keys
<1>2. Started(v) \in Nat
  BY <1>1, SlotsAssumption DEF Started, InEffect, InitialValue, Hours
<1>3. Ended(v) \in Int /\ Ended(v) < SlotsPerDay
  BY <1>1, SlotsAssumption DEF Ended, InEffect, InitialValue, Hours
<1> QED
  BY <1>2, <1>3

\* The delay of an alert, for hours the right way round: it leaves at the first instant
\* that is open.
LEMMA DelayIsTheFirst ==
  ASSUME setting \in Values, Started(setting) <= Ended(setting), NEW now \in Nat,
         NEW delay, delay = DelayUntilWindow(now)
  PROVE  /\ delay \in Nat
         /\ IsOpen(setting, now + delay)
         /\ \A sooner \in 0..delay : sooner < delay => ~IsOpen(setting, now + sooner)
<1> DEFINE start == Started(setting)
           end == Ended(setting)
           q == now \div SlotsPerDay
           r == TimeOf(now)
           later == IF TimeOf(now) > start \/ DayOf(now) \notin WorkingDays THEN 1 ELSE 0
           day == q + later
           k == DaysToWork(day)
           opens == (day + k) * SlotsPerDay + start
<1>1. start \in Nat /\ end \in Nat /\ end < SlotsPerDay /\ start <= end
  BY HoursOfADay
<1>2. delay = IF IsOpen(setting, now) THEN 0 ELSE IF opens > now THEN opens - now ELSE 0
  BY DEF DelayUntilWindow, Started
<1>3. \A m \in Nat : IsOpen(setting, m) <=>
           (m \div SlotsPerDay) % 7 \in WorkingDays /\ start <= TimeOf(m) /\ TimeOf(m) <= end
  BY DEF IsOpen, DayOf, DaysInAWeek, Started, Ended
<1>4. q \in Nat /\ r \in Nat /\ r < SlotsPerDay /\ now = q * SlotsPerDay + r
  BY MomentsSplit
<1>5. DayOf(now) = q % 7
  BY DEF DayOf, DaysInAWeek
<1>6. later \in {0, 1} /\ (later = 0 <=> r <= start /\ q % 7 \in WorkingDays)
  BY <1>1, <1>4, <1>5
<1>7. SlotsPerDay \in Nat \ {0}
  BY SlotsAssumption
<1>8. CASE IsOpen(setting, now)
  <2>1. delay = 0 /\ now + delay = now
    BY <1>2, <1>8
  <2> QED
    BY <1>8, <2>1
<1>9. CASE ~IsOpen(setting, now)
  <2> HIDE DEF start, end, q, r, later
  <2>1. day \in Nat
    BY <1>4, <1>6
  <2> HIDE DEF day
  <2>2. /\ k \in 0..7 /\ (day + k) % 7 \in WorkingDays
        /\ \A j \in 0..7 : j < k => (day + j) % 7 \notin WorkingDays
        /\ day % 7 \in WorkingDays => k = 0
    BY <2>1, FirstWorkingDay
  <2> HIDE DEF k
  <2>3. day + k \in Nat
    BY <2>1, <2>2
  <2>4. /\ opens \in Nat /\ opens \div SlotsPerDay = day + k /\ TimeOf(opens) = start
    <3>1. start < SlotsPerDay
      BY <1>1, <1>7
    <3> QED
      BY <1>1, <2>3, <3>1, MomentsJoin
  <2>5. IsOpen(setting, opens)
    BY <1>1, <1>3, <2>2, <2>4
  <2>6. opens > now
    <3>1. CASE later = 1
      <4>1. (q + 1) * SlotsPerDay <= (day + k) * SlotsPerDay
        BY <1>4, <2>2, <2>3, <3>1, DaysInOrder DEF day
      <4>2. (q + 1) * SlotsPerDay = q * SlotsPerDay + SlotsPerDay /\ q * SlotsPerDay \in Nat
        BY <1>4, NextDay
      <4>3. (day + k) * SlotsPerDay \in Nat
        BY <2>3, NextDay
      <4> DEFINE a == q * SlotsPerDay
                 b == (day + k) * SlotsPerDay
                 c == (q + 1) * SlotsPerDay
      <4>4. now = a + r /\ opens = b + start /\ c <= b /\ c = a + SlotsPerDay
            /\ a \in Nat /\ b \in Nat
        BY <1>4, <4>1, <4>2, <4>3
      <4> HIDE DEF a, b, c, opens
      <4> QED
        BY <1>1, <1>4, <1>7, <4>4
    <3>2. CASE later = 0
      <4>1. day = q
        BY <1>4, <3>2 DEF day
      <4>2. k = 0 /\ day + k = q
        BY <1>4, <1>6, <2>2, <3>2, <4>1
      <4>3. r < start
        BY <1>1, <1>3, <1>4, <1>6, <1>9, <3>2 DEF q, r
      <4>4. q * SlotsPerDay \in Nat
        BY <1>4, NextDay
      <4> DEFINE a == q * SlotsPerDay
      <4>5. now = a + r /\ opens = a + start /\ a \in Nat
        BY <1>4, <4>2, <4>4
      <4> HIDE DEF a, opens
      <4> QED
        BY <1>1, <1>4, <4>3, <4>5
    <3> QED
      BY <1>6, <3>1, <3>2
  <2> HIDE DEF opens
  <2>7. delay = opens - now /\ delay \in Nat /\ now + delay = opens
    BY <1>2, <1>9, <2>4, <2>6
  <2>8. ASSUME NEW m \in Nat, now <= m, m < opens
        PROVE  ~IsOpen(setting, m)
    <3> DEFINE d == m \div SlotsPerDay
               t == TimeOf(m)
    <3>1. d \in Nat /\ t \in Nat /\ t < SlotsPerDay /\ m = d * SlotsPerDay + t
      BY MomentsSplit
    <3>2. IsOpen(setting, m) <=> d % 7 \in WorkingDays /\ start <= t /\ t <= end
      BY <1>3
    <3> HIDE DEF d, t
    <3>3. d * SlotsPerDay \in Nat /\ q * SlotsPerDay \in Nat /\ (day + k) * SlotsPerDay \in Nat
      BY <1>4, <2>3, <3>1, NextDay
    <3>4. q <= d
      <4>1. CASE d + 1 <= q
        <5>1. (d + 1) * SlotsPerDay <= q * SlotsPerDay
          BY <1>4, <3>1, <4>1, DaysInOrder
        <5>2. (d + 1) * SlotsPerDay = d * SlotsPerDay + SlotsPerDay
          BY <3>1, NextDay
        <5> DEFINE a == d * SlotsPerDay
                   b == q * SlotsPerDay
                   c == (d + 1) * SlotsPerDay
        <5>3. m = a + t /\ now = b + r /\ c <= b /\ c = a + SlotsPerDay /\ a \in Nat /\ b \in Nat
          BY <1>4, <3>1, <3>3, <5>1, <5>2
        <5> HIDE DEF a, b, c
        <5> QED
          BY <1>4, <1>7, <2>8, <3>1, <5>3
      <4> QED
        BY <1>4, <3>1, <4>1
    <3>5. d <= day + k
      <4>1. CASE (day + k) + 1 <= d
        <5>1. ((day + k) + 1) * SlotsPerDay <= d * SlotsPerDay
          BY <2>3, <3>1, <4>1, DaysInOrder
        <5>2. ((day + k) + 1) * SlotsPerDay = (day + k) * SlotsPerDay + SlotsPerDay
          BY <2>3, NextDay
        <5> DEFINE a == d * SlotsPerDay
                   b == (day + k) * SlotsPerDay
                   c == ((day + k) + 1) * SlotsPerDay
        <5>3. m = a + t /\ opens = b + start /\ c <= a /\ c = b + SlotsPerDay
              /\ a \in Nat /\ b \in Nat
          BY <3>1, <3>3, <5>1, <5>2 DEF opens
        <5> HIDE DEF a, b, c
        <5> QED
          BY <1>1, <1>7, <2>8, <3>1, <5>3
      <4> QED
        BY <2>3, <3>1, <4>1
    <3>6. CASE d = day + k
      <4>1. t < start
        <5> DEFINE b == (day + k) * SlotsPerDay
        <5>1. m = b + t /\ opens = b + start /\ b \in Nat
          BY <3>1, <3>3, <3>6 DEF opens
        <5> HIDE DEF b
        <5> QED
          BY <1>1, <2>8, <3>1, <5>1
      <4> QED
        BY <1>1, <3>1, <3>2, <4>1
    <3>7. CASE day <= d /\ d < day + k
      <4> DEFINE j == d - day
      <4>1. j \in 0..7 /\ j < k /\ day + j = d
        BY <2>1, <2>2, <3>1, <3>7
      <4> QED
        BY <2>2, <3>2, <4>1
    <3>8. CASE d < day
      <4>1. d = q /\ later = 1
        BY <1>4, <1>6, <3>1, <3>4, <3>8 DEF day
      <4>2. r <= t
        <5> DEFINE a == q * SlotsPerDay
        <5>1. m = a + t /\ now = a + r /\ a \in Nat
          BY <1>4, <3>1, <3>3, <4>1
        <5> HIDE DEF a
        <5> QED
          BY <1>4, <2>8, <3>1, <5>1
      <4>3. q % 7 \notin WorkingDays \/ r > start
        BY <1>1, <1>4, <1>6, <4>1
      <4>4. q % 7 \in WorkingDays => r > end
        BY <1>1, <1>3, <1>4, <1>9, <4>3 DEF q, r
      <4> QED
        BY <1>1, <1>4, <3>1, <3>2, <4>1, <4>2, <4>4
    <3> QED
      BY <2>1, <2>3, <3>1, <3>5, <3>6, <3>7, <3>8
  <2>9. \A sooner \in 0..delay : sooner < delay => ~IsOpen(setting, now + sooner)
    <3> SUFFICES ASSUME NEW sooner \in 0..delay, sooner < delay
                 PROVE  ~IsOpen(setting, now + sooner)
      OBVIOUS
    <3>1. now + sooner \in Nat /\ now <= now + sooner /\ now + sooner < opens
      BY <2>4, <2>7
    <3> QED
      BY <2>8, <3>1
  <2> QED
    BY <2>5, <2>7, <2>9
<1> QED
  BY <1>8, <1>9

LEMMA WindowStarts ==
  WindowInit => WindowInv
  BY DEF WindowInit, WindowInv, Values, NoAlert

LEMMA SetKeeps ==
  ASSUME WindowInv, NEW batch, SetParameters(batch)
  PROVE  WindowInv'
<1>1. /\ \A key \in DOMAIN batch : batch[key] \in Hours
      /\ stored' = [key \in Keys |-> IF key \in DOMAIN batch THEN batch[key] ELSE stored[key]]
      /\ setting' = [key \in Keys |-> IF key \in DOMAIN batch THEN batch[key] ELSE setting[key]]
      /\ alert' = NoAlert
  BY DEF SetParameters
<1>2. setting' \in Values
  BY <1>1 DEF WindowInv, Values
<1>3. stored' = setting'
  BY <1>1 DEF WindowInv
<1> QED
  BY <1>1, <1>2, <1>3 DEF WindowInv, NoAlert

LEMMA WindowStep ==
  WindowInv /\ [WindowNext]_windowVars => WindowInv'
<1> SUFFICES ASSUME WindowInv, [WindowNext]_windowVars PROVE WindowInv'
  OBVIOUS
<1>1. ASSUME NEW batch \in Batches, SetParameters(batch) PROVE WindowInv'
  BY <1>1, SetKeeps
<1>2. CASE UNCHANGED windowVars
  BY <1>2 DEF WindowInv, windowVars, DelayUntilWindow
<1>3. ASSUME NEW batch \in Batches, RefuseParameters(batch) PROVE WindowInv'
  BY <1>2, <1>3 DEF RefuseParameters
<1>4. ASSUME NEW now \in 0..(DaysInAWeek * SlotsPerDay - 1), QueueAlert(now) PROVE WindowInv'
  <2>1. /\ alert' = [queued |-> TRUE, at |-> now, delay |-> DelayUntilWindow(now)]
        /\ UNCHANGED <<stored, setting>>
    BY <1>4 DEF QueueAlert
  <2>2. DelayUntilWindow(now)' = DelayUntilWindow(now)
    BY <2>1 DEF DelayUntilWindow
  <2>3. now \in Nat
    BY SlotsAssumption DEF DaysInAWeek
  <2>4. alert'.delay = DelayUntilWindow(now)' /\ alert'.at = now /\ alert'.queued = TRUE
    BY <2>1, <2>2
  <2> QED
    BY <2>1, <2>3, <2>4 DEF WindowInv
<1> QED
  BY <1>1, <1>2, <1>3, <1>4 DEF WindowNext

\* Whatever slots a day is told in and whichever hours the owner sets, an alert leaves at the
\* first instant, from the one it was queued at, at which a window the right way round is
\* open on a working day (notifications/delivery.py:59-79).
THEOREM AlertsLeaveOnTime == WindowSpec => []LeavesWhenTheWindowOpens
<1>1. WindowSpec => []WindowInv
  BY WindowStarts, WindowStep, PTL DEF WindowSpec
<1>2. WindowInv => LeavesWhenTheWindowOpens
  <2> SUFFICES ASSUME WindowInv, alert.queued, Started(setting) <= Ended(setting)
               PROVE  /\ IsOpen(setting, alert.at + alert.delay)
                      /\ \A sooner \in 0..alert.delay :
                             sooner < alert.delay => ~IsOpen(setting, alert.at + sooner)
    BY DEF LeavesWhenTheWindowOpens, WindowInv, Started, Ended
  <2> QED
    BY DelayIsTheFirst DEF WindowInv
<1> QED
  BY <1>1, <1>2, PTL

===============================================================================
