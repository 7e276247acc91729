------------------------------ MODULE Recipients ------------------------------
(***************************************************************************)
(* Who an alert reaches.  identity keeps the users; notifications keeps a  *)
(* copy of them, fed by events inside the same transaction, and the role   *)
(* each kind of alert goes to.                                             *)
(*                                                                         *)
(* Sessions, passwords and invitations are left out: no alert depends on   *)
(* them.                                                                   *)
(***************************************************************************)
EXTENDS FiniteSets

CONSTANTS
    Users,         \* user ids
    Phones,        \* telephones
    Kinds,         \* kinds of alert
    DefaultRoutes, \* the role of a kind nobody routed
    NoUser,        \* absence of a user or of its copy
    NoRole         \* a kind nobody routed

Roles == {"OWNER", "PURCHASING", "SALES"}
\* announced: whether notifications was told of the user; moved: whether the telephone
\* was changed since, which nobody is told of.
UserRow == [role : Roles, active : BOOLEAN, phone : Phones, announced : BOOLEAN,
            moved : BOOLEAN]
RecipientRow == [role : Roles, active : BOOLEAN, phone : Phones]
ASSUME RoutesAssumption == DefaultRoutes \in [Kinds -> Roles]
ASSUME NobodyAssumption == NoUser \notin UserRow \cup RecipientRow

VARIABLES
    users,       \* public.users
    recipients,  \* operations.notification_recipient
    routes       \* operations.notification_route

recipientVars == <<users, recipients, routes>>

Existing == {u \in Users : users[u] # NoUser}
Owners == {u \in Existing : users[u].role = "OWNER"}
Remembered == {u \in Users : recipients[u] # NoUser}

(***************************************************************************)
(* Users.                                                                  *)
(***************************************************************************)
\* The first owner comes from a command of its own, which invites and announces nobody.
CreateFirstOwner(u, phone) ==
    /\ users[u] = NoUser
    /\ Owners = {}
    /\ users' = [users EXCEPT ![u] = [role |-> "OWNER", active |-> TRUE,
                                      phone |-> phone, announced |-> FALSE,
                                      moved |-> FALSE]]
    /\ UNCHANGED <<recipients, routes>>

CreateUser(u, role, phone) ==
    /\ users[u] = NoUser
    /\ role = "OWNER" => Owners = {}
    /\ users' = [users EXCEPT ![u] = [role |-> role, active |-> TRUE,
                                      phone |-> phone, announced |-> TRUE,
                                      moved |-> FALSE]]
    /\ recipients' = [recipients EXCEPT ![u] = [role |-> role, active |-> TRUE,
                                                phone |-> phone]]
    /\ UNCHANGED routes

\* follow_the_role, stop_alerting and resume_alerting leave alone who is not there.
FollowRole(u, role) ==
    recipients' = IF recipients[u] = NoUser THEN recipients
                  ELSE [recipients EXCEPT ![u].role = role]
\* A mutant: nobody is told that somebody came back.
SetInactive(u, active) ==
    recipients' = IF recipients[u] = NoUser \/ active THEN recipients
                  ELSE [recipients EXCEPT ![u].active = active]

SetActive(u, active) ==
    recipients' = IF recipients[u] = NoUser THEN recipients
                  ELSE [recipients EXCEPT ![u].active = active]

\* A change of role is announced, one of telephone is not.
UpdateUser(u, role, phone) ==
    /\ u \in Existing
    /\ role = "OWNER" => Owners \subseteq {u}
    /\ users' = [users EXCEPT ![u].role = role, ![u].phone = phone,
                              ![u].moved = users[u].moved \/ phone # users[u].phone]
    /\ IF role # users[u].role THEN FollowRole(u, role) ELSE UNCHANGED recipients
    /\ UNCHANGED routes

\* Nobody takes their own access away, and only the owner takes those of the others.
DeactivateUser(u, actor) ==
    /\ u \in Existing /\ actor \in Owners
    /\ users[actor].active /\ u # actor
    /\ users' = [users EXCEPT ![u].active = FALSE]
    /\ SetActive(u, FALSE)
    /\ UNCHANGED routes

ReactivateUser(u) ==
    /\ u \in Existing /\ ~users[u].active
    /\ users' = [users EXCEPT ![u].active = TRUE]
    /\ SetActive(u, TRUE)
    /\ UNCHANGED routes

(***************************************************************************)
(* Routes, and where an alert goes.                                        *)
(***************************************************************************)
\* Sales cannot be chosen.
SetRoute(kind, role) ==
    /\ routes' = [routes EXCEPT ![kind] = role]
    /\ UNCHANGED <<users, recipients>>

RouteOf(kind) == IF routes[kind] = NoRole THEN DefaultRoutes[kind] ELSE routes[kind]
ActiveWithRole(role) ==
    {u \in Remembered : recipients[u].role = role /\ recipients[u].active}

\* phones_for: with nobody in the role, the owner; and of each, the telephone of the copy.
AlertedFor(kind) ==
    LET holders == ActiveWithRole(RouteOf(kind))
    IN  IF holders = {} THEN ActiveWithRole("OWNER") ELSE holders
PhonesFor(kind) == {recipients[u].phone : u \in AlertedFor(kind)}

RecipientsInit ==
    /\ users = [u \in Users |-> NoUser]
    /\ recipients = [u \in Users |-> NoUser]
    /\ routes = [kind \in Kinds |-> NoRole]

RecipientsNext ==
    \/ \E u \in Users, phone \in Phones :
          \/ CreateFirstOwner(u, phone)
          \/ \E role \in Roles : CreateUser(u, role, phone) \/ UpdateUser(u, role, phone)
    \/ \E u, actor \in Users : DeactivateUser(u, actor)
    \/ \E u \in Users : ReactivateUser(u)
    \/ \E kind \in Kinds, role \in {"OWNER", "PURCHASING"} : SetRoute(kind, role)

RecipientsSpec == RecipientsInit /\ [][RecipientsNext]_recipientVars

RecipientsTypeOK ==
    /\ users \in [Users -> UserRow \cup {NoUser}]
    /\ recipients \in [Users -> RecipientRow \cup {NoUser}]
    /\ routes \in [Kinds -> Roles \cup {NoRole}]

\* The copy is of everybody who was announced, and says of each what identity says, the
\* telephone as long as it was not changed.
CopyAgrees ==
    \A u \in Users :
        /\ recipients[u] # NoUser <=> users[u] # NoUser /\ users[u].announced
        /\ recipients[u] # NoUser =>
               /\ recipients[u].role = users[u].role
               /\ recipients[u].active = users[u].active
               /\ users[u].moved \/ recipients[u].phone = users[u].phone

\* The inductive invariant.
RecipientsInv == RecipientsTypeOK /\ CopyAgrees

\* An alert goes to the users who hold its role and are active, and to the owner when
\* there is none, whatever was done to them since they were created: never to somebody
\* who left or who changed role, and to somebody while the owner is active
\* (delivery.py:42-57, handlers.py:128-151).  It goes to the telephone each has.  Two
\* exceptions: the owner of the installation command, who was never announced, and whoever
\* changed telephone, who is alerted on the one of the copy, since a change of telephone
\* is not published (identity service.py:208-221, against RF-44 of 007, spec.md:194).
AlertsReachWhoHoldsTheRole ==
    \A kind \in Kinds :
        LET announced == {u \in Existing : users[u].announced /\ users[u].active}
            holders == {u \in announced : users[u].role = RouteOf(kind)}
            reached == IF holders # {} THEN holders ELSE announced \cap Owners
        IN  /\ AlertedFor(kind) = reached
            /\ PhonesFor(kind) = {IF users[u].moved THEN recipients[u].phone
                                  ELSE users[u].phone : u \in reached}
=============================================================================
