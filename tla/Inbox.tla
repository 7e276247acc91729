-------------------------------- MODULE Inbox --------------------------------
(***************************************************************************)
(* The inbox of the portal: ingestion reads it whole each time and keeps   *)
(* what it had not seen, messaging registers the messages and alerts of    *)
(* the urgent ones, and a task per telephone delivers each alert.          *)
(*                                                                         *)
(* A reading is one transaction, but the alerts it queues leave for the    *)
(* broker before it commits: they may be delivered, or given up on, while  *)
(* the message does not exist yet, and they leave even if it never will.   *)
(* So a reading is two steps.  A second reading of the same inbox waits at *)
(* the first message both insert and is then refused by its unique id: it  *)
(* is a reading that rolls back.                                           *)
(*                                                                         *)
(* A task is acknowledged once it ends, so the broker may hand over again  *)
(* an alert it already handed over, sent or not, and both go on.           *)
(***************************************************************************)
EXTENDS Naturals, FiniteSets

CONSTANTS
    Messages,      \* what the portal can publish
    ExternalId,    \* the id of each: its own, or made of date, sender and subject
    HasOwnId,      \* those the portal gives an id to
    Undated,       \* those whose date cannot be read
    Urgent,        \* those of a kind that is alerted
    Telephones,    \* where an alert goes
    MaxRetries,    \* retries of a delivery
    MaxReadings,   \* bound: readings of the inbox
    MaxCopies      \* bound: alerts the broker hands over again

ASSUME MessagesAssumption ==
    HasOwnId \subseteq Messages /\ Undated \subseteq Messages /\ Urgent \subseteq Messages
ASSUME RetriesAssumption == MaxRetries \in Nat /\ MaxCopies \in Nat
ASSUME TelephonesAssumption == IsFiniteSet(Telephones)

VARIABLES
    inbox,      \* what the portal shows
    typed,      \* staging.message_row: the ids that were typed
    asked,      \* messages triage asks about
    registered, \* core.supplier_message
    silent,     \* those the first reading registered, which nobody is alerted of
    failed,     \* those with an alert_failure
    reading,    \* the reading in progress, or NotReading
    deliveries, \* the alerts: [message, to, retries, state, of, copy], of being the reading
                \* and copy zero unless the broker handed it over again
    undone,     \* alerts of readings that rolled back, by message
    early,      \* messages an alert was given up on before they existed
    readings    \* how many so far

inboxVars == <<inbox, typed, asked, registered, silent, failed, reading, deliveries,
               undone, early, readings>>

NotReading == [open |-> FALSE]

(***************************************************************************)
(* A reading.                                                              *)
(***************************************************************************)
IdsOf(messages) == {ExternalId[m] : m \in messages}

\* With an id of its own, a message is readable whatever its date says; but only one
\* with a date is announced.
\* A mutant: every row of the inbox is taken for a message.
IsAlwaysReadable(m) == TRUE

IsReadable(m) == m \in HasOwnId \/ m \notin Undated
Announced(messages) == {m \in messages : IsReadable(m) /\ m \notin Undated}

\* normalize_messages and register_messages up to the commit.  Of the messages that
\* share an id the first of the table is registered.
ReadInbox(fresh) ==
    LET unseen == {m \in inbox : ExternalId[m] \notin typed}
        first == typed = {}
        alerted == IF first THEN {} ELSE fresh \cap Urgent
    IN  /\ ~reading.open
        /\ readings < MaxReadings
        /\ inbox # {}
        /\ fresh \subseteq Announced(unseen)
        /\ IdsOf(fresh) = IdsOf(Announced(unseen))
        /\ Cardinality(fresh) = Cardinality(IdsOf(fresh))
        /\ reading' = [open |-> TRUE, unseen |-> unseen, fresh |-> fresh,
                       first |-> first, alerted |-> alerted]
        /\ deliveries' = deliveries \cup
               {[message |-> m, to |-> phone, retries |-> 0, state |-> "QUEUED",
                 of |-> readings, copy |-> 0] : m \in alerted, phone \in Telephones}
        /\ readings' = readings + 1
        /\ UNCHANGED <<inbox, typed, asked, registered, silent, failed, undone, early>>

CommitReading ==
    /\ reading.open
    /\ typed' = typed \cup IdsOf(reading.unseen)
    /\ asked' = asked \cup {m \in reading.unseen : ~IsReadable(m)}
    /\ registered' = registered \cup reading.fresh
    /\ silent' = silent \cup IF reading.first THEN reading.fresh ELSE {}
    /\ reading' = NotReading
    /\ UNCHANGED <<inbox, failed, deliveries, undone, early, readings>>

RollbackReading ==
    /\ reading.open
    /\ undone' = [m \in Messages |-> undone[m] + IF m \in reading.alerted THEN 1 ELSE 0]
    /\ reading' = NotReading
    /\ UNCHANGED <<inbox, typed, asked, registered, silent, failed, deliveries, early,
                   readings>>

(***************************************************************************)
(* The deliveries, and what the portal does.                               *)
(***************************************************************************)
Becomes(d, after) == deliveries' = (deliveries \ {d}) \cup {after}

Sent(d) ==
    /\ d.state = "QUEUED"
    /\ Becomes(d, [d EXCEPT !.state = "SENT"])
    /\ UNCHANGED <<inbox, typed, asked, registered, silent, failed, reading, undone, early,
                   readings>>

RetryDelivery(d) ==
    /\ d.state = "QUEUED"
    /\ d.retries < MaxRetries
    /\ Becomes(d, [d EXCEPT !.retries = @ + 1])
    /\ UNCHANGED <<inbox, typed, asked, registered, silent, failed, reading, undone, early,
                   readings>>

\* The retry is asked for from the thread of the loop, which is not the task's: Celery may
\* find no request there, and then the task ends without one, reporting nothing.
RetryUnsent(d) ==
    /\ d.state = "QUEUED"
    /\ MaxRetries > 0
    /\ Becomes(d, [d EXCEPT !.state = "UNSENT"])
    /\ UNCHANGED <<inbox, typed, asked, registered, silent, failed, reading, undone, early,
                   readings>>

\* An alert whose task did not come to be acknowledged, the one before its retry included.
Redeliver(d, retries, copy) ==
    /\ \A e \in deliveries : e.copy # copy
    /\ retries <= d.retries
    /\ deliveries' = deliveries \cup
           {[d EXCEPT !.state = "QUEUED", !.retries = retries, !.copy = copy]}
    /\ UNCHANGED <<inbox, typed, asked, registered, silent, failed, reading, undone, early,
                   readings>>

\* _report_delivery_failure and record_alert_failure, after the last retry or at once
\* when there is no channel.  A message nobody committed yet has nothing to write on.
\* A mutant: with no channel nothing is written on the message.
GiveUpUnreported(d, configured) ==
    /\ d.state = "QUEUED"
    /\ configured => d.retries = MaxRetries
    /\ Becomes(d, [d EXCEPT !.state = "GIVEN_UP"])
    /\ failed' = IF configured /\ d.message \in registered THEN failed \cup {d.message}
                 ELSE failed
    /\ early' = IF d.message \in registered THEN early ELSE early \cup {d.message}
    /\ UNCHANGED <<inbox, typed, asked, registered, silent, reading, undone, readings>>

GiveUp(d, configured) ==
    /\ d.state = "QUEUED"
    /\ configured => d.retries = MaxRetries
    /\ Becomes(d, [d EXCEPT !.state = "GIVEN_UP"])
    /\ failed' = IF d.message \in registered THEN failed \cup {d.message} ELSE failed
    /\ early' = IF d.message \in registered THEN early ELSE early \cup {d.message}
    /\ UNCHANGED <<inbox, typed, asked, registered, silent, reading, undone, readings>>

PublishMessage(m) ==
    /\ m \notin inbox
    /\ inbox' = inbox \cup {m}
    /\ UNCHANGED <<typed, asked, registered, silent, failed, reading, deliveries, undone,
                   early, readings>>

InboxInit ==
    /\ inbox = {} /\ typed = {} /\ asked = {} /\ registered = {} /\ silent = {}
    /\ failed = {} /\ reading = NotReading /\ deliveries = {}
    /\ undone = [m \in Messages |-> 0] /\ early = {} /\ readings = 0

InboxNext ==
    \/ \E fresh \in SUBSET Messages : ReadInbox(fresh)
    \/ CommitReading
    \/ RollbackReading
    \/ \E d \in deliveries :
          \/ Sent(d) \/ RetryDelivery(d) \/ RetryUnsent(d) \/ GiveUp(d, TRUE) \/ GiveUp(d, FALSE)
          \/ \E retries \in 0..MaxRetries, copy \in 1..MaxCopies : Redeliver(d, retries, copy)
    \/ \E m \in Messages : PublishMessage(m)

InboxSpec == InboxInit /\ [][InboxNext]_inboxVars

(***************************************************************************)
(* Properties.                                                             *)
(***************************************************************************)
\* What a reading typed is never read again, so by then it is a message of the inbox or
\* a question for a person; a message with an id of its own and no date is neither
\* (ingestion service.py:686-724, parsers.py:1041-1052).
TypedIsShownOrAsked ==
    \A id \in typed :
        \/ id \in IdsOf(registered) \cup IdsOf(asked)
        \/ id \in IdsOf(Undated \cap HasOwnId)

\* For every urgent message after the first reading one alert is queued for each
\* telephone, and one that ends without being sent shows on the message, which shows a
\* failure only if one was given up on (messaging service.py:102-114, notifications
\* tasks.py:88-123).  The exceptions: a reading that rolled back alerted of its messages
\* too; the broker may hand an alert over again, which is then sent twice
\* (celery_app.py:50); an alert given up on before the commit shows nowhere; and neither
\* does one whose retry did not leave (tasks.py:97-100, bridge.py:53-54, against RF-38 of
\* 007, spec.md:188).
UrgentIsToldOnceOrShown ==
    \A m \in Messages :
        LET told == {d \in deliveries : d.message = m}
            owed == (IF m \in (registered \ silent) \cap Urgent THEN 1 ELSE 0)
                    + (IF reading.open /\ m \in reading.alerted THEN 1 ELSE 0)
        IN  /\ Cardinality({d \in told : d.copy = 0})
                  = Cardinality(Telephones) * (owed + undone[m])
            /\ \A d \in told : \/ d.state \in {"QUEUED", "SENT", "UNSENT"}
                                \/ m \in failed \cup early
            /\ m \in failed => \E d \in told : d.state = "GIVEN_UP"
=============================================================================
