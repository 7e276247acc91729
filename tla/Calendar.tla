------------------------------- MODULE Calendar -------------------------------
(* When an invoice falls due, the calendar people reschedule it on, and the   *)
(* receipt of reception that has to be issued before that day                 *)
(* (modules/purchases: the terms of a supplier, _sync_due_date, the entries   *)
(* of the calendar, receipts and incidents).                                  *)
(*                                                                            *)
(* Each operation is one transaction. Two that insert the same row are        *)
(* ordered by the database: the entry of an invoice, its receipt in force,    *)
(* its open incident and the number of a receipt are unique indexes, and the  *)
(* transaction that arrives second is undone. Nothing orders two UPDATEs: an  *)
(* operation that works out the dates of invoices already registered (a term  *)
(* that appears, a supplier identified, a date corrected) is two steps, what  *)
(* it reads and what it writes, and a person may move the entry between them. *)
(* Two that work out the dates of one invoice at once, and a move that reads  *)
(* before one of them commits and writes after it, are not modelled.          *)
EXTENDS Integers, Sequences, FiniteSets

CONSTANTS
    Bills,          \* the invoices
    Notes,          \* the entries somebody may add by hand
    Terms,          \* the terms a supplier may agree on, in days
    LastDay,        \* bound: the days of the model are 0..LastDay
    MaxMoves,       \* bound: entries rescheduled
    MaxReceipts,    \* bound: receipts issued
    NoDay           \* no date, no term, no row

VARIABLES
    today,
    term,       \* payment_term_days of the one supplier
    bill,       \* [Bills -> NoDay or the row of the invoice]
    entry,      \* [Bills \cup Notes -> NoDay or its entry on the calendar]
    redating,   \* NoDay, or what the transaction that is working out dates will write
    crossed,    \* the entries moved by a person after that transaction read them
    moves,      \* how many rows due_date_change has
    receipts,   \* the table of receipts, in the order of their numbers
    incidents   \* the invoices with an open incident
calendarVars == <<today, term, bill, entry, redating, crossed, moves, receipts, incidents>>

Days == 0..LastDay
BillRows == [issued : Nat, due : Nat \cup {NoDay}, identified : BOOLEAN, said : BOOLEAN]
EntryRows == [on : Nat, original : Nat]

ASSUME CalendarAssumption ==
    /\ LastDay \in Nat /\ Terms \subseteq Nat
    /\ NoDay \notin Int /\ NoDay \notin BillRows /\ NoDay \notin EntryRows
    /\ Bills \cap Notes = {}

Known == {i \in Bills : bill[i] # NoDay}
Entered == {e \in Bills \cup Notes : entry[e] # NoDay}

BillRow(issued, due, identified, said) ==
    [issued |-> issued, due |-> due, identified |-> identified, said |-> said]
Entry(day) == [on |-> day, original |-> day]

(* A person moved the entry, and it is not back where it was. *)
WasRescheduled(e) == entry[e].on # entry[e].original

-------------------------------------------------------------------------------
(* Receipts. The word of the portal counts until a receipt of the invoice was *)
(* annulled here.                                                             *)

InForce(i) == \E k \in DOMAIN receipts : receipts[k].bill = i /\ ~receipts[k].voided
Annulled(i) == \E k \in DOMAIN receipts : receipts[k].bill = i /\ receipts[k].voided
HasReceipt(i) == InForce(i) \/ (bill[i].said /\ ~Annulled(i))
PastDue(i) == bill[i].due # NoDay /\ bill[i].due < today
OverdueWithoutReceipt == {i \in Known : PastDue(i) /\ ~HasReceipt(i)}

IssueReceipt(i) ==
    /\ i \in Known
    /\ ~HasReceipt(i)
    /\ ~PastDue(i)
    /\ Len(receipts) < MaxReceipts
    /\ receipts' = Append(receipts, [bill |-> i, voided |-> FALSE])
    /\ UNCHANGED <<today, term, bill, entry, moves, incidents, redating, crossed>>

VoidReceipt(k) ==
    /\ k \in DOMAIN receipts
    /\ ~receipts[k].voided
    /\ receipts' = [receipts EXCEPT ![k].voided = TRUE]
    /\ incidents' = incidents \cup {i \in {receipts[k].bill} : PastDue(i)}
    /\ UNCHANGED <<today, term, bill, entry, moves, redating, crossed>>

OpenIncidentsForOverdue ==
    /\ incidents' = incidents \cup OverdueWithoutReceipt
    /\ UNCHANGED <<today, term, bill, entry, moves, receipts, redating, crossed>>

CloseIncident(i) ==
    /\ i \in incidents
    /\ incidents' = incidents \ {i}
    /\ UNCHANGED <<today, term, bill, entry, moves, receipts, redating, crossed>>

(* The portal is read again: what it says of the receipt is copied. *)
PortalSays(i, said) ==
    /\ i \in Known
    /\ bill' = [bill EXCEPT ![i].said = said]
    /\ UNCHANGED <<today, term, entry, moves, receipts, incidents, redating, crossed>>

-------------------------------------------------------------------------------
(* Due dates. *)

(* A mutant of Synced: the entry follows the invoice, rescheduled or not. *)
SyncedAlways(e, due) == IF due = NoDay THEN e ELSE Entry(due)

(* The entry of an invoice kept in step with it: added once, and not moved    *)
(* where a person rescheduled it.                                             *)
Synced(e, due) ==
    IF due = NoDay THEN e
    ELSE IF e = NoDay THEN Entry(due)
    ELSE IF e.on # e.original THEN e ELSE Entry(due)

DueDateFor(issued, t, column) == IF t = NoDay THEN column ELSE issued + t

RegisterBill(i, issued, column, known) ==
    /\ bill[i] = NoDay
    /\ LET due == DueDateFor(issued, IF known THEN term ELSE NoDay, column)
       IN  /\ bill' = [bill EXCEPT ![i] = BillRow(issued, due, known, FALSE)]
           /\ entry' = [entry EXCEPT ![i] = Synced(entry[i], due)]
    /\ UNCHANGED <<today, term, moves, receipts, incidents, redating, crossed>>

(* What a transaction will write: the term, if it is about the term; what it  *)
(* works out of some invoices; of those, the due dates that differ from what  *)
(* it read; and the entries that follow theirs. A column it leaves as it read *)
(* it is not in its UPDATE.                                                   *)
Redated(i, issued, due, identified) ==
    [issued |-> issued, due |-> due, identified |-> identified,
     moved |-> due # bill[i].due, entered |-> Synced(entry[i], due) # entry[i]]

Begins(t, rows) ==
    /\ redating = NoDay
    /\ redating' = [term |-> t, rows |-> rows]
    /\ UNCHANGED <<today, term, bill, entry, crossed, moves, receipts, incidents>>

(* The entries the transaction in hand is about to write. *)
EntriesInHand ==
    IF redating = NoDay THEN {} ELSE {i \in DOMAIN redating.rows : redating.rows[i].entered}

WriteDates ==
    /\ redating # NoDay
    /\ LET rows == redating.rows
       IN  /\ term' = IF redating.term = NoDay THEN term ELSE redating.term
           /\ bill' = [i \in Bills |->
                IF i \in DOMAIN rows
                THEN BillRow(rows[i].issued, IF rows[i].moved THEN rows[i].due ELSE bill[i].due,
                             rows[i].identified, bill[i].said)
                ELSE bill[i]]
           /\ entry' = [e \in Bills \cup Notes |->
                IF e \in EntriesInHand THEN Entry(rows[e].due) ELSE entry[e]]
    /\ redating' = NoDay
    /\ UNCHANGED <<today, crossed, moves, receipts, incidents>>

(* The register publishes the term, or somebody corrects it: the invoices of  *)
(* the supplier are due from it, those a person rescheduled apart.            *)
Refreshed(t) == {i \in Known : /\ bill[i].identified
                               /\ bill[i].due # bill[i].issued + t
                               /\ entry[i] # NoDay => ~WasRescheduled(i)}
TermBecomes(t) ==
    Begins(t, [i \in Refreshed(t) |-> Redated(i, bill[i].issued, bill[i].issued + t, TRUE)])

(* Somebody says whose a held invoice is, or its document prints the tax id:  *)
(* the term of that supplier is the due date.                                 *)
Identify(i) ==
    /\ i \in Known /\ ~bill[i].identified
    /\ LET due == DueDateFor(bill[i].issued, term, bill[i].due)
       IN  Begins(NoDay, [j \in {i} |-> Redated(i, bill[i].issued, due, TRUE)])

(* Somebody corrects the date of an invoice. *)
CorrectIssued(i, issued) ==
    /\ i \in Known /\ issued # bill[i].issued
    /\ LET t   == IF bill[i].identified THEN term ELSE NoDay
           due == DueDateFor(issued, t, bill[i].due)
       IN  Begins(NoDay, [j \in {i} |-> Redated(i, issued, due, bill[i].identified)])

-------------------------------------------------------------------------------
(* The calendar. *)

AddDueDate(n, day) ==
    /\ entry[n] = NoDay
    /\ entry' = [entry EXCEPT ![n] = Entry(day)]
    /\ UNCHANGED <<today, term, bill, moves, receipts, incidents, redating, crossed>>

(* A mutant of RescheduledBill: the invoice follows its entry, late or not. *)
RescheduledBillAlways(i, day) == [bill[i] EXCEPT !.due = day]

(* Moved to a day, the past too when it is confirmed. The invoice follows     *)
(* only when it had not fallen due.                                           *)
RescheduledBill(i, day) ==
    IF bill[i].due # NoDay /\ bill[i].due < today THEN bill[i]
    ELSE [bill[i] EXCEPT !.due = day]

MoveDueDate(e, day, confirmPast) ==
    /\ e \in Entered
    /\ day < today => confirmPast
    /\ moves < MaxMoves
    /\ entry' = [entry EXCEPT ![e].on = day]
    /\ bill' = IF e \in Notes THEN bill ELSE [bill EXCEPT ![e] = RescheduledBill(e, day)]
    /\ moves' = moves + 1
    /\ crossed' = IF e \in EntriesInHand THEN crossed \cup {e} ELSE crossed \ {e}
    /\ UNCHANGED <<today, term, receipts, incidents, redating>>

RemoveDueDate(n) ==
    /\ n \in Entered \cap Notes
    /\ entry' = [entry EXCEPT ![n] = NoDay]
    /\ UNCHANGED <<today, term, bill, moves, receipts, incidents, redating, crossed>>

NextDay ==
    /\ today < LastDay
    /\ today' = today + 1
    /\ UNCHANGED <<term, bill, entry, moves, receipts, incidents, redating, crossed>>

-------------------------------------------------------------------------------
CalendarInit ==
    /\ today = 0
    /\ term = NoDay
    /\ bill = [i \in Bills |-> NoDay]
    /\ entry = [e \in Bills \cup Notes |-> NoDay]
    /\ redating = NoDay
    /\ crossed = {}
    /\ moves = 0
    /\ receipts = <<>>
    /\ incidents = {}

PurchasingScreen ==
    \/ \E i \in Bills : IssueReceipt(i) \/ CloseIncident(i) \/ Identify(i)
    \/ \E i \in Bills, day \in Days : CorrectIssued(i, day)
    \/ \E k \in DOMAIN receipts : VoidReceipt(k)
CalendarScreen ==
    \/ \E n \in Notes, day \in Days : AddDueDate(n, day)
    \/ \E n \in Notes : RemoveDueDate(n)
    \/ \E e \in Entered, day \in Days, confirm \in BOOLEAN : MoveDueDate(e, day, confirm)
PortalRead ==
    \/ \E i \in Bills, issued \in Days, column \in Days \cup {NoDay}, known \in BOOLEAN :
          RegisterBill(i, issued, column, known)
    \/ \E i \in Bills, said \in BOOLEAN : PortalSays(i, said)
    \/ \E t \in Terms : TermBecomes(t)
CalendarNext == PurchasingScreen \/ CalendarScreen \/ PortalRead \/ WriteDates
                \/ OpenIncidentsForOverdue \/ NextDay
CalendarSpec == CalendarInit /\ [][CalendarNext]_calendarVars

-------------------------------------------------------------------------------
(* An entry of the calendar that a person rescheduled stays on that day until *)
(* a person moves or removes it, whatever the portal publishes, the term that *)
(* appears, the supplier that is identified or the date that is corrected     *)
(* (_sync_due_date, called by all of them). One exception the code makes: a   *)
(* move committed after one of those read the entry and before it wrote it is *)
(* written over, and the date of the person is lost.                          *)
KeepsRescheduled ==
    \A e \in Entered \ crossed : WasRescheduled(e) /\ entry'[e] # NoDay
                          => entry'[e].on = entry[e].on \/ moves' > moves
RescheduledStays == [][KeepsRescheduled]_calendarVars

(* Rescheduling does not rescue an invoice that fell due without a receipt:   *)
(* it leaves that list only because the portal says it has one, or because    *)
(* its own due date, issue plus agreed term, says otherwise; and no receipt   *)
(* is issued for it meanwhile (move_due_date, issue_receipt, RF-28 to RF-30). *)
KeepsLate ==
    \A i \in OverdueWithoutReceipt : i \notin OverdueWithoutReceipt'
        => \/ bill'[i].said
           \/ term' # NoDay /\ bill'[i].due = bill'[i].issued + term'
LateStaysLate == [][KeepsLate]_calendarVars

(* The inductive invariant: typing, an entry of an invoice has an invoice,    *)
(* and what the transaction in hand will write: of entries nobody moved since *)
(* it read them, and of due dates that are issue plus term.                   *)
RedatedRows == [issued : Nat, due : Nat \cup {NoDay}, identified : BOOLEAN,
                moved : BOOLEAN, entered : BOOLEAN]
WritesWhatItRead(t, rows) ==
    /\ t \in Terms \cup {NoDay}
    /\ DOMAIN rows \subseteq Known
    /\ \A i \in DOMAIN rows :
          /\ rows[i] \in RedatedRows
          /\ rows[i].entered => /\ rows[i].due # NoDay
                                /\ entry[i] # NoDay /\ WasRescheduled(i) => i \in crossed
          /\ rows[i].moved => \E u \in {IF t = NoDay THEN term ELSE t} \ {NoDay} :
                                  rows[i].due = rows[i].issued + u
CalendarInv ==
    /\ today \in Nat
    /\ term \in Terms \cup {NoDay}
    /\ bill \in [Bills -> BillRows \cup {NoDay}]
    /\ entry \in [Bills \cup Notes -> EntryRows \cup {NoDay}]
    /\ crossed \subseteq Bills \cup Notes
    /\ moves \in Nat
    /\ receipts \in Seq([bill : Bills, voided : BOOLEAN])
    /\ incidents \subseteq Bills
    /\ \A i \in Bills : entry[i] # NoDay => bill[i] # NoDay
    /\ redating # NoDay => WritesWhatItRead(redating.term, redating.rows)
==============================================================================
