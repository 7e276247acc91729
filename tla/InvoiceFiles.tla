----------------------------- MODULE InvoiceFiles -----------------------------
(***************************************************************************)
(* The document of an invoice.  Registering an invoice queues one visit to *)
(* the portal (portal/handlers.py); the visit keeps the file and publishes *)
(* it (portal/service.py); ingestion reads it and compares it with the     *)
(* latest row of the list that has its number (ingestion/documents.py);    *)
(* purchases keeps what it said and holds the invoice when it disagrees    *)
(* (record_document).                                                      *)
(*                                                                         *)
(* The queue is not part of the transaction that registers an invoice: a   *)
(* visit can come before its commit, and survives its rollback.  An amount *)
(* stands for the three fields compared.  What else holds an invoice is in *)
(* module HeldInvoices.  Nothing relates two numbers: here there is one,   *)
(* which the invoices of several suppliers can have.                       *)
(***************************************************************************)
EXTENDS Naturals, Sequences, SequencesExt, FiniteSets

CONSTANTS
    Rows,          \* rows the list of invoices can have with the number
    TaxIds,        \* suppliers of the register with a tax id
    Files,         \* what a document can be: [declared, text]
    Sums,          \* totals
    NoSum, NoSupplier, NoFile, NoVisit,
    MaxTries,      \* portal.tasks.MAX_RETRIES
    MaxChanges     \* bound: readings of the list that bring another total

Readers == {"PDF", "SCAN", "SHEET"}
\* What a reader gets out of a file: the amounts it labels as the total, the ones it
\* prints, and its lines with a tax id.
Texts == [labelled : SUBSET Sums, printed : SUBSET Sums,
          ids : Seq([client : BOOLEAN, of : TaxIds \cup {NoSupplier}])]

ASSUME FilesAssumption ==
    /\ Sums \subseteq Nat
    /\ NoSum \notin Sums /\ NoSupplier \notin TaxIds /\ NoVisit \notin Nat
    /\ NoFile \notin Files /\ NoFile \notin Sums \cup {NoSum}
    /\ \A f \in Files : f.declared \in Readers /\ f.text \in [Readers -> Texts \cup {NoFile}]
    /\ \A f \in Files, r \in Readers : f.text[r] # NoFile =>
           IsFiniteSet(f.text[r].labelled) /\ IsFiniteSet(f.text[r].printed)

VARIABLES
    rows,      \* the rows that the list has
    file,      \* what the portal has under the number
    listed,    \* staging: the total of the latest row of the list with the number
    invoices,  \* core.invoice and its document, one for each row, and whether committed
    visits,    \* the queue: how many times each visit was tried, or NoVisit
    fetched,   \* the visits that keep the file and have not read it yet
    kept,      \* raw.portal_document of its file: NONE, STORED, NORMALIZED
    missed,    \* rows whose visit gave up, died, or found no invoice to tell
    changes    \* how often the list brought another total

fileVars == <<rows, file, listed, invoices, visits, fetched, kept, missed, changes>>

(***************************************************************************)
(* What a document says.                                                   *)
(***************************************************************************)
\* _readers_for: the reader of the declared kind first, and the others after it.
ReadersFor(declared) ==
    CASE declared = "SHEET" -> <<"SHEET", "PDF", "SCAN">>
      [] declared = "SCAN"  -> <<"SCAN", "PDF", "SHEET">>
      [] declared = "PDF"   -> <<"PDF", "SCAN", "SHEET">>

Largest(sums) == CHOOSE s \in sums : \A other \in sums : other <= s

\* The total it labels; without one, the largest amount it prints.
TotalIn(text) ==
    IF text.labelled # {} THEN Largest(text.labelled)
    ELSE IF text.printed # {} THEN Largest(text.printed)
    ELSE NoSum

\* The first tax id that is not on a line that names the client.
IssuerTaxIdIn(text) ==
    LET others == {n \in DOMAIN text : ~text[n].client}
    IN  IF others = {} THEN NoSupplier
        ELSE text[CHOOSE n \in others : \A other \in others : n <= other].of

Unread == [readable |-> FALSE, total |-> NoSum, taxId |-> NoSupplier]

\* Without a number, a date or a total it confirms nothing, and its tax id is not looked at.
FieldsIn(text) ==
    IF TotalIn(text) = NoSum THEN Unread
    ELSE [readable |-> TRUE, total |-> TotalIn(text), taxId |-> IssuerTaxIdIn(text.ids)]

\* The first reader that gets a text out of it decides.
ReadInvoiceDocument(f) ==
    LET order == ReadersFor(f.declared)
        able == {n \in DOMAIN order : f.text[order[n]] # NoFile}
    IN  IF able = {} THEN Unread
        ELSE FieldsIn(f.text[order[CHOOSE n \in able : \A other \in able : n <= other]])

\* A mutant: a document that confirms nothing contradicts nothing.
AgreesUnlessDifferent(said, total) ==
    ~(said.total # NoSum /\ total # NoSum /\ said.total # total)

AgreesWith(said, total) ==
    /\ said.readable
    /\ ~(said.total # NoSum /\ total # NoSum /\ said.total # total)
    /\ said.total # NoSum

(***************************************************************************)
(* The list of invoices.                                                   *)
(***************************************************************************)
Absent == [stage |-> "ABSENT"]
In(i) == invoices[i].stage = "COMMITTED"
\* uq_invoice_supplier_number.
Taken(s) == s # NoSupplier /\ \E i \in rows : invoices[i] # Absent /\ invoices[i].supplier = s

NewRow(s, total) ==
    [stage |-> "OPEN", supplier |-> s, total |-> total, document |-> NoFile,
     review |-> IF s = NoSupplier THEN "PENDING" ELSE "OK",
     reason |-> IF s = NoSupplier THEN "SUPPLIER" ELSE "NONE",
     byTaxId |-> FALSE]

\* One visit for each, identified or held: InvoicesRegistered, InvoicesNeedingReview.
Queued(i) == [visits EXCEPT ![i] = 0]

\* register_invoices: in an open transaction, with its visit already in the queue.  The
\* visit of a registration that was undone is over before the next reading.
RegisterListed(i, s, total) ==
    /\ invoices[i] = Absent /\ ~Taken(s)
    /\ visits[i] = NoVisit
    /\ invoices' = [invoices EXCEPT ![i] = NewRow(s, total)]
    /\ visits' = Queued(i)
    /\ UNCHANGED <<rows, file, listed, fetched, kept, missed, changes>>

CommitRow(i) ==
    /\ invoices[i].stage = "OPEN"
    /\ invoices' = [invoices EXCEPT ![i].stage = "COMMITTED"]
    /\ listed' = invoices[i].total
    /\ UNCHANGED <<rows, file, visits, fetched, kept, missed, changes>>

UndoRow(i) ==
    /\ invoices[i].stage = "OPEN"
    /\ invoices' = [invoices EXCEPT ![i] = Absent]
    /\ UNCHANGED <<rows, file, listed, visits, fetched, kept, missed, changes>>

\* A later reading whose row has another total: one that waits already is left as it is.
HeldByTotal(invoice, total) ==
    IF invoice.total = total \/ invoice.review = "PENDING" THEN invoice
    ELSE [invoice EXCEPT !.review = "PENDING", !.reason = "ANOTHER_TOTAL"]

ListAgain(i, total) ==
    /\ In(i) /\ changes < MaxChanges
    /\ listed # total
    /\ listed' = total
    /\ invoices' = [invoices EXCEPT ![i] = HeldByTotal(@, total)]
    /\ changes' = changes + 1
    /\ UNCHANGED <<rows, file, visits, fetched, kept, missed>>

(***************************************************************************)
(* The visit.                                                              *)
(***************************************************************************)
\* extract_invoice_file, which keeps the file before it is read; one read before is left.
Download(i) ==
    /\ visits[i] # NoVisit /\ i \notin fetched
    /\ IF kept = "NORMALIZED"
       THEN visits' = [visits EXCEPT ![i] = NoVisit] /\ UNCHANGED <<fetched, kept>>
       ELSE kept' = "STORED" /\ fetched' = fetched \cup {i} /\ UNCHANGED visits
    /\ UNCHANGED <<rows, file, listed, invoices, missed, changes>>

\* The portal did not answer: it is tried again, a number of times.
DownloadFails(i) ==
    /\ visits[i] # NoVisit /\ i \notin fetched
    /\ IF visits[i] < MaxTries
       THEN visits' = [visits EXCEPT ![i] = @ + 1] /\ UNCHANGED missed
       ELSE visits' = [visits EXCEPT ![i] = NoVisit] /\ missed' = missed \cup {i}
    /\ UNCHANGED <<rows, file, listed, invoices, fetched, kept, changes>>

\* What it reads is told to one invoice of that number, whichever comes first, which is
\* given its supplier by the tax id or held if it disagrees with the list.
IdentifiedBy(invoice, said) ==
    invoice.review = "PENDING" /\ invoice.reason = "SUPPLIER" /\ said.taxId # NoSupplier

\* put_document: what was read last.
WithDocument(invoice, said) == [invoice EXCEPT !.document = said.total]

Told(invoice, said, agrees) ==
    LET known == WithDocument(invoice, said)
    IN  IF IdentifiedBy(invoice, said)
        THEN [known EXCEPT !.supplier = said.taxId, !.review = "OK", !.reason = "NONE",
                           !.byTaxId = TRUE]
        ELSE IF ~agrees /\ invoice.review = "OK"
        THEN [known EXCEPT !.review = "PENDING",
                           !.reason = IF said.readable THEN "FILE_DISAGREES"
                                      ELSE "FILE_UNREADABLE"]
        ELSE known

\* Every invoice with the number, in no order.
Numbered == {c \in rows : In(c)}

Interpret(i) ==
    LET said == ReadInvoiceDocument(file)
        agrees == AgreesWith(said, listed)
    IN  /\ i \in fetched
        /\ IF Numbered = {} THEN missed' = rows /\ UNCHANGED invoices
           ELSE /\ \E c \in Numbered :
                      /\ ~(IdentifiedBy(invoices[c], said) /\ Taken(said.taxId))
                      /\ invoices' = [invoices EXCEPT ![c] = Told(@, said, agrees)]
                /\ UNCHANGED missed
        /\ kept' = "NORMALIZED"
        /\ fetched' = fetched \ {i}
        /\ visits' = [visits EXCEPT ![i] = NoVisit]
        /\ UNCHANGED <<rows, file, listed, changes>>

\* The transaction fails, or the process dies with it: the message was taken.
Die(i) ==
    /\ i \in fetched
    /\ fetched' = fetched \ {i}
    /\ visits' = [visits EXCEPT ![i] = NoVisit]
    /\ missed' = missed \cup {i}
    /\ UNCHANGED <<rows, file, listed, invoices, kept, changes>>

\* The whole worker dies: the message comes back.
ComeBack(i) ==
    /\ i \in fetched
    /\ fetched' = fetched \ {i}
    /\ UNCHANGED <<rows, file, listed, invoices, visits, kept, missed, changes>>

\* A person answers for an invoice that waits, and nothing about it is asked again.
Answer(i) ==
    /\ In(i) /\ invoices[i].review = "PENDING"
    /\ invoices' = [invoices EXCEPT ![i].review = "RESOLVED", ![i].reason = "NONE"]
    /\ UNCHANGED <<rows, file, listed, visits, fetched, kept, missed, changes>>

(***************************************************************************)
(* The specification.                                                      *)
(***************************************************************************)
FilesInit ==
    /\ rows \in (SUBSET Rows) \ {{}}
    /\ file \in Files
    /\ listed = NoSum
    /\ invoices = [i \in Rows |-> Absent]
    /\ visits = [i \in Rows |-> NoVisit]
    /\ fetched = {} /\ missed = {} /\ changes = 0
    /\ kept = "NONE"

FilesNext ==
    \E i \in rows :
        \/ \E s \in TaxIds \cup {NoSupplier}, total \in Sums : RegisterListed(i, s, total)
        \/ CommitRow(i)
        \/ UndoRow(i)
        \/ \E total \in Sums : ListAgain(i, total)
        \/ Download(i)
        \/ DownloadFails(i)
        \/ Interpret(i)
        \/ Die(i)
        \/ ComeBack(i)
        \/ Answer(i)

FilesSpec == FilesInit /\ [][FilesNext]_fileVars

(***************************************************************************)
(* Properties.                                                             *)
(***************************************************************************)
\* An invoice that counts without a question, whose number no other one has, is worth
\* what its document says, once there is one, although what is compared is the last row
\* of the list and not the invoice; and some invoice of each number has its document,
\* unless the visit gave up, died, or was made before there was an invoice to tell.  The
\* exception is one identified by the tax id of the document, where the rest of it is
\* not looked at (purchases service.py:1372-1400, ingestion service.py:457-462).
DocumentIsHeard ==
    /\ \A i \in rows :
           rows = {i} /\ In(i) /\ invoices[i].review = "OK" /\ invoices[i].document # NoFile
               => invoices[i].document = invoices[i].total \/ invoices[i].byTaxId
    /\ (\E i \in rows : In(i)) /\ (\A i \in rows : visits[i] = NoVisit) /\ missed = {}
           => \E i \in rows : In(i) /\ invoices[i].document # NoFile
=============================================================================
