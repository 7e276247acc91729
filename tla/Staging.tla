-------------------------------- MODULE Staging --------------------------------
(***************************************************************************)
(* What happens to each row of a screen of the portal: ingestion types it  *)
(* into staging, hands it on if it is whole, and reports it as quarantined *)
(* if it is not; triage asks about it.  The two are separate events, to    *)
(* separate modules, of one transaction.                                   *)
(*                                                                         *)
(* A row is the set of its cells that cannot be read (empty, not a number, *)
(* negative, a day that does not exist...): what it says otherwise does    *)
(* not matter here, and two rows that say the same are the same.  The list *)
(* of prices is in PriceLists, the inbox in Inbox.                         *)
(***************************************************************************)
EXTENDS Naturals, Sequences, SequencesExt, FiniteSets

CONSTANTS
    Pages,       \* the screens that are read
    MaxBroken,     \* bound: cells of a row that cannot be read
    MaxWritten,    \* bound: rows of a screen
    MaxTyped       \* bound: readings

ASSUME StagingAssumption ==
    /\ Pages \subseteq {"invoices", "ledger", "orders", "sales", "history"}
    /\ MaxWritten \in Nat

VARIABLES
    screen,    \* the screen being read
    contents,  \* raw.portal_document: the contents already read
    staged,     \* the rows in staging, by id: [of, line, kind, broken, status, reason]
    handed,    \* the ids of those somebody was handed
    queued,     \* triage: the pending cases, [kind, key, row, occurrences]
    settled    \* triage: those answered, and how many rows there were then

stagingVars == <<screen, contents, staged, handed, queued, settled>>

(***************************************************************************)
(* What a row of each screen has.                                          *)
(***************************************************************************)
InvoiceCells == {"number", "supplier", "date", "amount", "due"}
SupplierCells == {"name", "balance", "term"}
PaymentCells == {"reference", "date", "amount"}
OrderCells == {"number", "supplier", "date", "status", "quantity"}
SaleCells == {"code", "date", "amount", "quantity", "product"}
HistoryCells == {"date", "price"}

RowsWith(kind, cells) ==
    {[kind |-> kind, broken |-> broken] :
        broken \in {b \in SUBSET cells : Cardinality(b) <= MaxBroken}}

\* The register and the accounts of its suppliers are one screen.
RowsOnScreen ==
    CASE screen = "invoices" -> RowsWith("INVOICE", InvoiceCells)
      [] screen = "ledger" -> RowsWith("SUPPLIER", SupplierCells) \cup RowsWith("PAYMENT", PaymentCells)
      [] screen = "orders" -> RowsWith("ORDER", OrderCells)
      [] screen = "sales" -> RowsWith("SALE", SaleCells)
      [] screen = "history" -> RowsWith("POINT", HistoryCells)

WithLines(rows) ==
    [n \in DOMAIN rows |-> [kind |-> rows[n].kind, broken |-> rows[n].broken, line |-> n]]
ContentsOnScreen == {WithLines(rows) : rows \in BoundedSeq(RowsOnScreen, MaxWritten)}

(***************************************************************************)
(* Why a row is set aside: the first of the cells it needs that cannot be  *)
(* read.  The other cells are left empty without a word.                   *)
(***************************************************************************)
FirstBroken(needed, row) ==
    LET unread == {n \in DOMAIN needed : needed[n] \in row.broken}
    IN  IF unread = {} THEN "NONE"
        ELSE needed[CHOOSE n \in unread : \A other \in unread : n <= other]

\* A date is broken when there is none, when it is not written as one, and when it is
\* a day that does not exist.
DateOf(row) == IF "date" \in row.broken THEN {} ELSE {"date"}
\* An amount, when there is none, when it is not a number, and when it is negative.
MoneyOf(row) == IF "amount" \in row.broken THEN {} ELSE {"amount"}

InvoiceReason(row) == FirstBroken(<<"number", "supplier", "date", "amount">>, row)

\* A mutant: the register of before, whose balance was dropped without a reason.
SupplierReasonSilent(row) == "NONE"
SupplierReason(row) == FirstBroken(<<"balance">>, row)

PaymentReason(row) == FirstBroken(<<"date", "amount">>, row)
LedgerReason(row) ==
    IF row.kind = "SUPPLIER" THEN SupplierReason(row) ELSE PaymentReason(row)

OrderReason(row) == FirstBroken(<<"number", "supplier", "date", "status">>, row)
\* A quantity that is not there is not a reason; one that is no count, or negative, is.
SaleReason(row) == FirstBroken(<<"code", "date", "amount", "quantity">>, row)
HistoryReason(row) == FirstBroken(<<"date", "price">>, row)

(***************************************************************************)
(* What each listener needs of a row, looked at again when it is handed.   *)
(***************************************************************************)
InvoiceIsWhole(row) ==
    "number" \notin row.broken /\ DateOf(row) # {} /\ MoneyOf(row) # {}
SupplierIsWhole(row) == "name" \notin row.broken
PaymentIsWhole(row) == DateOf(row) # {} /\ MoneyOf(row) # {}
LedgerIsWhole(row) == IF row.kind = "SUPPLIER" THEN SupplierIsWhole(row) ELSE PaymentIsWhole(row)
OrderIsWhole(row) == "number" \notin row.broken /\ DateOf(row) # {}
HistoryIsWhole(row) == DateOf(row) # {} /\ "price" \notin row.broken

(***************************************************************************)
(* What makes two quarantined rows one question.                           *)
(***************************************************************************)
\* The excerpt and the reason: the rows that say the same are the same question.
ByExcerpt(id, row) == row.broken
\* The row of staging, which every reading types anew.
ByRow(id, row) == id

InvoiceKey(id, row) == ByExcerpt(id, row)
OrderKey(id, row) == ByExcerpt(id, row)
SupplierKey(id, row) == ByExcerpt(id, row)
PaymentKey(id, row) == ByRow(id, row)
LedgerKey(id, row) == IF row.kind = "SUPPLIER" THEN SupplierKey(id, row) ELSE PaymentKey(id, row)
SaleKey(id, row) == ByRow(id, row)
HistoryKey(id, row) == ByExcerpt(id, row)

\* open_case, once for each row: one pending case of a kind and a key, which counts the
\* rows and keeps the last.
WithCases(pending, opened) ==
    LET Same(c, d) == c.kind = d.kind /\ c.key = d.key
        IsLast(c) == \A d \in opened : Same(c, d) => d.row <= c.row
        Before(c) == {p \in pending : Same(p, c)}
        Times(c) == Cardinality({d \in opened : Same(c, d)})
                    + (IF Before(c) = {} THEN 0 ELSE (CHOOSE p \in Before(c) : TRUE).occurrences)
    IN  {p \in pending : \A c \in opened : ~Same(p, c)}
        \cup {[kind |-> c.kind, key |-> c.key, row |-> c.row, occurrences |-> Times(c)] :
                  c \in {d \in opened : IsLast(d)}}

(***************************************************************************)
(* A reading, from the screen to the cases: one transaction.               *)
(***************************************************************************)
\* What was read before is not read again; a screen without rows is not understood.
IsNew(content) == content \notin contents
IsUnderstood(content) == content # <<>>

\* The rows of staging once these lines of a content are added, each with its reason.
Staged(content, lines, reasons) ==
    staged \o [n \in DOMAIN lines |->
                 [of |-> content, line |-> lines[n].line,
                  kind |-> lines[n].kind, broken |-> lines[n].broken, reason |-> reasons[n],
                  status |-> IF reasons[n] = "NONE" THEN "VALID" ELSE "QUARANTINED"]]

QuarantinedOf(rows) == {id \in DOMAIN rows : id > Len(staged) /\ rows[id].status = "QUARANTINED"}
ValidOf(rows) == {id \in DOMAIN rows : id > Len(staged) /\ rows[id].status = "VALID"}

\* The rows that are handed on, and the key of the question about each quarantined one.
Read(content, rows, whole, keys) ==
    /\ IsNew(content)
    /\ Cardinality(contents) < MaxTyped
    /\ contents' = contents \cup {content}
    /\ staged' = rows
    /\ handed' = handed \cup whole
    /\ queued' = WithCases(queued, {[kind |-> rows[id].kind, key |-> keys[id], row |-> id] :
                                       id \in QuarantinedOf(rows)})
    /\ UNCHANGED <<screen, settled>>

ReadInvoices(content) ==
    LET rows == Staged(content, content, [n \in DOMAIN content |-> InvoiceReason(content[n])])
    IN  /\ screen = "invoices" /\ IsUnderstood(content)
        /\ Read(content, rows, {id \in ValidOf(rows) : InvoiceIsWhole(rows[id])},
                [id \in DOMAIN rows |-> InvoiceKey(id, rows[id])])

\* A row of the register without a name is dropped, and some row must have one.
IsNamed(row) == row.kind = "SUPPLIER" => "name" \notin row.broken
KeptIfNamed(kept, row) == IF IsNamed(row) THEN Append(kept, row) ELSE kept
Named(content) == FoldLeft(KeptIfNamed, <<>>, content)
ReadLedger(content) ==
    LET named == Named(content)
        rows == Staged(content, named, [n \in DOMAIN named |-> LedgerReason(named[n])])
    IN  /\ screen = "ledger"
        /\ \E n \in DOMAIN named : named[n].kind = "SUPPLIER"
        /\ Read(content, rows, {id \in ValidOf(rows) : LedgerIsWhole(rows[id])},
                [id \in DOMAIN rows |-> LedgerKey(id, rows[id])])

ReadOrders(content) ==
    LET rows == Staged(content, content, [n \in DOMAIN content |-> OrderReason(content[n])])
    IN  /\ screen = "orders" /\ IsUnderstood(content)
        /\ Read(content, rows, {id \in ValidOf(rows) : OrderIsWhole(rows[id])},
                [id \in DOMAIN rows |-> OrderKey(id, rows[id])])

\* Sales are handed whole or not: their own screen shows those set aside too.
ReadSales(content) ==
    LET rows == Staged(content, content, [n \in DOMAIN content |-> SaleReason(content[n])])
    IN  /\ screen = "sales" /\ IsUnderstood(content)
        /\ Read(content, rows, ValidOf(rows) \cup QuarantinedOf(rows),
                [id \in DOMAIN rows |-> SaleKey(id, rows[id])])

\* A history without points is a fact, and says nothing.
ReadHistory(content) ==
    LET rows == Staged(content, content, [n \in DOMAIN content |-> HistoryReason(content[n])])
    IN  /\ screen = "history"
        /\ Read(content, rows, {id \in ValidOf(rows) : HistoryIsWhole(rows[id])},
                [id \in DOMAIN rows |-> HistoryKey(id, rows[id])])

\* A person says it was seen, or the module it is of says it was solved there.
Settle(case) ==
    /\ queued' = queued \ {case}
    /\ settled' = settled \cup {[kind |-> case.kind, key |-> case.key, rows |-> Len(staged)]}
    /\ UNCHANGED <<screen, contents, staged, handed>>

StagingInit ==
    /\ screen \in Pages
    /\ contents = {} /\ staged = <<>> /\ handed = {} /\ queued = {} /\ settled = {}

StagingNext ==
    \/ \E content \in ContentsOnScreen :
          \/ ReadInvoices(content)
          \/ ReadLedger(content)
          \/ ReadOrders(content)
          \/ ReadSales(content)
          \/ ReadHistory(content)
    \/ \E case \in queued : Settle(case)

StagingSpec == StagingInit /\ [][StagingNext]_stagingVars

(***************************************************************************)
(* Properties.                                                             *)
(***************************************************************************)
\* The question about a row: of a sale and a payment, its own; of any other, the one of
\* all the rows that say the same.
QuestionOf(id) ==
    IF staged[id].kind \in {"SALE", "PAYMENT"} THEN id ELSE staged[id].broken
SettledAt(id) ==
    {s.rows : s \in {t \in settled : t.kind = staged[id].kind /\ t.key = QuestionOf(id)}}
IsSettled(id) == \E rows \in SettledAt(id) : id <= rows

\* What the listeners need of a row: each column of the screen its module reads.
Needed == [INVOICE  |-> {"number", "supplier", "date", "amount"},
           ORDER    |-> {"number", "supplier", "date", "status"},
           SUPPLIER |-> {"name", "balance"},
           PAYMENT  |-> {"date", "amount"},
           SALE     |-> {"code", "date", "amount", "quantity"},
           POINT    |-> {"date", "price"}]
Lacks(id) == staged[id].broken \cap Needed[staged[id].kind] # {}

About(id) == {c \in queued : c.kind = staged[id].kind /\ c.key = QuestionOf(id)}
\* The rows that wait in the same question, this one included.
Waiting(id) == {other \in DOMAIN staged : /\ staged[other].kind = staged[id].kind
                                          /\ QuestionOf(other) = QuestionOf(id)
                                          /\ ~IsSettled(other)}

\* Whether a line of a content was typed into a row of staging.
IsTyped(content, n) ==
    \E id \in DOMAIN staged :
        /\ staged[id].of = content /\ staged[id].line = n
        /\ staged[id].kind = content[n].kind /\ staged[id].broken = content[n].broken

\* A row that lacks something its listener needs waits in one question until somebody
\* answers it, and is counted there once; a row that lacks nothing asks nothing and is
\* handed on.  No row of staging is neither, whatever it lacks and however often it comes
\* back: the reasons, the conditions under which rows are handed and the keys of the cases
\* are written in three places (ingestion parsers.py:655-660 and service.py:404-416,
\* triage handlers.py:201-234, 326-405).  Two things the documentation says otherwise.
\* Every line that is read gets to staging except the rows of the register without a name,
\* which nobody is handed or asked about (parsers.py:790-793, against service.py:361,
\* "Nothing is discarded"); and a sale or a payment is asked about anew by each reading,
\* since its question is of its row (QuestionOf, against RF-07 of 011, spec.md:142).
BrokenRowsAreAsked ==
    /\ \A id \in DOMAIN staged :
          IF Lacks(id)
          THEN /\ id \in handed <=> staged[id].kind = "SALE"
               /\ IF IsSettled(id) THEN Cardinality(About(id)) <= 1
                  ELSE \E c \in About(id) : /\ About(id) = {c}
                                            /\ c.occurrences = Cardinality(Waiting(id))
                                            /\ \A other \in Waiting(id) : other <= c.row
          ELSE id \in handed /\ About(id) = {}
    /\ \A content \in contents : \A n \in DOMAIN content :
          IsTyped(content, n) <=> IsNamed(content[n])
=============================================================================
