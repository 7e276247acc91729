-------------------------------- MODULE Sales --------------------------------
(***************************************************************************)
(* The sales of one code (modules/sales), the revenue catalog keeps of the *)
(* ones that count, and the cases triage keeps of the ones that wait.      *)
(*                                                                         *)
(* Every reading of the portal brings rows; each becomes one Sale: counted,*)
(* held until somebody decides, or discarded as the repetition of one      *)
(* already there.  The same transaction tells catalog what to add and to   *)
(* drop, and triage what to ask.  On top, a periodic task asks the module  *)
(* what is pending and squares the queue with the answer: the answer is    *)
(* taken in one query and compared with the cases in a later one, so the   *)
(* task is two steps here, and readings and people come in between.        *)
(*                                                                         *)
(* A sale is its total: the date, the product and the quantity are compared*)
(* and corrected the same way.  Sale n comes from staging row n.           *)
(***************************************************************************)
EXTENDS Integers, Sequences, SequencesExt, FiniteSets

CONSTANTS
    Totals,        \* totals a row can bring
    OutlierTotals, \* those too far from what the product usually sells for
    UnreadableTotal,    \* a row that could not be read, which has no total
    MaxBatches,    \* bound: readings of the portal
    MaxRows,       \* bound: rows one reading brings
    MaxSales,      \* bound: rows all of them bring
    MaxDecisions   \* bound: decisions of people

ASSUME TotalsAssumption == OutlierTotals \subseteq Totals /\ UnreadableTotal \notin Totals

VARIABLES
    sales,      \* core.sale: the sequence of Sale rows
    revenue,    \* catalog's SaleRevenue: the staging rows it adds up
    pending,    \* triage: keys with a pending case
    closed,     \* triage: how many cases of each key were closed elsewhere
    known,      \* sales has heard of the product
    reported,   \* what the task in progress was told, or NotAsked
    batches, decisions, \* how many so far
    touched     \* somebody decided about this code

salesVars == <<sales, revenue, pending, closed, known, reported, batches, decisions, touched>>

NotAsked == [asked |-> FALSE]

(***************************************************************************)
(* Cases: their keys, and what pending_work reports.                       *)
(***************************************************************************)
RepeatedSale == <<"REPEATED_SALE", 0>>
BrokenSale(n) == <<"BROKEN_SALE", n>>
UnreadableRow(n) == <<"UNREADABLE_SALE_ROW", n>>

ReportedKinds == {RepeatedSale} \cup {BrokenSale(n) : n \in 1..MaxSales}
CaseKeys == ReportedKinds \cup {UnreadableRow(n) : n \in 1..MaxSales}

HeldOf(records) == {n \in DOMAIN records : records[n].state = "HELD"}
CountedOf(records) == {n \in DOMAIN records : records[n].state = "COUNTED"}

\* review_queue: two held versions are one question, a lone one is a broken sale.
PendingWork(records) ==
    IF Cardinality(HeldOf(records)) >= 2 THEN {RepeatedSale}
    ELSE {BrokenSale(n) : n \in HeldOf(records)}

\* close_resolved_elsewhere, for each of the keys that has a pending case.
CloseElsewhere(keys) ==
    /\ pending' = pending \ keys
    /\ closed' = [k \in CaseKeys |-> closed[k] + IF k \in pending \cap keys THEN 1 ELSE 0]

(***************************************************************************)
(* register_sales.                                                         *)
(***************************************************************************)
SaleOf(row, state, reason) ==
    [total |-> row, state |-> state, reason |-> reason, decided |-> FALSE]

\* _why_not_countable.
WhyNotCountable(row) ==
    IF ~known THEN "UNKNOWN_PRODUCT"
    ELSE IF row \in OutlierTotals THEN "OUTLIER_TOTAL" ELSE "NONE"

\* A row that differs from the sales of its code makes the counted ones wait too.
HoldSiblings(records) ==
    [n \in DOMAIN records |->
        IF records[n].state = "COUNTED"
        THEN [records[n] EXCEPT !.state = "HELD", !.reason = "DUPLICATE_WITH_DIFFERENCES"]
        ELSE records[n]]

\* A mutant: a row is compared with what there was before the reading.
DiffersFromOldOnes(records) == sales # <<>>

\* Whatever is not a repetition of one of the code differs from all of them.
Differs(records) == records # <<>>

\* One row over what the reading did so far.
RegisterRow(done, row) ==
    LET records == done.records
        new == Len(records) + 1
        twin == \E n \in DOMAIN records : records[n].total = row
        reason == WhyNotCountable(row)
        differs == Differs(records) /\ reason = "NONE"
    IN  IF row = UnreadableTotal
        THEN [done EXCEPT !.records = Append(records, SaleOf(row, "HELD", "UNREADABLE")),
                          !.waiting = @ \cup {new}]
        ELSE IF twin
        THEN [done EXCEPT !.records =
                 Append(records, SaleOf(row, "DISCARDED", "DUPLICATE_IDENTICAL"))]
        ELSE IF differs
        THEN [records |-> Append(HoldSiblings(records),
                                 SaleOf(row, "HELD", "DUPLICATE_WITH_DIFFERENCES")),
              waiting |-> done.waiting \cup {new},
              adding  |-> done.adding,
              dropped |-> done.dropped \cup CountedOf(records)]
        ELSE IF reason # "NONE"
        THEN [done EXCEPT !.records = Append(records, SaleOf(row, "HELD", reason)),
                          !.waiting = @ \cup {new}]
        ELSE [done EXCEPT !.records = Append(records, SaleOf(row, "COUNTED", "NONE")),
                          !.adding = @ \cup {new}]

Registered(rows) ==
    FoldLeft(RegisterRow,
             [records |-> sales, waiting |-> {}, adding |-> {}, dropped |-> {}], rows)

\* record_sale_revenue: what leaves is dropped first, what this reading both added
\* and took back is not added.
\* A mutant: what this reading took back is dropped before it is added.
RecordRevenueInOrder(done) == revenue' = (revenue \ done.dropped) \cup done.adding

RecordRevenue(done) ==
    revenue' = (revenue \ done.dropped) \cup (done.adding \ done.dropped)

\* _announce_held and the row cases: the group replaces the lone cases of its versions.
AnnounceHeld(done) ==
    LET group == done.waiting # {} /\ Cardinality(HeldOf(done.records)) >= 2
        lone == {BrokenSale(n) : n \in HeldOf(done.records)}
        unread == {UnreadableRow(n) : n \in {m \in done.waiting :
                                             done.records[m].reason = "UNREADABLE"}}
        opened == (IF group THEN {RepeatedSale} ELSE {BrokenSale(n) : n \in done.waiting}) \cup unread
        replaced == IF group THEN lone ELSE {}
    IN  /\ pending' = (pending \ replaced) \cup opened
        /\ closed' = [k \in CaseKeys |->
                         closed[k] + IF k \in pending \cap replaced THEN 1 ELSE 0]

RegisterSales(rows) ==
    /\ batches < MaxBatches
    /\ Len(sales) + Len(rows) <= MaxSales
    /\ LET done == Registered(rows)
       IN  /\ sales' = done.records
           /\ RecordRevenue(done)
           /\ AnnounceHeld(done)
    /\ batches' = batches + 1
    /\ UNCHANGED <<known, reported, decisions, touched>>

\* remember_product: the catalog registered it.
RememberProduct ==
    /\ ~known
    /\ known' = TRUE
    /\ UNCHANGED <<sales, revenue, pending, closed, reported, batches, decisions, touched>>

(***************************************************************************)
(* What people do.  None of it reaches the revenue catalog keeps.          *)
(***************************************************************************)
DecideSale ==
    /\ decisions < MaxDecisions
    /\ decisions' = decisions + 1
    /\ UNCHANGED <<revenue, known, reported, batches>>

RowsOf(records) == {UnreadableRow(n) : n \in DOMAIN records}

\* resolve_group: all the records of the code, or the one that was chosen.
ResolveGroup(counts) ==
    /\ sales # <<>>
    /\ DecideSale
    /\ touched' = TRUE
    /\ sales' = [n \in DOMAIN sales |->
                    [sales[n] EXCEPT
                        !.state = IF n \in counts THEN "COUNTED" ELSE "DISCARDED",
                        !.reason = IF n \in counts THEN "NONE" ELSE "DISCARDED_BY_DECISION",
                        !.decided = TRUE]]
    /\ CloseElsewhere(RowsOf(sales) \cup {RepeatedSale})

\* undo_resolution: everything waits again.  A case that is pending already refuses
\* the reopening of an older one, and with it the whole request.
UndoResolution ==
    /\ \E n \in DOMAIN sales : sales[n].decided
    /\ LET reopened == {k \in RowsOf(sales) \cup {RepeatedSale} : closed[k] > 0}
       IN  /\ reopened \cap pending = {}
           /\ pending' = pending \cup reopened
           /\ closed' = [k \in CaseKeys |-> closed[k] - IF k \in reopened THEN 1 ELSE 0]
    /\ DecideSale
    /\ touched' = TRUE
    /\ sales' = [n \in DOMAIN sales |->
                    [sales[n] EXCEPT !.state = "HELD", !.decided = FALSE,
                                     !.reason = "DUPLICATE_WITH_DIFFERENCES"]]

\* correct_sale: it counts, unless its product is still unknown.
CorrectSale(n, total) ==
    /\ n \in HeldOf(sales)
    /\ DecideSale
    /\ touched' = TRUE
    /\ sales' = [sales EXCEPT ![n].total = total,
                              ![n].state = IF known THEN "COUNTED" ELSE "HELD",
                              ![n].reason = IF known THEN "NONE" ELSE "UNKNOWN_PRODUCT"]
    /\ CloseElsewhere({UnreadableRow(n)} \cup IF known THEN {BrokenSale(n)} ELSE {})

\* A decision taken in the queue over a sale: nothing in sales listens to it.
ResolveCase(k) ==
    /\ k \in pending
    /\ DecideSale
    /\ pending' = pending \ {k}
    /\ UNCHANGED <<sales, closed, touched>>

(***************************************************************************)
(* The periodic task: ask, then square the queue with the answer.          *)
(***************************************************************************)
RequestPendingWork ==
    /\ ~reported.asked
    /\ reported' = [asked |-> TRUE, keys |-> PendingWork(sales)]
    /\ UNCHANGED <<sales, revenue, pending, closed, known, batches, decisions, touched>>

\* reconcile: what was reported has a case, and a case of these kinds that was not
\* reported is closed.
\* A mutant: cases are opened and none is closed.
ReconcileOpening ==
    /\ reported.asked
    /\ pending' = pending \cup reported.keys
    /\ reported' = NotAsked
    /\ UNCHANGED <<sales, revenue, closed, known, batches, decisions, touched>>

Reconcile ==
    /\ reported.asked
    /\ LET gone == (pending \cap ReportedKinds) \ reported.keys
       IN  /\ pending' = (pending \ gone) \cup reported.keys
           /\ closed' = [k \in CaseKeys |-> closed[k] + IF k \in gone THEN 1 ELSE 0]
    /\ reported' = NotAsked
    /\ UNCHANGED <<sales, revenue, known, batches, decisions, touched>>

(***************************************************************************)
(* The specification.                                                      *)
(***************************************************************************)
SalesInit ==
    /\ sales = <<>> /\ revenue = {} /\ pending = {} /\ closed = [k \in CaseKeys |-> 0]
    /\ known = FALSE /\ reported = NotAsked
    /\ batches = 0 /\ decisions = 0 /\ touched = FALSE

SaleBatches == UNION {[1..size -> Totals \cup {UnreadableTotal}] : size \in 1..MaxRows}

SalesNext ==
    \/ \E rows \in SaleBatches : RegisterSales(rows)
    \/ RememberProduct
    \/ \E counts \in {DOMAIN sales} \cup {{n} : n \in DOMAIN sales} : ResolveGroup(counts)
    \/ UndoResolution
    \/ \E n \in DOMAIN sales, total \in Totals : CorrectSale(n, total)
    \/ \E k \in pending : ResolveCase(k)
    \/ RequestPendingWork
    \/ Reconcile

\* The task is scheduled every few minutes for ever and both of its steps end.
SalesFairness == WF_salesVars(RequestPendingWork) /\ WF_salesVars(Reconcile)

SalesSpec == SalesInit /\ [][SalesNext]_salesVars /\ SalesFairness

(***************************************************************************)
(* Properties.                                                             *)
(***************************************************************************)
\* Without a decision, no two readings of a code count at once, whatever order their
\* rows come in and whatever was held in between (service.py:155-177).
CountedOnce ==
    ~touched => Cardinality(CountedOf(sales)) <= 1

\* Without a decision, the revenue catalog shows is of the sales that count: what a
\* later row put on hold, in this reading or in an older one, is out (service.py:200-217).
RevenueFollowsReadings ==
    ~touched => revenue = CountedOf(sales)

\* Whatever a reading, a decision or the task itself left wrong in the queue, the
\* queue and what sales holds agree again and again (triage service.py:351-409).
QueueCatchesUp ==
    []<>(pending \cap ReportedKinds = PendingWork(sales))
=============================================================================
