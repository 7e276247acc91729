------------------------------- MODULE Payments -------------------------------
(* What an invoice has been paid: the vouchers of the portal, the payments    *)
(* somebody registers by hand, and what the ledger says is owed               *)
(* (modules/purchases: PurchasesService.impute_payments to split_payment,     *)
(* the totals of a supplier and of the dashboard).                            *)
(*                                                                            *)
(* The worker that reads the portal and the people on the screens each work   *)
(* in a transaction of their own: what one of them reads before its commit    *)
(* may no longer be so when it writes, and no row is locked.                  *)
EXTENDS Integers, Sequences, FiniteSets, Functions

CONSTANTS
    Invoices,       \* the invoices the portal may publish
    NumberOf,       \* [Invoices -> a number]: two suppliers may use the same one
    SupplierOf,     \* [Invoices -> a supplier, or Nobody]
    TotalOf,        \* [Invoices -> Nat]
    DaysOverdue,    \* [Invoices -> Int]: today less the due date, 0 with none
    Vouchers,       \* what the portal publishes: a set of NormalizedPayment
    Contained,      \* pairs <<m, n>> of numbers such that the text m is in n
    Amounts,        \* what somebody may type
    Clerks,         \* the people on the screens
    MaxPayments,    \* bound: rows of the table of payments
    Nobody, Nothing

VARIABLES
    payments,   \* the table: a sequence of rows, the id of a row its place
    registered, \* the invoices the table of invoices has
    inReview,   \* those of them whose review_state is PENDING
    worker,     \* the transaction of the ingestion
    clerk       \* [Clerks -> the request each of them has open]
paymentVars == <<payments, registered, inReview, worker, clerk>>

ASSUME PaymentsAssumption ==
    /\ IsFiniteSet(Invoices)
    /\ TotalOf \in [Invoices -> Int] /\ DaysOverdue \in [Invoices -> Int]
    /\ \A v \in Vouchers : v.amount \in Nat /\ v.external \in BOOLEAN
    /\ Amounts \subseteq Nat \ {0}
    /\ Nothing \notin Invoices \cup Vouchers

Idle == [op |-> "idle"]

(* A row. voucher is the one its money comes from: the row the reading wrote  *)
(* and the parts somebody distributed it into; the table keeps it as the text *)
(* of the reference.                                                          *)
PaymentRow(invoice, amount, origin, state, reason, voucher, external) ==
    [invoice |-> invoice, amount |-> amount, origin |-> origin, state |-> state,
     reason |-> reason, voucher |-> voucher, external |-> external]

-------------------------------------------------------------------------------
(* The queries. *)

ImputedTo(i) == {k \in DOMAIN payments :
                    payments[k].invoice = i /\ payments[k].state = "IMPUTED"}
AmountPaid == [k \in DOMAIN payments |-> payments[k].amount]
ImputedTotalOf(i) == SumFunctionOnSet(AmountPaid, ImputedTo(i))
PendingPayments == {k \in DOMAIN payments : payments[k].state = "PENDING"}
PaymentWithExternalId(v) == {k \in DOMAIN payments :
                                payments[k].external /\ payments[k].voucher = v}
SimilarManualPayment(i, amount) ==
    \E k \in ImputedTo(i) : payments[k].origin = "MANUAL" /\ payments[k].amount = amount
InvoicesNumbered(n) == {i \in registered : NumberOf[i] = n}

(* A mutant of InPaymentState: nothing paid is a part of it. *)
InPaymentStateFromZero(total, paid, state) ==
    CASE state = "INCONSISTENTE" -> paid > total
      [] state = "SIN_PAGOS"     -> paid <= 0 /\ paid <= total
      [] state = "SALDADA"       -> paid > 0 /\ paid = total
      [] state = "PARCIAL"       -> paid < total

(* The filter of the list of invoices, in SQL. *)
InPaymentState(total, paid, state) ==
    CASE state = "INCONSISTENTE" -> paid > total
      [] state = "SIN_PAGOS"     -> paid <= 0 /\ paid <= total
      [] state = "SALDADA"        -> paid > 0 /\ paid = total
      [] state = "PARCIAL"       -> paid > 0 /\ paid < total

(* The state the screen shows, in Python. *)
PaymentStates == {"INCONSISTENTE", "SIN_PAGOS", "SALDADA", "PARCIAL"}
PaymentStateOf(total, paid) ==
    IF paid > total THEN "INCONSISTENTE"
    ELSE IF paid <= 0 THEN "SIN_PAGOS"
    ELSE IF paid >= total THEN "SALDADA" ELSE "PARCIAL"

-------------------------------------------------------------------------------
(* The vouchers of the portal. *)

(* Which invoice a voucher covers, or why that cannot be said: the first of   *)
(* the invoices with that number, whichever supplier it is of.                *)
InvoiceFor(v) ==
    IF v.references = {} THEN {<<Nothing, "WITHOUT_INVOICE">>}
    ELSE IF Cardinality(v.references) > 1 THEN {<<Nothing, "SEVERAL_INVOICES">>}
    ELSE LET found == InvoicesNumbered(CHOOSE n \in v.references : TRUE)
         IN  IF found = {} THEN {<<Nothing, "UNKNOWN_INVOICE">>}
             ELSE {<<i, Nothing>> : i \in found}

VoucherRow(v, invoice, reason) ==
    LET held == invoice # Nothing /\ SimilarManualPayment(invoice, v.amount)
        to   == IF held THEN Nothing ELSE invoice
    IN  PaymentRow(to, v.amount, "PORTAL", IF to = Nothing THEN "PENDING" ELSE "IMPUTED",
                   IF held THEN "LOOKS_MANUAL" ELSE reason, v, v.external)

ReadVoucher(v) ==
    /\ worker = Idle
    /\ v.external => PaymentWithExternalId(v) = {}
    /\ \E found \in InvoiceFor(v) :
          worker' = [op |-> "voucher", row |-> VoucherRow(v, found[1], found[2])]
    /\ UNCHANGED <<payments, registered, inReview, clerk>>

ImputeVoucher ==
    /\ worker.op = "voucher"
    /\ Len(payments) < MaxPayments
    /\ payments' = Append(payments, worker.row)
    /\ worker' = Idle
    /\ UNCHANGED <<registered, inReview, clerk>>

(* The vouchers that were waiting for an invoice nobody had: those whose      *)
(* reference contains its number, as text.                                    *)
WaitingFor(i) == {k \in PendingPayments :
                    /\ payments[k].reason = "UNKNOWN_INVOICE"
                    /\ \E n \in payments[k].voucher.references : <<NumberOf[i], n>> \in Contained}

RegisterInvoice(i) ==
    /\ worker = Idle
    /\ i \notin registered
    /\ registered' = registered \cup {i}
    /\ inReview' = IF SupplierOf[i] = Nobody THEN inReview \cup {i} ELSE inReview
    /\ worker' = IF SupplierOf[i] = Nobody THEN Idle
                 ELSE [op |-> "held", invoice |-> i, rows |-> WaitingFor(i)]
    /\ UNCHANGED <<payments, clerk>>

ImputeHeldPaymentsFor ==
    /\ worker.op = "held"
    /\ payments' = [k \in DOMAIN payments |->
                      IF k \in worker.rows
                      THEN [payments[k] EXCEPT !.invoice = worker.invoice,
                                               !.state = "IMPUTED", !.reason = Nothing]
                      ELSE payments[k]]
    /\ worker' = Idle
    /\ UNCHANGED <<registered, inReview, clerk>>

-------------------------------------------------------------------------------
(* The people on the screens. *)

(* A payment by hand: over the balance only when the caller says they mean it. *)
TakePayment(c, i, amount, confirm) ==
    /\ clerk[c] = Idle
    /\ i \in registered
    /\ amount > TotalOf[i] - ImputedTotalOf(i) => confirm
    /\ clerk' = [clerk EXCEPT ![c] = [op |-> "pay", invoice |-> i, amount |-> amount]]
    /\ UNCHANGED <<payments, registered, inReview, worker>>

RegisterPayment(c) ==
    /\ clerk[c].op = "pay"
    /\ Len(payments) < MaxPayments
    /\ payments' = Append(payments, PaymentRow(clerk[c].invoice, clerk[c].amount, "MANUAL",
                                               "IMPUTED", Nothing, Nothing, FALSE))
    /\ clerk' = [clerk EXCEPT ![c] = Idle]
    /\ UNCHANGED <<registered, inReview, worker>>

VoidPayment(k) ==
    /\ k \in DOMAIN payments
    /\ payments[k].origin # "PORTAL"
    /\ payments' = [payments EXCEPT ![k].state = "VOIDED"]
    /\ UNCHANGED <<registered, inReview, worker, clerk>>

(* No split crosses suppliers, nor goes to another supplier than the voucher's. *)
OneSupplierOnly(v, S) ==
    LET suppliers == {SupplierOf[i] : i \in S} \ {Nobody}
    IN  /\ Cardinality(suppliers) <= 1
        /\ v.supplier # Nobody /\ suppliers # {} => v.supplier \in suppliers

TakeVoucher(c, k, parts) ==
    /\ clerk[c] = Idle
    /\ k \in PendingPayments
    /\ SumFunction(parts) = payments[k].amount
    /\ OneSupplierOnly(payments[k].voucher, DOMAIN parts)
    /\ clerk' = [clerk EXCEPT ![c] = [op |-> "split", payment |-> k, parts |-> parts]]
    /\ UNCHANGED <<payments, registered, inReview, worker>>

(* A mutant of Part: what is distributed becomes a payment by hand. *)
PartByHand(k, i, amount) ==
    PaymentRow(i, amount, "MANUAL", "IMPUTED", Nothing, payments[k].voucher, FALSE)

(* One part of a distribution. *)
Part(k, i, amount) ==
    PaymentRow(i, amount, payments[k].origin, "IMPUTED", Nothing, payments[k].voucher, FALSE)

SplitPayment(c) ==
    /\ clerk[c].op = "split"
    /\ LET k     == clerk[c].payment
           parts == clerk[c].parts
           order == CHOOSE s \in [1..Cardinality(DOMAIN parts) -> DOMAIN parts] :
                        \A i \in DOMAIN parts : \E j \in DOMAIN s : s[j] = i
       IN  /\ Len(payments) + Len(order) <= MaxPayments
           /\ payments' = [payments EXCEPT ![k].state = "VOIDED", ![k].reason = Nothing]
                            \o [j \in DOMAIN order |-> Part(k, order[j], parts[order[j]])]
    /\ clerk' = [clerk EXCEPT ![c] = Idle]
    /\ UNCHANGED <<registered, inReview, worker>>

(* A document that disagrees, a total that changed: the invoice is held; a    *)
(* person says it is fine as it stands.                                       *)
HoldInvoice(i) == /\ i \in registered \ inReview
                  /\ inReview' = inReview \cup {i}
                  /\ UNCHANGED <<payments, registered, worker, clerk>>
SettleInvoice(i) == /\ i \in inReview
                    /\ inReview' = inReview \ {i}
                    /\ UNCHANGED <<payments, registered, worker, clerk>>

-------------------------------------------------------------------------------
PaymentsInit ==
    /\ payments = <<>>
    /\ registered = {}
    /\ inReview = {}
    /\ worker = Idle
    /\ clerk = [c \in Clerks |-> Idle]

Reading ==
    \/ \E v \in Vouchers : ReadVoucher(v)
    \/ ImputeVoucher
    \/ \E i \in Invoices : RegisterInvoice(i)
    \/ ImputeHeldPaymentsFor
Screen(c) ==
    \/ \E i \in Invoices, amount \in Amounts, confirm \in BOOLEAN : TakePayment(c, i, amount, confirm)
    \/ RegisterPayment(c)
    \/ \E k \in DOMAIN payments, S \in (SUBSET registered) \ {{}} :
          \E parts \in [S -> Amounts] : TakeVoucher(c, k, parts)
    \/ SplitPayment(c)
PaymentsNext ==
    \/ Reading
    \/ \E c \in Clerks : Screen(c)
    \/ \E k \in DOMAIN payments : VoidPayment(k)
    \/ \E i \in Invoices : HoldInvoice(i) \/ SettleInvoice(i)
PaymentsSpec == PaymentsInit /\ [][PaymentsNext]_paymentVars

-------------------------------------------------------------------------------
(* What the ledger says is owed. *)

BalanceOf(i) == TotalOf[i] - ImputedTotalOf(i)

(* A mutant of VouchedFor: the ones paid beyond their total count too. *)
VouchedForUnreviewed == {i \in registered : i \notin inReview}

(* The dashboard, in SQL: the invoices it vouches for and something is left on. *)
VouchedFor == {i \in registered : i \notin inReview /\ ImputedTotalOf(i) <= TotalOf[i]}
Outstanding == {i \in VouchedFor : BalanceOf(i) > 0}
Owed == SumFunction([i \in Outstanding |-> BalanceOf(i)])
UncountedInReview == inReview
UncountedInconsistent == {i \in registered \ inReview : ImputedTotalOf(i) > TotalOf[i]}

(* The totals of a supplier, in Python, over the invoices as the screen reads them. *)
Counted(s) == {i \in registered :
                 /\ SupplierOf[i] = s
                 /\ i \notin inReview
                 /\ PaymentStateOf(TotalOf[i], ImputedTotalOf(i)) # "INCONSISTENTE"}
SupplierOwed(s) == SumFunctionOnSet(TotalOf, Counted(s))
                     - SumFunction([i \in Counted(s) |-> ImputedTotalOf(i)])

(* Its ageing: the first band an invoice fits in, or the last. *)
Bands == <<0, 30, 60, 90>>
BandOf(days) == LET fits == {b \in DOMAIN Bands : days <= Bands[b]}
                IN  IF fits = {} THEN Len(Bands) + 1 ELSE CHOOSE b \in fits : \A o \in fits : b <= o
Aged(s, b) == {i \in Counted(s) : BalanceOf(i) > 0 /\ BandOf(DaysOverdue[i]) = b}

-------------------------------------------------------------------------------
(* The money of a voucher that was read is not lost, whoever splits it, voids *)
(* payments or registers its invoice meanwhile: its row waits on the screen   *)
(* of held vouchers, or all of its amount is imputed (split_payment,          *)
(* impute_held_payments_for, void_payment).                                   *)
MoneyOf(v) == {k \in DOMAIN payments : payments[k].voucher = v}
NoVoucherLost ==
    \A v \in {payments[k].voucher : k \in DOMAIN payments} \ {Nothing} :
        \/ MoneyOf(v) \cap PendingPayments # {}
        \/ SumFunctionOnSet(AmountPaid, {k \in MoneyOf(v) : payments[k].state = "IMPUTED"})
             >= v.amount

(* The two ways of saying in which state an invoice is agree: the filter of   *)
(* the list, in SQL, keeps an invoice exactly under the state its own row     *)
(* shows, computed in Python (PurchasesRepository._in_payment_state,          *)
(* PurchasesService._payment_state).                                          *)
FilterShowsWhatTheRowSays ==
    \A i \in registered, state \in PaymentStates :
        InPaymentState(TotalOf[i], ImputedTotalOf(i), state)
            <=> state = PaymentStateOf(TotalOf[i], ImputedTotalOf(i))

(* The debt of the dashboard, one query in SQL, is the sum of the debts of    *)
(* the suppliers, added in Python from what each screen shows, plus that of   *)
(* the invoices a person let through without a supplier; the ageing of each   *)
(* supplier adds up to its debt, and no invoice is in two of the counts       *)
(* (outstanding, uncounted_invoices, supplier_totals, _aging_of).             *)
DebtAddsUp ==
    /\ Owed = SumFunction([s \in {SupplierOf[i] : i \in Invoices} |-> SupplierOwed(s)])
    /\ \A s \in {SupplierOf[i] : i \in Invoices} :
          SupplierOwed(s) = SumFunction([b \in 1..Len(Bands) + 1 |->
                                             SumFunction([i \in Aged(s, b) |-> BalanceOf(i)])])
    /\ Cardinality(registered) = Cardinality(VouchedFor) + Cardinality(UncountedInReview)
                                  + Cardinality(UncountedInconsistent)
==============================================================================
