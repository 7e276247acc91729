----------------------------- MODULE MCPurchases -----------------------------
(* The parts of the ledger of purchases, and what the catalog keeps of its    *)
(* orders, side by side. They share no variable: what one of them takes from  *)
(* another is an action of its own there (an invoice is registered, held,     *)
(* identified, its term appears, a screen of orders is read). A behaviour     *)
(* moves one of them, chosen at the beginning, and leaves the rest as they    *)
(* start, so the states are the sum of those of the parts.                    *)
EXTENDS Payments, Calendar, HeldInvoices, Orders, SupplierCards, Rubros, TLC

CONSTANTS Parts, i1, i2, n1, n2, s1, t1, t2, k1, k2

VARIABLE part
vars == <<part, paymentVars, calendarVars, heldVars, orderVars, cardVars, rubroVars>>

PurchasesInit ==
    /\ part \in Parts
    /\ PaymentsInit /\ CalendarInit /\ HeldInit /\ OrdersInit /\ CardsInit
    /\ RubrosInit
PurchasesNext ==
    /\ UNCHANGED part
    /\ \/ /\ part = "payments" /\ PaymentsNext
          /\ UNCHANGED <<calendarVars, heldVars, orderVars, cardVars, rubroVars>>
       \/ /\ part = "calendar" /\ CalendarNext
          /\ UNCHANGED <<paymentVars, heldVars, orderVars, cardVars, rubroVars>>
       \/ /\ part = "invoices" /\ HeldNext
          /\ UNCHANGED <<paymentVars, calendarVars, orderVars, cardVars, rubroVars>>
       \/ /\ part = "orders" /\ OrdersNext
          /\ UNCHANGED <<paymentVars, calendarVars, heldVars, cardVars, rubroVars>>
       \/ /\ part = "suppliers" /\ CardsNext
          /\ UNCHANGED <<paymentVars, calendarVars, heldVars, orderVars, rubroVars>>
       \/ /\ part = "rubros" /\ RubrosNext
          /\ UNCHANGED <<paymentVars, calendarVars, heldVars, orderVars, cardVars>>
PurchasesSpec == PurchasesInit /\ [][PurchasesNext]_vars

\* Two invoices of two suppliers, one nobody identified; n2 is part of n1 as a text.
PaidNumber == i1 :> n1 @@ i2 :> n2
PaidSupplier == i1 :> s1 @@ i2 :> Nobody
PaidTotal == i1 :> 2 @@ i2 :> 1
Late == i1 :> 0 @@ i2 :> 31
Within == {<<n1, n1>>, <<n2, n2>>, <<n2, n1>>}
\* A voucher that names one invoice, and one that names two and carries no id.
OneInvoice == [amount |-> 1, references |-> {n1}, supplier |-> s1, external |-> TRUE]
TwoInvoices == [amount |-> 2, references |-> {n1, n2}, supplier |-> Nobody, external |-> FALSE]
Published == {OneInvoice, TwoInvoices}

\* A spelling that is like the register, and one that is like two of its names.
Key == t1 :> k1 @@ t2 :> k2
Legal == s1 :> t1
Like == t1 :> s1 @@ t2 :> "AMBIGUOUS"
\* One spelling that resolves and one that does not.
Said == t1 :> s1 @@ t2 :> Nil

Interchangeable == Permutations(Clerks) \cup Permutations(OrderNumbers) \cup Permutations(Details)
==============================================================================
