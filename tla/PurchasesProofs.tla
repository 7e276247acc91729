--------------------------- MODULE PurchasesProofs ----------------------------
(* Theorems about HeldInvoices, SupplierCards, Calendar and Orders, for any    *)
(* suppliers, spellings, numbers, totals, fields, values, entries, terms and   *)
(* days: no debt without a supplier, disputes that are asked about once,       *)
(* corrections that stand, what a person rescheduled stays, an invoice that    *)
(* fell due without a receipt is not rescued by rescheduling it, and an order  *)
(* repeats an earlier one.                                                     *)
EXTENDS HeldInvoices, SupplierCards, Calendar, Orders, SequenceTheorems, FoldTheorems, TLAPS

-------------------------------------------------------------------------------
(* A row and its dispute.                                                     *)

Published == Totals \cup {Unknown}
Kept(row, d) ==
    /\ row \in InvoiceRow /\ d \in Published
    /\ row.supplier = Unknown /\ row.review # "PENDING" => row.person
    /\ row.reason = "DISPUTED" => d # Unknown

\* What was rejected is not what is asked about now.
AsksAnew(row, d, e) ==
    row.manual /\ row.rejected # Unknown /\ d = Unknown /\ e # Unknown => e # row.rejected

LEMMA RowsOfLedger ==
  ASSUME HeldInv
  PROVE  /\ Len(ledger) \in Nat /\ DOMAIN ledger = 1 .. Len(ledger)
         /\ ledger \in [1 .. Len(ledger) -> InvoiceRow]
         /\ disputes \in [1 .. Len(ledger) -> Published]
         /\ \A i \in DOMAIN ledger : Kept(ledger[i], disputes[i])
<1>1. /\ Len(ledger) \in Nat /\ DOMAIN ledger = 1 .. Len(ledger)
      /\ ledger \in [1 .. Len(ledger) -> InvoiceRow]
  BY LenProperties DEF HeldInv, HeldTypeOK
<1>2. disputes \in [1 .. Len(ledger) -> Published]
  BY LenProperties DEF HeldInv, HeldTypeOK, Published
<1> QED
  BY <1>1, <1>2 DEF HeldInv, UnattributedIsHeld, DisputeIsAsked, Kept

\* The rest of the state, typed.
AroundTyped ==
    /\ portal \in [Texts \X Numbers -> Published]
    /\ spelling \in [Keys -> [supplier : Suppliers, id : Nat] \cup {Unknown}]
    /\ aliases \in Nat

LEMMA RowsAreKept ==
  ASSUME AroundTyped', NEW n \in Nat, ledger' \in [1 .. n -> InvoiceRow],
         disputes' \in [1 .. n -> Published], \A i \in 1 .. n : Kept(ledger'[i], disputes'[i])
  PROVE  HeldInv'
<1>1. ledger' \in Seq(InvoiceRow) /\ disputes' \in Seq(Published)
  BY SeqDef
<1>2. Len(ledger') = n /\ Len(disputes') = n /\ DOMAIN ledger' = 1 .. n
  BY <1>1, LenProperties
<1> QED
  BY <1>1, <1>2 DEF HeldInv, HeldTypeOK, AroundTyped, Published, UnattributedIsHeld, DisputeIsAsked, Kept

LEMMA RowOperators ==
  ASSUME NEW row \in InvoiceRow
  PROVE  /\ \A reason \in Reasons :
               /\ Held(row, reason) \in InvoiceRow
               /\ Held(row, reason).review = "PENDING" /\ Held(row, reason).reason = reason
         /\ Settled(row) \in InvoiceRow /\ Settled(row).person /\ Settled(row).reason = Unknown
         /\ \A s \in Suppliers, id \in Nat \cup {Unknown} :
               /\ Attached(row, s, id) \in InvoiceRow
               /\ Attached(row, s, id).person /\ Attached(row, s, id).reason = Unknown
<1>1. \A reason \in Reasons :
               /\ Held(row, reason) \in InvoiceRow
               /\ Held(row, reason).review = "PENDING" /\ Held(row, reason).reason = reason
  BY DEF Held, InvoiceRow, Reviews
<1>2. Settled(row) \in InvoiceRow /\ Settled(row).person /\ Settled(row).reason = Unknown
  BY DEF Settled, InvoiceRow, Reviews
<1>3. ASSUME NEW s \in Suppliers, NEW id \in Nat \cup {Unknown}
      PROVE  /\ Attached(row, s, id) \in InvoiceRow
             /\ Attached(row, s, id).person /\ Attached(row, s, id).reason = Unknown
  BY <1>2 DEF Attached, InvoiceRow
<1> QED
  BY <1>1, <1>2, <1>3

\* A row whose reason is no dispute and that is held or let through by somebody.
LEMMA QuietRow ==
  ASSUME NEW row \in InvoiceRow, NEW d \in Published, row.review = "PENDING" \/ row.person,
         row.reason # "DISPUTED"
  PROVE  Kept(row, d)
  BY DEF Kept

-------------------------------------------------------------------------------
(* Spellings.                                                                 *)

LEMMA PutAliasTypes ==
  ASSUME HeldInv, NEW key \in Keys, NEW s \in Suppliers, PutAlias(key, s)
  PROVE  /\ spelling' \in [Keys -> [supplier : Suppliers, id : Nat] \cup {Unknown}]
         /\ spelling'[key].id \in Nat
         /\ aliases' \in Nat
<1>1. /\ spelling \in [Keys -> [supplier : Suppliers, id : Nat] \cup {Unknown}]
      /\ aliases \in Nat
  BY DEF HeldInv, HeldTypeOK
<1>2. CASE spelling[key] = Unknown
  BY <1>1, <1>2 DEF PutAlias
<1>3. CASE spelling[key] # Unknown
  <2>1. spelling[key] \in [supplier : Suppliers, id : Nat]
    BY <1>1, <1>3
  <2> DEFINE row == [spelling[key] EXCEPT !.supplier = s]
  <2>2. row \in [supplier : Suppliers, id : Nat]
    BY <2>1
  <2>3. spelling' = [spelling EXCEPT ![key] = row] /\ aliases' = aliases
    BY <1>3 DEF PutAlias
  <2> HIDE DEF row
  <2> QED
    BY <1>1, <2>2, <2>3
<1> QED
  BY <1>2, <1>3

LEMMA ObservedTypes ==
  ASSUME HeldInv, NEW t \in Texts, Observed(t), UNCHANGED portal
  PROVE  AroundTyped'
<1>1. KeyOf[t] \in Keys
  BY DEF Keys
<1> QED
  BY <1>1, PutAliasTypes DEF Observed, AroundTyped, HeldInv, HeldTypeOK, Published

-------------------------------------------------------------------------------
(* The steps: the rows stay kept, and nothing that was rejected is asked.     *)

StepKeeps == HeldInv' /\ \A i \in DOMAIN ledger : AsksAnew(ledger[i], disputes[i], disputes'[i])

\* One row and its dispute change.
LEMMA RowChanges ==
  ASSUME HeldInv, AroundTyped', NEW i \in DOMAIN ledger, NEW row, NEW d, Kept(row, d),
         ledger' = [ledger EXCEPT ![i] = row],
         disputes' = [disputes EXCEPT ![i] = d],
         AsksAnew(ledger[i], disputes[i], d)
  PROVE  StepKeeps
<1> DEFINE n == Len(ledger)
<1>1. /\ n \in Nat /\ DOMAIN ledger = 1 .. n
      /\ ledger \in [1 .. n -> InvoiceRow] /\ disputes \in [1 .. n -> Published]
      /\ \A k \in 1 .. n : Kept(ledger[k], disputes[k])
  BY RowsOfLedger
<1> HIDE DEF n
<1>2. row \in InvoiceRow /\ d \in Published
  BY DEF Kept
<1>3. /\ ledger' \in [1 .. n -> InvoiceRow] /\ disputes' \in [1 .. n -> Published]
      /\ \A k \in 1 .. n : /\ ledger'[k] = IF k = i THEN row ELSE ledger[k]
                           /\ disputes'[k] = IF k = i THEN d ELSE disputes[k]
  BY <1>1, <1>2
<1>4. \A k \in 1 .. n : Kept(ledger'[k], disputes'[k])
  BY <1>1, <1>3
<1>5. HeldInv'
  BY <1>1, <1>3, <1>4, RowsAreKept
<1>6. \A k \in DOMAIN ledger : AsksAnew(ledger[k], disputes[k], disputes'[k])
  <2> SUFFICES ASSUME NEW k \in DOMAIN ledger PROVE AsksAnew(ledger[k], disputes[k], disputes'[k])
    OBVIOUS
  <2>1. CASE k = i
    BY <1>1, <1>3, <2>1
  <2>2. CASE k # i
    BY <1>1, <1>3, <2>2 DEF AsksAnew
  <2> QED
    BY <2>1, <2>2
<1> QED
  BY <1>5, <1>6 DEF StepKeeps

LEMMA NoNewDispute ==
  ASSUME NEW row, NEW d
  PROVE  AsksAnew(row, d, d) /\ AsksAnew(row, d, Unknown)
  BY DEF AsksAnew

\* A row joins the table, asking nothing.
LEMMA RowJoins ==
  ASSUME HeldInv, AroundTyped', NEW row, Kept(row, Unknown),
         ledger' = Append(ledger, row), disputes' = Append(disputes, Unknown)
  PROVE  StepKeeps
<1> DEFINE n == Len(ledger)
<1>1. /\ n \in Nat /\ DOMAIN ledger = 1 .. n
      /\ \A k \in 1 .. n : Kept(ledger[k], disputes[k])
  BY RowsOfLedger
<1>2. /\ ledger \in Seq(InvoiceRow) /\ disputes \in Seq(Published) /\ Len(disputes) = n
      /\ row \in InvoiceRow /\ Unknown \in Published
  BY DEF HeldInv, HeldTypeOK, Published, Kept
<1> HIDE DEF n
<1>3. /\ ledger' \in Seq(InvoiceRow) /\ Len(ledger') = n + 1 /\ ledger'[n + 1] = row
      /\ \A k \in 1 .. n : ledger'[k] = ledger[k]
  BY <1>2, AppendProperties DEF n
<1>4. /\ disputes' \in Seq(Published) /\ Len(disputes') = n + 1 /\ disputes'[n + 1] = Unknown
      /\ \A k \in 1 .. n : disputes'[k] = disputes[k]
  BY <1>2, AppendProperties
<1>5. /\ n + 1 \in Nat /\ ledger' \in [1 .. n + 1 -> InvoiceRow]
      /\ disputes' \in [1 .. n + 1 -> Published]
  BY <1>1, <1>3, <1>4, LenProperties
<1>6. \A k \in 1 .. n + 1 : Kept(ledger'[k], disputes'[k])
  BY <1>1, <1>3, <1>4
<1>7. HeldInv'
  BY <1>5, <1>6, RowsAreKept
<1>8. \A k \in DOMAIN ledger : AsksAnew(ledger[k], disputes[k], disputes'[k])
  BY <1>1, <1>4, NoNewDispute
<1> QED
  BY <1>7, <1>8 DEF StepKeeps

\* Some rows change, and no dispute is opened.
LEMMA RowsChange ==
  ASSUME HeldInv, AroundTyped', DOMAIN ledger' = DOMAIN ledger,
         ledger' \in [DOMAIN ledger -> InvoiceRow],
         disputes' \in [DOMAIN ledger -> Published],
         \A k \in DOMAIN ledger : /\ Kept(ledger'[k], disputes'[k])
                                  /\ disputes'[k] \in {disputes[k], Unknown}
  PROVE  StepKeeps
<1>1. Len(ledger) \in Nat /\ DOMAIN ledger = 1 .. Len(ledger)
  BY RowsOfLedger
<1>2. HeldInv'
  BY <1>1, RowsAreKept
<1>3. \A k \in DOMAIN ledger : AsksAnew(ledger[k], disputes[k], disputes'[k])
  BY NoNewDispute
<1> QED
  BY <1>2, <1>3 DEF StepKeeps

LEMMA NothingChanges ==
  ASSUME HeldInv, AroundTyped', UNCHANGED <<ledger, disputes>>
  PROVE  StepKeeps
<1>1. /\ ledger' \in [DOMAIN ledger -> InvoiceRow] /\ disputes' \in [DOMAIN ledger -> Published]
      /\ \A k \in DOMAIN ledger : Kept(ledger'[k], disputes'[k]) /\ disputes'[k] = disputes[k]
  BY RowsOfLedger
<1> QED
  BY <1>1, RowsChange

LEMMA StillAround == HeldInv /\ UNCHANGED <<portal, spelling, aliases>> => AroundTyped'
  BY DEF HeldInv, HeldTypeOK, AroundTyped, Published

\* An invoice is met again.
LEMMA ArrivalKeeps ==
  ASSUME HeldInv, AroundTyped', NEW i \in DOMAIN ledger, NEW total \in Totals, CountArrival(i, total)
  PROVE  StepKeeps
<1>0. /\ ledger[i] \in InvoiceRow /\ disputes[i] \in Published /\ Kept(ledger[i], disputes[i])
      /\ disputes \in [DOMAIN ledger -> Published] /\ ledger \in [DOMAIN ledger -> InvoiceRow]
  BY RowsOfLedger
<1>1. CASE UNCHANGED <<ledger, disputes>>
  BY <1>1, NothingChanges
<1>2. CASE Dispute(i, total) /\ ledger[i].rejected # total
  <2> DEFINE row == Held(ledger[i], "DISPUTED")
  <2>1. row \in InvoiceRow /\ row.review = "PENDING"
    BY <1>0, RowOperators DEF Reasons
  <2>2. total \in Published /\ total # Unknown
    BY HeldAssumption DEF Published
  <2>3. Kept(row, total)
    BY <2>1, <2>2 DEF Kept
  <2>4. AsksAnew(ledger[i], disputes[i], total)
    BY <1>2 DEF AsksAnew
  <2>5. ledger' = [ledger EXCEPT ![i] = row] /\ disputes' = [disputes EXCEPT ![i] = total]
    BY <1>2 DEF Dispute
  <2> HIDE DEF row
  <2> QED
    BY <2>3, <2>4, <2>5, RowChanges
<1>3. CASE ledger' = [ledger EXCEPT ![i] = Held(@, "ANOTHER_TOTAL")] /\ disputes' = disputes
  <2> DEFINE row == Held(ledger[i], "ANOTHER_TOTAL")
  <2>1. row \in InvoiceRow /\ row.review = "PENDING" /\ row.reason = "ANOTHER_TOTAL"
    BY <1>0, RowOperators DEF Reasons
  <2>2. Kept(row, disputes[i])
    BY <1>0, <2>1, QuietRow
  <2>3. ledger' = [ledger EXCEPT ![i] = row] /\ disputes' = [disputes EXCEPT ![i] = disputes[i]]
    BY <1>0, <1>3
  <2> HIDE DEF row
  <2> QED
    BY <2>2, <2>3, NoNewDispute, RowChanges
<1> QED
  BY <1>1, <1>2, <1>3 DEF CountArrival

LEMMA NewInvoiceRow ==
  ASSUME HeldInv, NEW n \in Numbers, NEW t \in Texts, NEW s \in Suppliers \cup {Unknown},
         NEW total \in Totals, s = Unknown => Likeness[t] \notin Suppliers
  PROVE  Kept(NewInvoice(n, t, s, total), Unknown)
<1>1. s = Unknown => Likeness[t] \in {"AMBIGUOUS", "OUTSIDE"}
  BY HeldAssumption
<1>2. NewInvoice(n, t, s, total) \in InvoiceRow
  BY <1>1 DEF NewInvoice, InvoiceRow, Reviews, Reasons
<1>3. NewInvoice(n, t, s, total).reason # "DISPUTED"
  BY <1>1, HeldAssumption DEF NewInvoice
<1>4. /\ NewInvoice(n, t, s, total).supplier = s
      /\ s = Unknown => NewInvoice(n, t, s, total).review = "PENDING"
  BY DEF NewInvoice
<1> QED
  BY <1>2, <1>3, <1>4 DEF Kept, Published

LEMMA ReadingKeeps ==
  ASSUME HeldInv, NEW t \in Texts, NEW n \in Numbers, RegisterInvoiceRow(t, n)
  PROVE  StepKeeps
<1> DEFINE s == ResolveSupplier(t)
           found == InvoiceOf(s, n, t)
<1>1. AroundTyped'
  BY ObservedTypes DEF RegisterInvoiceRow
<1>2. portal[t, n] \in Totals
  BY DEF RegisterInvoiceRow, HeldInv, HeldTypeOK
<1>3. s \in Suppliers \cup {Unknown} /\ (s = Unknown => Likeness[t] \notin Suppliers)
  <2>1. KeyOf[t] \in Keys
    BY DEF Keys
  <2> QED
    BY <2>1, HeldAssumption DEF ResolveSupplier, HeldInv, HeldTypeOK
<1>4. CASE found # {}
  <2> DEFINE i == CHOOSE k \in found : \A j \in found : k <= j
  <2>1. found \subseteq DOMAIN ledger /\ DOMAIN ledger = 1 .. Len(ledger) /\ Len(ledger) \in Nat
    BY RowsOfLedger DEF InvoiceOf
  <2>2. \E k \in found : \A j \in found : k <= j
    BY <1>4, <2>1, FirstOf
  <2>3. i \in found
    BY <2>2
  <2>4. CountArrival(i, portal[t, n])
    BY <1>4 DEF RegisterInvoiceRow
  <2> HIDE DEF i
  <2> QED
    BY <1>1, <1>2, <2>1, <2>3, <2>4, ArrivalKeeps
<1>5. CASE found = {}
  <2>1. CreateInvoice(n, t, s, portal[t, n])
    BY <1>5 DEF RegisterInvoiceRow
  <2> HIDE DEF s
  <2> DEFINE row == NewInvoice(n, t, s, portal[t, n])
  <2>2. Kept(row, Unknown)
    BY <1>2, <1>3, NewInvoiceRow
  <2>3. ledger' = Append(ledger, row) /\ disputes' = Append(disputes, Unknown)
    BY <2>1 DEF CreateInvoice
  <2> HIDE DEF row
  <2> QED
    BY <1>1, <2>2, <2>3, RowJoins
<1> QED
  BY <1>4, <1>5

-------------------------------------------------------------------------------
(* The document, and what people do.                                          *)

LEMMA DocumentKeeps ==
  ASSUME HeldInv, NEW i \in DOMAIN ledger, NEW agrees \in BOOLEAN,
         NEW s \in Suppliers \cup {Unknown}, RecordDocument(i, agrees, s)
  PROVE  StepKeeps
<1>0. /\ ledger[i] \in InvoiceRow /\ disputes[i] \in Published
      /\ disputes \in [DOMAIN ledger -> Published] /\ disputes' = disputes
      /\ AroundTyped' /\ disputes' = [disputes EXCEPT ![i] = disputes[i]]
  BY RowsOfLedger, StillAround DEF RecordDocument
<1>1. CASE /\ s # Unknown
           /\ ledger' = [ledger EXCEPT ![i].supplier = s, ![i].review = "OK", ![i].reason = Unknown]
  <2> DEFINE row == [ledger[i] EXCEPT !.supplier = s, !.review = "OK", !.reason = Unknown]
  <2>1. row \in InvoiceRow /\ row.supplier = s /\ row.reason = Unknown
    BY <1>0 DEF InvoiceRow, Reviews
  <2>2. Kept(row, disputes[i])
    BY <1>0, <1>1, <2>1, HeldAssumption DEF Kept
  <2>3. ledger' = [ledger EXCEPT ![i] = row]
    BY <1>1, RowsOfLedger
  <2> HIDE DEF row
  <2> QED
    BY <1>0, <2>2, <2>3, NoNewDispute, RowChanges
<1>2. CASE ledger' = [ledger EXCEPT ![i] = Held(@, "FILE_DISAGREES")]
  <2> DEFINE row == Held(ledger[i], "FILE_DISAGREES")
  <2>1. row \in InvoiceRow /\ row.review = "PENDING" /\ row.reason = "FILE_DISAGREES"
    BY <1>0, RowOperators DEF Reasons
  <2>2. Kept(row, disputes[i])
    BY <1>0, <2>1, QuietRow
  <2>3. ledger' = [ledger EXCEPT ![i] = row]
    BY <1>2
  <2> HIDE DEF row
  <2> QED
    BY <1>0, <2>2, <2>3, NoNewDispute, RowChanges
<1> QED
  BY <1>1, <1>2 DEF RecordDocument, IdentifiedByTaxId

LEMMA TypedByHandKeeps ==
  ASSUME HeldInv, NEW n \in Numbers, NEW s \in Suppliers, NEW total \in Totals,
         RegisterInvoiceByHand(n, s, total)
  PROVE  StepKeeps
<1> DEFINE new == NewInvoice(n, LegalName[s], s, total)
           row == [Settled(new) EXCEPT !.manual = TRUE]
<1>1. s # Unknown /\ LegalName[s] \in Texts
  BY HeldAssumption
<1>2. new \in InvoiceRow
  BY <1>1, NewInvoiceRow DEF Kept
<1> HIDE DEF new
<1>3. row \in InvoiceRow /\ row.person /\ row.reason = Unknown
  BY <1>2, RowOperators DEF InvoiceRow
<1>4. Kept(row, Unknown)
  BY <1>3, HeldAssumption, QuietRow DEF Published
<1>5. ledger' = Append(ledger, row) /\ disputes' = Append(disputes, Unknown)
  BY DEF RegisterInvoiceByHand, new
<1> HIDE DEF row
<1> QED
  BY <1>4, <1>5, StillAround, RowJoins DEF RegisterInvoiceByHand

\* What an assignment leaves in each row: what was there, or a row settled.
LEMMA AppliedRows ==
  ASSUME NEW n \in Nat, NEW rows \in [1 .. n -> InvoiceRow], NEW key, NEW s \in Suppliers,
         NEW id \in Nat \cup {Unknown}
  PROVE  /\ AliasApplied(rows, key, s, id) \in [1 .. n -> InvoiceRow]
         /\ \A k \in 1 .. n :
               LET row == AliasApplied(rows, key, s, id)[k]
               IN  row = rows[k] \/ (row.person /\ row.reason = Unknown)
<1>1. \A k \in 1 .. n : /\ rows[k] \in InvoiceRow
                        /\ Attached(rows[k], s, id) \in InvoiceRow
                        /\ Attached(rows[k], s, id).person
                        /\ Attached(rows[k], s, id).reason = Unknown
  BY RowOperators
<1> QED
  BY <1>1 DEF AliasApplied

LEMMA ResolvingKeeps ==
  ASSUME HeldInv, NEW i \in DOMAIN ledger, NEW s \in Suppliers \cup {Unknown},
         NEW remember \in BOOLEAN, NEW total \in Totals, ResolveInvoice(i, s, remember, total)
  PROVE  StepKeeps
<1> DEFINE n == Len(ledger)
           key == KeyOf[ledger[i].text]
           id == IF remember THEN spelling'[key].id ELSE Unknown
           said == [ledger EXCEPT ![i].total = total]
           done == [said EXCEPT ![i] = IF s = Unknown THEN Settled(@) ELSE Attached(@, s, id)]
           mine == [ledger[i] EXCEPT !.total = total]
           row == IF s = Unknown THEN Settled(mine) ELSE Attached(mine, s, id)
<1>1. /\ n \in Nat /\ DOMAIN ledger = 1 .. n
      /\ ledger \in [1 .. n -> InvoiceRow] /\ disputes \in [1 .. n -> Published]
      /\ \A k \in 1 .. n : Kept(ledger[k], disputes[k])
  BY RowsOfLedger
<1>2. key \in Keys
  BY <1>1 DEF Keys, InvoiceRow
<1>3. AroundTyped' /\ id \in Nat \cup {Unknown}
  <2>1. CASE remember
    <3>1. PutAlias(key, s) /\ s \in Suppliers /\ portal' = portal
      BY <2>1 DEF ResolveInvoice
    <3>2. portal' \in [Texts \X Numbers -> Published]
      BY <3>1 DEF HeldInv, HeldTypeOK, Published
    <3> QED
      BY <1>2, <2>1, <3>1, <3>2, PutAliasTypes DEF AroundTyped
  <2>2. CASE ~ remember
    BY <2>2, StillAround DEF ResolveInvoice
  <2> QED
    BY <2>1, <2>2
<1>4. ledger' = IF remember THEN AliasApplied(done, key, s, id) ELSE done
  BY DEF ResolveInvoice
<1>5. disputes' = IF ledger[i].reason = "DISPUTED" THEN [disputes EXCEPT ![i] = Unknown] ELSE disputes
  BY DEF ResolveInvoice
<1>6. remember => s \in Suppliers
  BY DEF ResolveInvoice
<1>7. mine \in InvoiceRow /\ said = [ledger EXCEPT ![i] = mine]
  BY <1>1 DEF InvoiceRow
<1>8. said[i] = mine /\ done = [ledger EXCEPT ![i] = row]
  BY <1>1, <1>7
<1> HIDE DEF n, key, id, said, mine
<1>9. row \in InvoiceRow /\ row.person /\ row.reason = Unknown
  BY <1>3, <1>7, RowOperators
<1> HIDE DEF done, row
<1>10. /\ done \in [1 .. n -> InvoiceRow]
       /\ \A k \in 1 .. n : done[k] = ledger[k] \/ (done[k].person /\ done[k].reason = Unknown)
       /\ done[i].person /\ done[i].reason = Unknown
  BY <1>1, <1>8, <1>9
<1>11. /\ ledger' \in [1 .. n -> InvoiceRow]
       /\ \A k \in 1 .. n : ledger'[k] = ledger[k] \/ (ledger'[k].person /\ ledger'[k].reason = Unknown)
       /\ ledger'[i].person /\ ledger'[i].reason = Unknown
  <2>1. CASE remember
    <3>1. /\ ledger' \in [1 .. n -> InvoiceRow]
          /\ \A k \in 1 .. n : ledger'[k] = done[k] \/ (ledger'[k].person /\ ledger'[k].reason = Unknown)
      BY ZenonT(40), <1>1, <1>3, <1>4, <1>6, <1>10, <2>1, AppliedRows
    <3> QED
      BY <1>1, <1>10, <3>1
  <2>2. CASE ~ remember
    BY <1>4, <1>10, <2>2
  <2> QED
    BY <2>1, <2>2
<1>12. Unknown \in Published /\ Unknown # "DISPUTED"
  BY HeldAssumption DEF Published
<1>13. /\ disputes' \in [1 .. n -> Published]
       /\ \A k \in 1 .. n : disputes'[k] = disputes[k] \/ (k = i /\ disputes'[k] = Unknown)
  BY <1>1, <1>5, <1>12
<1>14. ASSUME NEW k \in 1 .. n PROVE Kept(ledger'[k], disputes'[k])
  <2>1. CASE ledger'[k].person /\ ledger'[k].reason = Unknown
    BY <1>11, <1>12, <1>13, <2>1, QuietRow
  <2>2. CASE ledger'[k] = ledger[k] /\ k # i
    BY <1>1, <1>13, <2>2
  <2> QED
    BY <1>11, <2>1, <2>2
<1> QED
  BY <1>1, <1>3, <1>11, <1>13, <1>14, RowsChange

LEMMA SavingKeeps ==
  ASSUME HeldInv, NEW key \in Keys, NEW s \in Suppliers, SaveAlias(key, s)
  PROVE  StepKeeps
<1> DEFINE n == Len(ledger)
<1>1. /\ n \in Nat /\ DOMAIN ledger = 1 .. n
      /\ ledger \in [1 .. n -> InvoiceRow] /\ disputes \in [1 .. n -> Published]
      /\ \A k \in 1 .. n : Kept(ledger[k], disputes[k])
  BY RowsOfLedger
<1> HIDE DEF n
<1>2. /\ PutAlias(key, s) /\ portal' = portal /\ disputes' = disputes
      /\ ledger' = AliasApplied(ledger, key, s, spelling'[key].id)
  BY DEF SaveAlias
<1>3. AroundTyped' /\ spelling'[key].id \in Nat
  BY <1>2, PutAliasTypes DEF AroundTyped, HeldInv, HeldTypeOK, Published
<1>4. /\ ledger' \in [1 .. n -> InvoiceRow]
      /\ \A k \in 1 .. n : ledger'[k] = ledger[k] \/ (ledger'[k].person /\ ledger'[k].reason = Unknown)
  <2> DEFINE id == spelling'[key].id
  <2>1. id \in Nat \cup {Unknown} /\ ledger' = AliasApplied(ledger, key, s, id)
    BY <1>2, <1>3
  <2> HIDE DEF id
  <2> QED
    BY <1>1, <2>1, AppliedRows
<1>5. ASSUME NEW k \in 1 .. n PROVE Kept(ledger'[k], disputes'[k])
  <2>1. CASE ledger'[k] = ledger[k]
    BY <1>1, <1>2, <2>1
  <2>2. CASE ledger'[k].person /\ ledger'[k].reason = Unknown
    <3>1. ledger'[k] \in InvoiceRow /\ disputes'[k] \in Published
      BY <1>1, <1>2, <1>4
    <3> QED
      BY <2>2, <3>1, QuietRow, HeldAssumption
  <2> QED
    BY <1>4, <2>1, <2>2
<1> QED
  BY <1>1, <1>2, <1>3, <1>4, <1>5, RowsChange

LEMMA DroppingKeeps ==
  ASSUME HeldInv, NEW key \in Keys, DropAlias(key)
  PROVE  StepKeeps
<1> DEFINE n == Len(ledger)
           Returned(k) == [Held(ledger[k], "AMBIGUOUS") EXCEPT !.supplier = Unknown,
                              !.alias = Unknown, !.person = FALSE]
<1>1. /\ n \in Nat /\ DOMAIN ledger = 1 .. n
      /\ ledger \in [1 .. n -> InvoiceRow] /\ disputes \in [1 .. n -> Published]
      /\ \A k \in 1 .. n : Kept(ledger[k], disputes[k])
  BY RowsOfLedger
<1> HIDE DEF n
<1>2. /\ disputes' = disputes /\ spelling' = [spelling EXCEPT ![key] = Unknown]
      /\ UNCHANGED <<portal, aliases>>
      /\ ledger' = [k \in 1 .. n |-> IF k \in ResolvedBy(spelling[key].id) THEN Returned(k)
                                                                         ELSE ledger[k]]
  BY <1>1 DEF DropAlias
<1>3. AroundTyped'
  BY <1>2 DEF AroundTyped, HeldInv, HeldTypeOK, Published
<1>4. ASSUME NEW k \in 1 .. n
      PROVE  /\ Returned(k) \in InvoiceRow /\ Returned(k).review = "PENDING"
             /\ Returned(k).reason = "AMBIGUOUS"
  <2> DEFINE held == Held(ledger[k], "AMBIGUOUS")
  <2>1. held \in InvoiceRow /\ held.review = "PENDING" /\ held.reason = "AMBIGUOUS"
    BY <1>1, RowOperators DEF Reasons
  <2> HIDE DEF held
  <2>2. [held EXCEPT !.supplier = Unknown, !.alias = Unknown, !.person = FALSE] \in InvoiceRow
    BY <2>1 DEF InvoiceRow
  <2>3. /\ [held EXCEPT !.supplier = Unknown, !.alias = Unknown, !.person = FALSE].review = "PENDING"
        /\ [held EXCEPT !.supplier = Unknown, !.alias = Unknown, !.person = FALSE].reason = "AMBIGUOUS"
    BY <2>1 DEF InvoiceRow
  <2> QED
    BY <2>2, <2>3 DEF held
<1> HIDE DEF Returned
<1>5. /\ ledger' \in [1 .. n -> InvoiceRow]
      /\ \A k \in 1 .. n : ledger'[k] = ledger[k] \/ ledger'[k] = Returned(k)
  BY <1>1, <1>2, <1>4
<1>6. ASSUME NEW k \in 1 .. n PROVE Kept(ledger'[k], disputes'[k])
  <2>1. CASE ledger'[k] = ledger[k]
    BY <1>1, <1>2, <2>1
  <2>2. CASE ledger'[k] = Returned(k)
    <3>1. disputes'[k] \in Published
      BY <1>1, <1>2
    <3> QED
      BY <1>4, <2>2, <3>1, QuietRow
  <2> QED
    BY <1>5, <2>1, <2>2
<1> QED
  BY <1>1, <1>2, <1>3, <1>5, <1>6, RowsChange

LEMMA SettlingKeeps ==
  ASSUME HeldInv, NEW i \in DOMAIN ledger, NEW keepPortal \in BOOLEAN,
         SettleManualDispute(i, keepPortal)
  PROVE  StepKeeps
<1> DEFINE settled == Settled(ledger[i])
           row == IF keepPortal
                  THEN [settled EXCEPT !.total = disputes[i], !.manual = FALSE, !.rejected = Unknown]
                  ELSE [settled EXCEPT !.rejected = disputes[i]]
<1>1. ledger[i] \in InvoiceRow /\ disputes[i] \in Totals
  BY RowsOfLedger DEF SettleManualDispute, Published
<1>2. settled \in InvoiceRow /\ settled.person /\ settled.reason = Unknown
  BY <1>1, RowOperators
<1>3. ledger' = [ledger EXCEPT ![i] = row] /\ disputes' = [disputes EXCEPT ![i] = Unknown]
  BY DEF SettleManualDispute
<1> HIDE DEF settled
<1>4. row \in InvoiceRow /\ row.person /\ row.reason = Unknown
  BY ZenonT(40), <1>1, <1>2 DEF InvoiceRow
<1> HIDE DEF row
<1>5. Kept(row, Unknown)
  BY <1>4, HeldAssumption, QuietRow DEF Published
<1> QED
  BY <1>3, <1>5, NoNewDispute, StillAround, RowChanges DEF SettleManualDispute

-------------------------------------------------------------------------------
(* The theorems.                                                              *)

LEMMA HeldStep == HeldInv /\ HeldNext => StepKeeps
<1> SUFFICES ASSUME HeldInv, HeldNext PROVE StepKeeps
  OBVIOUS
<1>1. ASSUME NEW t \in Texts, NEW n \in Numbers, NEW total \in Totals, Publish(t, n, total)
      PROVE  StepKeeps
  <2>1. AroundTyped'
    BY <1>1 DEF Publish, AroundTyped, HeldInv, HeldTypeOK, Published
  <2> QED
    BY <1>1, <2>1, NothingChanges DEF Publish
<1>2. ASSUME NEW s \in Suppliers, RememberSupplier(s) PROVE StepKeeps
  <2>1. KeyOf[LegalName[s]] \in Keys
    BY HeldAssumption DEF Keys
  <2>2. AroundTyped'
    BY <1>2, <2>1, PutAliasTypes DEF RememberSupplier, AroundTyped, HeldInv, HeldTypeOK, Published
  <2> QED
    BY <1>2, <2>2, NothingChanges DEF RememberSupplier
<1> QED
  BY <1>1, <1>2, ReadingKeeps, DocumentKeeps, TypedByHandKeeps, ResolvingKeeps, SavingKeeps,
     DroppingKeeps, SettlingKeeps DEF HeldNext, PortalIsRead, PeopleAnswer

LEMMA HeldInvHolds == HeldSpec => []HeldInv
<1>1. HeldInit => HeldInv
  <2> SUFFICES ASSUME HeldInit PROVE HeldInv
    OBVIOUS
  <2>1. ledger = <<>> /\ disputes = <<>> /\ aliases = 0
    BY DEF HeldInit
  <2>2. DOMAIN ledger = {}
    BY <2>1
  <2> QED
    BY <2>1, <2>2, EmptySeq DEF HeldInit, HeldInv, HeldTypeOK, UnattributedIsHeld, DisputeIsAsked
<1>2. HeldInv /\ [HeldNext]_heldVars => HeldInv'
  <2>1. HeldInv /\ UNCHANGED heldVars => HeldInv'
    BY DEF heldVars, HeldInv, HeldTypeOK, UnattributedIsHeld, DisputeIsAsked
  <2> QED
    BY <2>1, HeldStep DEF StepKeeps
<1> QED
  BY <1>1, <1>2, PTL DEF HeldSpec

\* Whatever spellings are saved, pointed elsewhere and revoked, an invoice without
\* a supplier is held unless somebody let it through.
THEOREM NoDebtWithoutSupplier == HeldSpec => []UnattributedIsHeld
  BY HeldInvHolds, PTL DEF HeldInv

\* However often the portal changes its mind and whichever screen answers, an
\* invoice in dispute has its case open.
THEOREM DisputesAreAsked == HeldSpec => []DisputeIsAsked
  BY HeldInvHolds, PTL DEF HeldInv

\* A value a person rejected is never what a dispute is opened about.
THEOREM RejectedStaysRejected == HeldSpec => RejectedIsNotAskedAgain
<1>1. HeldInv /\ [HeldNext]_heldVars =>
        [\A i \in DOMAIN ledger :
           /\ ledger[i].manual /\ ledger[i].rejected # Unknown
           /\ disputes[i] = Unknown /\ disputes'[i] # Unknown
           => disputes'[i] # ledger[i].rejected]_heldVars
  BY HeldStep DEF StepKeeps, AsksAnew
<1> QED
  BY <1>1, HeldInvHolds, PTL DEF HeldSpec, RejectedIsNotAskedAgain
-----------------------------------------------------------------------------
(* The set of what was told, by its members.                                 *)

Tells(c, f, v) == <<c, f, v>> \in told
ToldOf(c, f) == {d[3] : d \in {e \in told : e[1] = c /\ e[2] = f}}

LEMMA ToldByMembers ==
  ASSUME CardsTypeOK, NEW c \in Cards, NEW f \in Correctable
  PROVE  \A v : v \in ToldOf(c, f) <=> Tells(c, f, v)
<1>1. \A d \in told : d = <<d[1], d[2], d[3]>>
  BY DEF CardsTypeOK
<1>2. ASSUME NEW v, v \in ToldOf(c, f) PROVE Tells(c, f, v)
  <2>1. PICK d \in told : d[1] = c /\ d[2] = f /\ v = d[3]
    BY <1>2 DEF ToldOf
  <2> QED
    BY <1>1, <2>1 DEF Tells
<1>3. ASSUME NEW v, Tells(c, f, v) PROVE v \in ToldOf(c, f)
  <2> DEFINE d == <<c, f, v>>
  <2>1. d \in told /\ d[1] = c /\ d[2] = f /\ d[3] = v
    BY <1>3 DEF Tells
  <2> HIDE DEF d
  <2> QED
    BY <2>1 DEF ToldOf
<1> QED
  BY <1>2, <1>3

ToldEach ==
    \A c \in Cards, f \in Correctable : corrected[c, f] # Silent =>
        \A v : Tells(c, f, v) <=> v \in contradicted[c, f] /\ v # corrected[c, f].portal

LEMMA ToldAsMembers == CardsTypeOK => (ToldOfEachDifference <=> ToldEach)
<1> SUFFICES ASSUME CardsTypeOK PROVE ToldOfEachDifference <=> ToldEach
  OBVIOUS
<1>1. \A c \in Cards, f \in Correctable :
        (ToldOf(c, f) = contradicted[c, f] \ {corrected[c, f].portal})
          <=> \A v : Tells(c, f, v) <=> v \in contradicted[c, f] /\ v # corrected[c, f].portal
  BY ToldByMembers
<1>2. ToldOfEachDifference <=>
        \A c \in Cards, f \in Correctable : corrected[c, f] # Silent =>
            ToldOf(c, f) = contradicted[c, f] \ {corrected[c, f].portal}
  BY DEF ToldOfEachDifference, ToldOf
<1> QED
  BY <1>1, <1>2 DEF ToldEach

-----------------------------------------------------------------------------
(* The register looks for the corrections.                                   *)

KeptCards == CardsTypeOK /\ ConflictCame /\ WritesNoCorrection /\ CorrectionStands /\ ToldEach

LEMMA ReadingKeepsInv ==
  ASSUME KeptCards,
         NEW c \in Cards, NEW reading \in Readings, ReadCorrections(c, reading)
  PROVE  KeptCards'
<1> DEFINE held == CorrectionsHolding(c)
           allowed == [f \in Fields |-> IF f \in held THEN Silent ELSE reading[f]]
           clash == {f \in Correctable : InConflict(c, f, reading[f])}
<1>0. CardsTypeOK /\ ConflictCame /\ WritesNoCorrection /\ CorrectionStands /\ ToldEach
  BY DEF KeptCards
<1>1. /\ card' = card /\ overtaken' = overtaken
      /\ applying' = [applying EXCEPT ![c] = allowed]
      /\ corrected' = [p \in Cards \X Correctable |->
                IF p[1] = c /\ p[2] \in clash
                THEN [corrected[p] EXCEPT !.status = "CONFLICTED", !.conflict = reading[p[2]]]
                ELSE corrected[p]]
      /\ told' = told \cup {<<c, f, reading[f]>> : f \in clash}
      /\ contradicted' = [p \in Cards \X Correctable |->
                IF p[1] = c /\ p[2] \in held /\ reading[p[2]] # Silent
                THEN contradicted[p] \cup {reading[p[2]]} ELSE contradicted[p]]
  BY DEF ReadCorrections
<1>3. /\ held \subseteq Correctable /\ clash \subseteq held
      /\ \A f \in held : card[c] # Silent /\ corrected[c, f] # Silent
      /\ \A f \in clash : /\ reading[f] \in Details /\ reading[f] # Silent
                          /\ reading[f] # corrected[c, f].portal
  BY CardsAssumption DEF CorrectionsHolding, InConflict, Readings
<1>4. allowed \in Readings /\ \A f \in held : allowed[f] = Silent
  BY <1>3, CardsAssumption DEF Readings
<1> HIDE DEF allowed
<1>5. allowed # Silent /\ applying' \in [Cards -> Readings \cup {Silent}]
  BY <1>0, <1>1, <1>4, CardsAssumption DEF CardsTypeOK
<1>6. ASSUME NEW d \in Cards, NEW f \in Correctable
      PROVE  /\ <<d, f>> \in Cards \X Correctable
             /\ corrected[d, f] \in CorrectionRow \cup {Silent}
             /\ contradicted[d, f] \subseteq Details
             /\ corrected'[d, f] = IF d = c /\ f \in clash
                   THEN [corrected[d, f] EXCEPT !.status = "CONFLICTED", !.conflict = reading[f]]
                   ELSE corrected[d, f]
             /\ contradicted'[d, f] = IF d = c /\ f \in held /\ reading[f] # Silent
                   THEN contradicted[d, f] \cup {reading[f]} ELSE contradicted[d, f]
  BY <1>0, <1>1 DEF CardsTypeOK
<1>7. ASSUME NEW f \in clash
      PROVE  /\ corrected'[c, f] \in CorrectionRow
             /\ corrected'[c, f].status = "CONFLICTED"
             /\ corrected'[c, f].conflict = reading[f]
             /\ corrected'[c, f].portal = corrected[c, f].portal
             /\ corrected'[c, f].value = corrected[c, f].value
  <2> DEFINE old == corrected[c, f]
  <2>1. /\ c \in Cards /\ f \in Correctable /\ reading[f] \in Details
        /\ old \in CorrectionRow
    BY <1>3, <1>6
  <2>2. corrected'[c, f] = [old EXCEPT !.status = "CONFLICTED", !.conflict = reading[f]]
    BY <1>6, <2>1
  <2> HIDE DEF old
  <2>3. /\ corrected'[c, f] \in CorrectionRow
        /\ corrected'[c, f].status = "CONFLICTED" /\ corrected'[c, f].conflict = reading[f]
        /\ corrected'[c, f].portal = old.portal /\ corrected'[c, f].value = old.value
    BY <2>1, <2>2 DEF CorrectionRow
  <2> QED
    BY <2>3 DEF old
<1> HIDE DEF held, clash
<1>8. CardsTypeOK'
  <2>1. /\ card' \in [Cards -> Readings \cup {Silent}]
        /\ applying' \in [Cards -> Readings \cup {Silent}]
        /\ overtaken' \subseteq Cards \X Correctable
    BY <1>0, <1>1, <1>5 DEF CardsTypeOK
  <2>2. corrected' \in [Cards \X Correctable -> CorrectionRow \cup {Silent}]
    <3>1. \A p \in Cards \X Correctable : corrected'[p] \in CorrectionRow \cup {Silent}
      <4>1. ASSUME NEW d \in Cards, NEW f \in Correctable
            PROVE  corrected'[d, f] \in CorrectionRow \cup {Silent}
        <5>1. CASE d = c /\ f \in clash
          BY <1>7, <5>1
        <5>2. CASE ~(d = c /\ f \in clash)
          BY <1>6, <5>2
        <5> QED
          BY <5>1, <5>2
      <4>2. ASSUME NEW p \in Cards \X Correctable
            PROVE  corrected'[p] \in CorrectionRow \cup {Silent}
        <5>1. PICK d \in Cards, f \in Correctable : p = <<d, f>>
          OBVIOUS
        <5> QED
          BY <4>1, <5>1
      <4> QED
        BY <4>2
    <3> QED
      BY <1>1, <3>1
  <2>3. told' \subseteq Cards \X Correctable \X Details
    <3>1. \A f \in clash : <<c, f, reading[f]>> \in Cards \X Correctable \X Details
      BY <1>3
    <3> QED
      BY <1>0, <1>1, <3>1 DEF CardsTypeOK
  <2>4. contradicted' \in [Cards \X Correctable -> SUBSET Details]
    <3>1. \A f \in Correctable : reading[f] # Silent => reading[f] \in Details
      BY CardsAssumption DEF Readings
    <3>2. ASSUME NEW d \in Cards, NEW f \in Correctable
          PROVE  contradicted'[d, f] \in SUBSET Details
      <4>1. CASE d = c /\ f \in held /\ reading[f] # Silent
        <5>1. contradicted'[d, f] = contradicted[d, f] \cup {reading[f]}
          BY <1>6, <4>1
        <5>2. contradicted[d, f] \subseteq Details /\ reading[f] \in Details
          BY <1>6, <3>1, <4>1
        <5> QED
          BY <5>1, <5>2
      <4>2. CASE ~(d = c /\ f \in held /\ reading[f] # Silent)
        BY <1>6, <4>2
      <4> QED
        BY <4>1, <4>2
    <3>3. ASSUME NEW p \in Cards \X Correctable PROVE contradicted'[p] \in SUBSET Details
      <4>1. PICK d \in Cards, f \in Correctable : p = <<d, f>>
        OBVIOUS
      <4> QED
        BY <3>2, <4>1
    <3> QED
      BY <1>1, <3>3
  <2> QED
    BY <2>1, <2>2, <2>3, <2>4 DEF CardsTypeOK
<1>9. \A d \in Cards, f \in Correctable :
         corrected'[d, f] # Silent => corrected[d, f] # Silent
  BY <1>3, <1>6
<1>10. \A f \in Correctable : corrected[c, f] # Silent => f \in held
  BY <1>0 DEF held, CorrectionsHolding, ConflictCame
<1>11. ConflictCame'
  <2> SUFFICES ASSUME NEW d \in Cards, NEW f \in Correctable, corrected'[d, f] # Silent
               PROVE  /\ card'[d] # Silent
                      /\ corrected'[d, f].status = "CONFLICTED" =>
                            corrected'[d, f].conflict \in
                                contradicted'[d, f] \ {corrected'[d, f].portal}
    BY DEF ConflictCame
  <2>1. card'[d] # Silent
    BY <1>0, <1>1, <1>9 DEF ConflictCame
  <2>2. CASE d = c /\ f \in clash
    BY <1>3, <1>6, <1>7, <2>1, <2>2
  <2>3. CASE ~(d = c /\ f \in clash)
    <3>1. /\ corrected'[d, f] = corrected[d, f] /\ corrected[d, f] # Silent
          /\ contradicted[d, f] \subseteq contradicted'[d, f]
      BY ZenonT(40), <1>6, <1>9, <2>3
    <3>2. corrected[d, f].status = "CONFLICTED" =>
             corrected[d, f].conflict \in contradicted[d, f] \ {corrected[d, f].portal}
      BY <1>0, <3>1 DEF ConflictCame
    <3> QED
      BY <2>1, <3>1, <3>2
  <2> QED
    BY <2>2, <2>3
<1>12. CorrectionStands'
  <2> SUFFICES ASSUME NEW d \in Cards, NEW f \in Correctable, corrected'[d, f] # Silent,
                      <<d, f>> \notin overtaken
               PROVE  card[d][f] = corrected'[d, f].value
    BY <1>1 DEF CorrectionStands
  <2>1. corrected[d, f] # Silent /\ card[d][f] = corrected[d, f].value
    BY <1>0, <1>9 DEF CorrectionStands
  <2>2. corrected'[d, f].value = corrected[d, f].value
    BY <1>6, <1>7
  <2> QED
    BY <2>1, <2>2
<1>13. WritesNoCorrection'
  <2> SUFFICES ASSUME NEW d \in Cards, NEW f \in Correctable, corrected'[d, f] # Silent,
                      applying'[d] # Silent, applying'[d][f] # Silent
               PROVE  <<d, f>> \in overtaken
    BY <1>1 DEF WritesNoCorrection, AboutToWrite
  <2>1. corrected[d, f] # Silent
    BY <1>9
  <2>2. applying'[d] = IF d = c THEN allowed ELSE applying[d]
    BY <1>0, <1>1 DEF CardsTypeOK
  <2>3. d # c
    BY <1>4, <1>10, <2>1, <2>2
  <2> QED
    BY <1>0, <2>1, <2>2, <2>3 DEF WritesNoCorrection, AboutToWrite
<1>14. ToldEach'
  <2> SUFFICES ASSUME NEW d \in Cards, NEW f \in Correctable, corrected'[d, f] # Silent, NEW v
               PROVE  Tells(d, f, v)' <=> v \in contradicted'[d, f] /\ v # corrected'[d, f].portal
    BY DEF ToldEach
  <2>1. Tells(d, f, v) <=> v \in contradicted[d, f] /\ v # corrected[d, f].portal
    BY <1>0, <1>9 DEF ToldEach
  <2>2. Tells(d, f, v)' <=> Tells(d, f, v) \/ (d = c /\ f \in clash /\ v = reading[f])
    BY <1>1 DEF Tells
  <2>3. CASE d = c /\ f \in clash
    <3>1. /\ contradicted'[d, f] = contradicted[d, f] \cup {reading[f]}
          /\ corrected'[d, f].portal = corrected[d, f].portal
          /\ reading[f] # corrected[d, f].portal
      BY <1>3, <1>6, <1>7, <2>3
    <3> QED
      BY <2>1, <2>2, <2>3, <3>1
  <2>4. CASE d = c /\ f \notin clash
    <3>1. f \in held /\ corrected'[d, f] = corrected[d, f]
      BY <1>6, <1>9, <1>10, <2>4
    <3>2. \/ reading[f] = Silent \/ reading[f] = corrected[c, f].portal
          \/ corrected[c, f].status = "CONFLICTED" /\ corrected[c, f].conflict = reading[f]
      BY <2>4, <3>1 DEF clash, InConflict, held
    <3>3. corrected[c, f].status = "CONFLICTED" =>
              corrected[c, f].conflict \in contradicted[c, f]
      BY <1>0, <1>9, <2>4 DEF ConflictCame
    <3>4. \/ contradicted'[d, f] = contradicted[d, f]
          \/ /\ contradicted'[d, f] = contradicted[d, f] \cup {reading[f]}
             /\ reading[f] = corrected[d, f].portal \/ reading[f] \in contradicted[d, f]
      BY <1>6, <2>4, <3>2, <3>3
    <3> QED
      BY <2>1, <2>2, <2>4, <3>1, <3>4
  <2>5. CASE d # c
    BY <1>6, <2>1, <2>2, <2>5
  <2> QED
    BY <2>3, <2>4, <2>5
<1> QED
  BY <1>8, <1>11, <1>12, <1>13, <1>14 DEF KeptCards

-----------------------------------------------------------------------------
(* The register writes the card.                                             *)

LEMMA PuttingKeepsInv ==
  ASSUME KeptCards, NEW c \in Cards, PutSupplierCard(c)
  PROVE  KeptCards'
<1> DEFINE filled == PutSupplier(c, applying[c])
<1>1. /\ applying[c] # Silent
      /\ card' = [card EXCEPT ![c] = filled]
      /\ applying' = [applying EXCEPT ![c] = Silent]
      /\ UNCHANGED <<corrected, overtaken, told, contradicted>>
  BY DEF PutSupplierCard
<1>2. CardsTypeOK /\ ConflictCame /\ WritesNoCorrection /\ CorrectionStands /\ ToldEach
  BY DEF KeptCards
<1>3. applying[c] \in Readings /\ card[c] \in Readings \cup {Silent}
  BY <1>1, <1>2 DEF CardsTypeOK
<1>4. /\ filled \in Readings /\ filled # Silent
      /\ \A f \in Fields : card[c] # Silent /\ applying[c][f] = Silent => filled[f] = card[c][f]
  BY <1>3, CardsAssumption DEF PutSupplier, Readings
<1> HIDE DEF filled
<1>5. ASSUME NEW d \in Cards
      PROVE  /\ card'[d] = IF d = c THEN filled ELSE card[d]
             /\ applying'[d] = IF d = c THEN Silent ELSE applying[d]
  BY <1>1, <1>2 DEF CardsTypeOK
<1>6. CardsTypeOK'
  BY <1>1, <1>2, <1>4 DEF CardsTypeOK
<1>7. ConflictCame'
  BY <1>1, <1>2, <1>4, <1>5 DEF ConflictCame
<1>8. WritesNoCorrection'
  BY <1>1, <1>2, <1>5 DEF WritesNoCorrection, AboutToWrite
<1>9. CorrectionStands'
  <2> SUFFICES ASSUME NEW d \in Cards, NEW f \in Correctable, corrected[d, f] # Silent,
                      <<d, f>> \notin overtaken
               PROVE  card'[d][f] = corrected[d, f].value
    BY <1>1 DEF CorrectionStands
  <2>1. card[d] # Silent /\ card[d][f] = corrected[d, f].value
    BY <1>2 DEF ConflictCame, CorrectionStands
  <2>2. d = c => applying[c][f] = Silent
    BY <1>1, <1>2 DEF WritesNoCorrection, AboutToWrite
  <2> QED
    BY <1>4, <1>5, <2>1, <2>2, CardsAssumption
<1>10. ToldEach'
  BY <1>1, <1>2 DEF ToldEach, Tells
<1> QED
  BY <1>6, <1>7, <1>8, <1>9, <1>10 DEF KeptCards

-----------------------------------------------------------------------------
(* A correction by a person.                                                 *)

LEMMA CorrectingKeepsInv ==
  ASSUME KeptCards,
         NEW c \in Cards, NEW f \in Correctable, NEW value \in Details,
         CorrectSupplier(c, f, value)
  PROVE  KeptCards'
<1> DEFINE said == IF corrected[c, f] = Silent THEN card[c][f] ELSE corrected[c, f].portal
           new == Correction(said, value)
           written == [card[c] EXCEPT ![f] = value]
<1>0. CardsTypeOK /\ ConflictCame /\ WritesNoCorrection /\ CorrectionStands /\ ToldEach
  BY DEF KeptCards
<1>1. /\ card[c] # Silent
      /\ card' = [card EXCEPT ![c] = written]
      /\ corrected' = [corrected EXCEPT ![<<c, f>>] = new]
      /\ told' = {d \in told : d[1] # c \/ d[2] # f}
      /\ contradicted' = [contradicted EXCEPT ![<<c, f>>] = {}]
      /\ applying' = applying
      /\ overtaken' = IF AboutToWrite(c, f) THEN overtaken \cup {<<c, f>>}
                                            ELSE overtaken \ {<<c, f>>}
  BY DEF CorrectSupplier
<1>2. f \in Fields /\ <<c, f>> \in Cards \X Correctable
  BY CardsAssumption
<1>3. card[c] \in Readings
  BY <1>0, <1>1 DEF CardsTypeOK
<1>4. said \in Details \cup {Silent}
  BY <1>0, <1>2, <1>3 DEF CardsTypeOK, CorrectionRow, Readings
<1> HIDE DEF said
<1>5. /\ new \in CorrectionRow /\ new # Silent
      /\ new.status = "ACTIVE" /\ new.value = value
  BY <1>4, CardsAssumption DEF Correction, CorrectionRow
<1>6. /\ written \in Readings /\ written # Silent /\ written[f] = value
      /\ \A g \in Correctable : g # f => written[g] = card[c][g]
  BY <1>2, <1>3, CardsAssumption DEF Readings
<1> HIDE DEF new, written
<1>7. CardsTypeOK'
  BY <1>0, <1>1, <1>2, <1>5, <1>6 DEF CardsTypeOK
<1>8. ASSUME NEW d \in Cards, NEW g \in Correctable
      PROVE  /\ <<d, g>> = <<c, f>> => d = c /\ g = f
             /\ corrected'[d, g] = IF d = c /\ g = f THEN new ELSE corrected[d, g]
             /\ contradicted'[d, g] = IF d = c /\ g = f THEN {} ELSE contradicted[d, g]
  BY <1>0, <1>1 DEF CardsTypeOK
<1>9. ASSUME NEW d \in Cards, NEW g \in Correctable
      PROVE  /\ card'[d] = IF d = c THEN written ELSE card[d]
             /\ ~(d = c /\ g = f) /\ card[d] # Silent => card'[d][g] = card[d][g]
  BY <1>0, <1>1, <1>6 DEF CardsTypeOK
<1>10. ConflictCame'
  <2> SUFFICES ASSUME NEW d \in Cards, NEW g \in Correctable, corrected'[d, g] # Silent
               PROVE  /\ card'[d] # Silent
                      /\ corrected'[d, g].status = "CONFLICTED" =>
                            corrected'[d, g].conflict \in
                                contradicted'[d, g] \ {corrected'[d, g].portal}
    BY DEF ConflictCame
  <2>1. CASE d = c /\ g = f
    BY <1>5, <1>6, <1>8, <1>9, <2>1
  <2>2. CASE ~(d = c /\ g = f)
    BY <1>0, <1>6, <1>8, <1>9, <2>2 DEF ConflictCame
  <2> QED
    BY <2>1, <2>2
<1>11. CorrectionStands'
  <2> SUFFICES ASSUME NEW d \in Cards, NEW g \in Correctable, corrected'[d, g] # Silent,
                      <<d, g>> \notin overtaken'
               PROVE  card'[d][g] = corrected'[d, g].value
    BY DEF CorrectionStands
  <2>1. CASE d = c /\ g = f
    BY <1>5, <1>6, <1>8, <1>9, <2>1
  <2>2. CASE ~(d = c /\ g = f)
    <3>1. corrected'[d, g] = corrected[d, g] /\ corrected[d, g] # Silent
      BY <1>8, <2>2
    <3>2. card[d] # Silent /\ card[d][g] = corrected[d, g].value
      BY <1>0, <1>1, <1>8, <2>2, <3>1 DEF ConflictCame, CorrectionStands
    <3> QED
      BY <1>9, <2>2, <3>1, <3>2
  <2> QED
    BY <2>1, <2>2
<1>12. ToldEach'
  <2> SUFFICES ASSUME NEW d \in Cards, NEW g \in Correctable, corrected'[d, g] # Silent, NEW v
               PROVE  Tells(d, g, v)' <=> v \in contradicted'[d, g] /\ v # corrected'[d, g].portal
    BY DEF ToldEach
  <2>1. Tells(d, g, v)' <=> Tells(d, g, v) /\ ~(d = c /\ g = f)
    BY <1>1 DEF Tells
  <2>2. CASE d = c /\ g = f
    BY <1>8, <2>1, <2>2
  <2>3. CASE ~(d = c /\ g = f)
    <3>1. /\ corrected'[d, g] = corrected[d, g] /\ corrected[d, g] # Silent
          /\ contradicted'[d, g] = contradicted[d, g]
      BY <1>8, <2>3
    <3>2. Tells(d, g, v) <=> v \in contradicted[d, g] /\ v # corrected[d, g].portal
      BY <1>0, <3>1 DEF ToldEach
    <3> QED
      BY <2>1, <2>3, <3>1, <3>2
  <2> QED
    BY <2>2, <2>3
<1>13. WritesNoCorrection'
  <2> SUFFICES ASSUME NEW d \in Cards, NEW g \in Correctable, corrected'[d, g] # Silent,
                      AboutToWrite(d, g)
               PROVE  <<d, g>> \in overtaken'
    BY <1>1 DEF WritesNoCorrection, AboutToWrite
  <2>1. CASE d = c /\ g = f
    BY <1>1, <2>1
  <2>2. CASE ~(d = c /\ g = f)
    BY <1>0, <1>1, <1>8, <2>2 DEF WritesNoCorrection
  <2> QED
    BY <2>1, <2>2
<1> QED
  BY <1>7, <1>10, <1>11, <1>12, <1>13 DEF KeptCards

-----------------------------------------------------------------------------
LEMMA CardsStart == CardsInit => CardsInv
  BY DEF CardsInit, CardsInv, CardsTypeOK, ConflictCame, WritesNoCorrection,
         CorrectionStands, ToldOfEachDifference

LEMMA CardsSteps == CardsInv /\ [CardsNext]_cardVars => CardsInv'
<1> SUFFICES ASSUME CardsInv, [CardsNext]_cardVars PROVE CardsInv'
  OBVIOUS
<1>1. KeptCards
  BY ToldAsMembers DEF CardsInv, KeptCards
<1>2. KeptCards' => CardsInv'
  <2>1. CardsTypeOK' => (ToldOfEachDifference' <=> ToldEach')
    BY ToldAsMembers, PTL
  <2> QED
    BY <2>1 DEF CardsInv, KeptCards
<1>3. ASSUME NEW c \in Cards, NEW reading \in Readings, ReadCorrections(c, reading)
      PROVE  KeptCards'
  BY <1>1, <1>3, ReadingKeepsInv
<1>4. ASSUME NEW c \in Cards, PutSupplierCard(c) PROVE KeptCards'
  BY <1>1, <1>4, PuttingKeepsInv
<1>5. ASSUME NEW c \in Cards, NEW f \in Correctable, NEW value \in Details,
             CorrectSupplier(c, f, value)
      PROVE  KeptCards'
  BY <1>1, <1>5, CorrectingKeepsInv
<1>6. CASE UNCHANGED cardVars
  BY <1>6 DEF cardVars, CardsInv, CardsTypeOK, ConflictCame, WritesNoCorrection, AboutToWrite,
              CorrectionStands, ToldOfEachDifference
<1> QED
  BY <1>2, <1>3, <1>4, <1>5, <1>6 DEF CardsNext

LEMMA CardsInvariant == CardsSpec => []CardsInv
  BY CardsStart, CardsSteps, PTL DEF CardsSpec

(* What somebody corrected stays as they wrote it, reading after reading, for  *)
(* any card and any field, unless it was committed between what the register   *)
(* looked for and what it wrote (_corrections_holding, put_supplier).          *)
THEOREM CorrectionsStand == CardsSpec => []CorrectionStands
<1>1. CardsInv => CorrectionStands
  BY DEF CardsInv
<1> QED
  BY <1>1, CardsInvariant, PTL

(* The owner is told of every value the register published against a standing *)
(* correction and of no other, however often each comes and comes back        *)
(* (_check_supplier_conflict).                                                *)
THEOREM DifferencesAreTold == CardsSpec => []ToldOfEachDifference
<1>1. CardsInv => ToldOfEachDifference
  BY DEF CardsInv
<1> QED
  BY <1>1, CardsInvariant, PTL

-------------------------------------------------------------------------------
(* The calendar.                                                              *)

(* One row of the invoices, and its entry.                                    *)

LEMMA SyncedRow ==
  ASSUME NEW e \in EntryRows \cup {NoDay}, NEW due \in Nat \cup {NoDay}
  PROVE  /\ Synced(e, due) \in EntryRows \cup {NoDay}
         /\ e # NoDay => Synced(e, due) # NoDay
         /\ e # NoDay /\ e.on # e.original => Synced(e, due) = e
BY CalendarAssumption DEF Synced, Entry, EntryRows

LEMMA DueIsADay ==
  ASSUME NEW issued \in Nat, NEW t \in Terms \cup {NoDay}, NEW column \in Nat \cup {NoDay}
  PROVE  /\ DueDateFor(issued, t, column) \in Nat \cup {NoDay}
         /\ \/ t # NoDay /\ DueDateFor(issued, t, column) = issued + t
            \/ t = NoDay /\ DueDateFor(issued, t, column) = column
BY CalendarAssumption DEF DueDateFor

InHand == redating # NoDay => WritesWhatItRead(redating.term, redating.rows)

\* What is in hand stays good while nobody moves an entry it is about to write.
LEMMA HandIsKept ==
  ASSUME CalendarInv, redating' = redating, term' = term, Known \subseteq Known',
         \A i \in Known : i \in EntriesInHand /\ i \notin crossed'
                            => i \notin crossed /\ entry'[i] = entry[i]
  PROVE  InHand'
<1> DEFINE t == redating.term
           rows == redating.rows
<1> SUFFICES ASSUME redating # NoDay PROVE WritesWhatItRead(t, rows)'
  BY DEF InHand
<1>1. WritesWhatItRead(t, rows)
  BY DEF CalendarInv
<1>2. \A i \in DOMAIN rows : i \in Known /\ (rows[i].entered <=> i \in EntriesInHand)
  BY <1>1 DEF WritesWhatItRead, EntriesInHand
<1>3. rows' = rows /\ t' = t
  OBVIOUS
<1> HIDE DEF rows, t
<1>4. DOMAIN rows' \subseteq Known' /\ t' \in Terms \cup {NoDay}
  BY <1>1, <1>3 DEF WritesWhatItRead
<1>5. ASSUME NEW i \in DOMAIN rows, rows[i].entered
      PROVE  /\ rows[i].due # NoDay
             /\ entry'[i] # NoDay /\ WasRescheduled(i)' => i \in crossed'
  BY <1>1, <1>2, <1>5 DEF WritesWhatItRead, WasRescheduled
<1>6. ASSUME NEW i \in DOMAIN rows
      PROVE  /\ rows[i] \in RedatedRows
             /\ rows[i].moved => \E u \in {IF t = NoDay THEN term ELSE t} \ {NoDay} :
                                     rows[i].due = rows[i].issued + u
  BY <1>1 DEF WritesWhatItRead
<1> QED
  BY <1>3, <1>4, <1>5, <1>6 DEF WritesWhatItRead

\* Of the invoices that are late, the step moves at most one, which stays or is excused.
LEMMA OtherBillsStayLate ==
  ASSUME CalendarInv, NEW i \in Bills, NEW row \in BillRows,
         bill' = [bill EXCEPT ![i] = row], UNCHANGED <<today, receipts>>,
         i \in OverdueWithoutReceipt =>
             \/ row.due = bill[i].due /\ row.said = bill[i].said
             \/ row.due = bill[i].due /\ ~row.said
             \/ row.said
             \/ term' # NoDay /\ row.due = row.issued + term'
  PROVE  KeepsLate
<1> SUFFICES ASSUME NEW j \in OverdueWithoutReceipt, j \notin OverdueWithoutReceipt'
             PROVE  \/ bill'[j].said
                    \/ term' # NoDay /\ bill'[j].due = bill'[j].issued + term'
  BY DEF KeepsLate
<1>1. /\ j \in Bills /\ bill[j] # NoDay /\ row # NoDay
      /\ bill[j].due # NoDay /\ bill[j].due < today
      /\ ~InForce(j) /\ (bill[j].said => Annulled(j))
  BY CalendarAssumption DEF OverdueWithoutReceipt, Known, PastDue, HasReceipt
<1>2. InForce(j)' = InForce(j) /\ Annulled(j)' = Annulled(j)
  BY DEF InForce, Annulled
<1>3. CASE j # i
  <2>1. bill'[j] = bill[j]
    BY <1>1, <1>3 DEF CalendarInv
  <2> QED
    BY <1>1, <1>2, <2>1 DEF OverdueWithoutReceipt, Known, PastDue, HasReceipt
<1>4. CASE j = i
  <2>1. bill'[j] = row
    BY <1>1, <1>4 DEF CalendarInv
  <2> QED
    BY <1>1, <1>2, <1>4, <2>1 DEF OverdueWithoutReceipt, Known, PastDue, HasReceipt
<1> QED
  BY <1>3, <1>4

-----------------------------------------------------------------------------
(* What the portal and the screens write of one invoice.                      *)

KeptRow == CalendarInv' /\ KeepsRescheduled /\ KeepsLate

LEMMA RegisterKeeps ==
  ASSUME CalendarInv, NEW i \in Bills, NEW issued \in Days, NEW column \in Days \cup {NoDay},
         NEW known \in BOOLEAN, RegisterBill(i, issued, column, known)
  PROVE  KeptRow
<1> DEFINE t == IF known THEN term ELSE NoDay
           due == DueDateFor(issued, t, column)
           row == BillRow(issued, due, known, FALSE)
<1>1. issued \in Nat /\ column \in Nat \cup {NoDay} /\ t \in Terms \cup {NoDay}
  BY CalendarAssumption DEF Days, CalendarInv
<1>2. due \in Nat \cup {NoDay}
  BY <1>1, DueIsADay
<1>3. /\ bill[i] = NoDay
      /\ bill' = [bill EXCEPT ![i] = row]
      /\ entry' = [entry EXCEPT ![i] = Synced(entry[i], due)]
      /\ UNCHANGED <<today, term, moves, receipts, incidents, redating, crossed>>
  BY DEF RegisterBill
<1> HIDE DEF due
<1>4. row \in BillRows /\ row # NoDay
  <2>1. row \in BillRows
    BY <1>1, <1>2 DEF BillRow, BillRows
  <2> QED
    BY <2>1, CalendarAssumption
<1>5. i \notin OverdueWithoutReceipt /\ i \notin Known /\ entry[i] = NoDay
  BY <1>3 DEF OverdueWithoutReceipt, Known, CalendarInv
<1> HIDE DEF row
<1>6. Synced(entry[i], due) \in EntryRows \cup {NoDay}
  BY <1>2, <1>5, SyncedRow
<1>7. bill' \in [Bills -> BillRows \cup {NoDay}]
  BY <1>3, <1>4 DEF CalendarInv
<1>8. entry' \in [Bills \cup Notes -> EntryRows \cup {NoDay}]
  BY <1>3, <1>6 DEF CalendarInv
<1>9. /\ \A j \in Bills : entry'[j] # NoDay => bill'[j] # NoDay
      /\ Known \subseteq Known' /\ \A j \in Known : entry'[j] = entry[j]
  BY <1>3, <1>4, <1>5 DEF CalendarInv, Known
<1>10. InHand'
  BY <1>3, <1>9, HandIsKept
<1>11. CalendarInv'
  BY <1>3, <1>7, <1>8, <1>9, <1>10 DEF CalendarInv, InHand
<1>12. KeepsRescheduled
  BY <1>3, <1>5 DEF CalendarInv, KeepsRescheduled, Entered
<1>13. KeepsLate
  BY <1>3, <1>4, <1>5, OtherBillsStayLate
<1> QED
  BY <1>11, <1>12, <1>13 DEF KeptRow

LEMMA PortalSaysKeeps ==
  ASSUME CalendarInv, NEW i \in Bills, NEW said \in BOOLEAN, PortalSays(i, said)
  PROVE  KeptRow
<1> DEFINE row == [bill[i] EXCEPT !.said = said]
<1>1. /\ bill[i] # NoDay /\ bill' = [bill EXCEPT ![i] = row]
      /\ UNCHANGED <<today, term, entry, moves, receipts, incidents, redating, crossed>>
  BY DEF PortalSays, Known
<1>2. bill[i] \in BillRows
  BY <1>1 DEF CalendarInv
<1>3. row \in BillRows /\ row.due = bill[i].due /\ row.said = said
  BY <1>2 DEF BillRows
<1>4. row # NoDay
  BY <1>3, CalendarAssumption
<1> HIDE DEF row
<1>5. CalendarInv'
  <2>1. bill' \in [Bills -> BillRows \cup {NoDay}]
    BY <1>1, <1>3 DEF CalendarInv
  <2>2. \A j \in Bills : entry'[j] # NoDay => bill'[j] # NoDay
    BY <1>1, <1>4 DEF CalendarInv
  <2>3. InHand'
    <3>1. Known \subseteq Known'
      BY <1>1, <1>4 DEF CalendarInv, Known
    <3> QED
      BY <1>1, <3>1, HandIsKept
  <2> QED
    BY <1>1, <2>1, <2>2, <2>3 DEF CalendarInv, InHand
<1>6. KeepsRescheduled
  BY <1>1 DEF KeepsRescheduled
<1>7. KeepsLate
  BY <1>1, <1>3, OtherBillsStayLate
<1> QED
  BY <1>5, <1>6, <1>7 DEF KeptRow

-----------------------------------------------------------------------------
(* A transaction reads what it will work the dates out of.                    *)

LEMMA UntouchedBillsStayLate ==
  ASSUME CalendarInv, bill' = bill, receipts' = receipts, today' \in {today, today + 1}
  PROVE  KeepsLate
<1> SUFFICES ASSUME NEW j \in OverdueWithoutReceipt PROVE j \in OverdueWithoutReceipt'
  BY DEF KeepsLate
<1>1. /\ j \in Bills /\ bill[j] # NoDay /\ bill[j].due # NoDay /\ bill[j].due < today
      /\ bill[j] \in BillRows
  BY DEF OverdueWithoutReceipt, Known, PastDue, CalendarInv
<1>2. bill[j].due \in Nat
  BY <1>1 DEF BillRows
<1>3. bill[j].due < today'
  BY <1>1, <1>2 DEF CalendarInv
<1> QED
  BY <1>1, <1>3 DEF OverdueWithoutReceipt, Known, PastDue, HasReceipt, InForce, Annulled

WellRedated(i, row, issued, due) ==
    /\ row \in RedatedRows /\ row.due = due /\ row.issued = issued
    /\ row.moved => due # bill[i].due
    /\ row.entered => due # NoDay /\ (entry[i] # NoDay => ~WasRescheduled(i))

LEMMA RedatedRow ==
  ASSUME CalendarInv, NEW i \in Known, NEW issued \in Nat, NEW due \in Nat \cup {NoDay},
         NEW identified \in BOOLEAN
  PROVE  WellRedated(i, Redated(i, issued, due, identified), issued, due)
<1> DEFINE late == due # bill[i].due
           follows == Synced(entry[i], due) # entry[i]
           row == [issued |-> issued, due |-> due, identified |-> identified,
                   moved |-> late, entered |-> follows]
<1>1. entry[i] \in EntryRows \cup {NoDay}
  BY DEF Known, CalendarInv
<1>2. follows => due # NoDay /\ (entry[i] # NoDay => ~WasRescheduled(i))
  BY <1>1, SyncedRow DEF Synced, WasRescheduled
<1>3. late \in BOOLEAN /\ follows \in BOOLEAN /\ (late => due # bill[i].due)
  OBVIOUS
<1>4. Redated(i, issued, due, identified) = row
  BY DEF Redated
<1> HIDE DEF late, follows
<1>5. /\ row \in RedatedRows /\ row.due = due /\ row.issued = issued
      /\ row.moved = late /\ row.entered = follows
  BY <1>3 DEF RedatedRows
<1> HIDE DEF row
<1> QED
  BY <1>2, <1>3, <1>4, <1>5 DEF WellRedated

LEMMA BeginningKeeps ==
  ASSUME CalendarInv, NEW t, NEW rows, Begins(t, rows), WritesWhatItRead(t, rows)
  PROVE  KeptRow
<1>1. /\ redating' = [term |-> t, rows |-> rows]
      /\ UNCHANGED <<today, term, bill, entry, crossed, moves, receipts, incidents>>
  BY DEF Begins
<1>2. redating'.term = t /\ redating'.rows = rows
  BY <1>1
<1>3. WritesWhatItRead(redating'.term, redating'.rows)
  BY <1>2
<1>4. InHand'
  BY <1>1, <1>3 DEF InHand, WritesWhatItRead, Known, WasRescheduled
<1>5. CalendarInv'
  BY <1>1, <1>4 DEF CalendarInv, InHand
<1>6. KeepsRescheduled
  BY <1>1 DEF KeepsRescheduled
<1> QED
  BY <1>1, <1>5, <1>6, UntouchedBillsStayLate DEF KeptRow

LEMMA TermKeeps ==
  ASSUME CalendarInv, NEW t \in Terms, TermBecomes(t)
  PROVE  KeptRow
<1> DEFINE row(i) == Redated(i, bill[i].issued, bill[i].issued + t, TRUE)
           rows == [i \in Refreshed(t) |-> row(i)]
<1>1. Begins(t, rows)
  BY DEF TermBecomes
<1>2. t \in Nat /\ t # NoDay
  BY CalendarAssumption
<1>3. ASSUME NEW i \in Refreshed(t)
      PROVE  /\ i \in Known
             /\ row(i) \in RedatedRows
             /\ row(i).due = row(i).issued + t
             /\ row(i).entered => /\ row(i).due # NoDay
                                  /\ entry[i] # NoDay => ~WasRescheduled(i)
  <2>1. i \in Known /\ bill[i] \in BillRows
    BY DEF Refreshed, Known, CalendarInv
  <2>2. bill[i].issued \in Nat /\ bill[i].issued + t \in Nat
    BY <1>2, <2>1 DEF BillRows
  <2>3. WellRedated(i, row(i), bill[i].issued, bill[i].issued + t)
    BY <2>1, <2>2, RedatedRow
  <2> HIDE DEF row
  <2> QED
    BY <2>1, <2>3 DEF WellRedated
<1> HIDE DEF row
<1>4. DOMAIN rows \subseteq Known /\ \A i \in DOMAIN rows : i \in Refreshed(t) /\ rows[i] = row(i)
  BY <1>3
<1> HIDE DEF rows
<1>5. WritesWhatItRead(t, rows)
  BY <1>2, <1>3, <1>4 DEF WritesWhatItRead
<1> QED
  BY <1>1, <1>5, BeginningKeeps

\* Whose it is, or its date: its due date is its own, or issue plus term.
LEMMA RedatingKeeps ==
  ASSUME CalendarInv, NEW i \in Known, NEW issued \in Nat, NEW identified \in BOOLEAN,
         NEW t \in {term, NoDay}, NEW due, due = DueDateFor(issued, t, bill[i].due),
         Begins(NoDay, [j \in {i} |-> Redated(i, issued, due, identified)])
  PROVE  KeptRow
<1> DEFINE row == Redated(i, issued, due, identified)
           rows == [j \in {i} |-> row]
<1>1. bill[i] \in BillRows /\ t \in Terms \cup {NoDay} /\ Begins(NoDay, rows)
  BY DEF Known, CalendarInv
<1>2. bill[i].due \in Nat \cup {NoDay}
  BY <1>1 DEF BillRows
<1>3. /\ due \in Nat \cup {NoDay}
      /\ \/ t # NoDay /\ due = issued + t
         \/ due = bill[i].due
  BY <1>1, <1>2, DueIsADay
<1>4. /\ row \in RedatedRows /\ row.due = due /\ row.issued = issued
      /\ row.moved => due # bill[i].due
      /\ row.entered => due # NoDay /\ (entry[i] # NoDay => ~WasRescheduled(i))
  <2>1. WellRedated(i, row, issued, due)
    BY <1>3, RedatedRow
  <2> HIDE DEF row
  <2> QED
    BY <2>1 DEF WellRedated
<1> HIDE DEF row
<1>5. DOMAIN rows = {i} /\ rows[i] = row
  OBVIOUS
<1> HIDE DEF rows
<1>6. row.moved => \E u \in {term} \ {NoDay} : row.due = row.issued + u
  BY <1>3, <1>4
<1>7. WritesWhatItRead(NoDay, rows)
  BY <1>4, <1>5, <1>6 DEF WritesWhatItRead
<1> QED
  BY <1>1, <1>7, BeginningKeeps

LEMMA IdentifyKeeps ==
  ASSUME CalendarInv, NEW i \in Bills, Identify(i)
  PROVE  KeptRow
<1> DEFINE due == DueDateFor(bill[i].issued, term, bill[i].due)
<1>1. i \in Known /\ Begins(NoDay, [j \in {i} |-> Redated(i, bill[i].issued, due, TRUE)])
  BY DEF Identify
<1>2. bill[i].issued \in Nat
  BY <1>1 DEF Known, CalendarInv, BillRows
<1> QED
  BY <1>1, <1>2, RedatingKeeps

LEMMA CorrectIssuedKeeps ==
  ASSUME CalendarInv, NEW i \in Bills, NEW issued \in Days, CorrectIssued(i, issued)
  PROVE  KeptRow
<1> DEFINE t == IF bill[i].identified THEN term ELSE NoDay
           due == DueDateFor(issued, t, bill[i].due)
<1>1. /\ i \in Known
      /\ Begins(NoDay, [j \in {i} |-> Redated(i, issued, due, bill[i].identified)])
  BY DEF CorrectIssued
<1>2. bill[i].identified \in BOOLEAN /\ t \in {term, NoDay} /\ issued \in Nat
  BY <1>1, CalendarAssumption DEF Known, CalendarInv, BillRows, Days
<1> HIDE DEF t
<1> QED
  BY <1>1, <1>2, RedatingKeeps

-----------------------------------------------------------------------------
(* It writes them: the term, the invoices and their entries.                  *)

LEMMA WriteDatesKeeps ==
  ASSUME CalendarInv, WriteDates
  PROVE  KeptRow
<1> DEFINE t == redating.term
           rows == redating.rows
           due(i) == IF rows[i].moved THEN rows[i].due ELSE bill[i].due
           row(i) == BillRow(rows[i].issued, due(i), rows[i].identified, bill[i].said)
<1>1. /\ redating # NoDay /\ redating' = NoDay
      /\ term' = IF t = NoDay THEN term ELSE t
      /\ bill' = [i \in Bills |-> IF i \in DOMAIN rows THEN row(i) ELSE bill[i]]
      /\ entry' = [e \in Bills \cup Notes |->
                      IF e \in EntriesInHand THEN Entry(rows[e].due) ELSE entry[e]]
      /\ UNCHANGED <<today, crossed, moves, receipts, incidents>>
  BY DEF WriteDates
<1>2. WritesWhatItRead(t, rows)
  BY <1>1 DEF CalendarInv
<1>3. \A e \in EntriesInHand : e \in DOMAIN rows /\ rows[e].entered
  BY DEF EntriesInHand
<1> HIDE DEF t, rows
<1>4. ASSUME NEW i \in DOMAIN rows
      PROVE  /\ i \in Known /\ i \in Bills /\ bill[i] # NoDay
             /\ bill[i] \in BillRows /\ rows[i] \in RedatedRows
  BY <1>2 DEF WritesWhatItRead, Known, CalendarInv
<1>5. ASSUME NEW i \in DOMAIN rows
      PROVE  /\ row(i) \in BillRows
             /\ row(i).said = bill[i].said
             /\ ~rows[i].moved => row(i).due = bill[i].due
             /\ rows[i].moved => term' # NoDay /\ row(i).due = row(i).issued + term'
  <2>1. due(i) \in Nat \cup {NoDay}
    BY <1>4 DEF BillRows, RedatedRows
  <2>2. rows[i].moved => term' # NoDay /\ due(i) = rows[i].issued + term'
    BY <1>1, <1>2 DEF WritesWhatItRead
  <2> HIDE DEF due
  <2>3. rows[i].issued \in Nat /\ rows[i].identified \in BOOLEAN /\ bill[i].said \in BOOLEAN
    BY <1>4 DEF BillRows, RedatedRows
  <2>4. /\ row(i) \in BillRows /\ row(i).said = bill[i].said
        /\ row(i).due = due(i) /\ row(i).issued = rows[i].issued
    BY <2>1, <2>3 DEF BillRow, BillRows
  <2> HIDE DEF row
  <2> QED
    BY <2>2, <2>4 DEF due
<1> HIDE DEF row
<1>6. ASSUME NEW i \in Bills
      PROVE  bill'[i] = IF i \in DOMAIN rows THEN row(i) ELSE bill[i]
  BY <1>1
<1>7. bill' \in [Bills -> BillRows \cup {NoDay}]
  BY <1>1, <1>5 DEF CalendarInv
<1>8. ASSUME NEW e \in EntriesInHand
      PROVE  /\ Entry(rows[e].due) \in EntryRows
             /\ entry[e] # NoDay /\ WasRescheduled(e) => e \in crossed
  <2>1. e \in DOMAIN rows /\ rows[e].entered
    BY <1>3
  <2>2. /\ rows[e].due # NoDay
        /\ entry[e] # NoDay /\ WasRescheduled(e) => e \in crossed
    BY <1>2, <2>1 DEF WritesWhatItRead
  <2>3. rows[e].due \in Nat
    BY <1>4, <2>1, <2>2 DEF RedatedRows
  <2> QED
    BY <2>2, <2>3 DEF Entry, EntryRows
<1>9. entry' \in [Bills \cup Notes -> EntryRows \cup {NoDay}]
  BY <1>1, <1>8 DEF CalendarInv
<1>10. ASSUME NEW i \in Bills, entry'[i] # NoDay PROVE bill'[i] # NoDay
  <2>1. CASE i \in DOMAIN rows
    BY <1>5, <1>6, <2>1, CalendarAssumption
  <2>2. CASE i \notin DOMAIN rows
    BY <1>1, <1>3, <1>6, <1>10, <2>2 DEF CalendarInv
  <2> QED
    BY <2>1, <2>2
<1>11. term' \in Terms \cup {NoDay}
  BY <1>1, <1>2 DEF WritesWhatItRead, CalendarInv
<1>12. CalendarInv'
  BY <1>1, <1>7, <1>9, <1>10, <1>11 DEF CalendarInv
<1>13. KeepsRescheduled
  BY <1>1, <1>8 DEF KeepsRescheduled, Entered
<1>14. KeepsLate
  <2> SUFFICES ASSUME NEW j \in OverdueWithoutReceipt, j \notin OverdueWithoutReceipt'
               PROVE  \/ bill'[j].said
                      \/ term' # NoDay /\ bill'[j].due = bill'[j].issued + term'
    BY DEF KeepsLate
  <2>1. /\ j \in Bills /\ bill[j] # NoDay /\ PastDue(j) /\ ~HasReceipt(j)
    BY DEF OverdueWithoutReceipt, Known
  <2>2. CASE j \in DOMAIN rows /\ rows[j].moved
    BY <1>5, <1>6, <2>1, <2>2
  <2>3. CASE ~(j \in DOMAIN rows /\ rows[j].moved)
    <3>1. bill'[j] # NoDay /\ bill'[j].due = bill[j].due /\ bill'[j].said = bill[j].said
      BY <1>5, <1>6, <2>1, <2>3, CalendarAssumption
    <3> QED
      BY <1>1, <2>1, <3>1 DEF OverdueWithoutReceipt, Known, PastDue, HasReceipt, InForce, Annulled
  <2> QED
    BY <2>2, <2>3
<1> QED
  BY <1>12, <1>13, <1>14 DEF KeptRow

-----------------------------------------------------------------------------
(* The calendar.                                                              *)

LEMMA AddDueDateKeeps ==
  ASSUME CalendarInv, NEW n \in Notes, NEW day \in Days, AddDueDate(n, day)
  PROVE  KeptRow
<1>1. /\ entry[n] = NoDay /\ entry' = [entry EXCEPT ![n] = Entry(day)]
      /\ UNCHANGED <<today, term, bill, moves, receipts, incidents, redating, crossed>>
  BY DEF AddDueDate
<1>2. Entry(day) \in EntryRows /\ n \notin Bills
  BY CalendarAssumption DEF Days, Entry, EntryRows
<1>3. InHand'
  BY <1>1, <1>2, HandIsKept DEF Known, CalendarInv
<1>4. CalendarInv'
  BY <1>1, <1>2, <1>3 DEF CalendarInv, InHand
<1>5. KeepsRescheduled
  BY <1>1 DEF KeepsRescheduled, Entered, CalendarInv
<1> QED
  BY <1>1, <1>4, <1>5, UntouchedBillsStayLate DEF KeptRow

LEMMA RemoveDueDateKeeps ==
  ASSUME CalendarInv, NEW n \in Notes, RemoveDueDate(n)
  PROVE  KeptRow
<1>1. /\ entry' = [entry EXCEPT ![n] = NoDay]
      /\ UNCHANGED <<today, term, bill, moves, receipts, incidents, redating, crossed>>
  BY DEF RemoveDueDate
<1>2. InHand'
  BY <1>1, CalendarAssumption, HandIsKept DEF Known, CalendarInv
<1>3. CalendarInv'
  BY <1>1, <1>2 DEF CalendarInv, InHand
<1>4. KeepsRescheduled
  BY <1>1 DEF KeepsRescheduled, Entered, CalendarInv
<1> QED
  BY <1>1, <1>3, <1>4, UntouchedBillsStayLate DEF KeptRow

\* Of an invoice that fell due, only the entry moves.
LEMMA MoveDueDateKeeps ==
  ASSUME CalendarInv, NEW e \in Entered, NEW day \in Days, NEW confirm \in BOOLEAN,
         MoveDueDate(e, day, confirm)
  PROVE  KeptRow
<1> DEFINE row == RescheduledBill(e, day)
           moved == [entry[e] EXCEPT !.on = day]
<1>1. /\ entry' = [entry EXCEPT ![e] = moved]
      /\ bill' = IF e \in Notes THEN bill ELSE [bill EXCEPT ![e] = row]
      /\ moves' = moves + 1 /\ moves \in Nat
      /\ crossed' = IF e \in EntriesInHand THEN crossed \cup {e} ELSE crossed \ {e}
      /\ UNCHANGED <<today, term, receipts, incidents, redating>>
  BY DEF MoveDueDate, CalendarInv
<1>2. day \in Nat /\ e \in Bills \cup Notes /\ entry[e] # NoDay /\ entry[e] \in EntryRows
  BY CalendarAssumption DEF Days, Entered, CalendarInv
<1>3. moved \in EntryRows /\ moved # NoDay
  BY <1>2, CalendarAssumption DEF EntryRows
<1> HIDE DEF moved
<1>4. e \notin Notes => e \in Bills /\ bill[e] # NoDay /\ bill[e] \in BillRows
  BY <1>2 DEF CalendarInv
<1>5. e \notin Notes => row \in BillRows /\ row.said = bill[e].said
  BY <1>2, <1>4 DEF RescheduledBill, BillRows
<1>6. e \notin Notes /\ e \in OverdueWithoutReceipt => row.due = bill[e].due
  BY DEF OverdueWithoutReceipt, PastDue, RescheduledBill
<1> HIDE DEF row
<1>7. CalendarInv'
  <2>1. bill' \in [Bills -> BillRows \cup {NoDay}]
    BY <1>1, <1>5 DEF CalendarInv
  <2>2. entry' \in [Bills \cup Notes -> EntryRows \cup {NoDay}]
    BY <1>1, <1>3 DEF CalendarInv
  <2>3. ASSUME NEW i \in Bills, entry'[i] # NoDay PROVE bill'[i] # NoDay
    <3>1. CASE i = e
      BY <1>1, <1>4, <1>5, <3>1, CalendarAssumption DEF CalendarInv
    <3>2. CASE i # e
      BY <1>1, <2>3, <3>2 DEF CalendarInv
    <3> QED
      BY <3>1, <3>2
  <2>4. Known \subseteq Known'
    BY <1>1, <1>4, <1>5, CalendarAssumption DEF Known, CalendarInv
  <2>5. \A i \in Known : i # e => entry'[i] = entry[i]
    BY <1>1 DEF Known, CalendarInv
  <2>6. InHand'
    BY <1>1, <2>4, <2>5, HandIsKept
  <2>7. crossed' \subseteq Bills \cup Notes
    BY <1>1, <1>2 DEF CalendarInv
  <2> QED
    BY <1>1, <2>1, <2>2, <2>3, <2>6, <2>7 DEF CalendarInv, InHand
<1>8. KeepsRescheduled
  BY <1>1 DEF KeepsRescheduled
<1>9. KeepsLate
  <2>1. CASE e \in Notes
    BY <1>1, <2>1, UntouchedBillsStayLate
  <2>2. CASE e \notin Notes
    BY <1>1, <1>4, <1>5, <1>6, <2>2, OtherBillsStayLate
  <2> QED
    BY <2>1, <2>2
<1> QED
  BY <1>7, <1>8, <1>9 DEF KeptRow

-----------------------------------------------------------------------------
(* Receipts.                                                                  *)

ReceiptRow == [bill : Bills, voided : BOOLEAN]

LEMMA IssueReceiptKeeps ==
  ASSUME CalendarInv, NEW i \in Bills, IssueReceipt(i)
  PROVE  KeptRow
<1> DEFINE row == [bill |-> i, voided |-> FALSE]
<1>1. /\ ~PastDue(i) /\ receipts' = Append(receipts, row)
      /\ UNCHANGED <<today, term, bill, entry, moves, incidents, redating, crossed>>
  BY DEF IssueReceipt
<1>2. receipts \in Seq(ReceiptRow) /\ row \in ReceiptRow
  BY DEF CalendarInv, ReceiptRow
<1>3. /\ receipts' \in Seq(ReceiptRow)
      /\ DOMAIN receipts' = DOMAIN receipts \cup {Len(receipts) + 1}
      /\ \A k \in DOMAIN receipts : receipts'[k] = receipts[k]
      /\ receipts'[Len(receipts) + 1] = row
  BY <1>1, <1>2
<1>4. CalendarInv'
  <2>1. InHand'
    BY <1>1, HandIsKept DEF Known
  <2> QED
    BY <1>1, <1>3, <2>1 DEF CalendarInv, ReceiptRow, InHand
<1>5. KeepsRescheduled
  BY <1>1 DEF KeepsRescheduled
<1>6. KeepsLate
  <2> SUFFICES ASSUME NEW j \in OverdueWithoutReceipt PROVE j \in OverdueWithoutReceipt'
    BY DEF KeepsLate
  <2>1. j # i /\ PastDue(j) /\ j \in Known /\ ~HasReceipt(j)
    BY <1>1 DEF OverdueWithoutReceipt
  <2>2. ~InForce(j)' /\ (Annulled(j) => Annulled(j)')
    BY <1>3, <2>1 DEF HasReceipt, InForce, Annulled
  <2> QED
    BY <1>1, <2>1, <2>2 DEF OverdueWithoutReceipt, Known, PastDue, HasReceipt
<1> QED
  BY <1>4, <1>5, <1>6 DEF KeptRow

LEMMA VoidReceiptKeeps ==
  ASSUME CalendarInv, NEW k \in DOMAIN receipts, VoidReceipt(k)
  PROVE  KeptRow
<1> DEFINE row == [receipts[k] EXCEPT !.voided = TRUE]
<1>1. /\ receipts' = [receipts EXCEPT ![k] = row]
      /\ incidents' = incidents \cup {i \in {receipts[k].bill} : PastDue(i)}
      /\ UNCHANGED <<today, term, bill, entry, moves, redating, crossed>>
  BY DEF VoidReceipt
<1>2. receipts \in Seq(ReceiptRow) /\ receipts[k] \in ReceiptRow
  <2>1. receipts \in Seq(ReceiptRow)
    BY DEF CalendarInv, ReceiptRow
  <2> QED
    BY <2>1
<1>3. row \in ReceiptRow /\ row.bill = receipts[k].bill /\ row.voided
  BY <1>2 DEF ReceiptRow
<1> HIDE DEF row
<1>4. /\ receipts' \in Seq(ReceiptRow) /\ DOMAIN receipts' = DOMAIN receipts
      /\ \A n \in DOMAIN receipts : receipts'[n] = IF n = k THEN row ELSE receipts[n]
  BY <1>1, <1>2, <1>3
<1>5. receipts[k].bill \in Bills
  BY <1>2 DEF ReceiptRow
<1>6. CalendarInv'
  <2>1. InHand'
    BY <1>1, HandIsKept DEF Known
  <2> QED
    BY <1>1, <1>4, <1>5, <2>1 DEF CalendarInv, ReceiptRow, InHand
<1>7. KeepsRescheduled
  BY <1>1 DEF KeepsRescheduled
<1>8. KeepsLate
  <2> SUFFICES ASSUME NEW j \in OverdueWithoutReceipt PROVE j \in OverdueWithoutReceipt'
    BY DEF KeepsLate
  <2>1. PastDue(j) /\ j \in Known /\ ~HasReceipt(j)
    BY DEF OverdueWithoutReceipt
  <2>2. ~InForce(j)' /\ (Annulled(j) => Annulled(j)')
    BY <1>3, <1>4, <2>1 DEF HasReceipt, InForce, Annulled
  <2> QED
    BY <1>1, <2>1, <2>2 DEF OverdueWithoutReceipt, Known, PastDue, HasReceipt
<1> QED
  BY <1>6, <1>7, <1>8 DEF KeptRow

\* Incidents, the days that pass, and no step at all.
LEMMA IncidentsKeep ==
  ASSUME CalendarInv, incidents' \subseteq Bills,
         today' \in {today, today + 1},
         UNCHANGED <<term, bill, entry, moves, receipts, redating, crossed>>
  PROVE  KeptRow
<1>1. today \in Nat /\ today' \in Nat
  BY DEF CalendarInv
<1>2. CalendarInv'
  <2>1. InHand'
    BY HandIsKept DEF Known
  <2> QED
    BY <1>1, <2>1 DEF CalendarInv, InHand
<1>3. KeepsRescheduled
  BY DEF KeepsRescheduled
<1>4. KeepsLate
  BY <1>1, UntouchedBillsStayLate
<1> QED
  BY <1>2, <1>3, <1>4 DEF KeptRow

-----------------------------------------------------------------------------
LEMMA CalendarStarts == CalendarInit => CalendarInv
<1> SUFFICES ASSUME CalendarInit PROVE CalendarInv
  OBVIOUS
<1>1. /\ bill = [i \in Bills |-> NoDay] /\ entry = [e \in Bills \cup Notes |-> NoDay]
      /\ redating = NoDay /\ crossed = {}
      /\ today = 0 /\ term = NoDay /\ moves = 0 /\ receipts = <<>> /\ incidents = {}
  BY DEF CalendarInit
<1>2. receipts \in Seq([bill : Bills, voided : BOOLEAN])
  BY <1>1
<1> QED
  BY <1>1, <1>2 DEF CalendarInv

LEMMA CalendarSteps == CalendarInv /\ [CalendarNext]_calendarVars => KeptRow
<1> SUFFICES ASSUME CalendarInv, [CalendarNext]_calendarVars PROVE KeptRow
  OBVIOUS
<1>1. CASE PurchasingScreen
  <2>1. ASSUME NEW i \in Bills, CloseIncident(i) PROVE KeptRow
    BY <2>1, IncidentsKeep DEF CloseIncident, CalendarInv
  <2> QED
    BY <1>1, <2>1, IssueReceiptKeeps, IdentifyKeeps, CorrectIssuedKeeps, VoidReceiptKeeps
       DEF PurchasingScreen
<1>2. CASE CalendarScreen
  BY <1>2, AddDueDateKeeps, RemoveDueDateKeeps, MoveDueDateKeeps DEF CalendarScreen
<1>3. CASE PortalRead
  BY <1>3, RegisterKeeps, PortalSaysKeeps, TermKeeps DEF PortalRead
<1>4. CASE OpenIncidentsForOverdue
  BY <1>4, IncidentsKeep DEF OpenIncidentsForOverdue, CalendarInv, OverdueWithoutReceipt, Known
<1>5. CASE NextDay
  BY <1>5, IncidentsKeep DEF NextDay, CalendarInv
<1>6. CASE WriteDates
  BY <1>6, WriteDatesKeeps
<1>7. CASE UNCHANGED calendarVars
  BY <1>7, IncidentsKeep DEF calendarVars, CalendarInv
<1> QED
  BY <1>1, <1>2, <1>3, <1>4, <1>5, <1>6, <1>7 DEF CalendarNext

LEMMA CalendarInvariant == CalendarSpec => []CalendarInv
<1>1. CalendarInv /\ [CalendarNext]_calendarVars => CalendarInv'
  BY CalendarSteps DEF KeptRow
<1> QED
  BY <1>1, CalendarStarts, PTL DEF CalendarSpec

(* The day a person rescheduled an entry to is theirs: no reading, term,       *)
(* supplier or date that is read later moves it, of any number of invoices     *)
(* (_sync_due_date); one that read the entry before the move is the exception. *)
THEOREM RescheduledEntriesStay == CalendarSpec => RescheduledStays
<1>1. CalendarInv /\ [CalendarNext]_calendarVars => [KeepsRescheduled]_calendarVars
  BY CalendarSteps DEF KeptRow
<1> QED
  BY <1>1, CalendarInvariant, PTL DEF CalendarSpec, RescheduledStays

(* No rescheduling takes an invoice off the list of those that fell due         *)
(* without a receipt, whatever the days, terms and receipts (move_due_date,     *)
(* issue_receipt).                                                              *)
THEOREM LateInvoicesStayLate == CalendarSpec => LateStaysLate
<1>1. CalendarInv /\ [CalendarNext]_calendarVars => [KeepsLate]_calendarVars
  BY CalendarSteps DEF KeptRow
<1> QED
  BY <1>1, CalendarInvariant, PTL DEF CalendarSpec, LateStaysLate

-------------------------------------------------------------------------------
(* Orders that repeat an earlier one.                                         *)

Order == [number : OrderNumbers, on : Nat, supplier : Buyers \cup {Nil}, name : Names,
          product : Products \cup {Nil}, amount : Amount \cup {Nil}, status : Statuses \cup {Nil},
          since : Nat, fromStart : BOOLEAN, manual : BOOLEAN,
          review : {"OK", "PENDING", "RESOLVED"}, rejected : Amount \cup {Nil},
          repeatOf : Nat \cup {Nil}]

\* Order e is of the same product and supplier, and was placed in the window before.
Precedes(T, e, on, supplier, product) ==
    /\ e \in DOMAIN T /\ supplier # Nil /\ product # Nil
    /\ T[e].supplier = supplier /\ T[e].product = product
    /\ on - T[e].on \in 0 .. Window

\* A row that waits, or that a person typed, can repeat nothing and be repeated by none:
\* it has no supplier or no product.
RowIsSound(row) ==
    /\ row.review = "PENDING" => row.product = Nil \/ row.supplier = Nil
    /\ row.manual => row.product = Nil
RepeatFits(T, k, row) ==
    row.repeatOf # Nil =>
        row.repeatOf # k /\ Precedes(T, row.repeatOf, row.on, row.supplier, row.product)

Table == {T \in Seq(Order) : \A k \in DOMAIN T : RowIsSound(T[k]) /\ RepeatFits(T, k, T[k])}

OrdersInv ==
    /\ date \in Nat
    /\ orders \in Table
    /\ orderDisputes \in Seq(Amount \cup {Nil})
    /\ Len(orderDisputes) = Len(orders)

LEMMA OrderOf ==
  ASSUME NEW T \in Table
  PROVE  /\ T \in Seq(Order) /\ Len(T) \in Nat /\ DOMAIN T = 1 .. Len(T)
         /\ \A k \in DOMAIN T : T[k] \in Order /\ RowIsSound(T[k]) /\ RepeatFits(T, k, T[k])
<1>1. T \in Seq(Order)
  BY DEF Table
<1>2. Len(T) \in Nat /\ DOMAIN T = 1 .. Len(T) /\ \A k \in DOMAIN T : T[k] \in Order
  BY <1>1
<1> QED
  BY <1>1, <1>2 DEF Table

\* The order that is found is one of the window, of the same product and supplier.
LEMMA EarlierPrecedes ==
  ASSUME NEW T \in Table, NEW supplier, NEW product, NEW on \in Nat,
         EarlierOrderFor(T, supplier, product, on) # Nil
  PROVE  /\ EarlierOrderFor(T, supplier, product, on) \in Nat
         /\ Precedes(T, EarlierOrderFor(T, supplier, product, on), on, supplier, product)
<1> DEFINE found == {k \in DOMAIN T : /\ T[k].supplier = supplier
                                      /\ T[k].product = product
                                      /\ T[k].on \in (on - Window)..on}
           ages == {on - T[k].on : k \in found}
           latest == CHOOSE k \in found : \A o \in found : T[o].on <= T[k].on
<1>1. DOMAIN T = 1 .. Len(T) /\ Len(T) \in Nat /\ \A k \in DOMAIN T : T[k] \in Order
  BY OrderOf
<1>2. \A k \in DOMAIN T : k \in Nat /\ T[k].on \in Nat
  BY <1>1 DEF Order
<1>3. supplier # Nil /\ product # Nil /\ found # {}
      /\ EarlierOrderFor(T, supplier, product, on) = latest
  BY DEF EarlierOrderFor
<1>4. latest \in found
  <2>1. \A k \in found : T[k].on \in Nat /\ T[k].on <= on
    BY <1>2, OrdersAssumption
  <2>2. ages \subseteq Nat /\ ages # {}
    BY <1>3, <2>1
  <2> HIDE DEF ages
  <2>3. PICK age \in ages : \A other \in ages : age <= other
    BY <2>2, FirstOf
  <2>4. \E k \in found : \A o \in found : T[o].on <= T[k].on
    <3> HIDE DEF found
    <3>1. PICK k \in found : age = on - T[k].on
      BY DEF ages
    <3>2. \A o \in found : on - T[k].on <= on - T[o].on
      BY <2>3, <3>1 DEF ages
    <3>3. \A o \in found : T[o].on <= T[k].on
      BY <2>1, <3>2
    <3> QED
      BY <3>3
  <2> HIDE DEF found
  <2> QED
    BY <2>4
<1>5. on - T[latest].on \in 0 .. Window
  <2> DEFINE day == T[latest].on
  <2>1. day \in Nat /\ day \in (on - Window) .. on
    BY <1>2, <1>4
  <2> HIDE DEF day
  <2> QED
    BY <2>1, OrdersAssumption DEF day
<1> HIDE DEF latest
<1> QED
  BY <1>2, <1>3, <1>4, <1>5 DEF Precedes

\* A row that moves, alone: it keeps its product and its day, and its supplier too if it
\* has both.
LEMMA OneRowMoves ==
  ASSUME NEW T \in Table, NEW k \in DOMAIN T, NEW row \in Order,
         row.product = T[k].product, row.on = T[k].on,
         T[k].product = Nil \/ T[k].supplier = Nil \/ T[k].supplier = row.supplier,
         RowIsSound(row), RepeatFits(T, k, row)
  PROVE  /\ [T EXCEPT ![k] = row] \in Table
         /\ Len([T EXCEPT ![k] = row]) = Len(T)
<1> DEFINE U == [T EXCEPT ![k] = row]
<1>1. T \in Seq(Order)
  BY OrderOf
<1>2. U \in Seq(Order) /\ Len(U) = Len(T) /\ DOMAIN U = DOMAIN T
      /\ U[k] = row /\ \A o \in DOMAIN T : o # k => U[o] = T[o]
  BY <1>1
<1> HIDE DEF U
<1>3. \A e \in DOMAIN T : \A on, s, p : Precedes(T, e, on, s, p) => Precedes(U, e, on, s, p)
  BY <1>2 DEF Precedes
<1>4. \A o \in DOMAIN T : RowIsSound(U[o]) /\ RepeatFits(U, o, U[o])
  BY SMTT(30), <1>2, <1>3, OrderOf DEF RepeatFits, Precedes
<1>5. U \in Table
  BY <1>2, <1>4 DEF Table
<1> QED
  BY <1>2, <1>5 DEF U

LEMMA OneMoreOrder ==
  ASSUME NEW T \in Table, NEW row \in Order, RowIsSound(row),
         row.repeatOf # Nil => Precedes(T, row.repeatOf, row.on, row.supplier, row.product)
  PROVE  Append(T, row) \in Table /\ Len(Append(T, row)) = Len(T) + 1
<1> DEFINE U == Append(T, row)
<1>1. T \in Seq(Order) /\ Len(T) \in Nat /\ DOMAIN T = 1 .. Len(T)
  BY OrderOf
<1>2. /\ U \in Seq(Order) /\ Len(U) = Len(T) + 1 /\ DOMAIN U = DOMAIN T \cup {Len(T) + 1}
      /\ Len(T) + 1 \notin DOMAIN T
      /\ U[Len(T) + 1] = row /\ \A o \in DOMAIN T : U[o] = T[o]
  BY <1>1, AppendProperties
<1> HIDE DEF U
<1>3. \A e \in DOMAIN T : \A on, s, p : Precedes(T, e, on, s, p) => Precedes(U, e, on, s, p)
  BY <1>2 DEF Precedes
<1>4. \A o \in DOMAIN T : RowIsSound(U[o]) /\ RepeatFits(U, o, U[o])
  BY <1>2, <1>3, OrderOf DEF RepeatFits, Precedes
<1>5. RowIsSound(row) /\ RepeatFits(U, Len(T) + 1, row)
  BY <1>2, <1>3 DEF RepeatFits, Precedes
<1>6. U \in Table
  BY <1>2, <1>4, <1>5 DEF Table
<1> QED
  BY <1>2, <1>6 DEF U

\* An order given a supplier it can have is compared with the earlier ones, and no other
\* order is said to repeat it.
LEMMA AttachKeeps ==
  ASSUME NEW T \in Table, NEW k \in DOMAIN T, NEW supplier \in Buyers,
         T[k].product = Nil \/ T[k].supplier \in {Nil, supplier}
  PROVE  /\ AttachedOrder(T, k, supplier) \in Table
         /\ Len(AttachedOrder(T, k, supplier)) = Len(T)
         /\ \A o \in DOMAIN T :
              AttachedOrder(T, k, supplier)[o].product = T[o].product
              /\ AttachedOrder(T, k, supplier)[o].supplier
                    = IF o = k THEN supplier ELSE T[o].supplier
<1> DEFINE earlier == EarlierOrderFor(T, supplier, T[k].product, T[k].on)
           row == [OrderSettled(T[k]) EXCEPT !.supplier = supplier,
                      !.repeatOf = IF earlier \in {Nil, k} THEN T[k].repeatOf ELSE earlier]
<1>1. T[k] \in Order /\ RowIsSound(T[k]) /\ RepeatFits(T, k, T[k]) /\ T \in Seq(Order)
  BY OrderOf
<1>2. T[k].on \in Nat /\ T[k].repeatOf \in Nat \cup {Nil}
  BY <1>1 DEF Order
<1>3. earlier # Nil => earlier \in Nat /\ Precedes(T, earlier, T[k].on, supplier, T[k].product)
  BY <1>2, EarlierPrecedes
<1> HIDE DEF earlier
<1>4. /\ row \in Order /\ row.product = T[k].product /\ row.on = T[k].on
      /\ row.supplier = supplier /\ row.review = "RESOLVED" /\ row.manual = T[k].manual
      /\ row.repeatOf = IF earlier \in {Nil, k} THEN T[k].repeatOf ELSE earlier
  BY ZenonT(40), <1>1, <1>2, <1>3 DEF Order, OrderSettled
<1> HIDE DEF row
<1>5. RowIsSound(row)
  BY <1>1, <1>4 DEF RowIsSound
<1>6. RepeatFits(T, k, row)
  <2>1. CASE earlier \in {Nil, k}
    BY <1>1, <1>4, <2>1 DEF RepeatFits, Precedes
  <2>2. CASE earlier \notin {Nil, k}
    BY <1>3, <1>4, <2>2 DEF RepeatFits
  <2> QED
    BY <2>1, <2>2
<1>7. T[k].product = Nil \/ T[k].supplier = Nil \/ T[k].supplier = row.supplier
  BY <1>4
<1>8. AttachedOrder(T, k, supplier) = [T EXCEPT ![k] = row]
  BY <1>1 DEF AttachedOrder, earlier, row
<1>9. \A o \in DOMAIN T : [T EXCEPT ![k] = row][o] = IF o = k THEN row ELSE T[o]
  BY <1>1
<1>10. [T EXCEPT ![k] = row] \in Table /\ Len([T EXCEPT ![k] = row]) = Len(T)
  BY <1>4, <1>5, <1>6, <1>7, OneRowMoves
<1> DEFINE U == [T EXCEPT ![k] = row]
<1>11. AttachedOrder(T, k, supplier) = U /\ \A o \in DOMAIN T : U[o] = IF o = k THEN row ELSE T[o]
  BY <1>8, <1>9
<1>12. U \in Table /\ Len(U) = Len(T)
  BY <1>10
<1> HIDE DEF U
<1>13. \A o \in DOMAIN T :
          U[o].product = T[o].product /\ U[o].supplier = IF o = k THEN supplier ELSE T[o].supplier
  BY <1>4, <1>11
<1> QED
  BY <1>11, <1>12, <1>13

\* Whose supplier the orders S are given.
Free(T, S, supplier) ==
    \A k \in S : k \in DOMAIN T /\ (T[k].product = Nil \/ T[k].supplier \in {Nil, supplier})

LEMMA AliasKeeps ==
  ASSUME NEW T \in Table, NEW name, NEW supplier \in Buyers
  PROVE  ApplyAlias(T, name, supplier) \in Table /\ Len(ApplyAlias(T, name, supplier)) = Len(T)
<1> DEFINE S == HeldUnder(T, name)
           V == {U \in Table : Len(U) = Len(T) /\ Free(U, S, supplier)}
           pick == [s \in SUBSET S |-> Earliest(T, s)]
           step == [p \in S \X V |-> AttachedOrder(p[2], p[1], supplier)]
           Body(it) == [s \in SUBSET S |->
                          IF s = {} THEN T
                          ELSE LET x == Earliest(T, s)
                               IN  AttachedOrder(it[s \ {x}], x, supplier)]
<1>1. DOMAIN T = 1 .. Len(T) /\ Len(T) \in Nat
      /\ \A k \in DOMAIN T : k \in Nat /\ T[k].on \in Nat /\ RowIsSound(T[k])
  BY OrderOf DEF Order
<1>2. S \subseteq DOMAIN T /\ IsFiniteSet(S)
  <2>1. IsFiniteSet(DOMAIN T)
    BY <1>1, FS_Interval
  <2> QED
    BY <2>1, FS_Subset DEF HeldUnder
<1>3. T \in V
  BY <1>1 DEF HeldUnder, Free, RowIsSound
<1> HIDE DEF S
<1>4. \A s \in SUBSET S : s # {} => Earliest(T, s) \in s
  <2> SUFFICES ASSUME NEW s \in SUBSET S, s # {} PROVE Earliest(T, s) \in s
    OBVIOUS
  <2> DEFINE days == {T[k].on : k \in s}
  <2>1. days \subseteq Nat /\ days # {}
    BY <1>1, <1>2
  <2> HIDE DEF days
  <2>2. PICK d \in days : \A other \in days : d <= other
    BY <2>1, FirstOf
  <2> DEFINE those == {k \in s : T[k].on = d}
  <2>3. those \subseteq Nat /\ those # {}
    BY <1>1, <1>2, <2>2 DEF days
  <2> HIDE DEF those
  <2>4. PICK a \in those : \A b \in those : a <= b
    BY <2>3, FirstOf
  <2>5. a \in s /\ T[a].on = d
    BY <2>4 DEF those
  <2>6. \A b \in s : T[a].on < T[b].on \/ (T[a].on = T[b].on /\ a <= b)
    <3> SUFFICES ASSUME NEW b \in s
                 PROVE  T[a].on < T[b].on \/ (T[a].on = T[b].on /\ a <= b)
      OBVIOUS
    <3>1. CASE T[b].on = d
      BY <2>4, <2>5, <3>1 DEF those
    <3>2. CASE T[b].on # d
      <4>1. T[b].on \in Nat /\ d \in Nat /\ d <= T[b].on
        BY <1>1, <1>2, <2>1, <2>2 DEF days
      <4> QED
        BY <2>5, <3>2, <4>1
    <3> QED
      BY <3>1, <3>2
  <2> QED
    BY <2>5, <2>6 DEF Earliest
<1>5. \A x \in S, U \in V : AttachedOrder(U, x, supplier) \in V
  <2> SUFFICES ASSUME NEW x \in S, NEW U \in V PROVE AttachedOrder(U, x, supplier) \in V
    OBVIOUS
  <2>1. x \in DOMAIN U /\ U \in Table /\ Len(U) = Len(T)
        /\ (U[x].product = Nil \/ U[x].supplier \in {Nil, supplier})
    BY DEF Free
  <2> DEFINE W == AttachedOrder(U, x, supplier)
  <2>2. W \in Table /\ Len(W) = Len(U)
        /\ \A o \in DOMAIN U :
              W[o].product = U[o].product
              /\ W[o].supplier = IF o = x THEN supplier ELSE U[o].supplier
    BY <2>1, AttachKeeps
  <2> HIDE DEF W
  <2>3. DOMAIN W = DOMAIN U
    BY <2>1, <2>2, OrderOf
  <2>4. Free(W, S, supplier)
    BY <2>2, <2>3 DEF Free
  <2> QED
    BY <2>1, <2>2, <2>4 DEF W
<1> HIDE DEF V
<1>6. Foldable(S, pick, step, T, V)
  BY <1>2, <1>3, <1>4, <1>5 DEF Foldable
<1>7. \A it \in [SUBSET S -> V] : Body(it) = [s \in SUBSET S |-> Folded(it, s, pick, step, T)]
  <2> SUFFICES ASSUME NEW it \in [SUBSET S -> V], NEW s \in SUBSET S
               PROVE  Body(it)[s] = Folded(it, s, pick, step, T)
    OBVIOUS
  <2>1. CASE s = {}
    BY <2>1 DEF Folded
  <2>2. CASE s # {}
    <3> DEFINE x == Earliest(T, s)
    <3>1. x \in S /\ pick[s] = x /\ it[s \ {x}] \in V
      BY <1>4, <2>2
    <3>2. Body(it)[s] = AttachedOrder(it[s \ {x}], x, supplier)
      BY <2>2
    <3> HIDE DEF x, pick, Body
    <3>3. step[<<x, it[s \ {x}]>>] = AttachedOrder(it[s \ {x}], x, supplier)
      BY <3>1
    <3> HIDE DEF step
    <3> QED
      BY <2>2, <3>1, <3>2, <3>3 DEF Folded
  <2> QED
    BY <2>1, <2>2
<1>8. PICK it \in [SUBSET S -> V] : IsFold(it, S, pick, step, T)
  BY <1>6, FoldExists
<1>9. it = Body(it)
  BY <1>7, <1>8 DEF IsFold
<1> DEFINE all == CHOOSE any : any = Body(any)
<1>10. all = Body(all)
  BY <1>9
<1>11. ApplyAlias(T, name, supplier) = all[S]
  BY DEF ApplyAlias, MapThenFoldSet, S
<1> HIDE DEF all
<1>12. all \in [SUBSET S -> V]
  <2> DEFINE Bad == {s \in SUBSET S : all[s] \notin V}
  <2>1. ASSUME NEW s \in Bad, \A U \in Bad : U \subseteq s => U = s PROVE FALSE
    <3>1. CASE s = {}
      BY <1>3, <1>10, <2>1, <3>1
    <3>2. CASE s # {}
      <4> DEFINE x == Earliest(T, s)
      <4>1. x \in s /\ x \in S /\ all[s] = AttachedOrder(all[s \ {x}], x, supplier)
        BY <1>4, <1>10, <3>2
      <4>2. all[s \ {x}] \in V
        BY <2>1, <4>1
      <4> HIDE DEF x
      <4> QED
        BY <1>5, <2>1, <4>1, <4>2
    <3> QED
      BY <3>1, <3>2
  <2>2. Bad = {}
    <3> SUFFICES ASSUME Bad # {} PROVE FALSE
      OBVIOUS
    <3>1. Bad \subseteq SUBSET S
      OBVIOUS
    <3> HIDE DEF Bad
    <3>2. PICK s \in Bad : \A U \in Bad : U \subseteq s => U = s
      BY <1>2, <3>1, SmallestSubset
    <3> QED
      BY <2>1, <3>2
  <2>3. all = [s \in SUBSET S |-> all[s]]
    BY <1>10
  <2> HIDE DEF Body
  <2> QED
    BY <2>2, <2>3
<1> QED
  BY <1>11, <1>12 DEF V

LEMMA NewRowIsSound ==
  ASSUME date \in Nat, NEW n \in OrderNumbers, NEW on \in Nat, NEW name \in Names,
         NEW supplier \in Buyers \cup {Nil}, NEW product \in Products \cup {Nil},
         NEW amount \in Amount, NEW status \in Statuses \cup {Nil}
  PROVE  /\ Row(n, on, supplier, name, product, amount, status) \in Order
         /\ RowIsSound(Row(n, on, supplier, name, product, amount, status))
<1> DEFINE state == IF supplier = Nil THEN "PENDING" ELSE "OK"
           early == on >= date
<1>1. state \in {"OK", "PENDING"} /\ (state = "PENDING" => supplier = Nil)
  OBVIOUS
<1>2. early \in BOOLEAN
  OBVIOUS
<1> HIDE DEF early
<1>3. Row(n, on, supplier, name, product, amount, status) =
        [number |-> n, on |-> on, supplier |-> supplier, name |-> name, product |-> product,
         amount |-> amount, status |-> status, since |-> date, fromStart |-> early,
         manual |-> FALSE, review |-> state, rejected |-> Nil, repeatOf |-> Nil]
  BY DEF Row, early
<1> HIDE DEF state
<1> QED
  BY <1>1, <1>2, <1>3 DEF Order, RowIsSound

\* The orders of the table, and a table of as many rows of disputes.
LEMMA DisputesOf ==
  ASSUME OrdersInv
  PROVE  \A k \in DOMAIN orders : k \in DOMAIN orderDisputes
                                   /\ orderDisputes[k] \in Amount \cup {Nil}
<1>1. DOMAIN orders = 1 .. Len(orders) /\ DOMAIN orderDisputes = 1 .. Len(orders)
  BY OrderOf DEF OrdersInv
<1> QED
  BY <1>1 DEF OrdersInv

LEMMA AddOrderKeeps ==
  ASSUME OrdersInv, UNCHANGED date, NEW n \in OrderNumbers, NEW on \in Nat, NEW name \in Names,
         NEW product \in Products, NEW amount \in Amount, NEW status \in Statuses,
         AddOrder(n, on, name, product, amount, status)
  PROVE  OrdersInv'
<1> DEFINE fresh == Row(n, on, Whose[name], name, product, amount, status)
           earlier == EarlierOrderFor(orders, Whose[name], product, on)
           row == [fresh EXCEPT !.repeatOf = earlier]
<1>1. orders \in Table /\ date \in Nat
  BY DEF OrdersInv
<1>2. Whose[name] \in Buyers \cup {Nil}
  BY OrdersAssumption
<1>3. fresh \in Order /\ RowIsSound(fresh)
  BY <1>1, <1>2, NewRowIsSound
<1>4. earlier # Nil => earlier \in Nat /\ Precedes(orders, earlier, on, Whose[name], product)
  BY <1>1, EarlierPrecedes
<1>5. fresh.on = on /\ fresh.supplier = Whose[name] /\ fresh.product = product
  BY DEF Row
<1> HIDE DEF fresh, earlier
<1>6. row \in Order /\ RowIsSound(row)
  BY <1>3, <1>4 DEF Order, RowIsSound
<1>7. row.on = on /\ row.supplier = Whose[name] /\ row.product = product /\ row.repeatOf = earlier
  BY <1>3, <1>5 DEF Order
<1> HIDE DEF row
<1>8. Append(orders, row) \in Table /\ Len(Append(orders, row)) = Len(orders) + 1
  BY <1>1, <1>4, <1>6, <1>7, OneMoreOrder
<1>9. orders' = Append(orders, row) /\ orderDisputes' = Append(orderDisputes, Nil)
  BY DEF AddOrder, row, fresh, earlier
<1>10. orderDisputes' \in Seq(Amount \cup {Nil}) /\ Len(orderDisputes') = Len(orderDisputes) + 1
  BY <1>9 DEF OrdersInv
<1> QED
  BY <1>8, <1>9, <1>10 DEF OrdersInv

LEMMA MeetOrderKeeps ==
  ASSUME OrdersInv, UNCHANGED date, NEW k \in DOMAIN orders, NEW amount \in Amount,
         NEW status \in Statuses, MeetOrder(k, amount, status)
  PROVE  OrdersInv'
<1> DEFINE on == Advanced(orders[k], status)
           row == IF Differs(orders[k], amount) THEN OrderHeld(on) ELSE on
<1>1. orders \in Table /\ date \in Nat
  BY DEF OrdersInv
<1>2. orders[k] \in Order /\ RowIsSound(orders[k]) /\ RepeatFits(orders, k, orders[k])
  BY <1>1, OrderOf
<1>3. /\ on \in Order /\ on.product = orders[k].product /\ on.on = orders[k].on
      /\ on.supplier = orders[k].supplier /\ on.review = orders[k].review
      /\ on.manual = orders[k].manual /\ on.repeatOf = orders[k].repeatOf
  BY <1>1, <1>2 DEF Advanced, Order
<1> HIDE DEF on
<1>4. /\ row \in Order /\ row.product = orders[k].product /\ row.on = orders[k].on
      /\ row.supplier = orders[k].supplier /\ row.manual = orders[k].manual
      /\ row.repeatOf = orders[k].repeatOf
      /\ row.review = orders[k].review \/ orders[k].manual
  BY <1>3 DEF OrderHeld, Order, Differs
<1>5. orders' = [orders EXCEPT ![k] = row]
  BY DEF MeetOrder, row, on
<1> HIDE DEF row
<1>6. RowIsSound(row) /\ RepeatFits(orders, k, row)
  BY <1>2, <1>4 DEF RowIsSound, RepeatFits
<1>7. orders' \in Table /\ Len(orders') = Len(orders)
  BY <1>1, <1>4, <1>5, <1>6, OneRowMoves
<1>8. orderDisputes' \in Seq(Amount \cup {Nil}) /\ Len(orderDisputes') = Len(orderDisputes)
  BY DisputesOf DEF MeetOrder, OrdersInv
<1> QED
  BY <1>7, <1>8 DEF OrdersInv

LEMMA ByHandKeeps ==
  ASSUME OrdersInv, NEW n \in OrderNumbers, NEW on \in Nat, NEW s \in Buyers, NEW name \in Names,
         NEW amount \in Amount, RegisterOrderByHand(n, on, s, name, amount)
  PROVE  OrdersInv'
<1> DEFINE fresh == Row(n, on, s, name, Nil, amount, Nil)
           row == [OrderSettled(fresh) EXCEPT !.manual = TRUE, !.fromStart = FALSE]
<1>1. orders \in Table /\ date \in Nat
  BY DEF OrdersInv
<1>2. fresh \in Order /\ fresh.product = Nil /\ fresh.repeatOf = Nil
  <2>1. fresh \in Order
    BY <1>1, NewRowIsSound
  <2> QED
    BY <2>1 DEF Row
<1> HIDE DEF fresh
<1>3. row \in Order /\ row.product = Nil /\ row.repeatOf = Nil
  BY <1>2 DEF Order, OrderSettled
<1>4. orders' = Append(orders, row) /\ orderDisputes' = Append(orderDisputes, Nil) /\ date' = date
  BY DEF RegisterOrderByHand, row, fresh
<1> HIDE DEF row
<1>5. orders' \in Table /\ Len(orders') = Len(orders) + 1
  BY <1>1, <1>3, <1>4, OneMoreOrder DEF RowIsSound
<1>6. orderDisputes' \in Seq(Amount \cup {Nil}) /\ Len(orderDisputes') = Len(orderDisputes) + 1
  BY <1>4 DEF OrdersInv
<1> QED
  BY <1>4, <1>5, <1>6 DEF OrdersInv

LEMMA PeopleKeepOrders ==
  ASSUME OrdersInv, NEW k \in DOMAIN orders,
         \/ \E s \in Buyers, remember \in BOOLEAN : ResolveOrder(k, s, remember)
         \/ DismissRepeat(k)
         \/ \E keepPortal \in BOOLEAN : SettleOrderDispute(k, keepPortal)
  PROVE  OrdersInv'
<1>1. orders \in Table /\ date \in Nat
  BY DEF OrdersInv
<1>2. orders[k] \in Order /\ RowIsSound(orders[k]) /\ RepeatFits(orders, k, orders[k])
  BY <1>1, OrderOf
<1>3. ASSUME NEW s \in Buyers, NEW remember \in BOOLEAN, ResolveOrder(k, s, remember)
      PROVE  OrdersInv'
  <2> DEFINE attached == AttachedOrder(orders, k, s)
  <2>1. orders[k].product = Nil \/ orders[k].supplier \in {Nil, s}
    BY <1>2, <1>3 DEF ResolveOrder, RowIsSound
  <2>2. attached \in Table /\ Len(attached) = Len(orders)
    BY <1>1, <2>1, AttachKeeps
  <2> HIDE DEF attached
  <2>3. ApplyAlias(attached, orders[k].name, s) \in Table
        /\ Len(ApplyAlias(attached, orders[k].name, s)) = Len(orders)
    BY <2>2, AliasKeeps
  <2>4. orders' \in {attached, ApplyAlias(attached, orders[k].name, s)}
    BY <1>3 DEF ResolveOrder, attached
  <2> QED
    BY <1>1, <1>3, <2>2, <2>3, <2>4 DEF OrdersInv, ResolveOrder
<1>4. CASE DismissRepeat(k)
  <2> DEFINE row == [orders[k] EXCEPT !.repeatOf = Nil]
  <2>1. /\ row \in Order /\ row.product = orders[k].product /\ row.on = orders[k].on
        /\ row.supplier = orders[k].supplier /\ row.manual = orders[k].manual
        /\ row.review = orders[k].review /\ row.repeatOf = Nil
    BY <1>2 DEF Order
  <2>2. orders' = [orders EXCEPT ![k] = row]
    BY <1>4 DEF DismissRepeat
  <2> HIDE DEF row
  <2>3. RowIsSound(row) /\ RepeatFits(orders, k, row)
    BY <1>2, <2>1 DEF RowIsSound, RepeatFits
  <2>4. orders' \in Table /\ Len(orders') = Len(orders)
    BY <1>1, <2>1, <2>2, <2>3, OneRowMoves
  <2> QED
    BY <1>4, <2>4 DEF OrdersInv, DismissRepeat
<1>5. ASSUME NEW keepPortal \in BOOLEAN, SettleOrderDispute(k, keepPortal)
      PROVE  OrdersInv'
  <2> DEFINE published == orderDisputes[k]
             settled == OrderSettled(orders[k])
             row == IF keepPortal
                    THEN [settled EXCEPT !.amount = published, !.manual = FALSE, !.rejected = Nil]
                    ELSE [settled EXCEPT !.rejected = published]
  <2>1. published \in Amount \cup {Nil}
    BY DisputesOf
  <2>2. /\ settled \in Order /\ settled.product = orders[k].product /\ settled.on = orders[k].on
        /\ settled.supplier = orders[k].supplier /\ settled.review = "RESOLVED"
        /\ settled.manual = orders[k].manual /\ settled.repeatOf = orders[k].repeatOf
    BY <1>2 DEF Order, OrderSettled
  <2>3. orders' = [orders EXCEPT ![k] = row]
    BY <1>5 DEF SettleOrderDispute
  <2> HIDE DEF published, settled
  <2>4. /\ row \in Order /\ row.product = orders[k].product /\ row.on = orders[k].on
        /\ row.supplier = orders[k].supplier /\ row.review = "RESOLVED"
        /\ row.manual \in {FALSE, orders[k].manual} /\ row.repeatOf = orders[k].repeatOf
    BY <2>1, <2>2 DEF Order
  <2> HIDE DEF row
  <2>5. RowIsSound(row) /\ RepeatFits(orders, k, row)
    BY <1>2, <2>4 DEF RowIsSound, RepeatFits
  <2>6. orders' \in Table /\ Len(orders') = Len(orders)
    BY <1>1, <2>3, <2>4, <2>5, OneRowMoves
  <2>7. orderDisputes' \in Seq(Amount \cup {Nil}) /\ Len(orderDisputes') = Len(orderDisputes)
    BY <1>5, DisputesOf DEF SettleOrderDispute, OrdersInv
  <2> QED
    BY <1>5, <2>6, <2>7 DEF OrdersInv, SettleOrderDispute
<1> QED
  BY <1>3, <1>4, <1>5

\* An order said to repeat another one is of the same product and supplier, and the other
\* one was placed before it in the window, however its supplier came to be known.
THEOREM RepeatsAreEarlier == OrdersSpec => []RepeatIsEarlier
<1>1. OrdersInit => OrdersInv
  BY DEF OrdersInit, OrdersInv, Table
<1>2. OrdersInv /\ [OrdersNext]_orderVars => OrdersInv'
  <2> SUFFICES ASSUME OrdersInv, [OrdersNext]_orderVars PROVE OrdersInv'
    OBVIOUS
  <2>1. 0 .. Horizon \subseteq Nat /\ orders \in Table /\ date \in Nat
    BY OrdersAssumption DEF OrdersInv
  <2>2. ASSUME NEW n \in OrderNumbers, NEW on \in 0 .. Horizon, NEW name \in Names,
               NEW product \in Products, NEW amount \in Amount, NEW status \in Statuses,
               RegisterOrder(n, on, name, product, amount, status)
        PROVE  OrdersInv'
    <3>1. CASE OrderNumbered(n) = {}
      <4>1. AddOrder(n, on, name, product, amount, status) /\ UNCHANGED date /\ on \in Nat
        BY <2>1, <2>2, <3>1 DEF RegisterOrder
      <4> QED
        BY <4>1, AddOrderKeeps
    <3>2. CASE OrderNumbered(n) # {}
      <4> DEFINE k == CHOOSE k \in OrderNumbered(n) : TRUE
      <4>1. k \in DOMAIN orders /\ MeetOrder(k, amount, status) /\ UNCHANGED date
        BY <2>2, <3>2 DEF RegisterOrder, OrderNumbered
      <4> HIDE DEF k
      <4> QED
        BY <4>1, MeetOrderKeeps
    <3> QED
      BY <3>1, <3>2
  <2>3. ASSUME NEW n \in OrderNumbers, NEW on \in 0 .. Horizon, NEW s \in Buyers,
               NEW name \in Names, NEW amount \in Amount, RegisterOrderByHand(n, on, s, name, amount)
        PROVE  OrdersInv'
    BY <2>1, <2>3, ByHandKeeps
  <2>4. ASSUME NEW name \in Names, NEW s \in Buyers, SaveSpelling(name, s)
        PROVE  OrdersInv'
    BY <2>1, <2>4, AliasKeeps DEF SaveSpelling, OrdersInv
  <2>5. CASE DayPasses
    BY <2>5 DEF DayPasses, OrdersInv
  <2>6. CASE UNCHANGED orderVars
    BY <2>6 DEF orderVars, OrdersInv
  <2> QED
    BY <2>2, <2>3, <2>4, <2>5, <2>6, PeopleKeepOrders DEF OrdersNext
<1>3. OrdersInv => RepeatIsEarlier
  BY OrderOf DEF OrdersInv, RepeatIsEarlier, RepeatFits, Precedes
<1> QED
  BY <1>1, <1>2, <1>3, PTL DEF OrdersSpec
===============================================================================
