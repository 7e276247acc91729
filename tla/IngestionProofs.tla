---------------------------- MODULE IngestionProofs ----------------------------
(* Theorems about what the portal brings: about Sales, for any readings and   *)
(* decisions, what counts and what catalog adds up; about InvoiceFiles, that  *)
(* no document is lost; about Screens, that every line of a register and of a *)
(* price list is read as written; and about Staging, that a broken row is     *)
(* asked about once, and counted.                                             *)
EXTENDS Sales, InvoiceFiles, Screens, Staging, SequenceTheorems, FoldTheorems, TLAPS

-------------------------------------------------------------------------------
(* Sales.                                                                     *)

SaleRow == [total : Totals \cup {UnreadableTotal},
            state : {"HELD", "COUNTED", "DISCARDED"},
            reason : {"NONE", "UNREADABLE", "UNKNOWN_PRODUCT", "OUTLIER_TOTAL",
                      "DUPLICATE_IDENTICAL", "DUPLICATE_WITH_DIFFERENCES",
                      "DISCARDED_BY_DECISION"},
            decided : BOOLEAN]

\* Without a decision, one sale of the code counts at most, and it is the revenue.
SalesInv ==
    /\ sales \in Seq(SaleRow)
    /\ touched \in BOOLEAN
    /\ ~touched => /\ \A x, y \in CountedOf(sales) : x = y
                   /\ revenue = CountedOf(sales)

\* What a reading did so far: what it adds and drops leaves the revenue of what counts.
Accounted(done) ==
    ~touched =>
        /\ \A x, y \in CountedOf(done.records) : x = y
        /\ done.dropped \subseteq DOMAIN done.records
        /\ (revenue \ done.dropped) \cup (done.adding \ done.dropped) = CountedOf(done.records)
DoneRow == [records : Seq(SaleRow), waiting : SUBSET Nat, adding : SUBSET Nat,
            dropped : SUBSET Nat]
Readings == {done \in DoneRow : Accounted(done)}

LEMMA OneMoreSale ==
  ASSUME NEW records \in Seq(SaleRow), NEW sale \in SaleRow
  PROVE  /\ Append(records, sale) \in Seq(SaleRow)
         /\ DOMAIN Append(records, sale) = DOMAIN records \cup {Len(records) + 1}
         /\ Len(records) + 1 \notin DOMAIN records /\ Len(records) + 1 \in Nat
         /\ CountedOf(Append(records, sale))
              = CountedOf(records) \cup (IF sale.state = "COUNTED" THEN {Len(records) + 1} ELSE {})
<1> DEFINE longer == Append(records, sale)
<1>1. /\ longer \in Seq(SaleRow) /\ Len(records) \in Nat
      /\ DOMAIN longer = 1 .. Len(records) + 1 /\ DOMAIN records = 1 .. Len(records)
      /\ longer[Len(records) + 1] = sale
      /\ \A n \in 1 .. Len(records) : longer[n] = records[n]
  OBVIOUS
<1> HIDE DEF longer
<1>2. DOMAIN longer = DOMAIN records \cup {Len(records) + 1} /\ Len(records) + 1 \notin DOMAIN records
  BY <1>1
<1>3. CountedOf(longer)
        = CountedOf(records) \cup (IF sale.state = "COUNTED" THEN {Len(records) + 1} ELSE {})
  BY <1>1, <1>2 DEF CountedOf
<1> QED
  BY <1>1, <1>2, <1>3 DEF longer

LEMMA SiblingsWait ==
  ASSUME NEW records \in Seq(SaleRow)
  PROVE  /\ HoldSiblings(records) \in Seq(SaleRow)
         /\ Len(HoldSiblings(records)) = Len(records)
         /\ DOMAIN HoldSiblings(records) = DOMAIN records
         /\ CountedOf(HoldSiblings(records)) = {}
<1> DEFINE held == HoldSiblings(records)
<1>1. /\ DOMAIN held = 1 .. Len(records) /\ DOMAIN records = 1 .. Len(records)
      /\ Len(records) \in Nat
  BY DEF HoldSiblings
<1>2. ASSUME NEW n \in 1 .. Len(records)
      PROVE  held[n] \in SaleRow /\ held[n].state # "COUNTED"
  <2>1. records[n] \in SaleRow
    OBVIOUS
  <2>2. held[n] = IF records[n].state = "COUNTED"
                  THEN [records[n] EXCEPT !.state = "HELD", !.reason = "DUPLICATE_WITH_DIFFERENCES"]
                  ELSE records[n]
    BY <1>1 DEF HoldSiblings
  <2> QED
    BY <2>1, <2>2 DEF SaleRow
<1>3. held = [n \in 1 .. Len(records) |-> held[n]]
  BY <1>1 DEF HoldSiblings
<1> HIDE DEF held
<1>4. held \in Seq(SaleRow) /\ Len(held) = Len(records)
  BY <1>1, <1>2, <1>3
<1>5. CountedOf(held) = {}
  BY <1>1, <1>2 DEF CountedOf
<1> QED
  BY <1>1, <1>4, <1>5 DEF held

\* A row over what the reading did so far.
LEMMA RowIsAccounted ==
  ASSUME SalesInv, NEW done \in Readings, NEW row \in Totals \cup {UnreadableTotal}
  PROVE  RegisterRow(done, row) \in Readings
<1> DEFINE records == done.records
           new == Len(records) + 1
           reason == WhyNotCountable(row)
           next == RegisterRow(done, row)
<1> SUFFICES next \in Readings
  OBVIOUS
<1>1. /\ records \in Seq(SaleRow) /\ done.waiting \in SUBSET Nat /\ done.adding \in SUBSET Nat
      /\ done.dropped \in SUBSET Nat /\ done \in DoneRow /\ Accounted(done)
  BY DEF Readings, DoneRow
<1>2. reason \in {"NONE", "UNKNOWN_PRODUCT", "OUTLIER_TOTAL"}
  BY DEF WhyNotCountable
\* A sale that does not count: nothing moves.
<1>3. ASSUME NEW sale \in SaleRow, sale.state # "COUNTED", NEW waiting \in SUBSET Nat,
             next = [records |-> Append(records, sale), waiting |-> waiting,
                     adding |-> done.adding, dropped |-> done.dropped]
      PROVE  next \in Readings
  <2>1. /\ Append(records, sale) \in Seq(SaleRow)
        /\ DOMAIN Append(records, sale) = DOMAIN records \cup {new}
        /\ CountedOf(Append(records, sale)) = CountedOf(records)
    BY <1>1, <1>3, OneMoreSale
  <2>2. next.records = Append(records, sale) /\ next.adding = done.adding /\ next.dropped = done.dropped
    BY <1>3
  <2>3. next \in DoneRow
    BY <1>1, <1>3, <2>1 DEF DoneRow
  <2> HIDE DEF next
  <2>4. Accounted(next)
    BY <1>1, <2>1, <2>2 DEF Accounted
  <2> QED
    BY <2>3, <2>4 DEF Readings
<1>4. new \in Nat /\ done.waiting \cup {new} \in SUBSET Nat
  BY <1>1, OneMoreSale
<1>5. \A state \in {"HELD", "COUNTED", "DISCARDED"},
        why \in {"NONE", "UNREADABLE", "UNKNOWN_PRODUCT", "OUTLIER_TOTAL", "DUPLICATE_IDENTICAL",
                 "DUPLICATE_WITH_DIFFERENCES"} :
          SaleOf(row, state, why) \in SaleRow /\ SaleOf(row, state, why).state = state
  BY DEF SaleOf, SaleRow
<1>6. /\ done = [records |-> records, waiting |-> done.waiting, adding |-> done.adding,
                 dropped |-> done.dropped]
  BY <1>1 DEF DoneRow
<1> DEFINE twin == \E n \in DOMAIN records : records[n].total = row
<1>7. CASE row = UnreadableTotal
  <2>1. next = [records |-> Append(records, SaleOf(row, "HELD", "UNREADABLE")),
                waiting |-> done.waiting \cup {new}, adding |-> done.adding, dropped |-> done.dropped]
    BY <1>6, <1>7 DEF RegisterRow
  <2> HIDE DEF next
  <2> QED
    BY <1>3, <1>4, <1>5, <2>1
<1>8. CASE row # UnreadableTotal /\ twin
  <2>1. next = [records |-> Append(records, SaleOf(row, "DISCARDED", "DUPLICATE_IDENTICAL")),
                waiting |-> done.waiting, adding |-> done.adding, dropped |-> done.dropped]
    BY <1>6, <1>8 DEF RegisterRow
  <2> HIDE DEF next
  <2> QED
    BY <1>1, <1>3, <1>5, <2>1
\* It differs: the counted ones wait too, and leave the revenue.
<1>9. CASE row # UnreadableTotal /\ ~twin /\ Differs(records) /\ reason = "NONE"
  <2> DEFINE sale == SaleOf(row, "HELD", "DUPLICATE_WITH_DIFFERENCES")
             held == HoldSiblings(records)
  <2>1. next = [records |-> Append(held, sale), waiting |-> done.waiting \cup {new},
                adding |-> done.adding, dropped |-> done.dropped \cup CountedOf(records)]
    BY <1>9 DEF RegisterRow
  <2>2. held \in Seq(SaleRow) /\ DOMAIN held = DOMAIN records /\ CountedOf(held) = {}
    BY <1>1, SiblingsWait
  <2>3. sale \in SaleRow /\ sale.state = "HELD"
    BY <1>5
  <2> HIDE DEF held, sale
  <2>4. /\ Append(held, sale) \in Seq(SaleRow)
        /\ DOMAIN records \subseteq DOMAIN Append(held, sale)
        /\ CountedOf(Append(held, sale)) = {}
    BY <2>2, <2>3, OneMoreSale
  <2>5. CountedOf(records) \subseteq DOMAIN records /\ DOMAIN records \subseteq Nat
    BY <1>1 DEF CountedOf
  <2>6. /\ next.records = Append(held, sale) /\ next.adding = done.adding
        /\ next.dropped = done.dropped \cup CountedOf(records)
    BY <2>1
  <2>7. next \in DoneRow
    BY <1>1, <1>4, <2>1, <2>4, <2>5 DEF DoneRow
  <2> HIDE DEF next
  <2>8. Accounted(next)
    BY <1>1, <2>4, <2>5, <2>6 DEF Accounted
  <2> QED
    BY <2>7, <2>8 DEF Readings
<1>10. CASE row # UnreadableTotal /\ ~twin /\ reason # "NONE"
  <2>1. next = [records |-> Append(records, SaleOf(row, "HELD", reason)),
                waiting |-> done.waiting \cup {new}, adding |-> done.adding, dropped |-> done.dropped]
    BY <1>6, <1>10 DEF RegisterRow
  <2> HIDE DEF next, reason
  <2> QED
    BY <1>2, <1>3, <1>4, <1>5, <2>1
\* The first one of the code counts.
<1>11. CASE row # UnreadableTotal /\ ~twin /\ ~Differs(records) /\ reason = "NONE"
  <2> DEFINE sale == SaleOf(row, "COUNTED", "NONE")
  <2>1. next = [records |-> Append(records, sale), waiting |-> done.waiting,
                adding |-> done.adding \cup {new}, dropped |-> done.dropped]
    BY <1>6, <1>11 DEF RegisterRow
  <2>2. sale \in SaleRow /\ sale.state = "COUNTED"
    BY <1>5
  <2> HIDE DEF sale
  <2>3. records = <<>> /\ CountedOf(records) = {}
    BY <1>11 DEF Differs, CountedOf
  <2>4. /\ Append(records, sale) \in Seq(SaleRow)
        /\ DOMAIN Append(records, sale) = DOMAIN records \cup {new}
        /\ new \notin DOMAIN records
        /\ CountedOf(Append(records, sale)) = CountedOf(records) \cup {new}
    BY <1>1, <2>2, OneMoreSale
  <2>5. /\ next.records = Append(records, sale) /\ next.adding = done.adding \cup {new}
        /\ next.dropped = done.dropped
    BY <2>1
  <2>6. next \in DoneRow
    BY <1>1, <1>4, <2>1, <2>4 DEF DoneRow
  <2> HIDE DEF next
  <2>7. Accounted(next)
    BY <1>1, <2>3, <2>4, <2>5 DEF Accounted
  <2> QED
    BY <2>6, <2>7 DEF Readings
<1> QED
  BY <1>7, <1>8, <1>9, <1>10, <1>11

\* So does a whole reading.
LEMMA ReadingIsAccounted ==
  ASSUME SalesInv, NEW batch \in Seq(Totals \cup {UnreadableTotal})
  PROVE  Registered(batch) \in Readings
<1> DEFINE N == Len(batch)
           base == [records |-> sales, waiting |-> {}, adding |-> {}, dropped |-> {}]
           step == [p \in (1 .. N) \X Readings |-> RegisterRow(p[2], batch[p[1]])]
           Body(it) == [s \in SUBSET DOMAIN batch |->
                          IF s = {} THEN base
                          ELSE LET x == LastOf(s) IN RegisterRow(it[s \ {x}], batch[x])]
<1>1. N \in Nat /\ DOMAIN batch = 1 .. N /\ \A n \in 1 .. N : batch[n] \in Totals \cup {UnreadableTotal}
  OBVIOUS
<1>2. base \in Readings
  <2>1. base \in DoneRow
    BY DEF SalesInv, DoneRow
  <2>2. Accounted(base)
    BY DEF SalesInv, Accounted
  <2> QED
    BY <2>1, <2>2 DEF Readings
<1>3. step \in [(1 .. N) \X Readings -> Readings]
  BY <1>1, RowIsAccounted
<1>4. \A n \in 1 .. N, done \in Readings : step[<<n, done>>] = RegisterRow(done, batch[n])
  OBVIOUS
<1> HIDE DEF step, base, N
<1>5. ASSUME NEW it, NEW s \in SUBSET (1 .. N), s # {}, it[s \ {LastOf(s)}] \in Readings
      PROVE  step[<<LastOf(s), it[s \ {LastOf(s)}]>>]
               = RegisterRow(it[s \ {LastOf(s)}], batch[LastOf(s)])
  <2>1. LastOf(s) \in 1 .. N
    BY <1>1, <1>5, LastIsThere
  <2> QED
    BY <1>4, <1>5, <2>1
<1>6. PICK it \in [SUBSET (1 .. N) -> Readings] : IsFold(it, 1 .. N, LastPick(N), step, base)
  BY <1>1, <1>2, <1>3, FoldInOrderExists
<1>7. it = Body(it)
  <2>1. ASSUME NEW s \in SUBSET (1 .. N) PROVE it[s] = Body(it)[s]
    <3>1. it[s] = Folded(it, s, LastPick(N), step, base)
      BY <1>6 DEF IsFold
    <3>2. CASE s = {}
      BY <1>1, <3>1, <3>2 DEF Folded
    <3>3. CASE s # {}
      <4>1. it[s \ {LastOf(s)}] \in Readings
        BY <1>6
      <4>2. it[s] = step[<<LastOf(s), it[s \ {LastOf(s)}]>>]
        BY <3>1, <3>3 DEF Folded, LastPick
      <4> QED
        BY <1>1, <1>5, <3>3, <4>1, <4>2
    <3> QED
      BY <3>2, <3>3
  <2>2. Body(it) = [s \in SUBSET (1 .. N) |-> Body(it)[s]]
    BY <1>1
  <2> HIDE DEF Body
  <2> QED
    BY <1>6, <2>1, <2>2
<1> DEFINE fold == CHOOSE it2 : it2 = Body(it2)
<1>8. fold = Body(fold)
  <2> HIDE DEF Body
  <2> QED
    BY <1>7
<1>9. Registered(batch) = fold[1 .. N]
  BY <1>1 DEF Registered, FoldLeft, MapThenFoldSet, base, LastOf, Max
<1> HIDE DEF fold
<1>10. fold[{}] = base /\ \A s \in SUBSET (1 .. N) : s # {}
                            => fold[s] = RegisterRow(fold[s \ {LastOf(s)}], batch[LastOf(s)])
  BY <1>1, <1>8
<1> HIDE DEF Body
<1>11. \A s \in SUBSET (1 .. N) : s # {} /\ fold[s \ {LastOf(s)}] \in Readings
           => fold[s] = step[<<LastOf(s), fold[s \ {LastOf(s)}]>>]
  BY <1>5, <1>10
<1> DEFINE run == [n \in 0 .. N |-> fold[1 .. n]]
<1>12. run[N] = fold[1 .. N] /\ N \in 0 .. N
  BY <1>1
<1>13. IsRun(run, N, step, base, Readings)
  BY <1>1, <1>2, <1>3, <1>10, <1>11, FoldInOrder
<1> QED
  BY <1>9, <1>12, <1>13 DEF IsRun

LEMMA EachSaleMoves ==
  ASSUME SalesInv, NEW moved, moved = [n \in DOMAIN sales |-> moved[n]],
         \A n \in DOMAIN sales : moved[n] \in SaleRow
  PROVE  moved \in Seq(SaleRow)
<1>1. sales \in Seq(SaleRow) /\ Len(sales) \in Nat /\ DOMAIN sales = 1 .. Len(sales)
  BY DEF SalesInv
<1> QED
  BY <1>1

LEMMA SalesStep == SalesInv /\ [SalesNext]_salesVars => SalesInv'
<1> SUFFICES ASSUME SalesInv, [SalesNext]_salesVars PROVE SalesInv'
  OBVIOUS
<1>1. ASSUME NEW batch \in SaleBatches, RegisterSales(batch) PROVE SalesInv'
  <2>1. batch \in Seq(Totals \cup {UnreadableTotal})
    BY DEF SaleBatches
  <2>2. Registered(batch) \in Readings
    BY <2>1, ReadingIsAccounted
  <2>3. /\ sales' = Registered(batch).records /\ touched' = touched
        /\ revenue' = (revenue \ Registered(batch).dropped)
                        \cup (Registered(batch).adding \ Registered(batch).dropped)
    BY <1>1 DEF RegisterSales, RecordRevenue
  <2> QED
    BY <2>2, <2>3 DEF Readings, DoneRow, Accounted, SalesInv
<1>2. ASSUME NEW counts, ResolveGroup(counts) PROVE SalesInv'
  <2>1. touched'
    BY <1>2 DEF ResolveGroup
  <2>2. sales' = [n \in DOMAIN sales |->
                    [sales[n] EXCEPT !.state = IF n \in counts THEN "COUNTED" ELSE "DISCARDED",
                        !.reason = IF n \in counts THEN "NONE" ELSE "DISCARDED_BY_DECISION",
                        !.decided = TRUE]]
    BY <1>2 DEF ResolveGroup
  <2>3. ASSUME NEW n \in DOMAIN sales PROVE sales'[n] \in SaleRow
    <3>1. sales[n] \in SaleRow
      BY DEF SalesInv
    <3> QED
      BY <2>2, <3>1 DEF SaleRow
  <2>4. sales' \in Seq(SaleRow)
    BY <2>2, <2>3, EachSaleMoves
  <2> QED
    BY <2>1, <2>4 DEF SalesInv
<1>3. ASSUME UndoResolution PROVE SalesInv'
  <2>1. touched'
    BY <1>3 DEF UndoResolution
  <2>2. sales' = [n \in DOMAIN sales |->
                    [sales[n] EXCEPT !.state = "HELD", !.decided = FALSE,
                                             !.reason = "DUPLICATE_WITH_DIFFERENCES"]]
    BY <1>3 DEF UndoResolution
  <2>3. ASSUME NEW n \in DOMAIN sales PROVE sales'[n] \in SaleRow
    <3>1. sales[n] \in SaleRow
      BY DEF SalesInv
    <3> QED
      BY <2>2, <3>1 DEF SaleRow
  <2>4. sales' \in Seq(SaleRow)
    BY <2>2, <2>3, EachSaleMoves
  <2> QED
    BY <2>1, <2>4 DEF SalesInv
<1>4. ASSUME NEW n \in DOMAIN sales, NEW total \in Totals, CorrectSale(n, total) PROVE SalesInv'
  <2>1. touched'
    BY <1>4 DEF CorrectSale
  <2>2. n \in 1 .. Len(sales) /\ sales[n] \in SaleRow /\ sales \in Seq(SaleRow)
    BY DEF SalesInv
  <2> DEFINE corrected == [sales[n] EXCEPT !.total = total,
                              !.state = IF known THEN "COUNTED" ELSE "HELD",
                              !.reason = IF known THEN "NONE" ELSE "UNKNOWN_PRODUCT"]
  <2>3. corrected \in SaleRow
    BY <2>2 DEF SaleRow
  <2>4. sales' = [sales EXCEPT ![n] = corrected]
    BY <1>4, <2>2 DEF CorrectSale, SaleRow
  <2> HIDE DEF corrected
  <2> QED
    BY <2>1, <2>2, <2>3, <2>4 DEF SalesInv
<1>5. ASSUME UNCHANGED <<sales, revenue, touched>> PROVE SalesInv'
  BY <1>5 DEF SalesInv, CountedOf
<1> QED
  BY <1>1, <1>2, <1>3, <1>4, <1>5 DEF SalesNext, RememberProduct, ResolveCase, DecideSale,
     RequestPendingWork, Reconcile, salesVars

LEMMA SalesInvHolds == SalesSpec => []SalesInv
<1>1. SalesInit => SalesInv
  <2> SUFFICES ASSUME SalesInit PROVE SalesInv
    OBVIOUS
  <2>1. sales = <<>> /\ revenue = {} /\ touched = FALSE
    BY DEF SalesInit
  <2>2. CountedOf(sales) = {} /\ sales \in Seq(SaleRow)
    BY <2>1 DEF CountedOf
  <2> QED
    BY <2>1, <2>2 DEF SalesInv
<1> QED
  BY <1>1, SalesStep, PTL DEF SalesSpec

\* Without a decision, no two readings of a code count at once, whatever they bring.
THEOREM OneReadingCounts == SalesSpec => []CountedOnce
<1>1. SalesInv => CountedOnce
  <2> SUFFICES ASSUME SalesInv, ~touched PROVE Cardinality(CountedOf(sales)) <= 1
    BY DEF CountedOnce
  <2>1. \A x, y \in CountedOf(sales) : x = y
    BY DEF SalesInv
  <2>2. CASE CountedOf(sales) = {}
    BY <2>2, FS_EmptySet
  <2>3. CASE CountedOf(sales) # {}
    <3>1. PICK x : CountedOf(sales) = {x}
      BY <2>1, <2>3
    <3> QED
      BY <3>1, FS_Singleton
  <2> QED
    BY <2>2, <2>3
<1> QED
  BY <1>1, SalesInvHolds, PTL

\* Without a decision, the revenue catalog keeps is of the sales that count.
THEOREM RevenueIsOfWhatCounts == SalesSpec => []RevenueFollowsReadings
<1>1. SalesInv => RevenueFollowsReadings
  BY DEF SalesInv, RevenueFollowsReadings
<1> QED
  BY <1>1, SalesInvHolds, PTL

-------------------------------------------------------------------------------
(* The documents of invoices.                                                 *)

InvoiceRow == [stage : {"OPEN", "COMMITTED"}, supplier : TaxIds \cup {NoSupplier},
               total : Sums, document : Sums \cup {NoSum, NoFile},
               review : {"OK", "PENDING", "RESOLVED"},
               reason : {"NONE", "SUPPLIER", "ANOTHER_TOTAL", "FILE_DISAGREES", "FILE_UNREADABLE"},
               byTaxId : BOOLEAN]

FilesTypeOK ==
    /\ rows \in SUBSET Rows /\ rows # {}
    /\ file \in Files
    /\ listed \in Sums \cup {NoSum}
    /\ invoices \in [Rows -> InvoiceRow \cup {Absent}]
    /\ visits \in [Rows -> Nat \cup {NoVisit}]
    /\ fetched \subseteq Rows /\ missed \subseteq rows
    /\ kept \in {"NONE", "STORED", "NORMALIZED"}

\* Some invoice of the number has its document, or some visit will not tell any.
HeardOrMissed == missed # {} \/ \E c \in rows : In(c) /\ invoices[c].document # NoFile

\* What a row alone with its number says, while nobody has to answer for it.
AloneAndSure(i) ==
    rows = {i} /\ In(i) =>
        /\ listed # NoSum
        /\ invoices[i].review = "OK" /\ ~invoices[i].byTaxId =>
              /\ invoices[i].total = listed
              /\ invoices[i].document \in {NoFile, invoices[i].total}

\* Until its row is committed, an invoice has heard no document.
OpenHeardNothing ==
    \A i \in rows : invoices[i].stage = "OPEN" =>
        invoices[i].document = NoFile /\ ~invoices[i].byTaxId

FilesInv ==
    /\ FilesTypeOK
    /\ \A i \in rows : AloneAndSure(i)
    /\ OpenHeardNothing
    /\ \A i \in rows : invoices[i] # Absent => visits[i] # NoVisit \/ HeardOrMissed
    /\ kept = "NORMALIZED" => HeardOrMissed

LEMMA LargestIsOne ==
  ASSUME NEW sums \in SUBSET Sums, sums # {}, IsFiniteSet(sums)
  PROVE  Largest(sums) \in sums
<1>1. sums \subseteq Int
  BY FilesAssumption
<1>2. \E s \in sums : \A other \in sums : other <= s
  BY <1>1, GreatestOf
<1> QED
  BY <1>2 DEF Largest

LEMMA FirstIndex ==
  ASSUME NEW S, S \subseteq Nat, S # {}
  PROVE  (CHOOSE n \in S : \A other \in S : n <= other) \in S
<1>1. \E n \in S : \A other \in S : n <= other
  BY FirstOf
<1> QED
  BY <1>1

LEMMA OneOfThem ==
  ASSUME NEW S, NEW s \in Seq(S), NEW n \in DOMAIN s
  PROVE  s[n] \in S
OBVIOUS

\* What a document says is an amount and a tax id, or that it says nothing.
LEMMA DocumentSays ==
  ASSUME NEW f \in Files
  PROVE  /\ ReadInvoiceDocument(f).readable \in BOOLEAN
         /\ ReadInvoiceDocument(f).total \in Sums \cup {NoSum}
         /\ ReadInvoiceDocument(f).taxId \in TaxIds \cup {NoSupplier}
<1> DEFINE order == ReadersFor(f.declared)
           able == {n \in DOMAIN order : f.text[order[n]] # NoFile}
           first == CHOOSE n \in able : \A other \in able : n <= other
           text == f.text[order[first]]
<1>0. /\ Unread.readable \in BOOLEAN /\ Unread.total \in Sums \cup {NoSum}
      /\ Unread.taxId \in TaxIds \cup {NoSupplier}
  BY DEF Unread
<1>1. CASE able = {}
  BY <1>0, <1>1 DEF ReadInvoiceDocument
<1>2. CASE able # {}
  <2>1. DOMAIN order = 1 .. 3 /\ \A n \in 1 .. 3 : order[n] \in Readers
    BY FilesAssumption DEF ReadersFor, Readers
  <2>2. first \in able
    <3>1. able \subseteq Nat
      BY <2>1
    <3> HIDE DEF able
    <3> QED
      BY <1>2, <3>1, FirstIndex
  <2>3. order[first] \in Readers /\ text # NoFile
    BY <2>1, <2>2
  <2>4. text \in Texts /\ IsFiniteSet(text.labelled) /\ IsFiniteSet(text.printed)
    <3> HIDE DEF order, first
    <3> QED
      BY <2>3, FilesAssumption
  <2>5. ReadInvoiceDocument(f) = FieldsIn(text)
    BY <1>2 DEF ReadInvoiceDocument
  <2> HIDE DEF text
  <2>6. TotalIn(text) \in Sums \cup {NoSum}
    <3>1. text.labelled \in SUBSET Sums /\ text.printed \in SUBSET Sums
      BY <2>4 DEF Texts
    <3> QED
      BY <2>4, <3>1, LargestIsOne DEF TotalIn
  <2>7. IssuerTaxIdIn(text.ids) \in TaxIds \cup {NoSupplier}
    <3> DEFINE others == {n \in DOMAIN text.ids : ~text.ids[n].client}
    <3>1. text.ids \in Seq([client : BOOLEAN, of : TaxIds \cup {NoSupplier}])
      BY <2>4 DEF Texts
    <3>2. others \subseteq DOMAIN text.ids /\ others \subseteq Nat
      BY <3>1
    <3>3. CASE others = {}
      BY <3>3 DEF IssuerTaxIdIn
    <3>4. CASE others # {}
      <4> DEFINE chosen == CHOOSE n \in others : \A other \in others : n <= other
      <4>1. chosen \in others
        <5> HIDE DEF others
        <5> QED
          BY <3>2, <3>4, FirstIndex
      <4>2. IssuerTaxIdIn(text.ids) = text.ids[chosen].of
        BY <3>4 DEF IssuerTaxIdIn
      <4> HIDE DEF chosen, others
      <4>3. text.ids[chosen] \in [client : BOOLEAN, of : TaxIds \cup {NoSupplier}]
        <5>1. chosen \in DOMAIN text.ids
          BY <3>2, <4>1
        <5> QED
          BY <3>1, <5>1, OneOfThem
      <4> QED
        BY <4>2, <4>3
    <3> QED
      BY <3>3, <3>4
  <2> DEFINE said == [readable |-> TRUE, total |-> TotalIn(text),
                      taxId |-> IssuerTaxIdIn(text.ids)]
  <2>8. /\ said.readable \in BOOLEAN
        /\ said.total \in Sums \cup {NoSum}
        /\ said.taxId \in TaxIds \cup {NoSupplier}
    BY <2>6, <2>7
  <2>9. FieldsIn(text) = Unread \/ FieldsIn(text) = said
    BY DEF FieldsIn
  <2> HIDE DEF able, first, order, said
  <2>10. CASE FieldsIn(text) = Unread
    BY ONLY <1>0, <2>5, <2>10
  <2>11. CASE FieldsIn(text) = said
    BY ONLY <2>5, <2>8, <2>11
  <2> QED
    BY ONLY <2>9, <2>10, <2>11
<1> QED
  BY <1>1, <1>2

\* An invoice of the list moves, alone.
LEMMA OneInvoiceMoves ==
  ASSUME FilesTypeOK, NEW c \in rows, NEW row \in InvoiceRow \cup {Absent},
         invoices' = [invoices EXCEPT ![c] = row]
  PROVE  /\ invoices' \in [Rows -> InvoiceRow \cup {Absent}]
         /\ invoices'[c] = row /\ \A i \in rows : i # c => invoices'[i] = invoices[i]
  BY DEF FilesTypeOK

\* A document that was heard is not forgotten while no row in the list is taken away.
LEMMA StillHeard ==
  ASSUME HeardOrMissed, rows' = rows, missed \subseteq missed',
         \A c \in rows : In(c) /\ invoices[c].document # NoFile
             => In(c)' /\ invoices'[c].document # NoFile
  PROVE  HeardOrMissed'
  BY DEF HeardOrMissed

LEMMA ListTells ==
  ASSUME FilesInv, NEW i \in rows,
         \/ \E s \in TaxIds \cup {NoSupplier}, total \in Sums : RegisterListed(i, s, total)
         \/ CommitRow(i)
         \/ UndoRow(i)
         \/ \E total \in Sums : ListAgain(i, total)
         \/ Answer(i)
  PROVE  FilesInv'
<1>0. /\ FilesTypeOK /\ i \in Rows /\ invoices[i] \in InvoiceRow \cup {Absent}
      /\ UNCHANGED <<rows, file, fetched, kept, missed>>
      /\ Absent \notin InvoiceRow /\ Absent.stage = "ABSENT"
  BY DEF FilesInv, FilesTypeOK, RegisterListed, CommitRow, UndoRow, ListAgain, Answer, InvoiceRow,
         Absent
<1>1. ASSUME NEW s \in TaxIds \cup {NoSupplier}, NEW total \in Sums, RegisterListed(i, s, total)
      PROVE  FilesInv'
  <2>1. NewRow(s, total) \in InvoiceRow /\ NewRow(s, total).stage = "OPEN"
        /\ NewRow(s, total).document = NoFile /\ ~NewRow(s, total).byTaxId
    BY DEF NewRow, InvoiceRow
  <2>2. /\ invoices' \in [Rows -> InvoiceRow \cup {Absent}]
        /\ invoices'[i] = NewRow(s, total) /\ \A c \in rows : c # i => invoices'[c] = invoices[c]
    BY <1>0, <1>1, <2>1, OneInvoiceMoves DEF RegisterListed
  <2>3. /\ invoices[i] = Absent /\ visits' = [visits EXCEPT ![i] = 0] /\ listed' = listed
    BY <1>1 DEF RegisterListed, Queued
  <2>4. FilesTypeOK'
    BY <1>0, <2>2, <2>3 DEF FilesTypeOK
  <2>5. ASSUME NEW c \in rows PROVE AloneAndSure(c)'
    BY <1>0, <2>1, <2>2, <2>3 DEF FilesInv, AloneAndSure, In
  <2>6. OpenHeardNothing'
    BY <1>0, <2>1, <2>2 DEF FilesInv, OpenHeardNothing
  <2>7. HeardOrMissed => HeardOrMissed'
    BY <1>0, <2>2, <2>3, StillHeard DEF In
  <2>8. \A c \in rows : invoices'[c] # Absent => visits'[c] # NoVisit \/ HeardOrMissed'
    BY <1>0, <2>2, <2>3, <2>7, FilesAssumption DEF FilesInv, FilesTypeOK
  <2> QED
    BY <1>0, <2>4, <2>5, <2>6, <2>7, <2>8 DEF FilesInv
\* A row that is there, or has just been committed.
<1>2. ASSUME invoices[i] # Absent, UNCHANGED visits, NEW row \in InvoiceRow,
             invoices' = [invoices EXCEPT ![i] = row], row.document = invoices[i].document,
             row.stage = "COMMITTED", In(i) \/ invoices[i].stage = "OPEN",
             listed' \in Sums \cup {NoSum},
             rows = {i} => listed' # NoSum,
             \A c \in rows : c # i => listed' = listed \/ rows # {c},
             rows = {i} /\ row.review = "OK" /\ ~row.byTaxId =>
                 row.total = listed' /\ row.document \in {NoFile, row.total}
      PROVE  FilesInv'
  <2>1. /\ invoices' \in [Rows -> InvoiceRow \cup {Absent}]
        /\ invoices'[i] = row /\ \A c \in rows : c # i => invoices'[c] = invoices[c]
    BY <1>0, <1>2, OneInvoiceMoves
  <2>2. FilesTypeOK'
    BY <1>0, <1>2, <2>1 DEF FilesTypeOK
  <2>3. ASSUME NEW c \in rows PROVE AloneAndSure(c)'
    BY <1>0, <1>2, <2>1 DEF AloneAndSure, In
  <2>4. OpenHeardNothing'
    BY <1>0, <1>2, <2>1 DEF FilesInv, OpenHeardNothing
  <2>5. HeardOrMissed => HeardOrMissed'
    BY <1>0, <1>2, <2>1, StillHeard DEF In
  <2>6. \A c \in rows : invoices'[c] # Absent => visits'[c] # NoVisit \/ HeardOrMissed'
    BY <1>0, <1>2, <2>1, <2>5 DEF FilesInv
  <2> QED
    BY <1>0, <2>2, <2>3, <2>4, <2>5, <2>6 DEF FilesInv
<1>3. ASSUME CommitRow(i) PROVE FilesInv'
  <2> DEFINE row == [invoices[i] EXCEPT !.stage = "COMMITTED"]
  <2>1. invoices[i].stage = "OPEN" /\ invoices[i] \in InvoiceRow /\ invoices[i] # Absent
    BY <1>0, <1>3 DEF CommitRow
  <2>2. /\ row \in InvoiceRow /\ row.stage = "COMMITTED" /\ row.document = invoices[i].document
        /\ row.total = invoices[i].total /\ row.byTaxId = invoices[i].byTaxId /\ row.total \in Sums
    BY <2>1 DEF InvoiceRow
  <2>3. row.document = NoFile
    BY <2>1, <2>2 DEF FilesInv, OpenHeardNothing
  <2>4. invoices' = [invoices EXCEPT ![i] = row] /\ listed' = row.total /\ UNCHANGED visits
    BY <1>0, <1>3, <2>2 DEF CommitRow, FilesTypeOK
  <2> HIDE DEF row
  <2> QED
    BY <1>2, <2>1, <2>2, <2>3, <2>4, FilesAssumption
<1>4. ASSUME UndoRow(i) PROVE FilesInv'
  <2>1. /\ invoices' \in [Rows -> InvoiceRow \cup {Absent}]
        /\ invoices'[i] = Absent /\ \A c \in rows : c # i => invoices'[c] = invoices[c]
    BY <1>0, <1>4, OneInvoiceMoves DEF UndoRow
  <2>2. invoices[i].stage = "OPEN" /\ UNCHANGED <<listed, visits>>
    BY <1>4 DEF UndoRow
  <2>3. FilesTypeOK'
    BY <1>0, <2>1, <2>2 DEF FilesTypeOK
  <2>4. ASSUME NEW c \in rows PROVE AloneAndSure(c)'
    BY <1>0, <2>1, <2>2 DEF FilesInv, AloneAndSure, In
  <2>5. OpenHeardNothing'
    BY <1>0, <2>1 DEF FilesInv, OpenHeardNothing
  <2>6. HeardOrMissed => HeardOrMissed'
    BY <1>0, <2>1, <2>2, StillHeard DEF In
  <2>7. \A c \in rows : invoices'[c] # Absent => visits'[c] # NoVisit \/ HeardOrMissed'
    BY <1>0, <2>1, <2>2, <2>6 DEF FilesInv
  <2> QED
    BY <1>0, <2>3, <2>4, <2>5, <2>6, <2>7 DEF FilesInv
<1>5. ASSUME NEW total \in Sums, ListAgain(i, total) PROVE FilesInv'
  <2> DEFINE row == HeldByTotal(invoices[i], total)
  <2>1. In(i) /\ invoices[i] \in InvoiceRow /\ invoices[i] # Absent
    BY <1>0, <1>5 DEF ListAgain, In
  <2>2. /\ row \in InvoiceRow /\ row.document = invoices[i].document
        /\ row.total = invoices[i].total /\ row.byTaxId = invoices[i].byTaxId
        /\ row.stage = invoices[i].stage
        /\ row.review = "OK" => invoices[i].review = "OK" /\ invoices[i].total = total
    BY <2>1 DEF HeldByTotal, InvoiceRow
  <2>3. invoices' = [invoices EXCEPT ![i] = row] /\ listed' = total /\ UNCHANGED visits
    BY <1>0, <1>5, <2>2 DEF ListAgain, FilesTypeOK
  <2> HIDE DEF row
  <2>4. rows = {i} /\ row.review = "OK" /\ ~row.byTaxId =>
                 row.total = listed' /\ row.document \in {NoFile, row.total}
    BY <2>1, <2>2, <2>3 DEF FilesInv, AloneAndSure
  <2> QED
    BY <1>2, <2>1, <2>2, <2>3, <2>4, FilesAssumption DEF In
<1>6. ASSUME Answer(i) PROVE FilesInv'
  <2> DEFINE row == [invoices[i] EXCEPT !.review = "RESOLVED", !.reason = "NONE"]
  <2>1. In(i) /\ invoices[i] \in InvoiceRow /\ invoices[i] # Absent
    BY <1>0, <1>6 DEF Answer, In
  <2>2. /\ row \in InvoiceRow /\ row.document = invoices[i].document /\ row.review = "RESOLVED"
        /\ row.stage = invoices[i].stage
    BY <2>1 DEF InvoiceRow
  <2>3. invoices' = [invoices EXCEPT ![i] = row] /\ UNCHANGED <<visits, listed>>
    BY <1>0, <1>6, <2>1 DEF Answer, FilesTypeOK, InvoiceRow
  <2> HIDE DEF row
  <2>4. listed \in Sums \cup {NoSum} /\ (rows = {i} => listed # NoSum)
    BY <1>0, <2>1 DEF FilesInv, FilesTypeOK, AloneAndSure
  <2> QED
    BY <1>2, <2>1, <2>2, <2>3, <2>4 DEF In
<1> QED
  BY <1>1, <1>3, <1>4, <1>5, <1>6

LEMMA VisitTells ==
  ASSUME FilesInv, NEW i \in rows,
         Download(i) \/ DownloadFails(i) \/ Interpret(i) \/ Die(i) \/ ComeBack(i)
  PROVE  FilesInv'
<1>0. /\ FilesTypeOK /\ i \in Rows /\ UNCHANGED <<rows, file, listed>>
      /\ Absent \notin InvoiceRow /\ Absent.stage = "ABSENT"
  BY DEF FilesInv, FilesTypeOK, Download, DownloadFails, Interpret, Die, ComeBack, InvoiceRow, Absent
\* Nothing is told: a visit goes on, or ends because one was missed or heard.
<1>1. ASSUME UNCHANGED invoices, missed \subseteq missed', missed' \subseteq rows,
             fetched' \subseteq Rows, kept' \in {kept, "STORED"} \/ HeardOrMissed',
             kept' \in {"NONE", "STORED", "NORMALIZED"},
             \E v \in Nat \cup {NoVisit} :
                 visits' = [visits EXCEPT ![i] = v] /\ (v # NoVisit \/ HeardOrMissed')
      PROVE  FilesInv'
  <2>1. FilesTypeOK'
    BY <1>0, <1>1 DEF FilesTypeOK
  <2>2. \A c \in rows : AloneAndSure(c)'
    BY <1>0, <1>1 DEF FilesInv, AloneAndSure, In
  <2>3. OpenHeardNothing'
    BY <1>0, <1>1 DEF FilesInv, OpenHeardNothing
  <2>4. HeardOrMissed => HeardOrMissed'
    BY <1>0, <1>1, StillHeard DEF In
  <2>5. \A c \in rows : invoices'[c] # Absent => visits'[c] # NoVisit \/ HeardOrMissed'
    BY <1>0, <1>1, <2>4 DEF FilesInv, FilesTypeOK
  <2>6. kept' = "NORMALIZED" => HeardOrMissed'
    BY <1>1, <2>4 DEF FilesInv
  <2> QED
    BY <1>0, <2>1, <2>2, <2>3, <2>5, <2>6 DEF FilesInv
<1>2. CASE Download(i)
  <2>1. visits[i] \in Nat \cup {NoVisit} /\ visits = [visits EXCEPT ![i] = visits[i]]
    BY <1>0 DEF FilesTypeOK
  <2>2. UNCHANGED <<invoices, missed>> /\ fetched' \subseteq Rows
        /\ kept' \in {kept, "STORED"} /\ kept' \in {"NONE", "STORED", "NORMALIZED"}
        /\ missed \subseteq rows
    BY <1>0, <1>2 DEF Download, FilesTypeOK
  <2>3. CASE kept = "NORMALIZED"
    <3>1. HeardOrMissed'
      BY <1>0, <2>2, <2>3, StillHeard DEF FilesInv, In
    <3> QED
      BY <1>1, <1>2, <2>2, <2>3, <3>1 DEF Download
  <2>4. CASE kept # "NORMALIZED"
    BY <1>1, <1>2, <2>1, <2>2, <2>4 DEF Download
  <2> QED
    BY <2>3, <2>4
<1>3. CASE DownloadFails(i)
  <2>1. UNCHANGED <<invoices, fetched, kept>> /\ fetched \subseteq Rows /\ missed \subseteq rows
        /\ kept \in {"NONE", "STORED", "NORMALIZED"} /\ visits[i] \in Nat
    BY <1>0, <1>3 DEF DownloadFails, FilesTypeOK
  <2>2. CASE visits[i] < MaxTries
    <3>1. visits' = [visits EXCEPT ![i] = visits[i] + 1] /\ missed' = missed
          /\ visits[i] + 1 \in Nat /\ visits[i] + 1 # NoVisit
      BY <1>3, <2>1, <2>2, FilesAssumption DEF DownloadFails
    <3> QED
      BY <1>1, <2>1, <3>1
  <2>3. CASE ~ (visits[i] < MaxTries)
    <3>1. visits' = [visits EXCEPT ![i] = NoVisit] /\ missed' = missed \cup {i}
      BY <1>3, <2>3 DEF DownloadFails
    <3>2. HeardOrMissed'
      BY <3>1 DEF HeardOrMissed
    <3> QED
      BY <1>1, <2>1, <3>1, <3>2
  <2> QED
    BY <2>2, <2>3
<1>4. CASE Die(i)
  <2>1. /\ UNCHANGED <<invoices, kept>> /\ fetched' \subseteq Rows /\ missed \subseteq rows
        /\ kept \in {"NONE", "STORED", "NORMALIZED"}
        /\ visits' = [visits EXCEPT ![i] = NoVisit] /\ missed' = missed \cup {i}
    BY <1>0, <1>4 DEF Die, FilesTypeOK
  <2>2. HeardOrMissed'
    BY <2>1 DEF HeardOrMissed
  <2> QED
    BY <1>1, <2>1, <2>2
<1>5. CASE ComeBack(i)
  <2>1. fetched' \subseteq fetched /\ UNCHANGED <<rows, file, listed, invoices, visits, kept, missed>>
    BY <1>5 DEF ComeBack
  <2> QED
    BY <2>1 DEF FilesInv, FilesTypeOK, AloneAndSure, OpenHeardNothing, HeardOrMissed, In
<1>6. CASE Interpret(i)
  <2> DEFINE said == ReadInvoiceDocument(file)
             agrees == AgreesWith(said, listed)
  <2>1. /\ said.readable \in BOOLEAN /\ said.total \in Sums \cup {NoSum}
        /\ said.taxId \in TaxIds \cup {NoSupplier}
    BY <1>0, DocumentSays DEF FilesTypeOK
  <2>2. /\ kept' = "NORMALIZED" /\ visits' = [visits EXCEPT ![i] = NoVisit]
        /\ fetched' \subseteq Rows
        /\ IF Numbered = {} THEN missed' = rows /\ UNCHANGED invoices
           ELSE /\ \E c \in Numbered : invoices' = [invoices EXCEPT ![c] = Told(@, said, agrees)]
                /\ UNCHANGED missed
    BY <1>0, <1>6 DEF Interpret, FilesTypeOK
  <2> HIDE DEF said
  <2>3. CASE Numbered = {}
    <3>1. missed' = rows /\ UNCHANGED invoices /\ missed \subseteq rows /\ rows # {}
      BY <1>0, <2>2, <2>3 DEF FilesTypeOK
    <3>2. HeardOrMissed'
      BY <1>0, <3>1 DEF HeardOrMissed
    <3> QED
      BY <1>1, <2>2, <3>1, <3>2
  <2>4. CASE Numbered # {}
    <3>1. PICK c \in Numbered : invoices' = [invoices EXCEPT ![c] = Told(@, said, agrees)]
      BY <2>2, <2>4
    <3> DEFINE row == Told(invoices[c], said, agrees)
    <3>2. c \in rows /\ In(c) /\ invoices[c] \in InvoiceRow
      BY <1>0 DEF Numbered, In, FilesTypeOK
    <3>3. /\ row \in InvoiceRow /\ row.stage = "COMMITTED" /\ row.document = said.total
          /\ row.total = invoices[c].total
          /\ row.review = "OK" /\ ~row.byTaxId =>
                agrees /\ invoices[c].review = "OK" /\ ~invoices[c].byTaxId
      <4>1. WithDocument(invoices[c], said) \in InvoiceRow
            /\ WithDocument(invoices[c], said) = [invoices[c] EXCEPT !.document = said.total]
        BY <2>1, <3>2 DEF WithDocument, InvoiceRow
      <4>2. CASE IdentifiedBy(invoices[c], said)
        <5>1. row = [WithDocument(invoices[c], said) EXCEPT !.supplier = said.taxId,
                          !.review = "OK", !.reason = "NONE", !.byTaxId = TRUE]
          BY <4>2 DEF Told
        <5> QED
          BY <2>1, <3>2, <4>1, <5>1 DEF In, InvoiceRow
      <4>3. CASE ~IdentifiedBy(invoices[c], said) /\ ~agrees /\ invoices[c].review = "OK"
        <5>1. row = [WithDocument(invoices[c], said) EXCEPT !.review = "PENDING",
                          !.reason = IF said.readable THEN "FILE_DISAGREES" ELSE "FILE_UNREADABLE"]
          BY <4>3 DEF Told
        <5> QED
          BY <2>1, <3>2, <4>1, <5>1 DEF In, InvoiceRow
      <4>4. CASE ~IdentifiedBy(invoices[c], said) /\ (agrees \/ invoices[c].review # "OK")
        <5>1. row = WithDocument(invoices[c], said)
          BY <4>4 DEF Told
        <5> QED
          BY <2>1, <3>2, <4>1, <4>4, <5>1 DEF In, InvoiceRow
      <4> QED
        BY <4>2, <4>3, <4>4
    <3>4. invoices' = [invoices EXCEPT ![c] = row] /\ missed' = missed
      BY <1>0, <2>2, <2>4, <3>1, <3>2 DEF FilesTypeOK
    <3> HIDE DEF row
    <3>5. /\ invoices' \in [Rows -> InvoiceRow \cup {Absent}]
          /\ invoices'[c] = row /\ \A d \in rows : d # c => invoices'[d] = invoices[d]
      BY <1>0, <3>2, <3>3, <3>4, OneInvoiceMoves
    <3>6. HeardOrMissed'
      BY <1>0, <2>1, <3>2, <3>3, <3>5, FilesAssumption DEF HeardOrMissed, In
    <3>7. FilesTypeOK'
      BY <1>0, <2>2, <3>4, <3>5 DEF FilesTypeOK
    <3>8. ASSUME NEW d \in rows PROVE AloneAndSure(d)'
      <4>1. CASE d = c
        <5>1. SUFFICES ASSUME rows = {c}
                       PROVE  /\ listed # NoSum
                              /\ row.review = "OK" /\ ~row.byTaxId =>
                                    row.total = listed /\ row.document \in {NoFile, row.total}
          BY <1>0, <3>5, <4>1 DEF AloneAndSure
        <5>2. /\ listed # NoSum
              /\ invoices[c].review = "OK" /\ ~invoices[c].byTaxId => invoices[c].total = listed
          BY <3>2, <5>1 DEF FilesInv, AloneAndSure
        <5> QED
          BY <3>3, <5>2 DEF AgreesWith
      <4>2. CASE d # c
        BY <1>0, <3>2, <3>5, <4>2 DEF AloneAndSure
      <4> QED
        BY <4>1, <4>2
    <3>9. OpenHeardNothing'
      BY <1>0, <3>3, <3>5 DEF FilesInv, OpenHeardNothing
    <3> QED
      BY <1>0, <3>6, <3>7, <3>8, <3>9 DEF FilesInv
  <2> QED
    BY <2>3, <2>4
<1> QED
  BY <1>2, <1>3, <1>4, <1>5, <1>6

\* An invoice that counts without a question and is alone with its number is worth what
\* its document says, and when every visit is over some invoice has its document, unless
\* one was missed.
THEOREM DocumentsAreHeard == FilesSpec => []DocumentIsHeard
<1>1. FilesInit => FilesInv
  <2> SUFFICES ASSUME FilesInit PROVE FilesInv
    OBVIOUS
  <2>1. rows \in SUBSET Rows /\ rows # {} /\ \A i \in Rows : invoices[i] = Absent
    BY DEF FilesInit
  <2>2. \A i \in rows : invoices[i] = Absent /\ ~In(i) /\ invoices[i].stage = "ABSENT"
    BY <2>1 DEF In, Absent
  <2>3. FilesTypeOK
    BY <2>1 DEF FilesInit, FilesTypeOK
  <2>4. (\A i \in rows : AloneAndSure(i)) /\ OpenHeardNothing
    BY <2>2 DEF AloneAndSure, OpenHeardNothing
  <2>5. kept = "NONE"
    BY DEF FilesInit
  <2> QED
    BY <2>2, <2>3, <2>4, <2>5 DEF FilesInv
<1>2. FilesInv /\ [FilesNext]_fileVars => FilesInv'
  <2> SUFFICES ASSUME FilesInv, [FilesNext]_fileVars PROVE FilesInv'
    OBVIOUS
  <2>1. CASE UNCHANGED fileVars
    BY <2>1 DEF fileVars, FilesInv, FilesTypeOK, AloneAndSure, OpenHeardNothing, HeardOrMissed, In
  <2>2. CASE FilesNext
    BY <2>2, ListTells, VisitTells DEF FilesNext
  <2> QED
    BY <2>1, <2>2
<1>3. FilesInv => DocumentIsHeard
  <2> SUFFICES ASSUME FilesInv PROVE DocumentIsHeard
    OBVIOUS
  <2>1. \A i \in rows : rows = {i} /\ In(i) /\ invoices[i].review = "OK"
            /\ invoices[i].document # NoFile
               => invoices[i].document = invoices[i].total \/ invoices[i].byTaxId
    BY DEF FilesInv, AloneAndSure
  <2>2. ASSUME NEW i \in rows, In(i), \A c \in rows : visits[c] = NoVisit, missed = {}
        PROVE  \E c \in rows : In(c) /\ invoices[c].document # NoFile
    BY <2>2 DEF FilesInv, HeardOrMissed, In, Absent
  <2> QED
    BY <2>1, <2>2 DEF DocumentIsHeard
<1> QED
  BY <1>1, <1>2, <1>3, PTL DEF FilesSpec

-------------------------------------------------------------------------------
(* Screens: the price list.                                                   *)

PriceRead == [line : Nat, code : ProductCodes \cup {NoText},
              reason : {"NONE", "MISSING_CODE", "DUPLICATE_CODE", "PRICE"}]
ListDone == [rows : Seq(PriceRead), seen : SUBSET (ProductCodes \cup {NoText}), next : Nat]

LEMMA LineIs ==
  ASSUME NEW line \in PriceLines
  PROVE  /\ line.code \in ProductCodes \cup {NoText} /\ line.blank \in BOOLEAN
         /\ line.price \in {"PRICE", "NOT_A_PRICE"}
         /\ line.blank => line.code = NoText
<1>1. CASE line \in [code : ProductCodes \cup {NoText}, price : {"PRICE", "NOT_A_PRICE"},
                    blank : {FALSE}]
  BY <1>1
<1>2. CASE line = [code |-> NoText, price |-> "NOT_A_PRICE", blank |-> TRUE]
  BY <1>2
<1> QED
  BY <1>1, <1>2 DEF PriceLines

\* What a line adds to what was read before it.
ReasonOf(done, line) ==
    IF line.code = NoText THEN "MISSING_CODE"
    ELSE IF line.code \in done.seen THEN "DUPLICATE_CODE"
    ELSE IF line.price = "NOT_A_PRICE" THEN "PRICE"
    ELSE "NONE"

LEMMA LineIsRead ==
  ASSUME NEW done \in ListDone, NEW line \in PriceLines
  PROVE  /\ PriceRow(done, line) \in ListDone
         /\ PriceRow(done, line).next = done.next + 1
         /\ line.blank => /\ PriceRow(done, line).rows = done.rows
                          /\ PriceRow(done, line).seen = done.seen
         /\ ~line.blank =>
               /\ PriceRow(done, line).rows
                    = Append(done.rows, [line |-> done.next, code |-> line.code,
                                         reason |-> ReasonOf(done, line)])
               /\ PriceRow(done, line).seen = done.seen \cup {line.code}
<1> DEFINE reason == ReasonOf(done, line)
           row == [line |-> done.next, code |-> line.code, reason |-> reason]
           longer == Append(done.rows, row)
<1>1. done.rows \in Seq(PriceRead) /\ done.next \in Nat
      /\ done.seen \in SUBSET (ProductCodes \cup {NoText})
  BY DEF ListDone
<1>2. reason \in {"NONE", "MISSING_CODE", "DUPLICATE_CODE", "PRICE"}
  BY DEF ReasonOf
<1>3. CASE line.blank
  <2>1. PriceRow(done, line) = [done EXCEPT !.next = @ + 1]
    BY <1>3 DEF PriceRow
  <2> QED
    BY <1>1, <1>3, <2>1 DEF ListDone
<1>4. CASE ~line.blank
  <2>1. PriceRow(done, line) = [done EXCEPT !.rows = longer, !.next = done.next + 1,
                                            !.seen = done.seen \cup {line.code}]
    BY <1>4 DEF PriceRow, ReasonOf, ListDone
  <2> HIDE DEF reason
  <2>2. row \in PriceRead
    BY <1>1, <1>2, LineIs DEF PriceRead
  <2> HIDE DEF row
  <2>3. longer \in Seq(PriceRead)
    BY <1>1, <2>2
  <2> HIDE DEF longer
  <2>4. done.seen \cup {line.code} \in SUBSET (ProductCodes \cup {NoText})
    BY <1>1, LineIs
  <2> DEFINE codes == done.seen \cup {line.code}
             next == done.next + 1
             after == [done EXCEPT !.rows = longer, !.next = next, !.seen = codes]
  <2>7. next \in Nat /\ codes \in SUBSET (ProductCodes \cup {NoText})
    BY <1>1, <2>4
  <2> HIDE DEF codes, next
  <2>5. /\ after \in ListDone /\ after.next = next /\ after.rows = longer
        /\ after.seen = codes
    BY <2>3, <2>7 DEF ListDone
  <2> HIDE DEF after
  <2>6. PriceRow(done, line) = after
    BY <2>1 DEF after, next, codes
  <2> QED
    BY <1>4, <2>5, <2>6 DEF longer, row, reason, next, codes
<1> QED
  BY <1>1, <1>3, <1>4, LineIs

\* Reading a price list is reading its lines one after another.
LEMMA ListIsRun ==
  ASSUME NEW written \in Seq(PriceLines)
  PROVE  \E run \in [0 .. Len(written) -> ListDone] :
            /\ run[0] = [rows |-> <<>>, seen |-> {NoText}, next |-> 1]
            /\ \A n \in 1 .. Len(written) : run[n] = PriceRow(run[n - 1], written[n])
            /\ ParsePriceList(written) = run[Len(written)].rows
<1> DEFINE N == Len(written)
           base == [rows |-> <<>>, seen |-> {NoText}, next |-> 1]
           step == [p \in (1 .. N) \X ListDone |-> PriceRow(p[2], written[p[1]])]
           Body(it) == [s \in SUBSET DOMAIN written |->
                          IF s = {} THEN base
                          ELSE LET x == LastOf(s) IN PriceRow(it[s \ {x}], written[x])]
<1>1. N \in Nat /\ DOMAIN written = 1 .. N /\ \A n \in 1 .. N : written[n] \in PriceLines
  OBVIOUS
<1>2. base \in ListDone
  BY DEF ListDone
<1>3. step \in [(1 .. N) \X ListDone -> ListDone]
  BY <1>1, LineIsRead
<1>4. \A n \in 1 .. N, done \in ListDone : step[<<n, done>>] = PriceRow(done, written[n])
  OBVIOUS
<1> HIDE DEF step, base, N
<1>5. ASSUME NEW it, NEW s \in SUBSET (1 .. N), s # {}, it[s \ {LastOf(s)}] \in ListDone
      PROVE  step[<<LastOf(s), it[s \ {LastOf(s)}]>>]
               = PriceRow(it[s \ {LastOf(s)}], written[LastOf(s)])
  <2>1. LastOf(s) \in 1 .. N
    BY <1>1, <1>5, LastIsThere
  <2> QED
    BY <1>4, <1>5, <2>1
<1>6. PICK it \in [SUBSET (1 .. N) -> ListDone] : IsFold(it, 1 .. N, LastPick(N), step, base)
  BY <1>1, <1>2, <1>3, FoldInOrderExists
<1>7. it = Body(it)
  <2>1. ASSUME NEW s \in SUBSET (1 .. N) PROVE it[s] = Body(it)[s]
    <3>1. it[s] = Folded(it, s, LastPick(N), step, base)
      BY <1>6 DEF IsFold
    <3>2. CASE s = {}
      BY <1>1, <3>1, <3>2 DEF Folded
    <3>3. CASE s # {}
      <4>1. it[s \ {LastOf(s)}] \in ListDone
        BY <1>6
      <4>2. it[s] = step[<<LastOf(s), it[s \ {LastOf(s)}]>>]
        BY <3>1, <3>3 DEF Folded, LastPick
      <4> QED
        BY <1>1, <1>5, <3>3, <4>1, <4>2
    <3> QED
      BY <3>2, <3>3
  <2>2. Body(it) = [s \in SUBSET (1 .. N) |-> Body(it)[s]]
    BY <1>1
  <2> HIDE DEF Body
  <2> QED
    BY <1>6, <2>1, <2>2
<1> DEFINE fold == CHOOSE it2 : it2 = Body(it2)
<1>8. fold = Body(fold)
  <2> HIDE DEF Body
  <2> QED
    BY <1>7
<1>9. ParsePriceList(written) = fold[1 .. N].rows
  BY <1>1 DEF ParsePriceList, FoldLeft, MapThenFoldSet, base, LastOf, Max
<1> HIDE DEF fold
<1>10. fold[{}] = base /\ \A s \in SUBSET (1 .. N) : s # {}
                            => fold[s] = PriceRow(fold[s \ {LastOf(s)}], written[LastOf(s)])
  BY <1>1, <1>8
<1> HIDE DEF Body
<1>11. \A s \in SUBSET (1 .. N) : s # {} /\ fold[s \ {LastOf(s)}] \in ListDone
           => fold[s] = step[<<LastOf(s), fold[s \ {LastOf(s)}]>>]
  BY <1>5, <1>10
<1> DEFINE run == [n \in 0 .. N |-> fold[1 .. n]]
<1>12. run[N] = fold[1 .. N] /\ N \in 0 .. N
  BY <1>1
<1>13. IsRun(run, N, step, base, ListDone)
  BY <1>1, <1>2, <1>3, <1>10, <1>11, FoldInOrder
<1>14. run \in [0 .. N -> ListDone] /\ run[0] = base
  BY <1>13 DEF IsRun
<1>15. \A n \in 1 .. N : run[n] = PriceRow(run[n - 1], written[n])
  <2> TAKE n \in 1 .. N
  <2>1. n - 1 \in 0 .. N
    BY <1>1
  <2>2. run[n] = step[<<n, run[n - 1]>>] /\ run[n - 1] \in ListDone
    BY <1>13, <1>14, <2>1 DEF IsRun
  <2> QED
    BY <1>4, <2>2
<1>16. ParsePriceList(written) = run[N].rows
  BY <1>9, <1>12
<1> HIDE DEF run
<1> QED
  BY <1>14, <1>15, <1>16 DEF N, base

\* What the lines up to the n-th say, and the reading after them.
Said(written, n) == {m \in 1 .. n : ~written[m].blank}
FirstOfCode(written, n) == \A m \in 1 .. (n - 1) : written[m].code # written[n].code
ReadSoFar(written, n, done) ==
    /\ done \in ListDone
    /\ done.next = n + 1
    /\ done.seen = {NoText} \cup {written[m].code : m \in 1 .. n}
    /\ {done.rows[k].line : k \in DOMAIN done.rows} = Said(written, n)
    /\ Len(done.rows) = Cardinality(Said(written, n))
    /\ \A k \in DOMAIN done.rows :
          LET q == done.rows[k].line
          IN  done.rows[k].reason = "NONE"
                 <=> written[q].code # NoText /\ FirstOfCode(written, q) /\ written[q].price = "PRICE"

LEMMA OneLineMore ==
  ASSUME NEW written \in Seq(PriceLines), NEW n \in 1 .. Len(written), NEW done,
         ReadSoFar(written, n - 1, done)
  PROVE  ReadSoFar(written, n, PriceRow(done, written[n]))
<1> DEFINE line == written[n]
           after == PriceRow(done, line)
<1>1. /\ Len(written) \in Nat /\ \A m \in 1 .. n : written[m] \in PriceLines
      /\ line \in PriceLines /\ n \in Nat /\ n - 1 \in Nat /\ n \in 1 .. n
      /\ 1 .. n = (1 .. (n - 1)) \cup {n} /\ n \notin 1 .. (n - 1)
  OBVIOUS
<1>2. /\ done \in ListDone /\ done.next = n
      /\ done.rows \in Seq(PriceRead)
      /\ done.seen = {NoText} \cup {written[m].code : m \in 1 .. (n - 1)}
  BY <1>1 DEF ReadSoFar, ListDone
<1>3. line.blank \in BOOLEAN /\ (line.blank => line.code = NoText)
      /\ line.price \in {"PRICE", "NOT_A_PRICE"}
  BY <1>1, LineIs
<1>4. /\ after \in ListDone /\ after.next = n + 1
      /\ line.blank => after.rows = done.rows /\ after.seen = done.seen
      /\ ~line.blank =>
            /\ after.rows = Append(done.rows, [line |-> n, code |-> line.code,
                                               reason |-> ReasonOf(done, line)])
            /\ after.seen = done.seen \cup {line.code}
  BY <1>1, <1>2, LineIsRead
<1> SUFFICES ReadSoFar(written, n, after)
  OBVIOUS
<1> HIDE DEF after
<1>5. after.seen = {NoText} \cup {written[m].code : m \in 1 .. n}
  <2>1. {written[m].code : m \in 1 .. n} = {written[m].code : m \in 1 .. (n - 1)} \cup {line.code}
    BY <1>1
  <2> QED
    BY <1>2, <1>3, <1>4, <2>1
<1> DEFINE S == Said(written, n - 1)
           Fits(row) == row.reason = "NONE" <=> /\ written[row.line].code # NoText
                                                /\ FirstOfCode(written, row.line)
                                                /\ written[row.line].price = "PRICE"
<1>6. /\ {done.rows[k].line : k \in DOMAIN done.rows} = S
      /\ Len(done.rows) = Cardinality(S) /\ \A k \in DOMAIN done.rows : Fits(done.rows[k])
  BY DEF ReadSoFar
<1>7. IsFiniteSet(S) /\ n \notin S
  <2>1. IsFiniteSet(1 .. (n - 1))
    BY <1>1, FS_Interval
  <2> QED
    BY <1>1, <2>1, FS_Subset DEF Said
<1>8. Said(written, n) = IF line.blank THEN S ELSE S \cup {n}
  BY <1>1, <1>3 DEF Said
<1>9. CASE line.blank
  BY <1>4, <1>5, <1>6, <1>8, <1>9 DEF ReadSoFar
<1>10. CASE ~line.blank
  <2> DEFINE row == [line |-> n, code |-> line.code, reason |-> ReasonOf(done, line)]
  <2>1. after.rows = Append(done.rows, row)
    BY <1>4, <1>10
  <2>2. Fits(row)
    <3>1. line.code \in done.seen <=> line.code = NoText \/ ~FirstOfCode(written, n)
      BY <1>2 DEF FirstOfCode
    <3>2. ReasonOf(done, line) = "NONE"
            <=> line.code # NoText /\ line.code \notin done.seen /\ line.price = "PRICE"
      BY <1>3 DEF ReasonOf
    <3> QED
      BY <3>1, <3>2
  <2>3. row.line = n
    OBVIOUS
  <2> HIDE DEF row, Fits, S
  <2>4. /\ Len(done.rows) \in Nat /\ DOMAIN done.rows = 1 .. Len(done.rows)
        /\ Len(after.rows) = Len(done.rows) + 1
        /\ DOMAIN after.rows = DOMAIN done.rows \cup {Len(done.rows) + 1}
        /\ after.rows[Len(done.rows) + 1] = row
        /\ \A k \in DOMAIN done.rows : after.rows[k] = done.rows[k]
    BY <1>2, <2>1, AppendProperties
  <2>5. {after.rows[k].line : k \in DOMAIN after.rows} = S \cup {n}
    BY <1>6, <2>3, <2>4
  <2>6. Cardinality(S \cup {n}) = Cardinality(S) + 1
    BY <1>7, FS_AddElement
  <2>7. \A k \in DOMAIN after.rows : Fits(after.rows[k])
    BY <1>6, <2>2, <2>4
  <2>8. Len(after.rows) = Cardinality(S \cup {n})
    BY <1>6, <2>4, <2>6
  <2> QED
    BY <1>4, <1>5, <1>8, <1>10, <2>5, <2>7, <2>8 DEF ReadSoFar, Fits
<1> QED
  BY <1>3, <1>9, <1>10

LEMMA ListIsRead ==
  ASSUME NEW written \in Seq(PriceLines)
  PROVE  \E done : /\ ReadSoFar(written, Len(written), done)
                   /\ ParsePriceList(written) = done.rows
<1>1. Len(written) \in Nat
  OBVIOUS
<1>2. PICK run \in [0 .. Len(written) -> ListDone] :
            /\ run[0] = [rows |-> <<>>, seen |-> {NoText}, next |-> 1]
            /\ \A n \in 1 .. Len(written) : run[n] = PriceRow(run[n - 1], written[n])
            /\ ParsePriceList(written) = run[Len(written)].rows
  BY ListIsRun
<1> DEFINE Bad == {n \in 0 .. Len(written) : ~ReadSoFar(written, n, run[n])}
<1>3. 0 \notin Bad
  <2>1. Said(written, 0) = {} /\ 1 .. 0 = {}
    BY DEF Said
  <2>2. 0 \in 0 .. Len(written) /\ run[0] = [rows |-> <<>>, seen |-> {NoText}, next |-> 1]
    BY <1>1, <1>2
  <2> DEFINE done == run[0]
  <2>3. done \in ListDone
    BY <2>2
  <2>4. done.rows = <<>> /\ done.seen = {NoText} /\ done.next = 1
    BY <2>2
  <2>5. Cardinality(Said(written, 0)) = 0
    BY <2>1, FS_EmptySet
  <2>6. Len(done.rows) = 0 /\ DOMAIN done.rows = {}
    BY <2>4
  <2> HIDE DEF done
  <2>7. {done.rows[k].line : k \in DOMAIN done.rows} = {}
    BY <2>6
  <2>8. {written[m].code : m \in 1 .. 0} = {}
    BY <2>1
  <2>9. ReadSoFar(written, 0, done)
    BY <2>1, <2>3, <2>4, <2>5, <2>6, <2>7, <2>8 DEF ReadSoFar
  <2> QED
    BY <2>9 DEF done
<1>4. Bad = {}
  <2> SUFFICES ASSUME Bad # {} PROVE FALSE
    OBVIOUS
  <2>1. Bad \subseteq Nat
    OBVIOUS
  <2> HIDE DEF Bad
  <2>2. PICK n \in Bad : \A m \in Bad : n <= m
    BY <2>1, FirstOf
  <2> USE DEF Bad
  <2>3. n \in 1 .. Len(written) /\ n - 1 \in 0 .. Len(written) /\ n - 1 \notin Bad
    BY <1>1, <1>3, <2>2
  <2>4. ReadSoFar(written, n - 1, run[n - 1])
    BY <2>3
  <2>5. ReadSoFar(written, n, run[n])
    BY <1>2, <2>3, <2>4, OneLineMore
  <2> QED
    BY <2>2, <2>5
<1> QED
  BY <1>1, <1>2, <1>4

-------------------------------------------------------------------------------
(* Screens: the register.                                                     *)

PaymentsRead == [at : Nat, supplier : SupplierNames, readable : BOOLEAN]
LedgerDone == [current : SupplierNames \cup {NoText},
               cards : [SupplierNames -> CardTerms \cup {NoText}],
               payments : SUBSET PaymentsRead, at : Nat]
Unwritten == [current |-> NoText, cards |-> [s \in SupplierNames |-> NoText],
              payments |-> {}, at |-> 1]

IsDetail(block) == block.kind = "HEADING" /\ block.detail # NoText
IsPayment(block) == block.kind = "MOVEMENTS" /\ block.payment

LEMMA BlockIs ==
  ASSUME NEW block \in Blocks
  PROVE  /\ block.kind \in {"HEADING", "CARD", "MOVEMENTS", "OTHER"}
         /\ block.kind = "HEADING" => block.detail \in SupplierNames \cup {NoText}
         /\ block.kind = "CARD" => block.term \in CardTerms
         /\ block.kind = "MOVEMENTS" => block.payment \in BOOLEAN /\ block.readable \in BOOLEAN
<1>1. CASE block \in Headings
  BY <1>1 DEF Headings
<1>2. CASE block \in CardTables
  BY <1>2 DEF CardTables
<1>3. CASE block \in MovementTables
  BY <1>3 DEF MovementTables
<1>4. CASE block \in OtherTables
  BY <1>4 DEF OtherTables
<1> QED
  BY <1>1, <1>2, <1>3, <1>4 DEF Blocks

\* What a block changes of what was read before it.
LEMMA BlockIsRead ==
  ASSUME NEW done \in LedgerDone, NEW block \in Blocks
  PROVE  /\ LedgerBlock(done, block) \in LedgerDone
         /\ LedgerBlock(done, block).at = done.at + 1
         /\ LedgerBlock(done, block).current
              = IF IsDetail(block) THEN block.detail ELSE done.current
         /\ LedgerBlock(done, block).cards
              = IF block.kind = "CARD" /\ done.current # NoText
                THEN [done.cards EXCEPT ![done.current] = block.term] ELSE done.cards
         /\ LedgerBlock(done, block).payments
              = IF IsPayment(block) /\ done.current # NoText
                THEN done.payments \cup {[at |-> done.at, supplier |-> done.current,
                                          readable |-> block.readable]}
                ELSE done.payments
<1> DEFINE next == done.at + 1
           paid == done.payments \cup {[at |-> done.at, supplier |-> done.current,
                                        readable |-> block.readable]}
           carded == [done.cards EXCEPT ![done.current] = block.term]
           current == IF block.detail = NoText THEN done.current ELSE block.detail
<1>1. /\ done.at \in Nat /\ next \in Nat /\ done.current \in SupplierNames \cup {NoText}
      /\ done.cards \in [SupplierNames -> CardTerms \cup {NoText}]
      /\ done.payments \in SUBSET PaymentsRead
  BY DEF LedgerDone
<1>2. CASE block.kind = "HEADING"
  <2>1. current \in SupplierNames \cup {NoText}
    BY <1>1, <1>2, BlockIs
  <2>2. LedgerBlock(done, block) = [done EXCEPT !.current = current, !.at = next]
    BY <1>2 DEF LedgerBlock, LedgerDone
  <2>3. current = IF IsDetail(block) THEN block.detail ELSE done.current
    BY <1>2 DEF IsDetail
  <2>4. ~IsPayment(block) /\ block.kind # "CARD"
    BY <1>2 DEF IsPayment
  <2> HIDE DEF next, current
  <2>5. /\ LedgerBlock(done, block) \in LedgerDone /\ LedgerBlock(done, block).at = next
        /\ LedgerBlock(done, block).current = current
        /\ LedgerBlock(done, block).cards = done.cards
        /\ LedgerBlock(done, block).payments = done.payments
    BY <1>1, <2>1, <2>2 DEF LedgerDone
  <2> QED
    BY <2>3, <2>4, <2>5 DEF next
<1>3. CASE block.kind = "CARD" /\ done.current # NoText
  <2>1. carded \in [SupplierNames -> CardTerms \cup {NoText}]
    BY <1>1, <1>3, BlockIs
  <2>2. LedgerBlock(done, block) = [done EXCEPT !.cards = carded, !.at = next]
    BY <1>3 DEF LedgerBlock, LedgerDone
  <2>3. ~IsPayment(block) /\ ~IsDetail(block)
    BY <1>3 DEF IsPayment, IsDetail
  <2> HIDE DEF next, carded
  <2>4. /\ LedgerBlock(done, block) \in LedgerDone /\ LedgerBlock(done, block).at = next
        /\ LedgerBlock(done, block).current = done.current
        /\ LedgerBlock(done, block).cards = carded
        /\ LedgerBlock(done, block).payments = done.payments
    BY <1>1, <2>1, <2>2 DEF LedgerDone
  <2> QED
    BY <1>3, <2>3, <2>4 DEF next, carded
<1>4. CASE IsPayment(block) /\ done.current # NoText
  <2>1. paid \in SUBSET PaymentsRead
    BY <1>1, <1>4, BlockIs DEF PaymentsRead, IsPayment
  <2>2. LedgerBlock(done, block) = [done EXCEPT !.payments = paid, !.at = next]
    BY <1>4 DEF LedgerBlock, LedgerDone, IsPayment
  <2>3. block.kind # "CARD" /\ ~IsDetail(block)
    BY <1>4 DEF IsPayment, IsDetail
  <2> HIDE DEF next, paid
  <2>4. /\ LedgerBlock(done, block) \in LedgerDone /\ LedgerBlock(done, block).at = next
        /\ LedgerBlock(done, block).current = done.current
        /\ LedgerBlock(done, block).cards = done.cards
        /\ LedgerBlock(done, block).payments = paid
    BY <1>1, <2>1, <2>2 DEF LedgerDone
  <2> QED
    BY <1>4, <2>3, <2>4 DEF next, paid
<1>5. CASE /\ block.kind # "HEADING"
           /\ ~(block.kind = "CARD" /\ done.current # NoText)
           /\ ~(IsPayment(block) /\ done.current # NoText)
  <2>1. LedgerBlock(done, block) = [done EXCEPT !.at = next]
    BY <1>5 DEF LedgerBlock, LedgerDone, IsPayment
  <2>2. ~IsDetail(block)
    BY <1>5 DEF IsDetail
  <2> HIDE DEF next
  <2>3. /\ LedgerBlock(done, block) \in LedgerDone /\ LedgerBlock(done, block).at = next
        /\ LedgerBlock(done, block).current = done.current
        /\ LedgerBlock(done, block).cards = done.cards
        /\ LedgerBlock(done, block).payments = done.payments
    BY <1>1, <2>1 DEF LedgerDone
  <2> QED
    BY <1>5, <2>2, <2>3 DEF next
<1> QED
  BY <1>2, <1>3, <1>4, <1>5

\* Reading the register is reading its blocks one after another.
LEMMA LedgerIsRun ==
  ASSUME NEW written \in Seq(Blocks)
  PROVE  \E run \in [0 .. Len(written) -> LedgerDone] :
            /\ run[0] = Unwritten
            /\ \A n \in 1 .. Len(written) : run[n] = LedgerBlock(run[n - 1], written[n])
            /\ ParseLedger(written) = run[Len(written)]
<1> DEFINE N == Len(written)
           base == Unwritten
           step == [p \in (1 .. N) \X LedgerDone |-> LedgerBlock(p[2], written[p[1]])]
           Body(it) == [s \in SUBSET DOMAIN written |->
                          IF s = {} THEN base
                          ELSE LET x == LastOf(s) IN LedgerBlock(it[s \ {x}], written[x])]
<1>1. N \in Nat /\ DOMAIN written = 1 .. N /\ \A n \in 1 .. N : written[n] \in Blocks
  OBVIOUS
<1>2. base \in LedgerDone
  BY DEF LedgerDone, Unwritten
<1>3. step \in [(1 .. N) \X LedgerDone -> LedgerDone]
  BY <1>1, BlockIsRead
<1>4. \A n \in 1 .. N, done \in LedgerDone : step[<<n, done>>] = LedgerBlock(done, written[n])
  OBVIOUS
<1> HIDE DEF step, base, N
<1>5. ASSUME NEW it, NEW s \in SUBSET (1 .. N), s # {}, it[s \ {LastOf(s)}] \in LedgerDone
      PROVE  step[<<LastOf(s), it[s \ {LastOf(s)}]>>]
               = LedgerBlock(it[s \ {LastOf(s)}], written[LastOf(s)])
  <2>1. LastOf(s) \in 1 .. N
    BY <1>1, <1>5, LastIsThere
  <2> QED
    BY <1>4, <1>5, <2>1
<1>6. PICK it \in [SUBSET (1 .. N) -> LedgerDone] : IsFold(it, 1 .. N, LastPick(N), step, base)
  BY <1>1, <1>2, <1>3, FoldInOrderExists
<1>7. it = Body(it)
  <2>1. ASSUME NEW s \in SUBSET (1 .. N) PROVE it[s] = Body(it)[s]
    <3>1. it[s] = Folded(it, s, LastPick(N), step, base)
      BY <1>6 DEF IsFold
    <3>2. CASE s = {}
      BY <1>1, <3>1, <3>2 DEF Folded
    <3>3. CASE s # {}
      <4>1. it[s \ {LastOf(s)}] \in LedgerDone
        BY <1>6
      <4>2. it[s] = step[<<LastOf(s), it[s \ {LastOf(s)}]>>]
        BY <3>1, <3>3 DEF Folded, LastPick
      <4> QED
        BY <1>1, <1>5, <3>3, <4>1, <4>2
    <3> QED
      BY <3>2, <3>3
  <2>2. Body(it) = [s \in SUBSET (1 .. N) |-> Body(it)[s]]
    BY <1>1
  <2> HIDE DEF Body
  <2> QED
    BY <1>6, <2>1, <2>2
<1> DEFINE fold == CHOOSE it2 : it2 = Body(it2)
<1>8. fold = Body(fold)
  <2> HIDE DEF Body
  <2> QED
    BY <1>7
<1>9. ParseLedger(written) = fold[1 .. N]
  BY <1>1 DEF ParseLedger, Unwritten, FoldLeft, MapThenFoldSet, base, LastOf, Max
<1> HIDE DEF fold
<1>10. fold[{}] = base /\ \A s \in SUBSET (1 .. N) : s # {}
                            => fold[s] = LedgerBlock(fold[s \ {LastOf(s)}], written[LastOf(s)])
  BY <1>1, <1>8
<1> HIDE DEF Body
<1>11. \A s \in SUBSET (1 .. N) : s # {} /\ fold[s \ {LastOf(s)}] \in LedgerDone
           => fold[s] = step[<<LastOf(s), fold[s \ {LastOf(s)}]>>]
  BY <1>5, <1>10
<1> DEFINE run == [n \in 0 .. N |-> fold[1 .. n]]
<1>12. run[N] = fold[1 .. N] /\ N \in 0 .. N
  BY <1>1
<1>13. IsRun(run, N, step, base, LedgerDone)
  BY <1>1, <1>2, <1>3, <1>10, <1>11, FoldInOrder
<1>14. run \in [0 .. N -> LedgerDone] /\ run[0] = base
  BY <1>13 DEF IsRun
<1>15. \A n \in 1 .. N : run[n] = LedgerBlock(run[n - 1], written[n])
  <2> TAKE n \in 1 .. N
  <2>1. n - 1 \in 0 .. N
    BY <1>1
  <2>2. run[n] = step[<<n, run[n - 1]>>] /\ run[n - 1] \in LedgerDone
    BY <1>13, <1>14, <2>1 DEF IsRun
  <2> QED
    BY <1>4, <2>2
<1>16. ParseLedger(written) = run[N]
  BY <1>9, <1>12
<1> HIDE DEF run
<1> QED
  BY <1>14, <1>15, <1>16 DEF N, base

\* Whose detail the n-th block is written under, and the cards of a supplier up to it.
DetailsBefore(written, n) == {m \in 1 .. (n - 1) : IsDetail(written[m])}
WrittenUnder(written, n, s) ==
    \E m \in DetailsBefore(written, n) :
        written[m].detail = s /\ \A k \in DetailsBefore(written, n) : k <= m
CardsUpTo(written, n, s) ==
    {m \in 1 .. n : written[m].kind = "CARD" /\ WrittenUnder(written, m, s)}
PaidUnder(written, m, s) ==
    IsPayment(written[m]) /\ written[m].readable /\ WrittenUnder(written, m, s)
LastCard(written, n, s, card) ==
    IF CardsUpTo(written, n, s) = {} THEN card = NoText
    ELSE \E m \in CardsUpTo(written, n, s) :
            card = written[m].term /\ \A other \in CardsUpTo(written, n, s) : other <= m

\* The reading after the first n blocks.
LedgerSoFar(written, n, done) ==
    /\ done \in LedgerDone
    /\ done.at = n + 1
    /\ \A s \in SupplierNames : done.current = s <=> WrittenUnder(written, n + 1, s)
    /\ \A m \in Nat, s \in SupplierNames :
          [at |-> m, supplier |-> s, readable |-> TRUE] \in done.payments
             <=> m \in 1 .. n /\ PaidUnder(written, m, s)
    /\ \A s \in SupplierNames : LastCard(written, n, s, done.cards[s])

LEMMA OneBlockMore ==
  ASSUME NEW written \in Seq(Blocks), NEW n \in 1 .. Len(written), NEW done,
         LedgerSoFar(written, n - 1, done)
  PROVE  LedgerSoFar(written, n, LedgerBlock(done, written[n]))
<1> DEFINE block == written[n]
           after == LedgerBlock(done, block)
<1>1. /\ Len(written) \in Nat /\ block \in Blocks
      /\ n \in Nat /\ n \in 1 .. n /\ (n - 1) + 1 = n /\ (n + 1) - 1 = n
      /\ 1 .. n = (1 .. (n - 1)) \cup {n} /\ n \notin 1 .. (n - 1)
      /\ \A m \in 1 .. (n - 1) : m \in Nat /\ m < n
  OBVIOUS
<1>2. /\ done \in LedgerDone /\ done.at = n
      /\ \A s \in SupplierNames : done.current = s <=> WrittenUnder(written, n, s)
      /\ \A m \in Nat, s \in SupplierNames :
            [at |-> m, supplier |-> s, readable |-> TRUE] \in done.payments
               <=> m \in 1 .. (n - 1) /\ PaidUnder(written, m, s)
      /\ \A s \in SupplierNames : LastCard(written, n - 1, s, done.cards[s])
      /\ done.current \in SupplierNames \cup {NoText}
      /\ done.cards \in [SupplierNames -> CardTerms \cup {NoText}]
  BY <1>1 DEF LedgerSoFar, LedgerDone
<1>3. /\ after \in LedgerDone /\ after.at = n + 1
      /\ after.current = IF IsDetail(block) THEN block.detail ELSE done.current
      /\ after.cards = IF block.kind = "CARD" /\ done.current # NoText
                       THEN [done.cards EXCEPT ![done.current] = block.term] ELSE done.cards
      /\ after.payments = IF IsPayment(block) /\ done.current # NoText
                          THEN done.payments \cup {[at |-> n, supplier |-> done.current,
                                                    readable |-> block.readable]}
                          ELSE done.payments
  <2>1. done \in LedgerDone /\ block \in Blocks /\ done.at = n
    BY <1>1, <1>2
  <2> HIDE DEF block
  <2> QED
    BY ONLY <2>1, BlockIsRead DEF after
<1> SUFFICES LedgerSoFar(written, n, after)
  OBVIOUS
<1> HIDE DEF after
<1>4. ASSUME NEW s \in SupplierNames PROVE after.current = s <=> WrittenUnder(written, n + 1, s)
  <2>1. DetailsBefore(written, n + 1)
          = IF IsDetail(block) THEN DetailsBefore(written, n) \cup {n} ELSE DetailsBefore(written, n)
    BY <1>1 DEF DetailsBefore
  <2>2. \A m \in DetailsBefore(written, n) : m \in Nat /\ m < n
    BY <1>1 DEF DetailsBefore
  <2>3. CASE IsDetail(block)
    <3> DEFINE D == DetailsBefore(written, n)
    <3>1. DetailsBefore(written, n + 1) = D \cup {n} /\ after.current = block.detail
      BY <1>3, <2>1, <2>3
    <3>2. \A k \in D \cup {n} : k <= n
      BY <1>1, <2>2
    <3>3. \A m \in D : ~(n <= m)
      BY <1>1, <2>2
    <3> HIDE DEF D
    <3> QED
      BY <3>1, <3>2, <3>3 DEF WrittenUnder
  <2>4. CASE ~IsDetail(block)
    BY <1>2, <1>3, <2>1, <2>4 DEF WrittenUnder
  <2> QED
    BY <2>3, <2>4
<1>5. \A s \in SupplierNames : s # NoText
  BY ScreensAssumption
<1>6. ASSUME NEW m \in Nat, NEW s \in SupplierNames
      PROVE  [at |-> m, supplier |-> s, readable |-> TRUE] \in after.payments
                <=> m \in 1 .. n /\ PaidUnder(written, m, s)
  <2> DEFINE row == [at |-> m, supplier |-> s, readable |-> TRUE]
             new == [at |-> n, supplier |-> done.current, readable |-> block.readable]
  <2>1. row \in done.payments <=> m \in 1 .. (n - 1) /\ PaidUnder(written, m, s)
    BY <1>2
  <2>2. IsPayment(block) => block.readable \in BOOLEAN
    BY <1>1, BlockIs DEF IsPayment
  <2>3. IsPayment(block) => (row = new <=> m = n /\ s = done.current /\ block.readable)
    BY <2>2
  <2>4. PaidUnder(written, n, s) <=> IsPayment(block) /\ block.readable /\ s = done.current
    BY <1>2 DEF PaidUnder
  <2>5. row \in after.payments
          <=> row \in done.payments
              \/ (IsPayment(block) /\ done.current # NoText /\ row = new)
    BY <1>3
  <2> HIDE DEF row, new
  <2>6. row \in after.payments <=> m \in 1 .. n /\ PaidUnder(written, m, s)
    <3>1. CASE m = n
      BY <1>1, <1>5, <2>1, <2>3, <2>4, <2>5, <3>1
    <3>2. CASE m # n
      BY <1>1, <2>1, <2>3, <2>5, <3>2
    <3> QED
      BY <3>1, <3>2
  <2> QED
    BY <2>6 DEF row
<1>7. ASSUME NEW s \in SupplierNames PROVE LastCard(written, n, s, after.cards[s])
  <2> DEFINE C == CardsUpTo(written, n - 1, s)
             mine == block.kind = "CARD" /\ s = done.current
  <2>1. CardsUpTo(written, n, s) = IF mine THEN C \cup {n} ELSE C
    BY <1>1, <1>2 DEF CardsUpTo
  <2>2. \A m \in C : m \in Nat /\ m < n
    BY <1>1 DEF CardsUpTo
  <2>3. LastCard(written, n - 1, s, done.cards[s])
    BY <1>2
  <2>4. after.cards[s] = IF mine THEN block.term ELSE done.cards[s]
    BY <1>2, <1>3, <1>5
  <2>5. CASE mine
    <3> HIDE DEF C, mine
    <3>1. CardsUpTo(written, n, s) = C \cup {n} /\ after.cards[s] = block.term
      BY <2>1, <2>4, <2>5
    <3>2. \A other \in C \cup {n} : other <= n
      BY <1>1, <2>2
    <3> QED
      BY <3>1, <3>2 DEF LastCard
  <2>6. CASE ~mine
    <3> HIDE DEF mine
    <3>1. CardsUpTo(written, n, s) = C /\ after.cards[s] = done.cards[s]
      BY <2>1, <2>4, <2>6
    <3> QED
      BY <2>3, <3>1 DEF LastCard
  <2> QED
    BY <2>5, <2>6
<1> QED
  BY <1>3, <1>4, <1>6, <1>7 DEF LedgerSoFar

LEMMA LedgerIsRead ==
  ASSUME NEW written \in Seq(Blocks)
  PROVE  LedgerSoFar(written, Len(written), ParseLedger(written))
<1>1. Len(written) \in Nat
  OBVIOUS
<1>2. PICK run \in [0 .. Len(written) -> LedgerDone] :
            /\ run[0] = Unwritten
            /\ \A n \in 1 .. Len(written) : run[n] = LedgerBlock(run[n - 1], written[n])
            /\ ParseLedger(written) = run[Len(written)]
  BY LedgerIsRun
<1> DEFINE Bad == {n \in 0 .. Len(written) : ~LedgerSoFar(written, n, run[n])}
<1>3. 0 \notin Bad
  <2>1. \A s : CardsUpTo(written, 0, s) = {} /\ ~WrittenUnder(written, 1, s)
    BY DEF CardsUpTo, WrittenUnder, DetailsBefore
  <2>2. 0 \in 0 .. Len(written) /\ run[0] = Unwritten /\ Unwritten \in LedgerDone
    BY <1>1, <1>2
  <2>3. /\ Unwritten.current = NoText /\ Unwritten.payments = {} /\ Unwritten.at = 1
        /\ \A s \in SupplierNames : Unwritten.cards[s] = NoText
    BY DEF Unwritten
  <2>4. LedgerSoFar(written, 0, Unwritten)
    BY <2>1, <2>2, <2>3, ScreensAssumption DEF LedgerSoFar, LastCard
  <2> QED
    BY <2>2, <2>4
<1>4. Bad = {}
  <2> SUFFICES ASSUME Bad # {} PROVE FALSE
    OBVIOUS
  <2>1. Bad \subseteq Nat
    OBVIOUS
  <2> HIDE DEF Bad
  <2>2. PICK n \in Bad : \A m \in Bad : n <= m
    BY <2>1, FirstOf
  <2> USE DEF Bad
  <2>3. n \in 1 .. Len(written) /\ n - 1 \in 0 .. Len(written) /\ n - 1 \notin Bad
    BY <1>1, <1>3, <2>2
  <2>4. LedgerSoFar(written, n - 1, run[n - 1])
    BY <2>3
  <2>5. LedgerSoFar(written, n, run[n])
    BY <1>2, <2>3, <2>4, OneBlockMore
  <2> QED
    BY <2>2, <2>5
<1> QED
  BY <1>1, <1>2, <1>4

-------------------------------------------------------------------------------
ScreensInv == lines \in Seq(PriceLines) /\ blocks \in Seq(Blocks)

\* However long the screens are: of the rows of one code the first alone can go through,
\* and every payment and card is of the supplier it is written under.
THEOREM ScreensAreReadAsWritten == ScreensSpec => []ReadAsWritten
<1>1. ScreensInit => ScreensInv
  BY DEF ScreensInit, ScreensInv
<1>2. ScreensInv /\ [ScreensNext]_screenVars => ScreensInv'
  <2>1. ASSUME ScreensInv, NEW line \in PriceLines, WriteLine(line) PROVE ScreensInv'
    BY <2>1 DEF ScreensInv, WriteLine
  <2>2. ASSUME ScreensInv, NEW block \in Blocks, WriteBlock(block) PROVE ScreensInv'
    BY <2>2 DEF ScreensInv, WriteBlock
  <2>3. ASSUME ScreensInv, UNCHANGED screenVars PROVE ScreensInv'
    BY <2>3 DEF ScreensInv, screenVars
  <2> QED
    BY <2>1, <2>2, <2>3 DEF ScreensNext
<1>3. ScreensInv => OnePricePerCode
  <2> SUFFICES ASSUME ScreensInv PROVE OnePricePerCode
    OBVIOUS
  <2>1. lines \in Seq(PriceLines) /\ Len(lines) \in Nat /\ DOMAIN lines = 1 .. Len(lines)
    BY DEF ScreensInv
  <2>2. PICK done : ReadSoFar(lines, Len(lines), done) /\ ParsePriceList(lines) = done.rows
    BY <2>1, ListIsRead
  <2>3. Said(lines, Len(lines)) = {n \in DOMAIN lines : ~lines[n].blank}
    BY <2>1 DEF Said
  <2> QED
    BY <2>2, <2>3 DEF OnePricePerCode, ReadSoFar, FirstOfCode
<1>4. ScreensInv => LedgerIsReadByDetail
  <2> SUFFICES ASSUME ScreensInv PROVE LedgerIsReadByDetail
    OBVIOUS
  <2> DEFINE parsed == ParseLedger(blocks)
             Details(n) == {m \in 1..(n - 1) : blocks[m].kind = "HEADING" /\ blocks[m].detail # NoText}
             Under(n, s) == \E m \in Details(n) : /\ blocks[m].detail = s
                                                  /\ \A k \in Details(n) : k <= m
             CardsOf(s) == {n \in DOMAIN blocks : blocks[n].kind = "CARD" /\ Under(n, s)}
  <2>1. blocks \in Seq(Blocks) /\ Len(blocks) \in Nat /\ DOMAIN blocks = 1 .. Len(blocks)
    BY DEF ScreensInv
  <2>2. LedgerSoFar(blocks, Len(blocks), parsed)
    BY <2>1, LedgerIsRead
  <2>3. \A n, s : Under(n, s) <=> WrittenUnder(blocks, n, s)
    BY DEF WrittenUnder, DetailsBefore, IsDetail
  <2> HIDE DEF Under, parsed
  <2>4. \A s : CardsOf(s) = CardsUpTo(blocks, Len(blocks), s)
    BY <2>1, <2>3 DEF CardsUpTo
  <2> HIDE DEF CardsOf
  <2>5. \A n \in DOMAIN blocks, s \in SupplierNames :
               [at |-> n, supplier |-> s, readable |-> TRUE] \in parsed.payments
                   <=> /\ blocks[n].kind = "MOVEMENTS" /\ blocks[n].payment
                       /\ blocks[n].readable /\ Under(n, s)
    <3> SUFFICES ASSUME NEW n \in DOMAIN blocks, NEW s \in SupplierNames
                 PROVE  [at |-> n, supplier |-> s, readable |-> TRUE] \in parsed.payments
                          <=> /\ blocks[n].kind = "MOVEMENTS" /\ blocks[n].payment
                              /\ blocks[n].readable /\ Under(n, s)
      OBVIOUS
    <3>1. n \in Nat /\ n \in 1 .. Len(blocks)
      BY <2>1
    <3>2. [at |-> n, supplier |-> s, readable |-> TRUE] \in parsed.payments
            <=> n \in 1 .. Len(blocks) /\ PaidUnder(blocks, n, s)
      BY <2>2, <3>1 DEF LedgerSoFar
    <3> QED
      BY <2>3, <3>1, <3>2 DEF PaidUnder, IsPayment
  <2>6. \A s \in SupplierNames :
               IF CardsOf(s) = {} THEN parsed.cards[s] = NoText
               ELSE \E n \in CardsOf(s) : /\ parsed.cards[s] = blocks[n].term
                                          /\ \A other \in CardsOf(s) : other <= n
    BY <2>2, <2>4 DEF LedgerSoFar, LastCard
  <2> QED
    BY <2>5, <2>6 DEF LedgerIsReadByDetail, parsed, Under, CardsOf
<1> QED
  BY <1>1, <1>2, <1>3, <1>4, PTL DEF ScreensSpec, ReadAsWritten

-------------------------------------------------------------------------------
(* Rows that are set aside, and the questions about them.                     *)

KindsOfRow == {"INVOICE", "ORDER", "SUPPLIER", "PAYMENT", "SALE", "POINT"}
IsStagedRow(row) == row.kind \in KindsOfRow /\ IsNamed(row)

\* The question about a row of a table, whether somebody answered it, and who waits.
Question(T, id) == IF T[id].kind \in {"SALE", "PAYMENT"} THEN id ELSE T[id].broken
RowLacks(row) == row.broken \cap Needed[row.kind] # {}
Answered(T, S, id) == \E s \in S : s.kind = T[id].kind /\ s.key = Question(T, id) /\ id <= s.rows
WaitingFor(T, S, kind, key) ==
    {id \in DOMAIN T : T[id].kind = kind /\ Question(T, id) = key /\ ~Answered(T, S, id)}

\* A pending case is the one question of the rows that wait for it, the last among them.
CaseFits(T, S, c) ==
    /\ c.row \in DOMAIN T /\ T[c.row].kind = c.kind /\ Question(T, c.row) = c.key
    /\ RowLacks(T[c.row]) /\ ~Answered(T, S, c.row)
    /\ c.occurrences = Cardinality(WaitingFor(T, S, c.kind, c.key))
    /\ \A other \in WaitingFor(T, S, c.kind, c.key) : other <= c.row
SameCase(c, d) == c.kind = d.kind /\ c.key = d.key
HasCase(Q, T, id) == \E c \in Q : c.kind = T[id].kind /\ c.key = Question(T, id)

CasesFit(T, S, Q) ==
    /\ \A c \in Q : CaseFits(T, S, c)
    /\ \A c, d \in Q : SameCase(c, d) => c = d
    /\ \A id \in DOMAIN T : RowLacks(T[id]) /\ ~Answered(T, S, id) => HasCase(Q, T, id)

\* What is handed is what lacks nothing, and every sale.
HandedOn(row) == ~RowLacks(row) \/ row.kind = "SALE"

\* What was read is in the table, line by line, but for the register's without a name.
IsLineOf(row, content, n) ==
    /\ row.of = content /\ row.line = n
    /\ row.kind = content[n].kind /\ row.broken = content[n].broken
IsKept(T, content) ==
    \A n \in DOMAIN content : IsNamed(content[n]) => \E id \in DOMAIN T : IsLineOf(T[id], content, n)

IsTable(T) == Len(T) \in Nat /\ T = [id \in 1 .. Len(T) |-> T[id]]

StagingInv ==
    /\ screen \in Pages
    /\ IsTable(staged)
    /\ \A id \in DOMAIN staged : IsStagedRow(staged[id])
    /\ \A id \in DOMAIN staged : id \in handed <=> HandedOn(staged[id])
    /\ handed \subseteq DOMAIN staged
    /\ \A s \in settled : s.rows \in Nat /\ s.rows <= Len(staged)
    /\ CasesFit(staged, settled, queued)
    /\ \A content \in contents : IsKept(staged, content)

LEMMA FirstAmong ==
  ASSUME NEW S, S \subseteq Nat, S # {}
  PROVE  (CHOOSE n \in S : \A other \in S : n <= other) \in S
<1>1. \E n \in S : \A other \in S : n <= other
  BY FirstOf
<1> QED
  BY <1>1

\* A row has no reason when it can be read wherever it is needed.
LEMMA NothingBroken ==
  ASSUME NEW needed, NEW m \in Nat, DOMAIN needed = 1 .. m, \A n \in 1 .. m : needed[n] # "NONE",
         NEW row
  PROVE  FirstBroken(needed, row) = "NONE" <=> \A n \in 1 .. m : needed[n] \notin row.broken
<1> DEFINE unread == {n \in DOMAIN needed : needed[n] \in row.broken}
           first == CHOOSE n \in unread : \A other \in unread : n <= other
<1>1. CASE unread = {}
  BY <1>1 DEF FirstBroken
<1>2. CASE unread # {}
  <2>1. unread \subseteq Nat
    OBVIOUS
  <2>2. first \in unread
    <3> HIDE DEF unread
    <3> QED
      BY <1>2, <2>1, FirstAmong
  <2>3. FirstBroken(needed, row) = needed[first]
    BY <1>2 DEF FirstBroken
  <2> HIDE DEF first
  <2> QED
    BY <2>2, <2>3
<1> QED
  BY <1>1, <1>2

LEMMA ReasonsAre ==
  ASSUME NEW row
  PROVE  /\ InvoiceReason(row) = "NONE" <=> row.broken \cap {"number", "supplier", "date", "amount"} = {}
         /\ SupplierReason(row) = "NONE" <=> "balance" \notin row.broken
         /\ PaymentReason(row) = "NONE" <=> row.broken \cap {"date", "amount"} = {}
         /\ OrderReason(row) = "NONE" <=> row.broken \cap {"number", "supplier", "date", "status"} = {}
         /\ SaleReason(row) = "NONE" <=> row.broken \cap {"code", "date", "amount", "quantity"} = {}
         /\ HistoryReason(row) = "NONE" <=> row.broken \cap {"date", "price"} = {}
<1>1. InvoiceReason(row) = "NONE" <=> row.broken \cap {"number", "supplier", "date", "amount"} = {}
  <2> DEFINE needed == <<"number", "supplier", "date", "amount">>
  <2>1. DOMAIN needed = 1 .. 4 /\ \A n \in 1 .. 4 : needed[n] # "NONE"
    OBVIOUS
  <2>2. (\A n \in 1 .. 4 : needed[n] \notin row.broken)
           <=> row.broken \cap {"number", "supplier", "date", "amount"} = {}
    OBVIOUS
  <2> HIDE DEF needed
  <2>3. FirstBroken(needed, row) = "NONE" <=> \A n \in 1 .. 4 : needed[n] \notin row.broken
    BY <2>1, NothingBroken
  <2> QED
    BY <2>2, <2>3 DEF InvoiceReason, needed
<1>2. SupplierReason(row) = "NONE" <=> "balance" \notin row.broken
  <2> DEFINE needed == <<"balance">>
  <2>1. DOMAIN needed = 1 .. 1 /\ \A n \in 1 .. 1 : needed[n] # "NONE"
    OBVIOUS
  <2>2. (\A n \in 1 .. 1 : needed[n] \notin row.broken) <=> "balance" \notin row.broken
    OBVIOUS
  <2> HIDE DEF needed
  <2>3. FirstBroken(needed, row) = "NONE" <=> \A n \in 1 .. 1 : needed[n] \notin row.broken
    BY <2>1, NothingBroken
  <2> QED
    BY <2>2, <2>3 DEF SupplierReason, needed
<1>3. PaymentReason(row) = "NONE" <=> row.broken \cap {"date", "amount"} = {}
  <2> DEFINE needed == <<"date", "amount">>
  <2>1. DOMAIN needed = 1 .. 2 /\ \A n \in 1 .. 2 : needed[n] # "NONE"
    OBVIOUS
  <2>2. (\A n \in 1 .. 2 : needed[n] \notin row.broken) <=> row.broken \cap {"date", "amount"} = {}
    OBVIOUS
  <2> HIDE DEF needed
  <2>3. FirstBroken(needed, row) = "NONE" <=> \A n \in 1 .. 2 : needed[n] \notin row.broken
    BY <2>1, NothingBroken
  <2> QED
    BY <2>2, <2>3 DEF PaymentReason, needed
<1>4. OrderReason(row) = "NONE" <=> row.broken \cap {"number", "supplier", "date", "status"} = {}
  <2> DEFINE needed == <<"number", "supplier", "date", "status">>
  <2>1. DOMAIN needed = 1 .. 4 /\ \A n \in 1 .. 4 : needed[n] # "NONE"
    OBVIOUS
  <2>2. (\A n \in 1 .. 4 : needed[n] \notin row.broken)
           <=> row.broken \cap {"number", "supplier", "date", "status"} = {}
    OBVIOUS
  <2> HIDE DEF needed
  <2>3. FirstBroken(needed, row) = "NONE" <=> \A n \in 1 .. 4 : needed[n] \notin row.broken
    BY <2>1, NothingBroken
  <2> QED
    BY <2>2, <2>3 DEF OrderReason, needed
<1>5. SaleReason(row) = "NONE" <=> row.broken \cap {"code", "date", "amount", "quantity"} = {}
  <2> DEFINE needed == <<"code", "date", "amount", "quantity">>
  <2>1. DOMAIN needed = 1 .. 4 /\ \A n \in 1 .. 4 : needed[n] # "NONE"
    OBVIOUS
  <2>2. (\A n \in 1 .. 4 : needed[n] \notin row.broken)
           <=> row.broken \cap {"code", "date", "amount", "quantity"} = {}
    OBVIOUS
  <2> HIDE DEF needed
  <2>3. FirstBroken(needed, row) = "NONE" <=> \A n \in 1 .. 4 : needed[n] \notin row.broken
    BY <2>1, NothingBroken
  <2> QED
    BY <2>2, <2>3 DEF SaleReason, needed
<1>6. HistoryReason(row) = "NONE" <=> row.broken \cap {"date", "price"} = {}
  <2> DEFINE needed == <<"date", "price">>
  <2>1. DOMAIN needed = 1 .. 2 /\ \A n \in 1 .. 2 : needed[n] # "NONE"
    OBVIOUS
  <2>2. (\A n \in 1 .. 2 : needed[n] \notin row.broken) <=> row.broken \cap {"date", "price"} = {}
    OBVIOUS
  <2> HIDE DEF needed
  <2>3. FirstBroken(needed, row) = "NONE" <=> \A n \in 1 .. 2 : needed[n] \notin row.broken
    BY <2>1, NothingBroken
  <2> QED
    BY <2>2, <2>3 DEF HistoryReason, needed
<1> QED
  BY <1>1, <1>2, <1>3, <1>4, <1>5, <1>6

\* The reason a row is given and the condition under which it is handed agree with what its
\* listener needs of it.
LEMMA RowsThatLack ==
  ASSUME NEW row
  PROVE  /\ row.kind = "INVOICE" =>
              /\ InvoiceReason(row) = "NONE" <=> ~RowLacks(row)
              /\ ~RowLacks(row) => InvoiceIsWhole(row)
         /\ row.kind = "SUPPLIER" =>
              /\ IsNamed(row) => (LedgerReason(row) = "NONE" <=> ~RowLacks(row))
              /\ ~RowLacks(row) => LedgerIsWhole(row)
         /\ row.kind = "PAYMENT" =>
              /\ LedgerReason(row) = "NONE" <=> ~RowLacks(row)
              /\ ~RowLacks(row) => LedgerIsWhole(row)
         /\ row.kind = "ORDER" =>
              /\ OrderReason(row) = "NONE" <=> ~RowLacks(row)
              /\ ~RowLacks(row) => OrderIsWhole(row)
         /\ row.kind = "SALE" => (SaleReason(row) = "NONE" <=> ~RowLacks(row))
         /\ row.kind = "POINT" =>
              /\ HistoryReason(row) = "NONE" <=> ~RowLacks(row)
              /\ ~RowLacks(row) => HistoryIsWhole(row)
<1>1. CASE row.kind = "INVOICE"
  <2>1. RowLacks(row) <=> row.broken \cap {"number", "supplier", "date", "amount"} # {}
    BY <1>1 DEF RowLacks, Needed
  <2> QED
    BY <1>1, <2>1, ReasonsAre DEF InvoiceIsWhole, DateOf, MoneyOf
<1>2. CASE row.kind = "SUPPLIER"
  <2>1. RowLacks(row) <=> row.broken \cap {"name", "balance"} # {}
    BY <1>2 DEF RowLacks, Needed
  <2> QED
    BY <1>2, <2>1, ReasonsAre DEF LedgerIsWhole, SupplierIsWhole, LedgerReason, IsNamed
<1>3. CASE row.kind = "PAYMENT"
  <2>1. RowLacks(row) <=> row.broken \cap {"date", "amount"} # {}
    BY <1>3 DEF RowLacks, Needed
  <2> QED
    BY <1>3, <2>1, ReasonsAre DEF LedgerIsWhole, PaymentIsWhole, LedgerReason, DateOf, MoneyOf
<1>4. CASE row.kind = "ORDER"
  <2>1. RowLacks(row) <=> row.broken \cap {"number", "supplier", "date", "status"} # {}
    BY <1>4 DEF RowLacks, Needed
  <2> QED
    BY <1>4, <2>1, ReasonsAre DEF OrderIsWhole, DateOf
<1>5. CASE row.kind = "SALE"
  <2>1. RowLacks(row) <=> row.broken \cap {"code", "date", "amount", "quantity"} # {}
    BY <1>5 DEF RowLacks, Needed
  <2> QED
    BY <1>5, <2>1, ReasonsAre
<1>6. CASE row.kind = "POINT"
  <2>1. RowLacks(row) <=> row.broken \cap {"date", "price"} # {}
    BY <1>6 DEF RowLacks, Needed
  <2> QED
    BY <1>6, <2>1, ReasonsAre DEF HistoryIsWhole, DateOf
<1> QED
  BY <1>1, <1>2, <1>3, <1>4, <1>5, <1>6

-------------------------------------------------------------------------------
(* An answer, and a reading, over any table, answers and cases.               *)

LEMMA AnswerKeepsCases ==
  ASSUME NEW T, NEW S, NEW Q, CasesFit(T, S, Q), NEW m \in Nat, DOMAIN T = 1 .. m, NEW case \in Q
  PROVE  CasesFit(T, S \cup {[kind |-> case.kind, key |-> case.key, rows |-> m]}, Q \ {case})
<1> DEFINE answer == [kind |-> case.kind, key |-> case.key, rows |-> m]
           S2 == S \cup {answer}
<1>0. answer.kind = case.kind /\ answer.key = case.key /\ answer.rows = m
  OBVIOUS
<1> HIDE DEF answer
<1>1. \A id \in DOMAIN T :
         Answered(T, S2, id) <=> Answered(T, S, id) \/ (case.kind = T[id].kind /\ case.key = Question(T, id))
  BY <1>0 DEF Answered
<1> HIDE DEF S2
<1>2. \A c \in Q \ {case} : ~SameCase(c, case)
  BY DEF CasesFit
<1>3. ASSUME NEW c \in Q \ {case} PROVE CaseFits(T, S2, c)
  <2>1. CaseFits(T, S, c)
    BY DEF CasesFit
  <2>2. WaitingFor(T, S2, c.kind, c.key) = WaitingFor(T, S, c.kind, c.key)
    BY <1>1, <1>2 DEF WaitingFor, SameCase
  <2>3. ~Answered(T, S2, c.row)
    BY <1>1, <1>2, <2>1 DEF CaseFits, SameCase
  <2> QED
    BY <2>1, <2>2, <2>3 DEF CaseFits
<1>4. ASSUME NEW id \in DOMAIN T, RowLacks(T[id]), ~Answered(T, S2, id)
      PROVE  HasCase(Q \ {case}, T, id)
  <2>1. HasCase(Q, T, id) /\ ~(case.kind = T[id].kind /\ case.key = Question(T, id))
    BY <1>1, <1>4 DEF CasesFit
  <2> QED
    BY <2>1 DEF HasCase
<1>5. \A c, d \in Q \ {case} : SameCase(c, d) => c = d
  BY DEF CasesFit
<1>6. CasesFit(T, S2, Q \ {case})
  BY <1>3, <1>4, <1>5 DEF CasesFit
<1> QED
  BY <1>6 DEF S2, answer

\* The rows a reading adds, and the question each broken one opens.
Opened(T, B) == {[kind |-> T[id].kind, key |-> Question(T, id), row |-> id] : id \in B}

LEMMA ReadingKeepsCases ==
  ASSUME NEW T, NEW T2, NEW S, NEW Q, CasesFit(T, S, Q),
         NEW m \in Nat, DOMAIN T = 1 .. m, NEW m2 \in Nat, DOMAIN T2 = 1 .. m2, m <= m2,
         \A id \in 1 .. m : T2[id] = T[id],
         \A s \in S : s.rows \in Nat /\ s.rows <= m,
         NEW B, B = {id \in (m + 1) .. m2 : RowLacks(T2[id])}
  PROVE  CasesFit(T2, S, WithCases(Q, Opened(T2, B)))
<1> DEFINE opened == Opened(T2, B)
           IsLast(c) == \A d \in opened : SameCase(c, d) => d.row <= c.row
           Before(c) == {p \in Q : SameCase(p, c)}
           Alike(c) == {d \in opened : SameCase(c, d)}
           Times(c) == Cardinality(Alike(c))
                       + (IF Before(c) = {} THEN 0 ELSE (CHOOSE p \in Before(c) : TRUE).occurrences)
           Case(c) == [kind |-> c.kind, key |-> c.key, row |-> c.row, occurrences |-> Times(c)]
           stay == {p \in Q : \A c \in opened : ~SameCase(p, c)}
           asked == {Case(c) : c \in {d \in opened : IsLast(d)}}
           Old(kind, key) == WaitingFor(T, S, kind, key)
           Fresh(kind, key) == {id \in (m + 1) .. m2 : T2[id].kind = kind /\ Question(T2, id) = key}
<1>1. WithCases(Q, opened) = stay \cup asked
  BY DEF WithCases, SameCase
<1>2. \A id \in 1 .. m : /\ Question(T2, id) = Question(T, id)
                         /\ Answered(T2, S, id) <=> Answered(T, S, id)
  BY DEF Question, Answered
<1>3. \A id \in (m + 1) .. m2 : id \in Nat /\ id > m /\ ~Answered(T2, S, id)
  BY DEF Answered
<1>4. \A id, other \in DOMAIN T2 :
         T2[id].kind = T2[other].kind /\ Question(T2, id) = Question(T2, other)
            => (RowLacks(T2[id]) <=> RowLacks(T2[other]))
  BY DEF Question, RowLacks
<1>5. 1 .. m2 = (1 .. m) \cup ((m + 1) .. m2) /\ IsFiniteSet(1 .. m2)
  BY FS_Interval
<1>6. \A kind, key : WaitingFor(T2, S, kind, key) = Old(kind, key) \cup Fresh(kind, key)
  BY <1>2, <1>3, <1>5 DEF WaitingFor
<1>7. \A kind, key : /\ Old(kind, key) \subseteq 1 .. m /\ Fresh(kind, key) \subseteq (m + 1) .. m2
                     /\ IsFiniteSet(Old(kind, key)) /\ IsFiniteSet(Fresh(kind, key))
                     /\ Old(kind, key) \cap Fresh(kind, key) = {}
  <2> SUFFICES ASSUME NEW kind, NEW key
               PROVE  /\ Old(kind, key) \subseteq 1 .. m /\ Fresh(kind, key) \subseteq (m + 1) .. m2
                      /\ IsFiniteSet(Old(kind, key)) /\ IsFiniteSet(Fresh(kind, key))
                      /\ Old(kind, key) \cap Fresh(kind, key) = {}
    OBVIOUS
  <2>1. Old(kind, key) \subseteq 1 .. m /\ Fresh(kind, key) \subseteq (m + 1) .. m2
    BY DEF WaitingFor
  <2>2. Old(kind, key) \subseteq 1 .. m2 /\ Fresh(kind, key) \subseteq 1 .. m2
    BY <1>5, <2>1
  <2>3. (1 .. m) \cap ((m + 1) .. m2) = {}
    OBVIOUS
  <2> HIDE DEF Old, Fresh
  <2> QED
    BY <1>5, <2>1, <2>2, <2>3, FS_Subset
<1> HIDE DEF Old
<1>8. \A d \in opened : /\ d.row \in B /\ d.kind = T2[d.row].kind /\ d.key = Question(T2, d.row)
                        /\ d = [kind |-> d.kind, key |-> d.key, row |-> d.row]
  BY DEF Opened
<1>9. \A id \in B : /\ [kind |-> T2[id].kind, key |-> Question(T2, id), row |-> id] \in opened
                    /\ id \in (m + 1) .. m2 /\ id \in Nat /\ id > m /\ id \in DOMAIN T2
                    /\ RowLacks(T2[id])
  BY <1>3, <1>5 DEF Opened
<1> HIDE DEF opened
<1>10. \A d \in opened : /\ d.row \in B /\ d.row \in Nat /\ d.row > m /\ d.row \in DOMAIN T2
                         /\ RowLacks(T2[d.row])
  BY <1>8, <1>9
\* A row that comes with the question of a row that lacks something lacks it too.
<1>11. ASSUME NEW kind, NEW key, NEW row \in DOMAIN T2, T2[row].kind = kind,
              Question(T2, row) = key, RowLacks(T2[row]), NEW id \in Fresh(kind, key)
       PROVE  [kind |-> kind, key |-> key, row |-> id] \in opened
  <2>1. id \in DOMAIN T2 /\ id \in (m + 1) .. m2 /\ T2[id].kind = kind /\ Question(T2, id) = key
    BY <1>5
  <2>2. id \in B
    BY <1>4, <1>11, <2>1
  <2> QED
    BY <1>9, <2>1, <2>2
<1>12. ASSUME NEW p \in stay PROVE CaseFits(T2, S, p)
  <2>1. CaseFits(T, S, p) /\ p \in Q /\ \A c \in opened : ~SameCase(p, c)
    BY DEF CasesFit
  <2>2. /\ p.row \in 1 .. m /\ p.row \in DOMAIN T2 /\ T2[p.row].kind = p.kind
        /\ Question(T2, p.row) = p.key
        /\ RowLacks(T2[p.row]) /\ ~Answered(T2, S, p.row)
    BY <1>2, <1>5, <2>1 DEF CaseFits
  <2>3. Fresh(p.kind, p.key) = {}
    <3> SUFFICES ASSUME NEW id \in Fresh(p.kind, p.key) PROVE FALSE
      OBVIOUS
    <3> DEFINE d == [kind |-> p.kind, key |-> p.key, row |-> id]
    <3>1. d \in opened
      BY <1>11, <2>2
    <3>2. SameCase(p, d)
      BY DEF SameCase
    <3> HIDE DEF d
    <3> QED
      BY <2>1, <3>1, <3>2
  <2>4. WaitingFor(T2, S, p.kind, p.key) = WaitingFor(T, S, p.kind, p.key)
    <3> HIDE DEF Fresh
    <3>1. WaitingFor(T2, S, p.kind, p.key) = Old(p.kind, p.key)
      BY ZenonT(40), <1>6, <2>3
    <3> QED
      BY <3>1 DEF Old
  <2> QED
    BY <2>1, <2>2, <2>4 DEF CaseFits
<1>13. ASSUME NEW c \in opened, IsLast(c) PROVE CaseFits(T2, S, Case(c))
  <2> DEFINE old == Old(c.kind, c.key)
             fresh == Fresh(c.kind, c.key)
  <2>1. /\ c.row \in DOMAIN T2 /\ T2[c.row].kind = c.kind /\ Question(T2, c.row) = c.key
        /\ RowLacks(T2[c.row]) /\ c.row \in (m + 1) .. m2 /\ ~Answered(T2, S, c.row)
        /\ c.row \in Nat /\ c.row > m
    BY <1>3, <1>8, <1>9, <1>10
  <2>2. /\ WaitingFor(T2, S, c.kind, c.key) = old \cup fresh
        /\ IsFiniteSet(old) /\ IsFiniteSet(fresh) /\ old \cap fresh = {}
        /\ old \subseteq 1 .. m /\ fresh \subseteq (m + 1) .. m2
    <3> HIDE DEF Fresh
    <3> QED
      BY <1>6, <1>7
  <2>3. \A id \in fresh : [kind |-> c.kind, key |-> c.key, row |-> id] \in opened
    BY <1>11, <2>1
  <2>4. \A id \in fresh : id <= c.row
    <3> SUFFICES ASSUME NEW id \in fresh PROVE id <= c.row
      OBVIOUS
    <3> DEFINE d == [kind |-> c.kind, key |-> c.key, row |-> id]
    <3>1. d \in opened /\ SameCase(c, d) /\ d.row = id
      BY <2>3 DEF SameCase
    <3> HIDE DEF d
    <3> QED
      BY <1>13, <3>1
  <2>5. Cardinality(Alike(c)) = Cardinality(fresh)
    <3> DEFINE f == [id \in fresh |-> [kind |-> c.kind, key |-> c.key, row |-> id]]
    <3>1. \A id \in fresh : f[id] \in Alike(c) /\ f[id].row = id
      BY <2>3 DEF SameCase
    <3>2. ASSUME NEW d \in Alike(c) PROVE d.row \in fresh /\ f[d.row] = d
      <4>1. d \in opened /\ d.kind = c.kind /\ d.key = c.key
        BY DEF SameCase
      <4>2. d.row \in fresh
        BY <1>8, <1>9, <4>1
      <4> QED
        BY <1>8, <4>1, <4>2
    <3>3. DOMAIN f = fresh
      OBVIOUS
    <3> HIDE DEF f, fresh
    <3>4. f \in [fresh -> Alike(c)]
      <4>1. f = [id \in fresh |-> f[id]]
        BY DEF f
      <4> QED
        BY <3>1, <4>1
    <3>5. ExistsBijection(fresh, Alike(c))
      <4>1. \A a, b \in fresh : f[a] = f[b] => a = b
        BY <3>1
      <4> HIDE DEF Alike
      <4>2. \A t \in Alike(c) : \E s \in fresh : f[s] = t
        BY <3>2
      <4> QED
        BY <3>3, <3>4, <4>1, <4>2
            DEF ExistsBijection, Bijection, Injection, IsInjective, Surjection
    <3> HIDE DEF Alike
    <3> QED
      BY <2>2, <3>5, FS_Bijection
  <2>6. (IF Before(c) = {} THEN 0 ELSE (CHOOSE p \in Before(c) : TRUE).occurrences)
          = Cardinality(old)
    <3>1. CASE Before(c) = {}
      <4>1. old = {}
        <5> SUFFICES ASSUME NEW id \in old PROVE FALSE
          OBVIOUS
        <5>1. /\ id \in DOMAIN T /\ T[id].kind = c.kind /\ Question(T, id) = c.key
              /\ ~Answered(T, S, id)
          BY DEF Old, WaitingFor
        <5>2. id \in DOMAIN T2 /\ T2[id].kind = c.kind /\ Question(T2, id) = c.key /\ T2[id] = T[id]
          BY <1>2, <1>5, <5>1
        <5>3. RowLacks(T[id])
          BY <1>4, <2>1, <5>2
        <5>4. PICK p \in Q : p.kind = T[id].kind /\ p.key = Question(T, id)
          BY <5>1, <5>3 DEF CasesFit, HasCase
        <5>5. p \in Before(c)
          BY <5>1, <5>4 DEF SameCase
        <5> QED
          BY <3>1, <5>5
      <4> QED
        BY <3>1, <4>1, FS_EmptySet
    <3>2. CASE Before(c) # {}
      <4> DEFINE p == CHOOSE p \in Before(c) : TRUE
      <4>1. p \in Q /\ SameCase(p, c)
        BY <3>2
      <4> HIDE DEF p
      <4>2. p.occurrences = Cardinality(WaitingFor(T, S, p.kind, p.key))
        BY <4>1 DEF CasesFit, CaseFits
      <4>3. p.occurrences = Cardinality(old)
        BY <4>1, <4>2 DEF SameCase, Old
      <4> QED
        BY <3>2, <4>3 DEF p
    <3> QED
      BY <3>1, <3>2
  <2> DEFINE number == IF Before(c) = {} THEN 0 ELSE (CHOOSE p \in Before(c) : TRUE).occurrences
  <2>7. Times(c) = Cardinality(Alike(c)) + number /\ number = Cardinality(old)
    BY <2>6
  <2> HIDE DEF number, Alike, Times, Before
  <2>8. Cardinality(old \cup fresh) = Cardinality(fresh) + Cardinality(old)
    <3> HIDE DEF old, fresh
    <3>1. Cardinality(old \cup fresh) = Cardinality(old) + Cardinality(fresh) - Cardinality(old \cap fresh)
      BY <2>2, FS_Union
    <3>2. Cardinality(old \cap fresh) = 0
      BY <2>2, FS_EmptySet
    <3>3. Cardinality(old) \in Nat /\ Cardinality(fresh) \in Nat
      BY <2>2, FS_CardinalityType
    <3> QED
      BY <3>1, <3>2, <3>3
  <2>9. Times(c) = Cardinality(old \cup fresh)
    BY <2>5, <2>7, <2>8
  <2>10. \A other \in old \cup fresh : other <= c.row
    <3> HIDE DEF old, fresh
    <3>1. \A other \in old : other <= c.row
      BY <2>1, <2>2
    <3> QED
      BY <2>4, <3>1
  <2>11. /\ Case(c).kind = c.kind /\ Case(c).key = c.key /\ Case(c).row = c.row
         /\ Case(c).occurrences = Times(c)
    OBVIOUS
  <2> HIDE DEF old, fresh, Case
  <2> QED
    BY <2>1, <2>2, <2>9, <2>10, <2>11 DEF CaseFits
<1>14. \A c : Case(c).kind = c.kind /\ Case(c).key = c.key
  OBVIOUS
<1> HIDE DEF Case, Times
<1>15. \A c \in stay \cup asked : CaseFits(T2, S, c)
  BY <1>12, <1>13
<1>16. \A c, d \in stay \cup asked : SameCase(c, d) => c = d
  <2>1. \A c, d \in stay : SameCase(c, d) => c = d
    BY DEF CasesFit
  <2>2. ASSUME NEW c \in stay, NEW d \in asked PROVE ~SameCase(c, d) /\ ~SameCase(d, c)
    <3>1. PICK e \in opened : d = Case(e)
      OBVIOUS
    <3>2. ~SameCase(c, e)
      OBVIOUS
    <3> QED
      BY <1>14, <3>1, <3>2 DEF SameCase
  <2>3. ASSUME NEW c \in asked, NEW d \in asked, SameCase(c, d) PROVE c = d
    <3>1. PICK e \in opened : c = Case(e) /\ IsLast(e)
      OBVIOUS
    <3>2. PICK g \in opened : d = Case(g) /\ IsLast(g)
      OBVIOUS
    <3>3. SameCase(e, g) /\ SameCase(g, e)
      BY <1>14, <2>3, <3>1, <3>2 DEF SameCase
    <3>4. e.row \in Nat /\ g.row \in Nat /\ e.row <= g.row /\ g.row <= e.row
      BY <1>10, <3>1, <3>2, <3>3
    <3>5. e.row = g.row
      BY <3>4
    <3>6. e = g
      BY <1>8, <3>3, <3>5 DEF SameCase
    <3> QED
      BY <3>1, <3>2, <3>6
  <2> QED
    BY <2>1, <2>2, <2>3
<1>17. ASSUME NEW id \in DOMAIN T2, RowLacks(T2[id]), ~Answered(T2, S, id)
       PROVE  HasCase(stay \cup asked, T2, id)
  <2> DEFINE mine == {d \in opened : d.kind = T2[id].kind /\ d.key = Question(T2, id)}
  <2>1. CASE mine # {}
    <3> DEFINE which == {d.row : d \in mine}
    <3>1. which \subseteq Int /\ which # {} /\ which \subseteq 1 .. m2
      BY <1>10, <2>1
    <3>2. IsFiniteSet(which)
      BY <1>5, <3>1, FS_Subset
    <3> HIDE DEF which
    <3>3. PICK last \in which : \A other \in which : other <= last
      BY <3>1, <3>2, GreatestOf
    <3>4. PICK c \in mine : c.row = last
      BY DEF which
    <3>5. IsLast(c)
      BY <3>3, <3>4 DEF which, SameCase
    <3>6. Case(c) \in asked
      BY <3>4, <3>5
    <3> QED
      BY <1>14, <3>4, <3>6 DEF HasCase
  <2>2. CASE mine = {}
    <3>1. id \notin B
      <4> SUFFICES ASSUME id \in B PROVE FALSE
        OBVIOUS
      <4> DEFINE d == [kind |-> T2[id].kind, key |-> Question(T2, id), row |-> id]
      <4>1. d \in opened /\ d.kind = T2[id].kind /\ d.key = Question(T2, id)
        BY <1>9
      <4> HIDE DEF d
      <4> QED
        BY <2>2, <4>1
    <3>2. id \in 1 .. m
      BY <1>5, <1>17, <3>1
    <3>3. HasCase(Q, T, id) /\ Question(T2, id) = Question(T, id) /\ T2[id] = T[id]
      BY <1>2, <1>17, <3>2 DEF CasesFit
    <3>4. PICK p \in Q : p.kind = T2[id].kind /\ p.key = Question(T2, id)
      BY <3>3 DEF HasCase
    <3>5. p \in stay
      BY <2>2, <3>4 DEF SameCase
    <3> QED
      BY <3>4, <3>5 DEF HasCase
  <2> QED
    BY <2>1, <2>2
<1> HIDE DEF stay, asked
<1>18. CasesFit(T2, S, stay \cup asked)
  BY <1>15, <1>16, <1>17 DEF CasesFit
<1> QED
  BY <1>1, <1>18 DEF opened

-------------------------------------------------------------------------------
(* The readings.                                                              *)

Added(table) == (Len(staged) + 1) .. Len(table)

LEMMA ReadKeeps ==
  ASSUME StagingInv, NEW content, NEW table, NEW whole, NEW keys,
         Read(content, table, whole, keys),
         IsTable(table), Len(staged) <= Len(table),
         \A id \in DOMAIN staged : table[id] = staged[id],
         \A id \in Added(table) :
            /\ IsStagedRow(table[id])
            /\ table[id].status = "QUARANTINED" <=> RowLacks(table[id])
            /\ RowLacks(table[id]) => keys[id] = Question(table, id)
            /\ id \in whole <=> HandedOn(table[id]),
         whole \subseteq Added(table),
         IsKept(table, content)
  PROVE  StagingInv'
<1> DEFINE m == Len(staged)
           m2 == Len(table)
           B == {id \in (m + 1) .. m2 : RowLacks(table[id])}
<1>1. /\ m \in Nat /\ m2 \in Nat /\ m <= m2 /\ DOMAIN staged = 1 .. m /\ DOMAIN table = 1 .. m2
      /\ 1 .. m2 = (1 .. m) \cup ((m + 1) .. m2) /\ (1 .. m) \cap ((m + 1) .. m2) = {}
  <2>1. Len(staged) \in Nat /\ Len(table) \in Nat
    BY DEF StagingInv, IsTable
  <2>2. DOMAIN staged = 1 .. Len(staged) /\ DOMAIN table = 1 .. Len(table)
    BY DEF StagingInv, IsTable
  <2> QED
    BY <2>1, <2>2
<1>2. /\ staged' = table /\ handed' = handed \cup whole /\ UNCHANGED <<screen, settled>>
      /\ contents' = contents \cup {content}
      /\ queued' = WithCases(queued, {[kind |-> table[id].kind, key |-> keys[id], row |-> id] :
                                       id \in QuarantinedOf(table)})
  BY DEF Read
<1>3. QuarantinedOf(table) = B
  BY <1>1 DEF QuarantinedOf, Added
<1>4. \A id \in B : keys[id] = Question(table, id)
  BY DEF Added
<1>5. {[kind |-> table[id].kind, key |-> keys[id], row |-> id] : id \in QuarantinedOf(table)}
        = Opened(table, B)
  <2> HIDE DEF B
  <2> QED
    BY <1>3, <1>4 DEF Opened
<1>6. /\ CasesFit(staged, settled, queued) /\ \A s \in settled : s.rows \in Nat /\ s.rows <= m
      /\ \A id \in 1 .. m : table[id] = staged[id]
  BY <1>1 DEF StagingInv
<1>7. CasesFit(table, settled, WithCases(queued, Opened(table, B)))
  <2> DEFINE after == WithCases(queued, Opened(table, B))
  <2>1. B = {id \in (m + 1) .. m2 : RowLacks(table[id])}
    OBVIOUS
  <2> HIDE DEF m, m2, B
  <2> QED
    BY <1>1, <1>6, <2>1, ReadingKeepsCases
<1>8. \A id \in 1 .. m2 : IsStagedRow(table[id])
  BY <1>1, <1>6 DEF StagingInv, Added
<1>9. handed \subseteq 1 .. m /\ \A id \in 1 .. m : id \in handed <=> HandedOn(table[id])
  BY <1>1, <1>6 DEF StagingInv
<1>10. whole \subseteq (m + 1) .. m2 /\ \A id \in (m + 1) .. m2 : id \in whole <=> HandedOn(table[id])
  BY DEF Added
<1> HIDE DEF m, B
<1>11. /\ \A id \in 1 .. m2 : id \in handed \cup whole <=> HandedOn(table[id])
       /\ handed \cup whole \subseteq 1 .. m2
  BY <1>1, <1>9, <1>10
<1>12. \A s \in settled : s.rows \in Nat /\ s.rows <= m2
  BY <1>1, <1>6
<1>13. ASSUME NEW old \in contents PROVE IsKept(table, old)
  <2>1. IsKept(staged, old)
    BY DEF StagingInv
  <2>2. \A id \in DOMAIN staged : id \in DOMAIN table /\ table[id] = staged[id]
    BY <1>1
  <2> QED
    BY <2>1, <2>2 DEF IsKept
<1>14. \A one \in contents' : IsKept(table, one)
  BY <1>2, <1>13
<1> QED
  BY <1>1, <1>2, <1>5, <1>7, <1>8, <1>11, <1>12, <1>14 DEF StagingInv

\* The table once the rows of a content are added to it.
RowOf(what, line, reason) ==
    [of |-> what, line |-> line.line, kind |-> line.kind, broken |-> line.broken, reason |-> reason,
     status |-> IF reason = "NONE" THEN "VALID" ELSE "QUARANTINED"]

LEMMA StagedIs ==
  ASSUME StagingInv, NEW X, NEW what, NEW content \in Seq(X), NEW reasons
  PROVE  LET table == Staged(what, content, reasons)
         IN  /\ IsTable(table) /\ Len(staged) <= Len(table)
             /\ \A id \in DOMAIN staged : table[id] = staged[id]
             /\ \A id \in Added(table) :
                   \E n \in DOMAIN content : table[id] = RowOf(what, content[n], reasons[n])
             /\ \A n \in DOMAIN content :
                   \E id \in DOMAIN table : table[id] = RowOf(what, content[n], reasons[n])
             /\ \A id \in DOMAIN table : id > Len(staged) <=> id \in Added(table)
             /\ Added(table) \subseteq DOMAIN table
<1> DEFINE row(n) == RowOf(what, content[n], reasons[n])
           extra == [n \in DOMAIN content |-> row(n)]
           table == Staged(what, content, reasons)
           U == {staged[id] : id \in DOMAIN staged} \cup {row(n) : n \in DOMAIN content}
           m == Len(staged)
           k == Len(content)
<1>1. k \in Nat /\ DOMAIN content = 1 .. k
  OBVIOUS
<1>2. m \in Nat /\ DOMAIN staged = 1 .. m /\ staged = [id \in 1 .. m |-> staged[id]]
  <2>1. Len(staged) \in Nat /\ staged = [id \in 1 .. Len(staged) |-> staged[id]]
    BY DEF StagingInv, IsTable
  <2>2. DOMAIN staged = 1 .. Len(staged)
    BY <2>1
  <2> QED
    BY <2>1, <2>2
<1>3. table = staged \o extra
  BY DEF Staged, RowOf
<1> HIDE DEF row, m, k
<1>4. staged \in Seq(U)
  BY <1>2, SeqDef
<1>5. extra \in Seq(U) /\ Len(extra) = k
  <2>1. extra = [n \in 1 .. k |-> extra[n]] /\ \A n \in 1 .. k : extra[n] \in U
    BY <1>1
  <2>2. extra \in Seq(U)
    <3> HIDE DEF extra
    <3> QED
      BY <1>1, <2>1, SeqDef
  <2> QED
    BY <1>1, <2>2, LenProperties
<1>6. \A n \in 1 .. k : extra[n] = row(n)
  BY <1>1
<1> HIDE DEF extra, U, table
<1>7. /\ table \in Seq(U) /\ Len(table) = m + k
      /\ \A id \in 1 .. (m + k) : table[id] = IF id <= m THEN staged[id] ELSE extra[id - m]
  BY <1>3, <1>4, <1>5, ConcatProperties DEF m
<1>8. DOMAIN table = 1 .. (m + k) /\ IsTable(table)
  <2>1. DOMAIN table = 1 .. Len(table) /\ table = [id \in 1 .. Len(table) |-> table[id]]
    BY <1>7, LenProperties
  <2>2. Len(table) \in Nat
    BY <1>1, <1>2, <1>7
  <2> QED
    BY <1>7, <2>1, <2>2 DEF IsTable
<1>9. Added(table) = (m + 1) .. (m + k)
  BY <1>7 DEF Added, m
<1>10. \A id \in Added(table) : \E n \in DOMAIN content : table[id] = row(n)
  <2> SUFFICES ASSUME NEW id \in (m + 1) .. (m + k) PROVE \E n \in DOMAIN content : table[id] = row(n)
    BY <1>9
  <2>1. id \in 1 .. (m + k) /\ ~(id <= m) /\ id - m \in 1 .. k
    BY <1>1, <1>2
  <2>2. table[id] = row(id - m)
    BY <1>6, <1>7, <2>1
  <2> QED
    BY <1>1, <2>1, <2>2
<1>11. \A id \in DOMAIN staged : table[id] = staged[id]
  BY <1>1, <1>2, <1>7
<1>13. \A n \in DOMAIN content : \E id \in DOMAIN table : table[id] = row(n)
  <2> SUFFICES ASSUME NEW n \in 1 .. k PROVE \E id \in DOMAIN table : table[id] = row(n)
    BY <1>1
  <2>1. m + n \in 1 .. (m + k) /\ ~(m + n <= m) /\ (m + n) - m = n
    BY <1>1, <1>2
  <2>2. table[m + n] = row(n)
    BY <1>6, <1>7, <2>1
  <2> QED
    BY <1>8, <2>1, <2>2
<1>12. /\ Len(staged) <= Len(table)
       /\ \A id \in DOMAIN table : id > Len(staged) <=> id \in Added(table)
       /\ Added(table) \subseteq DOMAIN table
  BY <1>1, <1>2, <1>7, <1>8, <1>9 DEF m
<1> QED
  BY <1>8, <1>10, <1>11, <1>12, <1>13 DEF row, table

\* A reading whose reasons, conditions and keys agree with what its rows need.
Agrees(what, content, reasons, table, whole, keys, kinds) ==
    /\ table = Staged(what, content, reasons) /\ kinds \subseteq KindsOfRow
    /\ \A n \in DOMAIN content :
          /\ content[n].kind \in kinds /\ IsNamed(content[n]) /\ content[n] = what[content[n].line]
          /\ reasons[n] = "NONE" <=> ~RowLacks(content[n])
    /\ \A line \in DOMAIN what : IsNamed(what[line]) => \E n \in DOMAIN content : content[n].line = line
    /\ whole \subseteq ValidOf(table) \cup QuarantinedOf(table)
    /\ \A id \in ValidOf(table) : table[id].kind \in kinds /\ ~RowLacks(table[id]) => id \in whole
    /\ \A id \in QuarantinedOf(table) :
          table[id].kind \in kinds => (id \in whole <=> table[id].kind = "SALE")
    /\ \A id \in DOMAIN table : table[id].kind \in kinds => keys[id] = Question(table, id)

LEMMA ContentKeeps ==
  ASSUME StagingInv, NEW X, NEW content \in Seq(X), NEW reasons, NEW what, NEW whole, NEW keys,
         NEW table, NEW kinds, Agrees(what, content, reasons, table, whole, keys, kinds),
         Read(what, table, whole, keys)
  PROVE  StagingInv'
<1>0. table = Staged(what, content, reasons)
  BY DEF Agrees
<1>1. /\ IsTable(table) /\ Len(staged) <= Len(table)
      /\ \A id \in DOMAIN staged : table[id] = staged[id]
      /\ \A id \in Added(table) :
            \E n \in DOMAIN content : table[id] = RowOf(what, content[n], reasons[n])
      /\ \A n \in DOMAIN content :
            \E id \in DOMAIN table : table[id] = RowOf(what, content[n], reasons[n])
      /\ \A id \in DOMAIN table : id > Len(staged) <=> id \in Added(table)
      /\ Added(table) \subseteq DOMAIN table
  <2> DEFINE T == Staged(what, content, reasons)
  <2>1. /\ IsTable(T) /\ Len(staged) <= Len(T)
        /\ \A id \in DOMAIN staged : T[id] = staged[id]
        /\ \A id \in Added(T) :
              \E n \in DOMAIN content : T[id] = RowOf(what, content[n], reasons[n])
        /\ \A n \in DOMAIN content :
              \E id \in DOMAIN T : T[id] = RowOf(what, content[n], reasons[n])
        /\ \A id \in DOMAIN T : id > Len(staged) <=> id \in Added(T)
        /\ Added(T) \subseteq DOMAIN T
    BY StagedIs
  <2>2. table = T
    BY <1>0
  <2> HIDE DEF T
  <2> QED
    BY <2>1, <2>2
<1>2. ASSUME NEW id \in Added(table)
      PROVE  /\ IsStagedRow(table[id]) /\ table[id].kind \in kinds
             /\ table[id].status = "QUARANTINED" <=> RowLacks(table[id])
             /\ table[id].status = "VALID" <=> ~RowLacks(table[id])
  <2>1. PICK n \in DOMAIN content : table[id] = RowOf(what, content[n], reasons[n])
    BY <1>1
  <2>2. /\ table[id].kind = content[n].kind /\ table[id].broken = content[n].broken
        /\ table[id].status = IF reasons[n] = "NONE" THEN "VALID" ELSE "QUARANTINED"
    BY <2>1 DEF RowOf
  <2>3. /\ RowLacks(table[id]) <=> RowLacks(content[n])
        /\ IsNamed(table[id]) <=> IsNamed(content[n])
    BY <2>2 DEF RowLacks, IsNamed
  <2> QED
    BY <2>2, <2>3 DEF IsStagedRow, Agrees
<1>3. /\ ValidOf(table) = {id \in Added(table) : ~RowLacks(table[id])}
      /\ QuarantinedOf(table) = {id \in Added(table) : RowLacks(table[id])}
  BY <1>1, <1>2 DEF ValidOf, QuarantinedOf
<1>4. whole \subseteq Added(table)
  BY <1>3 DEF Agrees
<1>5. \A id \in Added(table) : id \in whole <=> HandedOn(table[id])
  BY <1>2, <1>3 DEF HandedOn, Agrees
<1>6. \A id \in Added(table) : keys[id] = Question(table, id)
  BY <1>1, <1>2 DEF Agrees
<1>7. IsKept(table, what)
  <2> SUFFICES ASSUME NEW line \in DOMAIN what, IsNamed(what[line])
               PROVE  \E id \in DOMAIN table : IsLineOf(table[id], what, line)
    BY DEF IsKept
  <2>1. PICK n \in DOMAIN content : content[n].line = line /\ content[n] = what[line]
    BY DEF Agrees
  <2>2. PICK id \in DOMAIN table : table[id] = RowOf(what, content[n], reasons[n])
    BY <1>1
  <2>3. IsLineOf(table[id], what, line)
    BY <2>1, <2>2 DEF IsLineOf, RowOf
  <2> QED
    BY <2>3
<1> QED
  BY <1>1, <1>2, <1>4, <1>5, <1>6, <1>7, ReadKeeps

\* What a screen can hold.
LinesOf(content) == {content[n] : n \in DOMAIN content}

LEMMA ContentIs ==
  ASSUME NEW content \in ContentsOnScreen
  PROVE  /\ content \in Seq(LinesOf(content))
         /\ \A n \in DOMAIN content :
               /\ content[n].line = n
               /\ \E row \in RowsOnScreen :
                     content[n].kind = row.kind /\ content[n].broken = row.broken
<1>1. PICK rowsOf \in BoundedSeq(RowsOnScreen, MaxWritten) : content = WithLines(rowsOf)
  BY DEF ContentsOnScreen
<1>2. PICK k \in 0 .. MaxWritten : rowsOf \in [1 .. k -> RowsOnScreen]
  BY <1>1 DEF BoundedSeq, SeqOf
<1>3. k \in Nat
  BY StagingAssumption
<1>4. /\ DOMAIN content = 1 .. k
      /\ content = [n \in 1 .. k |-> [kind |-> rowsOf[n].kind, broken |-> rowsOf[n].broken, line |-> n]]
  BY <1>1, <1>2 DEF WithLines
<1>5. content \in [1 .. k -> LinesOf(content)]
  BY <1>4 DEF LinesOf
<1>6. content \in Seq(LinesOf(content))
  BY <1>3, <1>5, SeqDef
<1>7. \A n \in 1 .. k : /\ content[n].line = n /\ rowsOf[n] \in RowsOnScreen
                        /\ content[n].kind = rowsOf[n].kind /\ content[n].broken = rowsOf[n].broken
  BY <1>2, <1>4
<1> QED
  BY <1>4, <1>6, <1>7

LEMMA ReadInvoicesKeeps ==
  ASSUME StagingInv, NEW content \in ContentsOnScreen, ReadInvoices(content)
  PROVE  StagingInv'
<1> DEFINE reasons == [n \in DOMAIN content |-> InvoiceReason(content[n])]
           table == Staged(content, content, reasons)
           keys == [id \in DOMAIN table |-> InvoiceKey(id, table[id])]
           whole == {id \in ValidOf(table) : InvoiceIsWhole(table[id])}
           kinds == {"INVOICE"}
<1>1. screen = "invoices"
  BY DEF ReadInvoices
<1>2. \A n \in DOMAIN content : content[n].kind = "INVOICE" /\ content[n].line = n
  <2>1. RowsOnScreen = RowsWith("INVOICE", InvoiceCells)
    BY <1>1 DEF RowsOnScreen
  <2> QED
    BY <2>1, ContentIs DEF RowsWith
<1>3. Read(content, table, whole, keys)
  BY DEF ReadInvoices
<1>4. kinds \subseteq KindsOfRow
  BY DEF KindsOfRow
<1>5. \A n \in DOMAIN content :
         /\ content[n].kind \in kinds /\ IsNamed(content[n]) /\ content[n].line = n
         /\ reasons[n] = "NONE" <=> ~RowLacks(content[n])
  BY <1>2, RowsThatLack DEF IsNamed
<1> HIDE DEF reasons
<1>6. \A id \in DOMAIN table : table[id].kind \in kinds => keys[id] = Question(table, id)
  BY DEF Question, InvoiceKey, ByExcerpt
<1> HIDE DEF keys
<1>7. table = Staged(content, content, reasons)
  OBVIOUS
<1> HIDE DEF table
<1>8. /\ whole \subseteq ValidOf(table) \cup QuarantinedOf(table)
      /\ \A id \in ValidOf(table) : table[id].kind \in kinds /\ ~RowLacks(table[id]) => id \in whole
      /\ \A id \in QuarantinedOf(table) :
            table[id].kind \in kinds => (id \in whole <=> table[id].kind = "SALE")
  <2>1. \A id : ~(id \in ValidOf(table) /\ id \in QuarantinedOf(table))
    BY DEF ValidOf, QuarantinedOf
  <2> QED
    BY <2>1, RowsThatLack
<1> HIDE DEF whole, kinds
<1>9. Agrees(content, content, reasons, table, whole, keys, kinds)
  BY ONLY <1>4, <1>5, <1>6, <1>7, <1>8 DEF Agrees
<1>10. content \in Seq(LinesOf(content))
  BY ContentIs
<1> QED
  BY ONLY StagingInv, <1>3, <1>9, <1>10, ContentKeeps

LEMMA ReadOrdersKeeps ==
  ASSUME StagingInv, NEW content \in ContentsOnScreen, ReadOrders(content)
  PROVE  StagingInv'
<1> DEFINE reasons == [n \in DOMAIN content |-> OrderReason(content[n])]
           table == Staged(content, content, reasons)
           keys == [id \in DOMAIN table |-> OrderKey(id, table[id])]
           whole == {id \in ValidOf(table) : OrderIsWhole(table[id])}
           kinds == {"ORDER"}
<1>1. screen = "orders"
  BY DEF ReadOrders
<1>2. \A n \in DOMAIN content : content[n].kind = "ORDER" /\ content[n].line = n
  <2>1. RowsOnScreen = RowsWith("ORDER", OrderCells)
    BY <1>1 DEF RowsOnScreen
  <2> QED
    BY <2>1, ContentIs DEF RowsWith
<1>3. Read(content, table, whole, keys)
  BY DEF ReadOrders
<1>4. kinds \subseteq KindsOfRow
  BY DEF KindsOfRow
<1>5. \A n \in DOMAIN content :
         /\ content[n].kind \in kinds /\ IsNamed(content[n]) /\ content[n].line = n
         /\ reasons[n] = "NONE" <=> ~RowLacks(content[n])
  BY <1>2, RowsThatLack DEF IsNamed
<1> HIDE DEF reasons
<1>6. \A id \in DOMAIN table : table[id].kind \in kinds => keys[id] = Question(table, id)
  BY DEF Question, OrderKey, ByExcerpt
<1> HIDE DEF keys
<1>7. table = Staged(content, content, reasons)
  OBVIOUS
<1> HIDE DEF table
<1>8. /\ whole \subseteq ValidOf(table) \cup QuarantinedOf(table)
      /\ \A id \in ValidOf(table) : table[id].kind \in kinds /\ ~RowLacks(table[id]) => id \in whole
      /\ \A id \in QuarantinedOf(table) :
            table[id].kind \in kinds => (id \in whole <=> table[id].kind = "SALE")
  <2>1. \A id : ~(id \in ValidOf(table) /\ id \in QuarantinedOf(table))
    BY DEF ValidOf, QuarantinedOf
  <2> QED
    BY <2>1, RowsThatLack
<1> HIDE DEF whole, kinds
<1>9. Agrees(content, content, reasons, table, whole, keys, kinds)
  BY ONLY <1>4, <1>5, <1>6, <1>7, <1>8 DEF Agrees
<1>10. content \in Seq(LinesOf(content))
  BY ContentIs
<1> QED
  BY ONLY StagingInv, <1>3, <1>9, <1>10, ContentKeeps

LEMMA ReadSalesKeeps ==
  ASSUME StagingInv, NEW content \in ContentsOnScreen, ReadSales(content)
  PROVE  StagingInv'
<1> DEFINE reasons == [n \in DOMAIN content |-> SaleReason(content[n])]
           table == Staged(content, content, reasons)
           keys == [id \in DOMAIN table |-> SaleKey(id, table[id])]
           whole == ValidOf(table) \cup QuarantinedOf(table)
           kinds == {"SALE"}
<1>1. screen = "sales"
  BY DEF ReadSales
<1>2. \A n \in DOMAIN content : content[n].kind = "SALE" /\ content[n].line = n
  <2>1. RowsOnScreen = RowsWith("SALE", SaleCells)
    BY <1>1 DEF RowsOnScreen
  <2> QED
    BY <2>1, ContentIs DEF RowsWith
<1>3. Read(content, table, whole, keys)
  BY DEF ReadSales
<1>4. kinds \subseteq KindsOfRow
  BY DEF KindsOfRow
<1>5. \A n \in DOMAIN content :
         /\ content[n].kind \in kinds /\ IsNamed(content[n]) /\ content[n].line = n
         /\ reasons[n] = "NONE" <=> ~RowLacks(content[n])
  BY <1>2, RowsThatLack DEF IsNamed
<1> HIDE DEF reasons
<1>6. \A id \in DOMAIN table : table[id].kind \in kinds => keys[id] = Question(table, id)
  BY DEF Question, SaleKey, ByRow
<1> HIDE DEF keys
<1>7. table = Staged(content, content, reasons)
  OBVIOUS
<1> HIDE DEF table
<1>8. /\ whole \subseteq ValidOf(table) \cup QuarantinedOf(table)
      /\ \A id \in ValidOf(table) : table[id].kind \in kinds /\ ~RowLacks(table[id]) => id \in whole
      /\ \A id \in QuarantinedOf(table) :
            table[id].kind \in kinds => (id \in whole <=> table[id].kind = "SALE")
  OBVIOUS
<1> HIDE DEF whole, kinds
<1>9. Agrees(content, content, reasons, table, whole, keys, kinds)
  BY ONLY <1>4, <1>5, <1>6, <1>7, <1>8 DEF Agrees
<1>10. content \in Seq(LinesOf(content))
  BY ContentIs
<1> QED
  BY ONLY StagingInv, <1>3, <1>9, <1>10, ContentKeeps

LEMMA ReadHistoryKeeps ==
  ASSUME StagingInv, NEW content \in ContentsOnScreen, ReadHistory(content)
  PROVE  StagingInv'
<1> DEFINE reasons == [n \in DOMAIN content |-> HistoryReason(content[n])]
           table == Staged(content, content, reasons)
           keys == [id \in DOMAIN table |-> HistoryKey(id, table[id])]
           whole == {id \in ValidOf(table) : HistoryIsWhole(table[id])}
           kinds == {"POINT"}
<1>1. screen = "history"
  BY DEF ReadHistory
<1>2. \A n \in DOMAIN content : content[n].kind = "POINT" /\ content[n].line = n
  <2>1. RowsOnScreen = RowsWith("POINT", HistoryCells)
    BY <1>1 DEF RowsOnScreen
  <2> QED
    BY <2>1, ContentIs DEF RowsWith
<1>3. Read(content, table, whole, keys)
  BY DEF ReadHistory
<1>4. kinds \subseteq KindsOfRow
  BY DEF KindsOfRow
<1>5. \A n \in DOMAIN content :
         /\ content[n].kind \in kinds /\ IsNamed(content[n]) /\ content[n].line = n
         /\ reasons[n] = "NONE" <=> ~RowLacks(content[n])
  BY <1>2, RowsThatLack DEF IsNamed
<1> HIDE DEF reasons
<1>6. \A id \in DOMAIN table : table[id].kind \in kinds => keys[id] = Question(table, id)
  BY DEF Question, HistoryKey, ByExcerpt
<1> HIDE DEF keys
<1>7. table = Staged(content, content, reasons)
  OBVIOUS
<1> HIDE DEF table
<1>8. /\ whole \subseteq ValidOf(table) \cup QuarantinedOf(table)
      /\ \A id \in ValidOf(table) : table[id].kind \in kinds /\ ~RowLacks(table[id]) => id \in whole
      /\ \A id \in QuarantinedOf(table) :
            table[id].kind \in kinds => (id \in whole <=> table[id].kind = "SALE")
  <2>1. \A id : ~(id \in ValidOf(table) /\ id \in QuarantinedOf(table))
    BY DEF ValidOf, QuarantinedOf
  <2> QED
    BY <2>1, RowsThatLack
<1> HIDE DEF whole, kinds
<1>9. Agrees(content, content, reasons, table, whole, keys, kinds)
  BY ONLY <1>4, <1>5, <1>6, <1>7, <1>8 DEF Agrees
<1>10. content \in Seq(LinesOf(content))
  BY ContentIs
<1> QED
  BY ONLY StagingInv, <1>3, <1>9, <1>10, ContentKeeps

\* The rows of the register that have a name: the fold keeps each or drops it.
NamedUpTo(content, n, taken) ==
    \A m \in 1 .. n : IsNamed(content[m]) => \E k \in DOMAIN taken : taken[k] = content[m]

LEMMA NamedIs ==
  ASSUME NEW X, NEW content \in Seq(X)
  PROVE  /\ Named(content) \in Seq({row \in X : IsNamed(row)})
         /\ NamedUpTo(content, Len(content), Named(content))
<1> DEFINE N == Len(content)
           Lines == Seq({row \in X : IsNamed(row)})
           base == <<>>
           step == [p \in (1 .. N) \X Lines |-> KeptIfNamed(p[2], content[p[1]])]
           Body(it) == [s \in SUBSET DOMAIN content |->
                          IF s = {} THEN base
                          ELSE LET x == LastOf(s) IN KeptIfNamed(it[s \ {x}], content[x])]
<1>1. N \in Nat /\ DOMAIN content = 1 .. N /\ \A n \in 1 .. N : content[n] \in X
  OBVIOUS
<1>2. base \in Lines
  OBVIOUS
<1>3. step \in [(1 .. N) \X Lines -> Lines]
  <2> SUFFICES ASSUME NEW n \in 1 .. N, NEW taken \in Lines PROVE KeptIfNamed(taken, content[n]) \in Lines
    OBVIOUS
  <2>1. content[n] \in X
    BY <1>1
  <2> QED
    BY <2>1, AppendProperties DEF KeptIfNamed
<1>4. \A n \in 1 .. N, taken \in Lines : step[<<n, taken>>] = KeptIfNamed(taken, content[n])
  OBVIOUS
<1> HIDE DEF step, base, N, Lines
<1>5. ASSUME NEW it, NEW s \in SUBSET (1 .. N), s # {}, it[s \ {LastOf(s)}] \in Lines
      PROVE  step[<<LastOf(s), it[s \ {LastOf(s)}]>>]
               = KeptIfNamed(it[s \ {LastOf(s)}], content[LastOf(s)])
  <2>1. LastOf(s) \in 1 .. N
    BY <1>1, <1>5, LastIsThere
  <2> QED
    BY <1>4, <1>5, <2>1
<1>6. PICK it \in [SUBSET (1 .. N) -> Lines] : IsFold(it, 1 .. N, LastPick(N), step, base)
  BY <1>1, <1>2, <1>3, FoldInOrderExists
<1>7. it = Body(it)
  <2>1. ASSUME NEW s \in SUBSET (1 .. N) PROVE it[s] = Body(it)[s]
    <3>1. it[s] = Folded(it, s, LastPick(N), step, base)
      BY <1>6 DEF IsFold
    <3>2. CASE s = {}
      BY <1>1, <3>1, <3>2 DEF Folded
    <3>3. CASE s # {}
      <4>1. it[s \ {LastOf(s)}] \in Lines
        BY <1>6
      <4>2. it[s] = step[<<LastOf(s), it[s \ {LastOf(s)}]>>]
        BY <3>1, <3>3 DEF Folded, LastPick
      <4> QED
        BY <1>1, <1>5, <3>3, <4>1, <4>2
    <3> QED
      BY <3>2, <3>3
  <2>2. Body(it) = [s \in SUBSET (1 .. N) |-> Body(it)[s]]
    BY <1>1
  <2> HIDE DEF Body
  <2> QED
    BY <1>6, <2>1, <2>2
<1> DEFINE fold == CHOOSE it2 : it2 = Body(it2)
<1>8. fold = Body(fold)
  <2> HIDE DEF Body
  <2> QED
    BY <1>7
<1>9. Named(content) = fold[1 .. N]
  BY <1>1 DEF Named, FoldLeft, MapThenFoldSet, base, LastOf, Max
<1> HIDE DEF fold
<1>10. fold[{}] = base /\ \A s \in SUBSET (1 .. N) : s # {}
                            => fold[s] = KeptIfNamed(fold[s \ {LastOf(s)}], content[LastOf(s)])
  BY <1>1, <1>8
<1> HIDE DEF Body
<1>11. \A s \in SUBSET (1 .. N) : s # {} /\ fold[s \ {LastOf(s)}] \in Lines
           => fold[s] = step[<<LastOf(s), fold[s \ {LastOf(s)}]>>]
  BY <1>5, <1>10
<1> DEFINE run == [n \in 0 .. N |-> fold[1 .. n]]
<1>12. run[N] = fold[1 .. N] /\ N \in 0 .. N
  BY <1>1
<1>13. IsRun(run, N, step, base, Lines)
  BY <1>1, <1>2, <1>3, <1>10, <1>11, FoldInOrder
<1>14. run \in [0 .. N -> Lines]
  BY <1>13 DEF IsRun
<1> HIDE DEF run
<1>15. \A n \in 1 .. N : run[n - 1] \in Lines /\ run[n] = KeptIfNamed(run[n - 1], content[n])
  <2> TAKE n \in 1 .. N
  <2>1. n - 1 \in 0 .. N
    BY <1>1
  <2>2. run[n] = step[<<n, run[n - 1]>>] /\ run[n - 1] \in Lines
    BY <1>13, <1>14, <2>1 DEF IsRun
  <2> QED
    BY <1>4, <2>2
<1> DEFINE Bad == {n \in 0 .. N : ~NamedUpTo(content, n, run[n])}
<1>16. ASSUME NEW n \in 1 .. N, NamedUpTo(content, n - 1, run[n - 1])
       PROVE  NamedUpTo(content, n, run[n])
  <2> DEFINE before == run[n - 1]
             after == run[n]
  <2>1. before \in Lines /\ after = KeptIfNamed(before, content[n])
    BY <1>15
  <2>2. NamedUpTo(content, n - 1, before)
    BY <1>16
  <2> HIDE DEF before, after
  <2>3. CASE ~IsNamed(content[n])
    <3>1. after = before
      BY <2>1, <2>3 DEF KeptIfNamed
    <3>2. \A m \in 1 .. n : m = n \/ m \in 1 .. (n - 1)
      OBVIOUS
    <3> QED
      BY <2>2, <2>3, <3>1, <3>2 DEF NamedUpTo, after
  <2>4. CASE IsNamed(content[n])
    <3>1. after = Append(before, content[n])
      BY <2>1, <2>4 DEF KeptIfNamed
    <3>2. content[n] \in {row \in X : IsNamed(row)}
      BY <1>1, <2>4
    <3>3. before \in Seq({row \in X : IsNamed(row)})
      BY <2>1 DEF Lines
    <3>4. /\ Len(before) \in Nat /\ DOMAIN before = 1 .. Len(before)
          /\ DOMAIN after = 1 .. (Len(before) + 1) /\ after[Len(before) + 1] = content[n]
          /\ \A k \in 1 .. Len(before) : after[k] = before[k]
      BY <3>1, <3>2, <3>3, AppendProperties, LenProperties
    <3>5. \A k \in DOMAIN before : k \in DOMAIN after /\ after[k] = before[k]
      BY <3>4
    <3>6. Len(before) + 1 \in DOMAIN after
      BY <3>4
    <3>7. \A m \in 1 .. n : m = n \/ m \in 1 .. (n - 1)
      OBVIOUS
    <3> QED
      BY <2>2, <3>4, <3>5, <3>6, <3>7 DEF NamedUpTo, after
  <2> QED
    BY <2>3, <2>4
<1>17. Bad = {}
  <2> SUFFICES ASSUME Bad # {} PROVE FALSE
    OBVIOUS
  <2>1. Bad \subseteq Nat
    OBVIOUS
  <2> HIDE DEF Bad
  <2>2. PICK n \in Bad : \A m \in Bad : n <= m
    BY <2>1, FirstOf
  <2> USE DEF Bad
  <2>3. NamedUpTo(content, 0, run[0])
    BY DEF NamedUpTo
  <2>4. n \in 1 .. N /\ n - 1 \in 0 .. N /\ n - 1 \notin Bad
    BY <1>1, <2>2, <2>3
  <2>5. NamedUpTo(content, n - 1, run[n - 1])
    BY <2>4
  <2> QED
    BY <1>16, <2>2, <2>4, <2>5
<1>18. NamedUpTo(content, N, run[N])
  BY <1>12, <1>17
<1> HIDE DEF Bad
<1> QED
  BY <1>9, <1>12, <1>14, <1>18 DEF Lines, N

LEMMA ReadLedgerKeeps ==
  ASSUME StagingInv, NEW content \in ContentsOnScreen, ReadLedger(content)
  PROVE  StagingInv'
<1> DEFINE named == Named(content)
           reasons == [n \in DOMAIN named |-> LedgerReason(named[n])]
           table == Staged(content, named, reasons)
           keys == [id \in DOMAIN table |-> LedgerKey(id, table[id])]
           whole == {id \in ValidOf(table) : LedgerIsWhole(table[id])}
           kinds == {"SUPPLIER", "PAYMENT"}
           S == {row \in LinesOf(content) : IsNamed(row)}
<1>1. /\ content \in Seq(LinesOf(content)) /\ screen = "ledger"
      /\ \A n \in DOMAIN content :
            /\ content[n].line = n
            /\ \E row \in RowsOnScreen : content[n].kind = row.kind
  BY ContentIs DEF ReadLedger
<1>2. named \in Seq(S) /\ NamedUpTo(content, Len(content), named)
  BY <1>1, NamedIs
<1>3. Read(content, table, whole, keys)
  BY DEF ReadLedger
<1> HIDE DEF named
<1>4. kinds \subseteq KindsOfRow
  BY DEF KindsOfRow
<1>5. \A n \in DOMAIN named :
         /\ named[n].kind \in kinds /\ IsNamed(named[n]) /\ named[n] = content[named[n].line]
         /\ reasons[n] = "NONE" <=> ~RowLacks(named[n])
  <2>1. RowsOnScreen = RowsWith("SUPPLIER", SupplierCells) \cup RowsWith("PAYMENT", PaymentCells)
    BY <1>1 DEF RowsOnScreen
  <2>2. \A n \in DOMAIN named : named[n] \in LinesOf(content) /\ IsNamed(named[n])
    BY <1>2
  <2>3. \A row \in LinesOf(content) : row.kind \in kinds /\ row = content[row.line]
    BY <1>1, <2>1 DEF RowsWith, LinesOf
  <2> QED
    BY <2>2, <2>3, RowsThatLack
<1>10. \A line \in DOMAIN content :
         IsNamed(content[line]) => \E n \in DOMAIN named : named[n].line = line
  BY <1>1, <1>2 DEF NamedUpTo
<1> HIDE DEF reasons
<1>6. \A id \in DOMAIN table : table[id].kind \in kinds => keys[id] = Question(table, id)
  BY DEF Question, LedgerKey, SupplierKey, PaymentKey, ByExcerpt, ByRow
<1> HIDE DEF keys
<1>7. table = Staged(content, named, reasons)
  OBVIOUS
<1> HIDE DEF table
<1>8. /\ whole \subseteq ValidOf(table) \cup QuarantinedOf(table)
      /\ \A id \in ValidOf(table) : table[id].kind \in kinds /\ ~RowLacks(table[id]) => id \in whole
      /\ \A id \in QuarantinedOf(table) :
            table[id].kind \in kinds => (id \in whole <=> table[id].kind = "SALE")
  <2>1. \A id : ~(id \in ValidOf(table) /\ id \in QuarantinedOf(table))
    BY DEF ValidOf, QuarantinedOf
  <2> QED
    BY <2>1, RowsThatLack
<1> HIDE DEF whole, kinds, S
<1>9. Agrees(content, named, reasons, table, whole, keys, kinds)
  BY ONLY <1>4, <1>5, <1>6, <1>7, <1>8, <1>10 DEF Agrees
<1> QED
  BY ONLY StagingInv, <1>2, <1>3, <1>9, ContentKeeps

-------------------------------------------------------------------------------
(* The specification.                                                         *)

LEMMA StagingBegins ==
  StagingInit => StagingInv
<1> SUFFICES ASSUME StagingInit PROVE StagingInv
  OBVIOUS
<1>1. /\ screen \in Pages /\ staged = <<>> /\ handed = {} /\ queued = {} /\ settled = {}
      /\ contents = {}
  BY DEF StagingInit
<1>2. Len(staged) = 0 /\ DOMAIN staged = {} /\ staged = [id \in 1 .. 0 |-> staged[id]]
  BY <1>1
<1>3. IsTable(staged)
  BY <1>2 DEF IsTable
<1> QED
  BY <1>1, <1>2, <1>3 DEF StagingInv, CasesFit

LEMMA SettleKeeps ==
  ASSUME StagingInv, NEW case \in queued, Settle(case)
  PROVE  StagingInv'
<1> DEFINE m == Len(staged)
<1>1. m \in Nat /\ DOMAIN staged = 1 .. m
  BY DEF StagingInv, IsTable
<1>2. /\ UNCHANGED <<screen, contents, staged, handed>> /\ queued' = queued \ {case}
      /\ settled' = settled \cup {[kind |-> case.kind, key |-> case.key, rows |-> m]}
  BY DEF Settle
<1>3. CasesFit(staged, settled, queued)
  BY DEF StagingInv
<1> HIDE DEF m
<1>4. CasesFit(staged, settled', queued')
  BY <1>1, <1>2, <1>3, AnswerKeepsCases
<1>5. \A s \in settled' : s.rows \in Nat /\ s.rows <= m
  <2>1. \A s \in settled : s.rows \in Nat /\ s.rows <= m
    BY DEF StagingInv, m
  <2> QED
    BY <1>1, <1>2, <2>1
<1> QED
  BY <1>2, <1>4, <1>5 DEF StagingInv, m

LEMMA StagingInvInductive ==
  StagingInv /\ [StagingNext]_stagingVars => StagingInv'
<1> SUFFICES ASSUME StagingInv, [StagingNext]_stagingVars PROVE StagingInv'
  OBVIOUS
<1>1. CASE UNCHANGED stagingVars
  BY <1>1 DEF stagingVars, StagingInv
<1>2. ASSUME NEW content \in ContentsOnScreen, ReadInvoices(content)
      PROVE  StagingInv'
  BY <1>2, ReadInvoicesKeeps
<1>3. ASSUME NEW content \in ContentsOnScreen, ReadLedger(content)
      PROVE  StagingInv'
  BY <1>3, ReadLedgerKeeps
<1>4. ASSUME NEW content \in ContentsOnScreen, ReadOrders(content)
      PROVE  StagingInv'
  BY <1>4, ReadOrdersKeeps
<1>5. ASSUME NEW content \in ContentsOnScreen, ReadSales(content)
      PROVE  StagingInv'
  BY <1>5, ReadSalesKeeps
<1>6. ASSUME NEW content \in ContentsOnScreen, ReadHistory(content)
      PROVE  StagingInv'
  BY <1>6, ReadHistoryKeeps
<1>7. ASSUME NEW case \in queued, Settle(case) PROVE StagingInv'
  BY <1>7, SettleKeeps
<1> QED
  BY <1>1, <1>2, <1>3, <1>4, <1>5, <1>6, <1>7 DEF StagingNext

\* One case for each question that waits, and none for the others.
LEMMA CasesAreAsked ==
  ASSUME StagingInv, NEW id \in DOMAIN staged
  PROVE  IF Lacks(id)
         THEN /\ id \in handed <=> staged[id].kind = "SALE"
              /\ IF IsSettled(id) THEN Cardinality(About(id)) <= 1
                 ELSE \E c \in About(id) : /\ About(id) = {c}
                                           /\ c.occurrences = Cardinality(Waiting(id))
                                           /\ \A other \in Waiting(id) : other <= c.row
         ELSE id \in handed /\ About(id) = {}
<1>1. /\ CasesFit(staged, settled, queued)
      /\ id \in handed <=> HandedOn(staged[id])
  BY DEF StagingInv
<1>2. \A other \in DOMAIN staged : QuestionOf(other) = Question(staged, other)
  BY DEF QuestionOf, Question
<1>3. \A other \in DOMAIN staged : IsSettled(other) <=> Answered(staged, settled, other)
  BY <1>2 DEF IsSettled, SettledAt, Answered
<1>4. Lacks(id) <=> RowLacks(staged[id])
  BY DEF Lacks, RowLacks
<1>5. About(id) = {c \in queued : c.kind = staged[id].kind /\ c.key = Question(staged, id)}
  BY <1>2 DEF About
<1>6. Waiting(id) = WaitingFor(staged, settled, staged[id].kind, Question(staged, id))
  BY <1>2, <1>3 DEF Waiting, WaitingFor
<1>7. \A c, d \in About(id) : c = d
  BY <1>1, <1>5 DEF CasesFit, SameCase
<1>8. CASE ~Lacks(id)
  <2>1. id \in handed
    BY <1>1, <1>4, <1>8 DEF HandedOn
  <2>2. ASSUME NEW c \in About(id) PROVE FALSE
    <3>1. CaseFits(staged, settled, c) /\ c.kind = staged[id].kind /\ c.key = Question(staged, id)
      BY <1>1, <1>5 DEF CasesFit
    <3>2. /\ RowLacks(staged[c.row]) /\ staged[c.row].kind = staged[id].kind
          /\ Question(staged, c.row) = Question(staged, id)
      BY <3>1 DEF CaseFits
    <3> QED
      BY <1>4, <1>8, <3>2 DEF Question, RowLacks
  <2> QED
    BY <1>8, <2>1, <2>2
<1>9. CASE Lacks(id) /\ IsSettled(id)
  <2>1. Cardinality(About(id)) <= 1
    <3>1. CASE About(id) = {}
      BY <3>1, FS_EmptySet
    <3>2. CASE About(id) # {}
      <4>1. PICK c \in About(id) : About(id) = {c}
        BY <1>7, <3>2
      <4>2. Cardinality({c}) = 1
        BY FS_Singleton
      <4> QED
        BY <4>1, <4>2
    <3> QED
      BY <3>1, <3>2
  <2> QED
    BY <1>1, <1>4, <1>9, <2>1 DEF HandedOn
<1>10. CASE Lacks(id) /\ ~IsSettled(id)
  <2>1. HasCase(queued, staged, id)
    BY <1>1, <1>3, <1>4, <1>10 DEF CasesFit
  <2>2. PICK c \in About(id) : About(id) = {c}
    BY <1>5, <1>7, <2>1 DEF HasCase
  <2>3. CaseFits(staged, settled, c) /\ c.kind = staged[id].kind /\ c.key = Question(staged, id)
    BY <1>1, <1>5 DEF CasesFit
  <2>4. c.occurrences = Cardinality(Waiting(id)) /\ \A other \in Waiting(id) : other <= c.row
    BY <1>6, <2>3 DEF CaseFits
  <2> QED
    BY <1>1, <1>4, <1>10, <2>2, <2>4 DEF HandedOn
<1> QED
  BY <1>8, <1>9, <1>10

\* What was read is in staging, but for the rows of the register without a name.
LEMMA LinesAreTyped ==
  ASSUME StagingInv, NEW content \in contents, NEW n \in DOMAIN content
  PROVE  IsTyped(content, n) <=> IsNamed(content[n])
<1>1. IsNamed(content[n]) => IsTyped(content, n)
  BY DEF StagingInv, IsKept, IsLineOf, IsTyped
<1>2. IsTyped(content, n) => IsNamed(content[n])
  BY DEF StagingInv, IsStagedRow, IsTyped, IsNamed
<1> QED
  BY <1>1, <1>2

\* A row that lacks something its listener needs waits in one question until somebody
\* answers it, and is counted there once; a row that lacks nothing asks nothing and is
\* handed on; and every line that is read becomes such a row, except those of the register
\* without a name: whatever the screens hold, however many lines, however often they are
\* read.  The question of a sale or a payment is of its row, so that each reading asks anew.
THEOREM BrokenRowsAreAskedOnce ==
  StagingSpec => []BrokenRowsAreAsked
<1>1. StagingInit => StagingInv
  BY StagingBegins
<1>2. StagingInv /\ [StagingNext]_stagingVars => StagingInv'
  BY StagingInvInductive
<1>3. StagingInv => BrokenRowsAreAsked
  <2> SUFFICES ASSUME StagingInv PROVE BrokenRowsAreAsked
    OBVIOUS
  <2> QED
    BY CasesAreAsked, LinesAreTyped DEF BrokenRowsAreAsked
<1> QED
  BY <1>1, <1>2, <1>3, PTL DEF StagingSpec
===============================================================================
