----------------------------- MODULE MoneyProofs ------------------------------
(* Theorems about Payments, for any invoices, vouchers, amounts and people: no *)
(* voucher is lost, the filter of the list shows what the row says, and what is *)
(* owed adds up; and about Rubros, for any rubros, products, lines and sales: *)
(* the cuts by rubro add up to all that was bought and sold.                  *)
EXTENDS Payments, Rubros, SequenceTheorems, FoldTheorems, TLAPS

-------------------------------------------------------------------------------
(* Payments.                                                                  *)

(* The rows. *)

Reasons == {Nothing, "WITHOUT_INVOICE", "SEVERAL_INVOICES", "UNKNOWN_INVOICE", "LOOKS_MANUAL"}
Row == [invoice : Invoices \cup {Nothing}, amount : Nat, origin : {"PORTAL", "MANUAL"},
        state : {"PENDING", "IMPUTED", "VOIDED"}, reason : Reasons,
        voucher : Vouchers \cup {Nothing}, external : BOOLEAN]

\* The row of a voucher carries all of its amount until somebody distributes it.
WholeRow(row) == row.voucher \in Vouchers /\ row.amount = row.voucher.amount
WellKept(row) ==
    /\ row.origin = "MANUAL" => row.voucher = Nothing
    /\ row.state = "PENDING" => WholeRow(row)

Parts == UNION {[S -> Amounts] : S \in SUBSET Invoices}
Request == {Idle} \cup [op : {"pay"}, invoice : Invoices, amount : Amounts]
                  \cup [op : {"split"}, payment : Nat, parts : Parts]

\* What is distributed is the whole amount of the voucher the row is of.
SplitsWhole(t, request) ==
    request.op = "split" =>
        /\ request.payment \in DOMAIN t
        /\ t[request.payment].voucher \in Vouchers
        /\ t[request.payment].origin = "PORTAL"
        /\ SumFunction(request.parts) = t[request.payment].voucher.amount

PaymentsTypeOK ==
    /\ payments \in Seq(Row)
    /\ registered \subseteq Invoices
    /\ inReview \subseteq registered
    /\ worker.op = "voucher" => worker.row \in Row
    /\ worker.op = "held" => worker.invoice \in Invoices
    /\ clerk \in [Clerks -> Request]

PaymentsInv ==
    /\ PaymentsTypeOK
    /\ \A k \in DOMAIN payments : WellKept(payments[k])
    /\ worker.op = "voucher" =>
          /\ WholeRow(worker.row) /\ worker.row.origin = "PORTAL"
          /\ worker.row.state \in {"PENDING", "IMPUTED"}
    /\ \A c \in Clerks : SplitsWhole(payments, clerk[c])
    /\ NoVoucherLost

-------------------------------------------------------------------------------
(* What is imputed of a voucher, in any table. *)

AmountsIn(t) == [k \in DOMAIN t |-> t[k].amount]
ImputedOf(t, v) == {k \in DOMAIN t : t[k].voucher = v /\ t[k].state = "IMPUTED"}
Waits(t, v) == \E k \in DOMAIN t : t[k].voucher = v /\ t[k].state = "PENDING"
Kept(t, v) == Waits(t, v) \/ SumFunctionOnSet(AmountsIn(t), ImputedOf(t, v)) >= v.amount

AllKept(t) == \A k \in DOMAIN t : t[k].voucher # Nothing => Kept(t, t[k].voucher)

LEMMA KeptSaysIt ==
  NoVoucherLost <=> AllKept(payments)
<1>1. ASSUME NEW v PROVE /\ AmountsIn(payments) = AmountPaid
                         /\ ImputedOf(payments, v) =
                               {k \in MoneyOf(v) : payments[k].state = "IMPUTED"}
                         /\ Waits(payments, v) <=> MoneyOf(v) \cap PendingPayments # {}
  BY DEF AmountsIn, AmountPaid, ImputedOf, MoneyOf, Waits, PendingPayments
<1>2. ASSUME NEW v
      PROVE  Kept(payments, v) <=>
                \/ MoneyOf(v) \cap PendingPayments # {}
                \/ SumFunctionOnSet(AmountPaid, {k \in MoneyOf(v) : payments[k].state = "IMPUTED"})
                     >= v.amount
  BY <1>1 DEF Kept
<1> QED
  BY <1>2 DEF NoVoucherLost, AllKept

LEMMA TableOf ==
  ASSUME NEW t \in Seq(Row)
  PROVE  /\ Len(t) \in Nat /\ DOMAIN t = 1 .. Len(t) /\ t \in [1 .. Len(t) -> Row]
         /\ IsFiniteSet(DOMAIN t)
         /\ \A k \in DOMAIN t : t[k] \in Row /\ AmountsIn(t)[k] = t[k].amount /\ t[k].amount \in Nat
<1>1. Len(t) \in Nat /\ DOMAIN t = 1 .. Len(t) /\ t \in [1 .. Len(t) -> Row]
  BY LenProperties
<1>2. IsFiniteSet(DOMAIN t)
  BY <1>1, FS_Interval
<1>3. \A k \in DOMAIN t : t[k] \in Row
  BY <1>1
<1> QED
  BY <1>1, <1>2, <1>3 DEF Row, AmountsIn

LEMMA SumOfTable ==
  ASSUME NEW t \in Seq(Row), NEW S, S \subseteq DOMAIN t
  PROVE  IsFiniteSet(S) /\ SumFunctionOnSet(AmountsIn(t), S) \in Nat
<1>1. IsFiniteSet(S)
  BY TableOf, FS_Subset
<1>2. \A k \in S : AmountsIn(t)[k] \in Nat
  BY TableOf
<1> QED
  BY <1>1, <1>2, SumNat

\* Rows that stay imputed keep what they are worth.
LEMMA MoneyStays ==
  ASSUME NEW t \in Seq(Row), NEW u \in Seq(Row), NEW v, DOMAIN t \subseteq DOMAIN u,
         \A k \in ImputedOf(t, v) : k \in ImputedOf(u, v) /\ u[k].amount = t[k].amount
  PROVE  SumFunctionOnSet(AmountsIn(t), ImputedOf(t, v))
           <= SumFunctionOnSet(AmountsIn(u), ImputedOf(u, v))
<1> DEFINE S == ImputedOf(t, v)
           T == ImputedOf(u, v)
<1>1. S \subseteq DOMAIN t /\ S \subseteq DOMAIN u /\ T \subseteq DOMAIN u /\ S \subseteq T
  BY DEF ImputedOf
<1>2. \A k \in S : AmountsIn(t)[k] = AmountsIn(u)[k] /\ AmountsIn(t)[k] \in Int
  BY <1>1, TableOf
<1>3. \A k \in T : AmountsIn(u)[k] \in Nat
  BY <1>1, TableOf
<1> HIDE DEF S, T
<1>4. IsFiniteSet(S) /\ IsFiniteSet(T)
  BY <1>1, SumOfTable
<1>5. SumFunctionOnSet(AmountsIn(t), S) = SumFunctionOnSet(AmountsIn(u), S)
  BY <1>2, <1>4, SumEqual DEF HasInts
<1>6. SumFunctionOnSet(AmountsIn(u), S) <= SumFunctionOnSet(AmountsIn(u), T)
  BY <1>1, <1>3, <1>4, SumMonotone
<1> QED
  BY <1>5, <1>6 DEF S, T

\* A voucher that is kept stays kept while none of its rows is voided.
LEMMA KeptStays ==
  ASSUME NEW t \in Seq(Row), NEW u \in Seq(Row), NEW v \in Vouchers, DOMAIN t \subseteq DOMAIN u,
         \A k \in ImputedOf(t, v) : k \in ImputedOf(u, v) /\ u[k].amount = t[k].amount,
         Waits(t, v) => Kept(u, v),
         Kept(t, v)
  PROVE  Kept(u, v)
<1>1. CASE Waits(t, v)
  BY <1>1
<1>2. CASE SumFunctionOnSet(AmountsIn(t), ImputedOf(t, v)) >= v.amount
  <2>1. SumFunctionOnSet(AmountsIn(t), ImputedOf(t, v))
          <= SumFunctionOnSet(AmountsIn(u), ImputedOf(u, v))
    BY MoneyStays
  <2>2. ImputedOf(t, v) \subseteq DOMAIN t /\ ImputedOf(u, v) \subseteq DOMAIN u
    BY DEF ImputedOf
  <2>3. /\ SumFunctionOnSet(AmountsIn(t), ImputedOf(t, v)) \in Nat
        /\ SumFunctionOnSet(AmountsIn(u), ImputedOf(u, v)) \in Nat
    BY <2>2, SumOfTable
  <2>4. v.amount \in Nat
    BY PaymentsAssumption
  <2>5. SumFunctionOnSet(AmountsIn(u), ImputedOf(u, v)) >= v.amount
    BY <1>2, <2>1, <2>3, <2>4
  <2> QED
    BY <2>5 DEF Kept
<1> QED
  BY <1>1, <1>2 DEF Kept

\* One imputed row that carries all of it is enough.
LEMMA KeptByOne ==
  ASSUME NEW t \in Seq(Row), NEW v \in Vouchers, NEW k \in ImputedOf(t, v), t[k].amount = v.amount
  PROVE  Kept(t, v)
<1> DEFINE T == ImputedOf(t, v)
           f == AmountsIn(t)
<1>1. T \subseteq DOMAIN t /\ k \in T
  BY DEF ImputedOf
<1>2. f[k] = v.amount /\ v.amount \in Nat /\ f[k] \in Int /\ \A x \in T : f[x] \in Nat
  BY <1>1, TableOf, PaymentsAssumption
<1>3. IsFiniteSet(T)
  BY <1>1, SumOfTable
<1> HIDE DEF T, f
<1>4. SumFunctionOnSet(f, {k}) = f[k]
  BY <1>2, SumOfOne
<1>5. /\ SumFunctionOnSet(f, T) \in Nat
      /\ SumFunctionOnSet(f, {k}) <= SumFunctionOnSet(f, T)
  <2>1. {k} \subseteq T
    BY <1>1
  <2> QED
    BY <1>2, <1>3, <2>1, SumMonotone
<1>6. SumFunctionOnSet(f, T) >= v.amount
  BY <1>2, <1>4, <1>5
<1> QED
  BY <1>6 DEF Kept, T, f

-------------------------------------------------------------------------------
(* What a distribution leaves. *)

\* The order in which the parts are written names each invoice once.
OrderOf(D) == CHOOSE s \in [1..Cardinality(D) -> D] : \A i \in D : \E j \in DOMAIN s : s[j] = i

LEMMA OrderNamesEach ==
  ASSUME NEW D, IsFiniteSet(D)
  PROVE  /\ Cardinality(D) \in Nat
         /\ OrderOf(D) \in [1..Cardinality(D) -> D]
         /\ \A i \in D : \E j \in 1..Cardinality(D) : OrderOf(D)[j] = i
         /\ \A j, k \in 1..Cardinality(D) : OrderOf(D)[j] = OrderOf(D)[k] => j = k
<1> DEFINE n == Cardinality(D)
           order == OrderOf(D)
<1>1. n \in Nat /\ ExistsBijection(1..n, D)
  BY FS_CardinalityType
<1>2. PICK b : b \in Bijection(1..n, D)
  BY <1>1 DEF ExistsBijection
<1>3. b \in [1..n -> D] /\ \A i \in D : \E j \in DOMAIN b : b[j] = i
  BY <1>2 DEF Bijection, Injection, Surjection
<1>4. order \in [1..n -> D] /\ \A i \in D : \E j \in DOMAIN order : order[j] = i
  BY <1>3 DEF OrderOf
<1>5. order \in Surjection(1..n, D)
  BY <1>4 DEF Surjection
<1>6. IsFiniteSet(1..n) /\ Cardinality(1..n) = Cardinality(D)
  BY <1>1, FS_Interval
<1>7. order \in Injection(1..n, D)
  BY <1>5, <1>6, FS_SurjSameCardinalityImpliesInj
<1>8. \A j, k \in 1..n : order[j] = order[k] => j = k
  BY <1>4, <1>7 DEF Injection, IsInjective
<1>9. DOMAIN order = 1..n
  BY <1>4
<1> HIDE DEF order
<1>10. \A i \in D : \E j \in 1..n : order[j] = i
  BY <1>4, <1>9
<1> QED
  BY <1>1, <1>4, <1>8, <1>10 DEF order

LEMMA PartsAreTyped ==
  ASSUME NEW parts \in Parts
  PROVE  /\ DOMAIN parts \subseteq Invoices /\ IsFiniteSet(DOMAIN parts)
         /\ parts \in [DOMAIN parts -> Amounts]
         /\ \A i \in DOMAIN parts : parts[i] \in Nat
<1>1. PICK S \in SUBSET Invoices : parts \in [S -> Amounts]
  BY DEF Parts
<1>2. IsFiniteSet(S)
  BY FS_Subset, PaymentsAssumption
<1> QED
  BY <1>1, <1>2, PaymentsAssumption

\* The table after a distribution: the row is voided, its parts follow.
PartRows(t, k, parts) ==
    [j \in 1..Cardinality(DOMAIN parts) |->
        PaymentRow(OrderOf(DOMAIN parts)[j], parts[OrderOf(DOMAIN parts)[j]], t[k].origin,
                   "IMPUTED", Nothing, t[k].voucher, FALSE)]
Distributed(t, k, parts) ==
    [t EXCEPT ![k].state = "VOIDED", ![k].reason = Nothing] \o PartRows(t, k, parts)

LEMMA DistributedRows ==
  ASSUME NEW t \in Seq(Row), NEW k \in DOMAIN t, NEW parts \in Parts
  PROVE  LET u == Distributed(t, k, parts)
             n == Len(t)
             D == DOMAIN parts
         IN  /\ u \in Seq(Row) /\ Len(u) = n + Cardinality(D)
             /\ \A j \in 1..n : u[j] = IF j = k THEN [t[k] EXCEPT !.state = "VOIDED", !.reason = Nothing]
                                       ELSE t[j]
             /\ \A j \in n + 1 .. n + Cardinality(D) :
                   u[j] = PaymentRow(OrderOf(D)[j - n], parts[OrderOf(D)[j - n]], t[k].origin,
                                     "IMPUTED", Nothing, t[k].voucher, FALSE)
<1> DEFINE n == Len(t)
           m == Cardinality(DOMAIN parts)
           voided == [t[k] EXCEPT !.state = "VOIDED", !.reason = Nothing]
           s == [t EXCEPT ![k] = voided]
           p == PartRows(t, k, parts)
<1>1. n \in Nat /\ DOMAIN t = 1..n /\ t \in [1..n -> Row] /\ t[k] \in Row
  BY TableOf
<1>2. voided \in Row
  BY <1>1 DEF Row, Reasons
<1>3. s \in Seq(Row) /\ Len(s) = n /\ \A j \in 1..n : s[j] = IF j = k THEN voided ELSE t[j]
  BY <1>1, <1>2, ExceptSeq
<1>4. [t EXCEPT ![k].state = "VOIDED", ![k].reason = Nothing] = s
  BY <1>1
<1>5. m \in Nat /\ \A j \in 1..m : OrderOf(DOMAIN parts)[j] \in DOMAIN parts
  BY PartsAreTyped, OrderNamesEach
<1>6. \A j \in 1..m : p[j] \in Row
  <2> TAKE j \in 1..m
  <2>1. OrderOf(DOMAIN parts)[j] \in Invoices /\ parts[OrderOf(DOMAIN parts)[j]] \in Nat
    BY <1>5, PartsAreTyped
  <2>2. t[k].origin \in {"PORTAL", "MANUAL"} /\ t[k].voucher \in Vouchers \cup {Nothing}
    BY <1>1 DEF Row
  <2> QED
    BY <2>1, <2>2 DEF PartRows, PaymentRow, Row, Reasons
<1>7. p \in [1..m -> Row]
  BY <1>6 DEF PartRows
<1>8. p \in Seq(Row) /\ Len(p) = m
  BY <1>5, <1>7
<1>9. /\ s \o p \in Seq(Row) /\ Len(s \o p) = n + m
      /\ \A j \in 1..n + m : (s \o p)[j] = IF j <= n THEN s[j] ELSE p[j - n]
  <2>1. s \in Seq(Row) /\ p \in Seq(Row) /\ Len(s) = n /\ Len(p) = m
    BY <1>3, <1>8
  <2> HIDE DEF s, p, n, m
  <2>2. /\ s \o p \in Seq(Row) /\ Len(s \o p) = Len(s) + Len(p)
        /\ \A j \in 1..Len(s) + Len(p) : (s \o p)[j] = IF j <= Len(s) THEN s[j] ELSE p[j - Len(s)]
    BY <2>1, ConcatProperties
  <2> QED
    BY <2>1, <2>2
<1>10. Distributed(t, k, parts) = s \o p
  BY <1>4 DEF Distributed
<1>11. \A j \in 1..n : (s \o p)[j] = IF j = k THEN voided ELSE t[j]
  BY <1>1, <1>3, <1>5, <1>9
<1>12. ASSUME NEW j \in n + 1 .. n + m
       PROVE  (s \o p)[j] = p[j - n] /\ j - n \in 1..m
  BY <1>1, <1>5, <1>9
<1> HIDE DEF s
<1> QED
  BY <1>9, <1>10, <1>11, <1>12 DEF PartRows

LEMMA DistributedIsKept ==
  ASSUME NEW t \in Seq(Row), NEW k \in DOMAIN t, NEW parts \in Parts,
         t[k].voucher \in Vouchers, SumFunction(parts) = t[k].voucher.amount
  PROVE  Kept(Distributed(t, k, parts), t[k].voucher)
<1> DEFINE u == Distributed(t, k, parts)
           n == Len(t)
           D == DOMAIN parts
           m == Cardinality(D)
           v == t[k].voucher
           rows == n + 1 .. n + m
           place == [j \in rows |-> OrderOf(D)[j - n]]
           T == ImputedOf(u, v)
           f == AmountsIn(u)
<1>1. n \in Nat /\ m \in Nat /\ IsFiniteSet(D) /\ \A i \in D : parts[i] \in Int
  BY TableOf, PartsAreTyped, FS_CardinalityType
<1>2. u \in Seq(Row) /\ DOMAIN u = 1..n + m
  <2>1. u \in Seq(Row) /\ Len(u) = n + m
    BY DistributedRows
  <2> QED
    BY <2>1, TableOf
<1>0. \A j \in rows : u[j] = PaymentRow(OrderOf(D)[j - n], parts[OrderOf(D)[j - n]], t[k].origin,
                                       "IMPUTED", Nothing, v, FALSE)
  BY DistributedRows
<1>3. ASSUME NEW j \in rows
      PROVE  /\ j \in T /\ f[j] = parts[place[j]]
             /\ j - n \in 1..m /\ place[j] = OrderOf(D)[j - n]
  <2>1. j \in DOMAIN u /\ j - n \in 1..m
    BY <1>1, <1>2
  <2>2. u[j] = PaymentRow(OrderOf(D)[j - n], parts[OrderOf(D)[j - n]], t[k].origin,
                          "IMPUTED", Nothing, v, FALSE)
    BY <1>0
  <2>3. u[j].voucher = v /\ u[j].state = "IMPUTED" /\ u[j].amount = parts[place[j]]
    BY <2>2 DEF PaymentRow
  <2> HIDE DEF u, v, place
  <2>4. j \in ImputedOf(u, v) /\ AmountsIn(u)[j] = parts[place[j]]
    BY <2>1, <2>3 DEF ImputedOf, AmountsIn
  <2> QED
    BY <2>1, <2>4 DEF place
<1>4. /\ place \in [rows -> D]
      /\ \A x, y \in rows : place[x] = place[y] => x = y
      /\ \A i \in D : \E x \in rows : place[x] = i
  <2>1. /\ OrderOf(D) \in [1..m -> D]
        /\ \A i \in D : \E j \in 1..m : OrderOf(D)[j] = i
        /\ \A j, l \in 1..m : OrderOf(D)[j] = OrderOf(D)[l] => j = l
    BY <1>1, OrderNamesEach
  <2>2. \A j \in 1..m : n + j \in rows /\ (n + j) - n = j
    BY <1>1
  <2> HIDE DEF rows
  <2>3. place \in [rows -> D]
    BY <1>3, <2>1
  <2>4. ASSUME NEW x \in rows, NEW y \in rows, place[x] = place[y] PROVE x = y
    <3>1. x - n = y - n /\ x \in Int /\ y \in Int
      BY <1>3, <2>1, <2>4 DEF rows
    <3> QED
      BY <1>1, <3>1
  <2>5. ASSUME NEW i \in D PROVE \E x \in rows : place[x] = i
    BY <2>1, <2>2
  <2> QED
    BY <2>3, <2>4, <2>5
<1>5. IsFiniteSet(rows)
  BY <1>1, FS_Interval
<1>6. SumFunctionOnSet(f, rows) = SumFunctionOnSet(parts, D)
  <2>1. \A j \in rows : f[j] = parts[place[j]]
    BY <1>3
  <2> HIDE DEF rows, place, f, D
  <2> QED
    BY <1>1, <1>4, <1>5, <2>1, SumRenamed
<1>7. SumFunctionOnSet(parts, D) = v.amount /\ v.amount \in Nat
  BY PaymentsAssumption DEF SumFunction
<1>8. T \subseteq DOMAIN u /\ rows \subseteq T
  BY <1>3 DEF ImputedOf
<1>9. IsFiniteSet(T) /\ \A j \in T : f[j] \in Nat
  <2> HIDE DEF T, u
  <2> QED
    BY <1>2, <1>8, SumOfTable, TableOf
<1>10. SumFunctionOnSet(f, rows) <= SumFunctionOnSet(f, T) /\ SumFunctionOnSet(f, T) \in Nat
  <2> HIDE DEF T, f, rows
  <2> QED
    BY <1>8, <1>9, SumMonotone
<1>11. SumFunctionOnSet(f, T) >= v.amount
  BY <1>6, <1>7, <1>10
<1> QED
  BY <1>11 DEF Kept

-------------------------------------------------------------------------------
(* The rows of the table through a step. *)

\* One row more.
LEMMA OneRowMore ==
  ASSUME NEW t \in Seq(Row), NEW row \in Row
  PROVE  LET u == Append(t, row)
         IN  /\ u \in Seq(Row) /\ DOMAIN u = 1 .. Len(t) + 1
             /\ DOMAIN t = 1 .. Len(t) /\ Len(t) \in Nat /\ DOMAIN t \subseteq DOMAIN u
             /\ \A k \in DOMAIN t : u[k] = t[k]
             /\ u[Len(t) + 1] = row /\ Len(t) + 1 \in DOMAIN u
<1>1. Len(t) \in Nat /\ DOMAIN t = 1 .. Len(t) /\ t \in [1 .. Len(t) -> Row]
  BY TableOf
<1>2. /\ Append(t, row) \in Seq(Row) /\ Len(Append(t, row)) = Len(t) + 1
      /\ \A k \in 1 .. Len(t) : Append(t, row)[k] = t[k]
      /\ Append(t, row)[Len(t) + 1] = row
  BY <1>1
<1>3. DOMAIN Append(t, row) = 1 .. Len(t) + 1
  BY <1>2, TableOf
<1> QED
  BY <1>1, <1>2, <1>3

\* A row more of a voucher keeps every voucher.
LEMMA KeptWithOneMore ==
  ASSUME NEW t \in Seq(Row), NEW row \in Row, NEW v \in Vouchers,
         \/ Kept(t, v)
         \/ row.voucher = v /\ row.amount = v.amount /\ row.state \in {"PENDING", "IMPUTED"}
  PROVE  Kept(Append(t, row), v)
<1> DEFINE u == Append(t, row)
<1>1. /\ u \in Seq(Row) /\ DOMAIN t \subseteq DOMAIN u /\ \A k \in DOMAIN t : u[k] = t[k]
      /\ u[Len(t) + 1] = row /\ Len(t) + 1 \in DOMAIN u
  BY OneRowMore
<1> HIDE DEF u
<1>2. CASE Kept(t, v)
  <2>1. \A k \in ImputedOf(t, v) : k \in ImputedOf(u, v) /\ u[k].amount = t[k].amount
    BY <1>1 DEF ImputedOf
  <2>2. Waits(t, v) => Waits(u, v)
    BY <1>1 DEF Waits
  <2>3. Waits(t, v) => Kept(u, v)
    BY <2>2 DEF Kept
  <2>4. Kept(u, v)
    BY <1>1, <1>2, <2>1, <2>3, KeptStays
  <2> QED
    BY <2>4 DEF u
<1>3. CASE row.voucher = v /\ row.amount = v.amount /\ row.state = "PENDING"
  <2>1. Waits(u, v)
    BY <1>1, <1>3 DEF Waits
  <2> QED
    BY <2>1 DEF Kept, u
<1>4. CASE row.voucher = v /\ row.amount = v.amount /\ row.state = "IMPUTED"
  <2>1. Len(t) + 1 \in ImputedOf(u, v) /\ u[Len(t) + 1].amount = v.amount
    BY <1>1, <1>4 DEF ImputedOf
  <2>2. Kept(u, v)
    BY <1>1, <2>1, KeptByOne
  <2> QED
    BY <2>2 DEF u
<1> QED
  BY <1>2, <1>3, <1>4

\* Every voucher some row is of is kept.
AllWellKept(t) == \A k \in DOMAIN t : WellKept(t[k])

LEMMA VoucherOfRow ==
  ASSUME NEW t \in Seq(Row), NEW k \in DOMAIN t, t[k].voucher # Nothing
  PROVE  t[k].voucher \in Vouchers
<1>1. t[k] \in Row
  BY TableOf
<1> QED
  BY <1>1 DEF Row

LEMMA AppendedIsKept ==
  ASSUME NEW t \in Seq(Row), NEW row \in Row, AllKept(t), AllWellKept(t), WellKept(row),
         row.voucher # Nothing => WholeRow(row) /\ row.state \in {"PENDING", "IMPUTED"}
  PROVE  AllKept(Append(t, row)) /\ AllWellKept(Append(t, row))
<1> DEFINE u == Append(t, row)
<1>1. /\ DOMAIN u = 1 .. Len(t) + 1 /\ DOMAIN t = 1 .. Len(t) /\ Len(t) \in Nat
      /\ \A k \in DOMAIN t : u[k] = t[k]
      /\ u[Len(t) + 1] = row
  BY OneRowMore
<1> HIDE DEF u
<1>2. ASSUME NEW k \in DOMAIN u PROVE \/ k \in DOMAIN t /\ u[k] = t[k]
                                      \/ u[k] = row
  BY <1>1
<1>3. ASSUME NEW k \in DOMAIN u, u[k].voucher # Nothing PROVE Kept(u, u[k].voucher)
  <2>1. CASE k \in DOMAIN t /\ u[k] = t[k]
    <3>1. Kept(t, t[k].voucher) /\ t[k].voucher \in Vouchers
      BY <1>3, <2>1, VoucherOfRow DEF AllKept
    <3>2. Kept(u, t[k].voucher)
      BY <3>1, KeptWithOneMore DEF u
    <3> QED
      BY <2>1, <3>2
  <2>2. CASE u[k] = row
    <3>1. Kept(u, row.voucher)
      BY <1>3, <2>2, KeptWithOneMore DEF u, WholeRow
    <3> QED
      BY <2>2, <3>1
  <2> QED
    BY <1>2, <2>1, <2>2
<1>4. AllKept(u)
  BY <1>3 DEF AllKept
<1>5. AllWellKept(u)
  BY <1>2 DEF AllWellKept
<1> QED
  BY <1>4, <1>5 DEF u

\* The rows that were waiting for an invoice are imputed to it.
ImputedRow(row, i) == [row EXCEPT !.invoice = i, !.state = "IMPUTED", !.reason = Nothing]
HeldImputed(t, rows, i) == [k \in DOMAIN t |-> IF k \in rows THEN ImputedRow(t[k], i) ELSE t[k]]

LEMMA HeldImputedRows ==
  ASSUME NEW t \in Seq(Row), NEW rows, NEW i \in Invoices
  PROVE  LET u == HeldImputed(t, rows, i)
         IN  /\ u \in Seq(Row) /\ DOMAIN u = DOMAIN t
             /\ \A k \in DOMAIN t :
                   /\ u[k] \in Row
                   /\ u[k].voucher = t[k].voucher /\ u[k].amount = t[k].amount
                   /\ u[k].origin = t[k].origin
                   /\ u[k].state = IF k \in rows THEN "IMPUTED" ELSE t[k].state
<1> DEFINE u == HeldImputed(t, rows, i)
<1>1. Len(t) \in Nat /\ DOMAIN t = 1 .. Len(t) /\ \A k \in DOMAIN t : t[k] \in Row
  BY TableOf
<1>2. ASSUME NEW k \in DOMAIN t
      PROVE  /\ u[k] \in Row
             /\ u[k].voucher = t[k].voucher /\ u[k].amount = t[k].amount
             /\ u[k].origin = t[k].origin
             /\ u[k].state = IF k \in rows THEN "IMPUTED" ELSE t[k].state
  <2>1. t[k] \in Row
    BY <1>1
  <2>2. u[k] = IF k \in rows THEN ImputedRow(t[k], i) ELSE t[k]
    BY DEF HeldImputed
  <2>3. /\ ImputedRow(t[k], i) \in Row /\ ImputedRow(t[k], i).voucher = t[k].voucher
        /\ ImputedRow(t[k], i).amount = t[k].amount /\ ImputedRow(t[k], i).origin = t[k].origin
        /\ ImputedRow(t[k], i).state = "IMPUTED"
    BY <2>1 DEF ImputedRow, Row, Reasons
  <2> QED
    BY <2>1, <2>2, <2>3
<1>3. u \in [1 .. Len(t) -> Row]
  BY <1>1, <1>2 DEF HeldImputed
<1>4. u \in Seq(Row) /\ DOMAIN u = DOMAIN t
  BY <1>1, <1>3
<1> QED
  BY <1>2, <1>4

LEMMA HeldImputedIsKept ==
  ASSUME NEW t \in Seq(Row), NEW rows, NEW i \in Invoices, AllKept(t), AllWellKept(t)
  PROVE  AllKept(HeldImputed(t, rows, i)) /\ AllWellKept(HeldImputed(t, rows, i))
<1> DEFINE u == HeldImputed(t, rows, i)
<1>1. /\ u \in Seq(Row) /\ DOMAIN u = DOMAIN t
      /\ \A k \in DOMAIN t : /\ u[k].voucher = t[k].voucher /\ u[k].amount = t[k].amount
                             /\ u[k].origin = t[k].origin
                             /\ u[k].state = IF k \in rows THEN "IMPUTED" ELSE t[k].state
  BY HeldImputedRows
<1> HIDE DEF u
<1>2. AllWellKept(u)
  BY <1>1 DEF AllWellKept, WellKept, WholeRow
<1>3. ASSUME NEW v \in Vouchers, Kept(t, v) PROVE Kept(u, v)
  <2>1. \A k \in ImputedOf(t, v) : k \in ImputedOf(u, v) /\ u[k].amount = t[k].amount
    BY <1>1 DEF ImputedOf
  <2>2. ASSUME Waits(t, v) PROVE Kept(u, v)
    <3>1. PICK k \in DOMAIN t : t[k].voucher = v /\ t[k].state = "PENDING"
      BY <2>2 DEF Waits
    <3>2. t[k].amount = v.amount
      BY <3>1 DEF AllWellKept, WellKept, WholeRow
    <3>3. CASE k \in rows
      <4>1. k \in ImputedOf(u, v) /\ u[k].amount = v.amount
        BY <1>1, <3>1, <3>2, <3>3 DEF ImputedOf
      <4> QED
        BY <1>1, <4>1, KeptByOne
    <3>4. CASE k \notin rows
      <4>1. Waits(u, v)
        BY <1>1, <3>1, <3>4 DEF Waits
      <4> QED
        BY <4>1 DEF Kept
    <3> QED
      BY <3>3, <3>4
  <2> QED
    BY <1>1, <1>3, <2>1, <2>2, KeptStays
<1>4. AllKept(u)
  <2> SUFFICES ASSUME NEW k \in DOMAIN u, u[k].voucher # Nothing PROVE Kept(u, u[k].voucher)
    BY DEF AllKept
  <2>1. k \in DOMAIN t /\ u[k].voucher = t[k].voucher
    BY <1>1
  <2>2. Kept(t, t[k].voucher) /\ t[k].voucher \in Vouchers
    BY <2>1, VoucherOfRow DEF AllKept
  <2> QED
    BY <1>3, <2>1, <2>2
<1> QED
  BY <1>2, <1>4 DEF u

\* Somebody voids a payment by hand.
Voided(t, k) == [t EXCEPT ![k].state = "VOIDED"]

LEMMA VoidedIsKept ==
  ASSUME NEW t \in Seq(Row), NEW k \in DOMAIN t, t[k].origin # "PORTAL", AllKept(t), AllWellKept(t)
  PROVE  LET u == Voided(t, k)
         IN  /\ u \in Seq(Row) /\ DOMAIN u = DOMAIN t /\ AllKept(u) /\ AllWellKept(u)
             /\ \A j \in DOMAIN t : u[j].voucher = t[j].voucher /\ u[j].origin = t[j].origin
<1> DEFINE row == [t[k] EXCEPT !.state = "VOIDED"]
           u == [t EXCEPT ![k] = row]
<1>1. Len(t) \in Nat /\ DOMAIN t = 1 .. Len(t) /\ t \in [1 .. Len(t) -> Row] /\ t[k] \in Row
  BY TableOf
<1>2. /\ row \in Row /\ row.voucher = t[k].voucher /\ row.origin = t[k].origin
      /\ row.state = "VOIDED"
  BY <1>1 DEF Row
<1>3. Voided(t, k) = u
  BY DEF Voided
<1>4. t[k].voucher = Nothing
  BY <1>1 DEF AllWellKept, WellKept, Row
<1>5. /\ u \in Seq(Row) /\ DOMAIN u = DOMAIN t /\ u[k] = row
      /\ \A j \in DOMAIN t : j # k => u[j] = t[j]
  <2> HIDE DEF row
  <2> QED
    BY <1>1, <1>2, ExceptSeq
<1> HIDE DEF u
<1>6. \A j \in DOMAIN t : u[j].voucher = t[j].voucher /\ u[j].origin = t[j].origin
  BY <1>2, <1>5
<1>7. AllWellKept(u)
  BY <1>2, <1>4, <1>5 DEF AllWellKept, WellKept
<1>8. ASSUME NEW v \in Vouchers, Kept(t, v) PROVE Kept(u, v)
  <2>1. v # Nothing
    BY PaymentsAssumption
  <2>2. \A j \in ImputedOf(t, v) : j \in ImputedOf(u, v) /\ u[j].amount = t[j].amount
    BY <1>4, <1>5, <2>1 DEF ImputedOf
  <2>3. Waits(t, v) => Waits(u, v)
    BY <1>4, <1>5, <2>1 DEF Waits
  <2>4. Waits(t, v) => Kept(u, v)
    BY <2>3 DEF Kept
  <2> QED
    BY <1>5, <1>8, <2>2, <2>4, KeptStays
<1>9. AllKept(u)
  <2> SUFFICES ASSUME NEW j \in DOMAIN u, u[j].voucher # Nothing PROVE Kept(u, u[j].voucher)
    BY DEF AllKept
  <2>1. j \in DOMAIN t /\ u[j].voucher = t[j].voucher
    BY <1>5, <1>6
  <2>2. Kept(t, t[j].voucher) /\ t[j].voucher \in Vouchers
    BY <2>1, VoucherOfRow DEF AllKept
  <2> QED
    BY <1>8, <2>1, <2>2
<1> QED
  BY <1>3, <1>5, <1>6, <1>7, <1>9

\* A row is distributed, whatever became of it since somebody looked at it.
LEMMA DistributedIsAllKept ==
  ASSUME NEW t \in Seq(Row), NEW k \in DOMAIN t, NEW parts \in Parts,
         t[k].voucher \in Vouchers, t[k].origin = "PORTAL",
         SumFunction(parts) = t[k].voucher.amount, AllKept(t), AllWellKept(t)
  PROVE  LET u == Distributed(t, k, parts)
         IN  /\ u \in Seq(Row) /\ DOMAIN t \subseteq DOMAIN u /\ AllKept(u) /\ AllWellKept(u)
             /\ \A j \in DOMAIN t : u[j].voucher = t[j].voucher /\ u[j].origin = t[j].origin
<1> DEFINE u == Distributed(t, k, parts)
           n == Len(t)
           m == Cardinality(DOMAIN parts)
           w == t[k].voucher
<1>1. n \in Nat /\ m \in Nat /\ DOMAIN t = 1..n /\ t[k] \in Row
  BY TableOf, PartsAreTyped, FS_CardinalityType
<1>2. u \in Seq(Row) /\ DOMAIN u = 1..n + m
  <2>1. u \in Seq(Row) /\ Len(u) = n + m
    BY DistributedRows
  <2> QED
    BY <2>1, TableOf
<1>3. \A j \in 1..n : u[j] = IF j = k THEN [t[k] EXCEPT !.state = "VOIDED", !.reason = Nothing]
                             ELSE t[j]
  BY DistributedRows
<1>4. \A j \in n + 1..n + m :
         /\ u[j].voucher = w /\ u[j].state = "IMPUTED" /\ u[j].origin = "PORTAL"
  <2>1. \A j \in n + 1..n + m :
           u[j] = PaymentRow(OrderOf(DOMAIN parts)[j - n], parts[OrderOf(DOMAIN parts)[j - n]],
                             t[k].origin, "IMPUTED", Nothing, t[k].voucher, FALSE)
    BY DistributedRows
  <2> HIDE DEF u
  <2> TAKE j \in n + 1..n + m
  <2> DEFINE i == OrderOf(DOMAIN parts)[j - n]
             amount == parts[OrderOf(DOMAIN parts)[j - n]]
  <2>2. u[j] = PaymentRow(i, amount, t[k].origin, "IMPUTED", Nothing, w, FALSE)
    BY <2>1
  <2> HIDE DEF i, amount, w
  <2> QED
    BY <2>2 DEF PaymentRow
<1>5. Kept(u, w)
  BY DistributedIsKept
<1>6. u[k].voucher = w /\ u[k].state = "VOIDED" /\ u[k].origin = "PORTAL"
  <2>1. u[k] = [t[k] EXCEPT !.state = "VOIDED", !.reason = Nothing]
    BY <1>1, <1>3
  <2> HIDE DEF u
  <2> QED
    BY <1>1, <2>1 DEF Row
<1>7. \A j \in 1..n : j # k => u[j] = t[j]
  BY <1>3
<1> HIDE DEF u
<1>8. \A j \in DOMAIN t : u[j].voucher = t[j].voucher /\ u[j].origin = t[j].origin
  BY <1>1, <1>6, <1>7
<1>9. DOMAIN t \subseteq DOMAIN u /\ \A j \in DOMAIN u : j \in 1..n \/ j \in n + 1..n + m
  BY <1>1, <1>2
<1>10. AllWellKept(u)
  BY <1>1, <1>4, <1>6, <1>7, <1>9 DEF AllWellKept, WellKept
<1>11. ASSUME NEW v \in Vouchers, v # w, Kept(t, v) PROVE Kept(u, v)
  <2>1. \A j \in ImputedOf(t, v) : j \in ImputedOf(u, v) /\ u[j].amount = t[j].amount
    BY <1>1, <1>7, <1>9, <1>11 DEF ImputedOf
  <2>2. Waits(t, v) => Waits(u, v)
    BY <1>1, <1>7, <1>9, <1>11 DEF Waits
  <2>3. Waits(t, v) => Kept(u, v)
    BY <2>2 DEF Kept
  <2> QED
    BY <1>2, <1>9, <1>11, <2>1, <2>3, KeptStays
<1>12. AllKept(u)
  <2> SUFFICES ASSUME NEW j \in DOMAIN u, u[j].voucher # Nothing, u[j].voucher # w
               PROVE  Kept(u, u[j].voucher)
    BY <1>5 DEF AllKept
  <2>1. j \in DOMAIN t /\ u[j].voucher = t[j].voucher
    BY <1>1, <1>4, <1>8, <1>9
  <2>2. Kept(t, t[j].voucher) /\ t[j].voucher \in Vouchers
    BY <2>1, VoucherOfRow DEF AllKept
  <2> QED
    BY <1>11, <2>1, <2>2
<1> QED
  BY <1>2, <1>8, <1>9, <1>10, <1>12 DEF u

-------------------------------------------------------------------------------
(* No voucher is lost. *)

\* A step leaves the rows that were there of the voucher they were of.
Stays(t, u) ==
    /\ u \in Seq(Row) /\ DOMAIN t \subseteq DOMAIN u /\ AllKept(u) /\ AllWellKept(u)
    /\ \A j \in DOMAIN t : u[j].voucher = t[j].voucher /\ u[j].origin = t[j].origin

LEMMA InvOfTable ==
  PaymentsInv <=> /\ PaymentsTypeOK /\ AllKept(payments) /\ AllWellKept(payments)
                  /\ worker.op = "voucher" =>
                        /\ WholeRow(worker.row) /\ worker.row.origin = "PORTAL"
                        /\ worker.row.state \in {"PENDING", "IMPUTED"}
                  /\ \A c \in Clerks : SplitsWhole(payments, clerk[c])
BY KeptSaysIt DEF PaymentsInv, AllWellKept

LEMMA SplitsStay ==
  ASSUME NEW t, NEW u, Stays(t, u), NEW request, SplitsWhole(t, request)
  PROVE  SplitsWhole(u, request)
BY DEF Stays, SplitsWhole

LEMMA PaymentsInitInv ==
  ASSUME PaymentsInit
  PROVE  PaymentsInv
<1>1. payments = <<>> /\ payments \in Seq(Row) /\ DOMAIN payments = {}
  BY EmptySeq DEF PaymentsInit
<1>2. PaymentsTypeOK
  BY <1>1 DEF PaymentsInit, PaymentsTypeOK, Idle, Request
<1>3. AllKept(payments) /\ AllWellKept(payments)
  BY <1>1 DEF AllKept, AllWellKept
<1>4. \A c \in Clerks : SplitsWhole(payments, clerk[c])
  BY DEF PaymentsInit, SplitsWhole, Idle
<1> QED
  BY <1>2, <1>3, <1>4, InvOfTable DEF PaymentsInit, Idle

LEMMA VoucherRowIsWhole ==
  ASSUME NEW v \in Vouchers, NEW found \in InvoiceFor(v), registered \subseteq Invoices
  PROVE  LET row == VoucherRow(v, found[1], found[2])
         IN  /\ row \in Row /\ WholeRow(row) /\ row.origin = "PORTAL"
             /\ row.state \in {"PENDING", "IMPUTED"}
<1>1. found[1] \in Invoices \cup {Nothing} /\ found[2] \in Reasons
  BY DEF InvoiceFor, InvoicesNumbered, Reasons
<1>2. v.amount \in Nat /\ v.external \in BOOLEAN
  BY PaymentsAssumption
<1> DEFINE invoice == found[1]
           reason == found[2]
           held == invoice # Nothing /\ SimilarManualPayment(invoice, v.amount)
           to == IF held THEN Nothing ELSE invoice
           state == IF to = Nothing THEN "PENDING" ELSE "IMPUTED"
           why == IF held THEN "LOOKS_MANUAL" ELSE reason
<1>3. VoucherRow(v, found[1], found[2]) = PaymentRow(to, v.amount, "PORTAL", state, why, v, v.external)
  BY DEF VoucherRow
<1>4. to \in Invoices \cup {Nothing} /\ state \in {"PENDING", "IMPUTED"} /\ why \in Reasons
  BY <1>1 DEF Reasons
<1> HIDE DEF to, state, why
<1>5. /\ PaymentRow(to, v.amount, "PORTAL", state, why, v, v.external) \in Row
      /\ PaymentRow(to, v.amount, "PORTAL", state, why, v, v.external).state = state
      /\ WholeRow(PaymentRow(to, v.amount, "PORTAL", state, why, v, v.external))
      /\ PaymentRow(to, v.amount, "PORTAL", state, why, v, v.external).origin = "PORTAL"
  BY <1>2, <1>4 DEF PaymentRow, Row, WholeRow
<1> QED
  BY <1>3, <1>4, <1>5

\* What the reading does to the table, and to its own transaction.
LEMMA ReadingStays ==
  ASSUME PaymentsInv, Reading
  PROVE  PaymentsInv'
<1>1. /\ PaymentsTypeOK /\ AllKept(payments) /\ AllWellKept(payments)
      /\ worker.op = "voucher" =>
            /\ WholeRow(worker.row) /\ worker.row.origin = "PORTAL"
            /\ worker.row.state \in {"PENDING", "IMPUTED"}
      /\ \A c \in Clerks : SplitsWhole(payments, clerk[c])
  BY InvOfTable
<1>2. /\ payments \in Seq(Row) /\ registered \subseteq Invoices /\ inReview \subseteq registered
      /\ worker.op = "voucher" => worker.row \in Row
      /\ worker.op = "held" => worker.invoice \in Invoices
      /\ clerk \in [Clerks -> Request]
  BY <1>1 DEF PaymentsTypeOK
<1>3. ASSUME NEW v \in Vouchers, ReadVoucher(v) PROVE PaymentsInv'
  <2>1. PICK found \in InvoiceFor(v) :
           worker' = [op |-> "voucher", row |-> VoucherRow(v, found[1], found[2])]
    BY <1>3 DEF ReadVoucher
  <2>2. /\ worker'.op = "voucher" /\ worker'.row \in Row /\ WholeRow(worker'.row)
        /\ worker'.row.origin = "PORTAL" /\ worker'.row.state \in {"PENDING", "IMPUTED"}
    BY <1>2, <2>1, VoucherRowIsWhole
  <2>3. UNCHANGED <<payments, registered, inReview, clerk>>
    BY <1>3 DEF ReadVoucher
  <2>4. NoVoucherLost'
    BY <2>3 DEF PaymentsInv, NoVoucherLost, MoneyOf, PendingPayments, AmountPaid
  <2> QED
    BY <1>1, <1>2, <2>2, <2>3, <2>4 DEF PaymentsInv, PaymentsTypeOK, AllWellKept
<1>4. ASSUME Stays(payments, payments'), worker' = Idle, UNCHANGED <<registered, inReview, clerk>>
      PROVE  PaymentsInv'
  <2>1. PaymentsTypeOK'
    BY <1>2, <1>4 DEF PaymentsTypeOK, Stays, Idle
  <2>2. \A c \in Clerks : SplitsWhole(payments', clerk'[c])
    BY <1>1, <1>4, SplitsStay
  <2>3. AllKept(payments') /\ AllWellKept(payments')
    BY <1>4 DEF Stays
  <2>4. NoVoucherLost'
    <3>1. (NoVoucherLost <=> AllKept(payments))'
      BY KeptSaysIt, PTL
    <3> QED
      BY <2>3, <3>1
  <2> QED
    BY <1>4, <2>1, <2>2, <2>3, <2>4 DEF PaymentsInv, AllWellKept, Idle
<1>5. ASSUME ImputeVoucher PROVE PaymentsInv'
  <2>1. /\ payments' = Append(payments, worker.row) /\ worker.row \in Row
        /\ WholeRow(worker.row) /\ worker.row.origin = "PORTAL"
        /\ worker.row.state \in {"PENDING", "IMPUTED"}
    BY <1>1, <1>2, <1>5 DEF ImputeVoucher
  <2>2. AllKept(payments') /\ AllWellKept(payments')
    BY <1>1, <1>2, <2>1, AppendedIsKept DEF WellKept
  <2>3. Stays(payments, payments')
    BY <1>2, <2>1, <2>2, OneRowMore DEF Stays
  <2> QED
    BY <1>4, <1>5, <2>3 DEF ImputeVoucher
<1>6. ASSUME NEW i \in Invoices, RegisterInvoice(i) PROVE PaymentsInv'
  <2>1. /\ registered' = registered \cup {i} /\ inReview' \subseteq registered'
        /\ \/ worker' = Idle
           \/ worker'.op = "held" /\ worker'.invoice = i
        /\ UNCHANGED <<payments, clerk>>
    BY <1>2, <1>6 DEF RegisterInvoice
  <2>2. NoVoucherLost'
    BY <2>1 DEF PaymentsInv, NoVoucherLost, MoneyOf, PendingPayments, AmountPaid
  <2>3. PaymentsTypeOK' /\ worker'.op # "voucher"
    BY <1>2, <2>1 DEF PaymentsTypeOK, Idle
  <2> QED
    BY <1>1, <2>1, <2>2, <2>3 DEF PaymentsInv, AllWellKept
<1>7. ASSUME ImputeHeldPaymentsFor PROVE PaymentsInv'
  <2>1. worker.invoice \in Invoices /\ payments' = HeldImputed(payments, worker.rows, worker.invoice)
    BY <1>2, <1>7 DEF ImputeHeldPaymentsFor, HeldImputed, ImputedRow
  <2>2. Stays(payments, payments')
    BY <1>1, <1>2, <2>1, HeldImputedRows, HeldImputedIsKept DEF Stays
  <2> QED
    BY <1>4, <1>7, <2>2 DEF ImputeHeldPaymentsFor
<1> QED
  BY <1>3, <1>5, <1>6, <1>7 DEF Reading

\* What the people on the screens do to it.
LEMMA ScreensStay ==
  ASSUME PaymentsInv, NEW c \in Clerks, Screen(c)
  PROVE  PaymentsInv'
<1>1. /\ PaymentsTypeOK /\ AllKept(payments) /\ AllWellKept(payments)
      /\ worker.op = "voucher" =>
            /\ WholeRow(worker.row) /\ worker.row.origin = "PORTAL"
            /\ worker.row.state \in {"PENDING", "IMPUTED"}
      /\ \A d \in Clerks : SplitsWhole(payments, clerk[d])
  BY InvOfTable
<1>2. /\ payments \in Seq(Row) /\ registered \subseteq Invoices /\ inReview \subseteq registered
      /\ worker.op = "voucher" => worker.row \in Row
      /\ worker.op = "held" => worker.invoice \in Invoices
      /\ clerk \in [Clerks -> Request]
  BY <1>1 DEF PaymentsTypeOK
<1>3. ASSUME NEW request \in Request, clerk' = [clerk EXCEPT ![c] = request],
             SplitsWhole(payments, request), UNCHANGED <<payments, registered, inReview, worker>>
      PROVE  PaymentsInv'
  <2>1. clerk' \in [Clerks -> Request]
    BY <1>2, <1>3
  <2>2. \A d \in Clerks : SplitsWhole(payments, clerk'[d])
    BY <1>1, <1>2, <1>3
  <2>3. NoVoucherLost'
    BY <1>3 DEF PaymentsInv, NoVoucherLost, MoneyOf, PendingPayments, AmountPaid
  <2>4. PaymentsTypeOK'
    BY <1>2, <1>3, <2>1 DEF PaymentsTypeOK
  <2> QED
    BY <1>1, <1>3, <2>2, <2>3, <2>4 DEF PaymentsInv, AllWellKept
<1>4. ASSUME Stays(payments, payments'), clerk' = [clerk EXCEPT ![c] = Idle],
             UNCHANGED <<registered, inReview, worker>>
      PROVE  PaymentsInv'
  <2>1. clerk' \in [Clerks -> Request] /\ Idle.op # "split"
    BY <1>2, <1>4 DEF Request, Idle
  <2>2. \A d \in Clerks : SplitsWhole(payments', clerk[d])
    BY <1>1, <1>4, SplitsStay
  <2>3. \A d \in Clerks : SplitsWhole(payments', clerk'[d])
    BY <1>2, <1>4, <2>1, <2>2 DEF SplitsWhole
  <2>4. AllKept(payments') /\ AllWellKept(payments')
    BY <1>4 DEF Stays
  <2>5. NoVoucherLost'
    <3>1. (NoVoucherLost <=> AllKept(payments))'
      BY KeptSaysIt, PTL
    <3> QED
      BY <2>4, <3>1
  <2>6. PaymentsTypeOK'
    BY <1>2, <1>4, <2>1 DEF PaymentsTypeOK, Stays
  <2> QED
    BY <1>1, <1>4, <2>3, <2>4, <2>5, <2>6 DEF PaymentsInv, AllWellKept
<1>5. ASSUME NEW i \in Invoices, NEW amount \in Amounts, NEW confirm \in BOOLEAN,
             TakePayment(c, i, amount, confirm)
      PROVE  PaymentsInv'
  <2> DEFINE request == [op |-> "pay", invoice |-> i, amount |-> amount]
  <2>1. request \in Request /\ SplitsWhole(payments, request)
    BY DEF Request, SplitsWhole
  <2> QED
    BY <1>3, <1>5, <2>1 DEF TakePayment
<1>6. ASSUME RegisterPayment(c) PROVE PaymentsInv'
  <2>1. clerk[c] \in Request /\ clerk[c].op = "pay"
    BY <1>2, <1>6 DEF RegisterPayment
  <2>2. clerk[c].invoice \in Invoices /\ clerk[c].amount \in Nat
    <3>1. clerk[c] \in [op : {"pay"}, invoice : Invoices, amount : Amounts]
      BY <2>1 DEF Request, Idle
    <3> QED
      BY <3>1, PaymentsAssumption
  <2> DEFINE row == PaymentRow(clerk[c].invoice, clerk[c].amount, "MANUAL", "IMPUTED",
                               Nothing, Nothing, FALSE)
  <2>3. row \in Row /\ row.voucher = Nothing /\ WellKept(row)
    BY <2>2 DEF PaymentRow, Row, Reasons, WellKept
  <2>4. payments' = Append(payments, row)
    BY <1>6 DEF RegisterPayment
  <2> HIDE DEF row
  <2>5. AllKept(payments') /\ AllWellKept(payments')
    BY <1>1, <1>2, <2>3, <2>4, AppendedIsKept
  <2>6. Stays(payments, payments')
    BY <1>2, <2>3, <2>4, <2>5, OneRowMore DEF Stays
  <2> QED
    BY <1>4, <1>6, <2>6 DEF RegisterPayment
<1>7. ASSUME NEW k \in DOMAIN payments, NEW S \in (SUBSET registered) \ {{}},
             NEW parts \in [S -> Amounts], TakeVoucher(c, k, parts)
      PROVE  PaymentsInv'
  <2> DEFINE request == [op |-> "split", payment |-> k, parts |-> parts]
  <2>1. parts \in Parts /\ k \in Nat
    BY <1>2, TableOf DEF Parts
  <2>2. request \in Request
    BY <2>1 DEF Request
  <2>3. payments[k].state = "PENDING" /\ SumFunction(parts) = payments[k].amount
    BY <1>7 DEF TakeVoucher, PendingPayments
  <2>4. /\ payments[k].voucher \in Vouchers /\ payments[k].amount = payments[k].voucher.amount
        /\ payments[k].origin = "PORTAL"
    <3>1. payments[k] \in Row
      BY <1>2, TableOf
    <3>2. payments[k].voucher \in Vouchers /\ payments[k].amount = payments[k].voucher.amount
      BY <1>1, <2>3 DEF AllWellKept, WellKept, WholeRow
    <3>3. payments[k].origin # "MANUAL"
      BY <1>1, <3>2, PaymentsAssumption DEF AllWellKept, WellKept
    <3> QED
      BY <3>1, <3>2, <3>3 DEF Row
  <2>5. SplitsWhole(payments, request)
    BY <2>3, <2>4 DEF SplitsWhole
  <2>6. clerk' = [clerk EXCEPT ![c] = request] /\ UNCHANGED <<payments, registered, inReview, worker>>
    BY <1>7 DEF TakeVoucher
  <2> HIDE DEF request
  <2> QED
    BY <1>3, <2>2, <2>5, <2>6
<1>8. ASSUME SplitPayment(c) PROVE PaymentsInv'
  <2> DEFINE k == clerk[c].payment
             parts == clerk[c].parts
  <2>1. clerk[c] \in Request /\ clerk[c].op = "split"
    BY <1>2, <1>8 DEF SplitPayment
  <2>2. parts \in Parts
    BY <2>1 DEF Request, Idle
  <2>3. /\ k \in DOMAIN payments /\ payments[k].voucher \in Vouchers
        /\ payments[k].origin = "PORTAL" /\ SumFunction(parts) = payments[k].voucher.amount
    BY <1>1, <2>1 DEF SplitsWhole
  <2>4. payments' = Distributed(payments, k, parts)
    <3>1. Cardinality(DOMAIN parts) \in Nat /\ DOMAIN OrderOf(DOMAIN parts) = 1..Cardinality(DOMAIN parts)
      BY <2>2, PartsAreTyped, OrderNamesEach
    <3>2. payments' = [payments EXCEPT ![k].state = "VOIDED", ![k].reason = Nothing]
                        \o [j \in DOMAIN OrderOf(DOMAIN parts) |->
                               Part(k, OrderOf(DOMAIN parts)[j], parts[OrderOf(DOMAIN parts)[j]])]
      BY <1>8 DEF SplitPayment, OrderOf
    <3> HIDE DEF k, parts
    <3> QED
      BY <3>1, <3>2 DEF Distributed, PartRows, Part
  <2> HIDE DEF k, parts
  <2>5. Stays(payments, payments')
    BY <1>1, <1>2, <2>2, <2>3, <2>4, DistributedIsAllKept DEF Stays
  <2> QED
    BY <1>4, <1>8, <2>5 DEF SplitPayment
<1> QED
  BY <1>5, <1>6, <1>7, <1>8 DEF Screen

LEMMA VoidsStay ==
  ASSUME PaymentsInv, NEW k \in DOMAIN payments, VoidPayment(k)
  PROVE  PaymentsInv'
<1>1. /\ PaymentsTypeOK /\ AllKept(payments) /\ AllWellKept(payments)
      /\ worker.op = "voucher" =>
            /\ WholeRow(worker.row) /\ worker.row.origin = "PORTAL"
            /\ worker.row.state \in {"PENDING", "IMPUTED"}
      /\ \A c \in Clerks : SplitsWhole(payments, clerk[c])
  BY InvOfTable
<1>2. payments \in Seq(Row)
  BY <1>1 DEF PaymentsTypeOK
<1>3. payments' = Voided(payments, k) /\ payments[k].origin # "PORTAL"
      /\ UNCHANGED <<registered, inReview, worker, clerk>>
  BY DEF VoidPayment, Voided
<1>4. Stays(payments, payments')
  BY <1>1, <1>2, <1>3, VoidedIsKept DEF Stays
<1>5. \A c \in Clerks : SplitsWhole(payments', clerk'[c])
  BY <1>1, <1>3, <1>4, SplitsStay
<1>6. NoVoucherLost'
  <2>1. (NoVoucherLost <=> AllKept(payments))'
    BY KeptSaysIt, PTL
  <2> QED
    BY <1>4, <2>1 DEF Stays
<1> QED
  BY <1>1, <1>3, <1>4, <1>5, <1>6 DEF PaymentsInv, PaymentsTypeOK, Stays, AllWellKept

LEMMA ReviewsStay ==
  ASSUME PaymentsInv, inReview' \subseteq registered', UNCHANGED <<payments, registered, worker, clerk>>
  PROVE  PaymentsInv'
<1>1. NoVoucherLost'
  BY DEF PaymentsInv, NoVoucherLost, MoneyOf, PendingPayments, AmountPaid
<1> QED
  BY <1>1 DEF PaymentsInv, PaymentsTypeOK

LEMMA PaymentsInvStays ==
  ASSUME PaymentsInv, [PaymentsNext]_paymentVars
  PROVE  PaymentsInv'
<1>1. inReview \subseteq registered
  BY DEF PaymentsInv, PaymentsTypeOK
<1>2. ASSUME NEW i \in Invoices, HoldInvoice(i) \/ SettleInvoice(i) PROVE PaymentsInv'
  BY <1>1, <1>2, ReviewsStay DEF HoldInvoice, SettleInvoice
<1>3. CASE UNCHANGED paymentVars
  BY <1>1, <1>3, ReviewsStay DEF paymentVars
<1> QED
  BY <1>2, <1>3, ReadingStays, ScreensStay, VoidsStay DEF PaymentsNext

THEOREM PaymentsAreKept == PaymentsSpec => []PaymentsInv
<1>1. PaymentsInit => PaymentsInv
  BY PaymentsInitInv
<1>2. PaymentsInv /\ [PaymentsNext]_paymentVars => PaymentsInv'
  BY PaymentsInvStays
<1> QED
  BY <1>1, <1>2, PTL DEF PaymentsSpec

THEOREM VouchersAreKept == PaymentsSpec => []NoVoucherLost
<1>1. PaymentsInv => NoVoucherLost
  BY DEF PaymentsInv
<1> QED
  BY <1>1, PaymentsAreKept, PTL

-------------------------------------------------------------------------------
(* What is owed. *)

LEMMA PaidIsTyped ==
  ASSUME PaymentsTypeOK, NEW i \in registered
  PROVE  /\ ImputedTotalOf(i) \in Nat /\ TotalOf[i] \in Int /\ BalanceOf(i) \in Int
         /\ i \in Invoices
<1>1. AmountPaid = AmountsIn(payments) /\ ImputedTo(i) \subseteq DOMAIN payments
  BY DEF AmountPaid, AmountsIn, ImputedTo
<1>2. payments \in Seq(Row) /\ i \in Invoices
  BY DEF PaymentsTypeOK
<1>3. ImputedTotalOf(i) \in Nat
  BY <1>1, <1>2, SumOfTable DEF ImputedTotalOf
<1>4. TotalOf[i] \in Int
  BY <1>2, PaymentsAssumption
<1> QED
  BY <1>2, <1>3, <1>4 DEF BalanceOf

LEMMA FilterShowsIt ==
  ASSUME PaymentsTypeOK
  PROVE  FilterShowsWhatTheRowSays
<1> SUFFICES ASSUME NEW i \in registered, NEW state \in PaymentStates
             PROVE  InPaymentState(TotalOf[i], ImputedTotalOf(i), state)
                      <=> state = PaymentStateOf(TotalOf[i], ImputedTotalOf(i))
  BY DEF FilterShowsWhatTheRowSays
<1> DEFINE total == TotalOf[i]
           paid == ImputedTotalOf(i)
<1>1. total \in Int /\ paid \in Int
  BY PaidIsTyped
<1> HIDE DEF total, paid
<1>2. InPaymentState(total, paid, state) <=> state = PaymentStateOf(total, paid)
  <2>1. CASE state = "INCONSISTENTE"
    BY <1>1, <2>1 DEF InPaymentState, PaymentStateOf
  <2>2. CASE state = "SIN_PAGOS"
    BY <1>1, <2>2 DEF InPaymentState, PaymentStateOf
  <2>3. CASE state = "SALDADA"
    BY <1>1, <2>3 DEF InPaymentState, PaymentStateOf
  <2>4. CASE state = "PARCIAL"
    BY <1>1, <2>4 DEF InPaymentState, PaymentStateOf
  <2> QED
    BY <2>1, <2>2, <2>3, <2>4 DEF PaymentStates
<1> QED
  BY <1>2 DEF total, paid

Balances == [i \in registered |-> BalanceOf(i)]

LEMMA CountedAre ==
  ASSUME PaymentsTypeOK
  PROVE  /\ IsFiniteSet(registered) /\ HasInts(Balances, VouchedFor)
         /\ VouchedFor \subseteq registered
         /\ \A i \in VouchedFor : Balances[i] = BalanceOf(i) /\ Balances[i] \in Nat
         /\ \A s : Counted(s) = {i \in VouchedFor : SupplierOf[i] = s}
<1>1. registered \subseteq Invoices /\ IsFiniteSet(registered) /\ VouchedFor \subseteq registered
  BY FS_Subset, PaymentsAssumption DEF PaymentsTypeOK, VouchedFor
<1>2. \A i \in registered : /\ ImputedTotalOf(i) \in Nat /\ TotalOf[i] \in Int
                            /\ BalanceOf(i) = TotalOf[i] - ImputedTotalOf(i)
  BY PaidIsTyped DEF BalanceOf
<1>3. \A i \in VouchedFor : Balances[i] = BalanceOf(i) /\ Balances[i] \in Nat
  BY <1>1, <1>2 DEF Balances, VouchedFor
<1>4. IsFiniteSet(VouchedFor)
  BY <1>1, FS_Subset
<1>5. \A i \in registered : PaymentStateOf(TotalOf[i], ImputedTotalOf(i)) # "INCONSISTENTE"
                               <=> ImputedTotalOf(i) <= TotalOf[i]
  BY <1>2 DEF PaymentStateOf
<1>6. \A s : Counted(s) = {i \in VouchedFor : SupplierOf[i] = s}
  BY <1>5 DEF Counted, VouchedFor
<1> QED
  BY <1>1, <1>3, <1>4, <1>6 DEF HasInts

\* What the screen adds up for a supplier is the balance of what is counted.
LEMMA SupplierOwedIs ==
  ASSUME PaymentsTypeOK, NEW s
  PROVE  SupplierOwed(s) = SumFunctionOnSet(Balances, Counted(s))
<1> DEFINE S == Counted(s)
           paid == [i \in S |-> ImputedTotalOf(i)]
<1>1. S \subseteq registered /\ IsFiniteSet(S)
  BY CountedAre, FS_Subset DEF Counted
<1>2. \A i \in S : /\ Balances[i] \in Int /\ paid[i] \in Int
                   /\ TotalOf[i] = Balances[i] + paid[i]
  BY <1>1, PaidIsTyped DEF Balances, BalanceOf
<1>3. DOMAIN paid = S
  OBVIOUS
<1>4. SupplierOwed(s) = SumFunctionOnSet(TotalOf, S) - SumFunctionOnSet(paid, S)
  BY <1>3 DEF SupplierOwed, SumFunction
<1> HIDE DEF S, paid
<1>5. HasInts(Balances, S) /\ HasInts(paid, S)
  BY <1>1, <1>2 DEF HasInts
<1>6. SumFunctionOnSet(TotalOf, S) = SumFunctionOnSet(Balances, S) + SumFunctionOnSet(paid, S)
  BY <1>2, <1>5, SumPlus
<1>7. SumFunctionOnSet(Balances, S) \in Int /\ SumFunctionOnSet(paid, S) \in Int
  BY <1>5, SumInt
<1>8. SumFunctionOnSet(TotalOf, S) - SumFunctionOnSet(paid, S) = SumFunctionOnSet(Balances, S)
  BY <1>6, <1>7
<1> QED
  BY <1>4, <1>8 DEF S

LEMMA OwedIs ==
  ASSUME PaymentsTypeOK
  PROVE  Owed = SumFunctionOnSet(Balances, VouchedFor)
<1> DEFINE f == [i \in Outstanding |-> BalanceOf(i)]
<1>1. /\ HasInts(Balances, VouchedFor)
      /\ \A i \in VouchedFor : Balances[i] = BalanceOf(i) /\ Balances[i] \in Nat
  BY CountedAre
<1>2. /\ Outstanding \subseteq VouchedFor /\ \A i \in Outstanding : Balances[i] = f[i]
      /\ \A i \in VouchedFor \ Outstanding : Balances[i] = 0
  BY <1>1 DEF Outstanding
<1>3. Owed = SumFunctionOnSet(f, Outstanding)
  <2>1. DOMAIN f = Outstanding
    OBVIOUS
  <2> QED
    BY <2>1 DEF Owed, SumFunction
<1> HIDE DEF f
<1>4. SumFunctionOnSet(Balances, Outstanding) = SumFunctionOnSet(f, Outstanding)
  <2>1. HasInts(Balances, Outstanding)
    BY <1>1, <1>2, SumOfPart
  <2> QED
    BY <1>2, <2>1, SumEqual
<1>5. SumFunctionOnSet(Balances, Outstanding) = SumFunctionOnSet(Balances, VouchedFor)
  BY <1>1, <1>2, SumSkipsZeros
<1> QED
  BY <1>3, <1>4, <1>5

SuppliersThere == {SupplierOf[i] : i \in Invoices}

LEMMA SuppliersAreFinite == IsFiniteSet(SuppliersThere)
<1> DEFINE f == [i \in Invoices |-> SupplierOf[i]]
<1>1. f \in Surjection(Invoices, SuppliersThere)
  BY DEF SuppliersThere, Surjection
<1>2. IsFiniteSet(Invoices)
  BY PaymentsAssumption
<1> HIDE DEF f
<1> QED
  BY <1>1, <1>2, FS_Surjection

LEMMA OwedBySupplier ==
  ASSUME PaymentsTypeOK
  PROVE  Owed = SumFunction([s \in SuppliersThere |-> SupplierOwed(s)])
<1> DEFINE g == [s \in SuppliersThere |-> SupplierOwed(s)]
           V == VouchedFor
<1>1. /\ HasInts(Balances, V) /\ V \subseteq Invoices
      /\ \A s : Counted(s) = {i \in V : SupplierOf[i] = s}
  BY CountedAre DEF PaymentsTypeOK
<1>2. \A i \in V : SupplierOf[i] \in SuppliersThere
  BY <1>1 DEF SuppliersThere
<1>3. \A s \in SuppliersThere : g[s] = SumFunctionOnSet(Balances, {i \in V : SupplierOf[i] = s})
  BY <1>1, SupplierOwedIs
<1>4. DOMAIN g = SuppliersThere
  OBVIOUS
<1> HIDE DEF g, V
<1>5. SumFunctionOnSet(g, SuppliersThere) = SumFunctionOnSet(Balances, V)
  BY <1>1, <1>2, <1>3, SuppliersAreFinite, SumByClass
<1>6. Owed = SumFunctionOnSet(g, DOMAIN g)
  BY <1>4, <1>5, OwedIs DEF V
<1> QED
  BY <1>6 DEF SumFunction, g

LEMMA BandsAre ==
  ASSUME NEW days \in Int
  PROVE  BandOf(days) \in 1..Len(Bands) + 1
<1> DEFINE fits == {b \in DOMAIN Bands : days <= Bands[b]}
<1>1. Len(Bands) = 4 /\ DOMAIN Bands = 1..4
  BY DEF Bands
<1>2. CASE fits = {}
  BY <1>1, <1>2 DEF BandOf
<1>3. CASE fits # {}
  <2>1. fits \subseteq Nat
    BY <1>1
  <2>2. \E b \in fits : \A o \in fits : b <= o
    <3> HIDE DEF fits
    <3> QED
      BY <1>3, <2>1, FirstOf
  <2>3. BandOf(days) = CHOOSE b \in fits : \A o \in fits : b <= o
    BY <1>3 DEF BandOf
  <2>4. BandOf(days) \in fits
    BY <2>2, <2>3
  <2> QED
    BY <1>1, <2>4
<1> QED
  BY <1>2, <1>3

AgedSum(s, b) == SumFunction([i \in Aged(s, b) |-> BalanceOf(i)])

LEMMA AgeingAddsUp ==
  ASSUME PaymentsTypeOK, NEW s
  PROVE  SupplierOwed(s) = SumFunction([b \in 1..Len(Bands) + 1 |-> AgedSum(s, b)])
<1> DEFINE B == 1..Len(Bands) + 1
           g == [b \in B |-> AgedSum(s, b)]
           S == Counted(s)
           P == {i \in S : BalanceOf(i) > 0}
           band == [i \in Invoices |-> BandOf(DaysOverdue[i])]
<1>1. /\ S \subseteq VouchedFor /\ S \subseteq registered /\ S \subseteq Invoices
      /\ HasInts(Balances, S)
      /\ \A i \in S : Balances[i] = BalanceOf(i) /\ Balances[i] \in Nat
  <2>1. S \subseteq VouchedFor /\ S \subseteq registered /\ S \subseteq Invoices
    BY CountedAre DEF PaymentsTypeOK
  <2> HIDE DEF S
  <2> QED
    BY <2>1, CountedAre, SumOfPart
<1>2. P \subseteq S /\ \A i \in S \ P : Balances[i] = 0
  BY <1>1
<1>3. HasInts(Balances, P)
  <2> HIDE DEF P, S
  <2> QED
    BY <1>1, <1>2, SumOfPart
<1>4. IsFiniteSet(B) /\ B \subseteq Int
  <2> DEFINE last == Len(Bands) + 1
  <2>1. last \in Int
    BY DEF Bands
  <2> HIDE DEF last
  <2>2. IsFiniteSet(1..last) /\ 1..last \subseteq Int
    BY <2>1, FS_Interval
  <2> QED
    BY <2>2 DEF last
<1>5. \A i \in P : band[i] \in B
  <2> TAKE i \in P
  <2>1. i \in Invoices /\ DaysOverdue[i] \in Int
    BY <1>1, PaymentsAssumption
  <2> QED
    BY <2>1, BandsAre
<1>6. ASSUME NEW b \in B
      PROVE  g[b] = SumFunctionOnSet(Balances, {i \in P : band[i] = b})
  <2> DEFINE A == Aged(s, b)
             f == [i \in A |-> BalanceOf(i)]
  <2>1. A = {i \in P : band[i] = b}
    BY <1>1 DEF Aged
  <2>2. A \subseteq P /\ \A i \in A : Balances[i] = f[i]
    BY <1>1, <2>1
  <2>3. g[b] = SumFunctionOnSet(f, A)
    <3>1. DOMAIN f = A
      OBVIOUS
    <3> QED
      BY <3>1 DEF AgedSum, SumFunction
  <2> HIDE DEF A, f, P, g
  <2>4. HasInts(Balances, A)
    BY <1>3, <2>2, SumOfPart
  <2>5. SumFunctionOnSet(Balances, A) = SumFunctionOnSet(f, A)
    BY <2>2, <2>4, SumEqual
  <2> QED
    BY <2>1, <2>3, <2>5
<1>7. DOMAIN g = B
  OBVIOUS
<1> HIDE DEF B, g, S, P, band
<1>8. SumFunctionOnSet(g, B) = SumFunctionOnSet(Balances, P)
  <2>1. \A b \in B : g[b] = SumFunctionOnSet(Balances, {i \in P : band[i] = b})
    BY <1>6
  <2> QED
    <3>1. IsFiniteSet(B)
      BY <1>4
    <3> QED
      BY <1>3, <3>1, <1>5, <2>1, SumByClass
<1>9. SumFunctionOnSet(Balances, P) = SumFunctionOnSet(Balances, S)
  BY <1>1, <1>2, SumSkipsZeros
<1>10. SupplierOwed(s) = SumFunctionOnSet(Balances, S)
  BY SupplierOwedIs DEF S
<1>11. SupplierOwed(s) = SumFunction(g)
  BY <1>7, <1>8, <1>9, <1>10 DEF SumFunction
<1> QED
  BY <1>11 DEF g, B

LEMMA CountsAddUp ==
  ASSUME PaymentsTypeOK
  PROVE  Cardinality(registered) = Cardinality(VouchedFor) + Cardinality(UncountedInReview)
                                     + Cardinality(UncountedInconsistent)
<1> DEFINE V == VouchedFor
           R == UncountedInReview
           I == UncountedInconsistent
<1>1. \A i \in registered : ImputedTotalOf(i) \in Int /\ TotalOf[i] \in Int
  BY PaidIsTyped
<1>2. /\ registered = (V \cup R) \cup I /\ V \cap R = {} /\ (V \cup R) \cap I = {}
      /\ V \subseteq registered /\ R \subseteq registered /\ I \subseteq registered
  BY <1>1 DEF VouchedFor, UncountedInReview, UncountedInconsistent, PaymentsTypeOK
<1> HIDE DEF V, R, I
<1>3. IsFiniteSet(V) /\ IsFiniteSet(R) /\ IsFiniteSet(I) /\ IsFiniteSet(V \cup R)
  BY <1>2, CountedAre, FS_Subset
<1>4. /\ Cardinality(V) \in Nat /\ Cardinality(R) \in Nat /\ Cardinality(I) \in Nat
      /\ Cardinality({}) = 0
  BY <1>3, FS_CardinalityType, FS_EmptySet
<1>5. Cardinality(V \cup R) = Cardinality(V) + Cardinality(R) - Cardinality(V \cap R)
  BY <1>3, FS_Union
<1>6. Cardinality((V \cup R) \cup I) = Cardinality(V \cup R) + Cardinality(I)
                                        - Cardinality((V \cup R) \cap I)
  BY <1>3, FS_Union
<1>7. Cardinality(V \cup R) = Cardinality(V) + Cardinality(R)
  <2>1. Cardinality(V \cap R) = 0
    BY <1>2, <1>4
  <2> QED
    BY <1>4, <1>5, <2>1
<1>8. Cardinality(registered) = Cardinality(V \cup R) + Cardinality(I) - 0
  BY <1>2, <1>4, <1>6
<1>9. Cardinality(registered) = Cardinality(V) + Cardinality(R) + Cardinality(I)
  BY <1>4, <1>7, <1>8
<1> QED
  BY <1>9 DEF V, R, I

THEOREM FilterAgrees == PaymentsSpec => []FilterShowsWhatTheRowSays
<1>1. PaymentsInv => FilterShowsWhatTheRowSays
  BY FilterShowsIt DEF PaymentsInv
<1> QED
  BY <1>1, PaymentsAreKept, PTL

THEOREM DebtsAddUp == PaymentsSpec => []DebtAddsUp
<1>1. PaymentsInv => DebtAddsUp
  BY OwedBySupplier, AgeingAddsUp, CountsAddUp
     DEF PaymentsInv, DebtAddsUp, SuppliersThere, AgedSum
<1> QED
  BY <1>1, PaymentsAreKept, PTL

-------------------------------------------------------------------------------
(* Rubros.                                                                    *)

(* The rubros. *)

Product == [active : BOOLEAN, rubro : Nat, form : BOOLEAN, byHand : BOOLEAN, byForm : BOOLEAN,
            fromRule : BOOLEAN]
Line == [code : Codes \cup {NoCode}, amount : Worth \cup {NoWorth}, moved : BOOLEAN]

\* What a product may be of: a rubro of the list, or none.
Homes == Listed \cup {0}
Homed(product) == product \in Product /\ product.rubro \in Homes

RubrosTypeOK ==
    /\ rubros \in Seq(RubroNames \cup {Deleted})
    /\ catalog \in [Codes -> Product \cup {NoProduct}]
    /\ equivalence \in Homes
    /\ printed \in [Bought -> Line \cup {NotPrinted}]
    /\ typed \in Nat

\* A table of amounts.
IsTable(table) == IsFiniteSet(DOMAIN table) /\ \A id \in DOMAIN table : table[id].amount \in Nat

RubrosInv ==
    /\ RubrosTypeOK
    /\ \A c \in KnownProducts : Homed(catalog[c])
    /\ IsTable(spend)
    /\ IsTable(revenue)

LEMMA HomesAreFinite ==
  ASSUME RubrosTypeOK
  PROVE  /\ Len(rubros) \in Nat /\ DOMAIN rubros = 1 .. Len(rubros)
         /\ rubros \in [1 .. Len(rubros) -> RubroNames \cup {Deleted}]
         /\ Homes \subseteq Nat /\ IsFiniteSet(Homes)
<1>1. /\ Len(rubros) \in Nat /\ DOMAIN rubros = 1 .. Len(rubros)
      /\ rubros \in [1 .. Len(rubros) -> RubroNames \cup {Deleted}]
  BY LenProperties DEF RubrosTypeOK
<1>2. IsFiniteSet(1 .. Len(rubros))
  BY <1>1, FS_Interval
<1>3. Listed \subseteq 1 .. Len(rubros)
  BY <1>1 DEF Listed
<1>4. IsFiniteSet(Listed)
  BY <1>2, <1>3, FS_Subset
<1>5. IsFiniteSet(Listed \cup {0})
  BY <1>4, FS_AddElement
<1> QED
  BY <1>1, <1>3, <1>5 DEF Homes

LEMMA TablesAddUp ==
  ASSUME RubrosTypeOK, \A c \in KnownProducts : Homed(catalog[c]), NEW table, IsTable(table)
  PROVE  Shown(table) = AddedUp(table)
<1> DEFINE f == AmountsOf(table)
           D == DOMAIN table
           g == [r \in Homes |-> CutOf(table, r)]
           home == [id \in D |-> RubroOf(table[id])]
<1>1. HasInts(f, D)
  BY DEF IsTable, HasInts, AmountsOf
<1>2. \A id \in D : home[id] \in Homes
  BY DEF RubroOf, Homed, Homes
<1>3. ASSUME NEW r \in Homes PROVE g[r] = SumFunctionOnSet(f, {id \in D : home[id] = r})
  <2>1. {id \in D : RubroOf(table[id]) = r} = {id \in D : home[id] = r}
    OBVIOUS
  <2> QED
    BY <2>1 DEF CutOf
<1>4. Shown(table) = SumFunctionOnSet(g, Homes)
  <2>1. DOMAIN g = Homes
    OBVIOUS
  <2> QED
    BY <2>1 DEF Shown, SumFunction, Homes
<1>5. AddedUp(table) = SumFunctionOnSet(f, D)
  BY DEF AddedUp, SumFunction, AmountsOf
<1> HIDE DEF f, D, g, home
<1>6. SumFunctionOnSet(g, Homes) = SumFunctionOnSet(f, D)
  <2>1. \A r \in Homes : g[r] = SumFunctionOnSet(f, {id \in D : home[id] = r})
    BY <1>3
  <2>2. IsFiniteSet(Homes)
    BY HomesAreFinite
  <2> QED
    BY <1>1, <1>2, <2>1, <2>2, SumByClass
<1> QED
  BY <1>4, <1>5, <1>6

LEMMA CutsFollow ==
  ASSUME RubrosInv
  PROVE  CutsAddUp
<1>1. Shown(spend) = AddedUp(spend) /\ Shown(revenue) = AddedUp(revenue)
  BY TablesAddUp DEF RubrosInv
<1>2. UNION {ActiveIn(r) : r \in Listed \cup {0}} = {c \in KnownProducts : catalog[c].active}
  BY DEF ActiveIn, RubrosInv, Homed, Homes
<1> QED
  BY <1>1, <1>2 DEF CutsAddUp

-------------------------------------------------------------------------------
(* What people sort. *)

\* A catalog whose products all are of rubros that are listed.
LEMMA CatalogStays ==
  ASSUME RubrosInv, UNCHANGED amountVars,
         rubros' \in Seq(RubroNames \cup {Deleted}),
         catalog' \in [Codes -> Product \cup {NoProduct}],
         equivalence' \in Homes',
         \A c \in Codes : catalog'[c] # NoProduct => catalog'[c].rubro \in Homes'
  PROVE  RubrosInv'
<1>1. \A c \in KnownProducts' : catalog'[c] \in Product /\ catalog'[c].rubro \in Homes'
  BY DEF KnownProducts
<1> QED
  BY <1>1 DEF RubrosInv, RubrosTypeOK, amountVars, Homed, IsTable

LEMMA CreateStays ==
  ASSUME RubrosInv, NEW name \in RubroNames, CreateCategory(name)
  PROVE  RubrosInv'
<1>1. /\ RubrosTypeOK /\ \A c \in KnownProducts : Homed(catalog[c])
  BY DEF RubrosInv
<1>2. /\ Len(rubros) \in Nat /\ DOMAIN rubros = 1 .. Len(rubros)
      /\ rubros \in Seq(RubroNames \cup {Deleted})
  BY <1>1, HomesAreFinite DEF RubrosTypeOK
<1>3. rubros' = Append(rubros, name) /\ UNCHANGED <<catalog, equivalence, amountVars>>
  BY DEF CreateCategory
<1>4. /\ rubros' \in Seq(RubroNames \cup {Deleted}) /\ DOMAIN rubros \subseteq DOMAIN rubros'
      /\ \A r \in DOMAIN rubros : rubros'[r] = rubros[r]
  <2>1. rubros' \in Seq(RubroNames \cup {Deleted}) /\ Len(rubros') = Len(rubros) + 1
    BY <1>2, <1>3
  <2>2. DOMAIN rubros' = 1 .. Len(rubros) + 1
    BY <2>1, LenProperties
  <2> QED
    BY <1>2, <1>3, <2>1, <2>2
<1>5. Homes \subseteq Homes'
  BY <1>4 DEF Homes, Listed
<1> QED
  BY <1>1, <1>3, <1>4, <1>5, CatalogStays DEF RubrosTypeOK, KnownProducts, Homed

LEMMA RenameStays ==
  ASSUME RubrosInv, NEW name \in RubroNames, NEW r \in DOMAIN rubros, RenameCategory(r, name)
  PROVE  RubrosInv'
<1>1. /\ RubrosTypeOK /\ \A c \in KnownProducts : Homed(catalog[c])
  BY DEF RubrosInv
<1>2. /\ Len(rubros) \in Nat /\ DOMAIN rubros = 1 .. Len(rubros)
      /\ rubros \in [1 .. Len(rubros) -> RubroNames \cup {Deleted}]
      /\ rubros \in Seq(RubroNames \cup {Deleted})
  BY <1>1, HomesAreFinite DEF RubrosTypeOK
<1>3. rubros' = [rubros EXCEPT ![r] = name] /\ UNCHANGED <<catalog, equivalence, amountVars>>
  BY DEF RenameCategory
<1>4. rubros' \in Seq(RubroNames \cup {Deleted}) /\ DOMAIN rubros = DOMAIN rubros'
  BY <1>2, <1>3, ExceptSeq
<1>5. \A k \in DOMAIN rubros : rubros'[k] = IF k = r THEN name ELSE rubros[k]
  BY <1>2, <1>3
<1>6. Homes \subseteq Homes'
  BY <1>4, <1>5, DeletedAssumption DEF Homes, Listed
<1> QED
  BY <1>1, <1>3, <1>4, <1>6, CatalogStays DEF RubrosTypeOK, KnownProducts, Homed

\* No product and no form is of the rubro that goes.
LEMMA DeleteStays ==
  ASSUME RubrosInv, NEW r \in DOMAIN rubros, DeleteCategory(r)
  PROVE  RubrosInv'
<1>1. /\ RubrosTypeOK /\ \A c \in KnownProducts : Homed(catalog[c])
  BY DEF RubrosInv
<1>2. /\ Len(rubros) \in Nat /\ DOMAIN rubros = 1 .. Len(rubros)
      /\ rubros \in [1 .. Len(rubros) -> RubroNames \cup {Deleted}]
      /\ rubros \in Seq(RubroNames \cup {Deleted})
  BY <1>1, HomesAreFinite DEF RubrosTypeOK
<1>3. /\ rubros' = [rubros EXCEPT ![r] = Deleted] /\ UNCHANGED <<catalog, equivalence, amountVars>>
      /\ equivalence # r /\ PointingAt(r) = {}
  BY DEF DeleteCategory
<1>4. rubros' \in Seq(RubroNames \cup {Deleted}) /\ DOMAIN rubros = DOMAIN rubros'
  BY <1>2, <1>3, ExceptSeq
<1>5. \A k \in DOMAIN rubros : k # r => rubros'[k] = rubros[k]
  BY <1>2, <1>3
<1>6. \A k \in Homes : k # r => k \in Homes'
  BY <1>4, <1>5 DEF Homes, Listed
<1>7. \A c \in Codes : catalog'[c] # NoProduct => catalog'[c].rubro \in Homes /\ catalog'[c].rubro # r
  BY <1>1, <1>3 DEF PointingAt, KnownProducts, Homed
<1> QED
  BY <1>1, <1>3, <1>4, <1>6, <1>7, CatalogStays DEF RubrosTypeOK

\* The rest leaves the list of rubros as it is.
LEMMA SortedStays ==
  ASSUME RubrosInv, UNCHANGED <<rubros, amountVars>>,
         catalog' \in [Codes -> Product \cup {NoProduct}],
         equivalence' \in Homes,
         \A c \in Codes : catalog'[c] # NoProduct => catalog'[c].rubro \in Homes
  PROVE  RubrosInv'
<1>1. Homes' = Homes /\ rubros' \in Seq(RubroNames \cup {Deleted})
  BY DEF Homes, Listed, RubrosInv, RubrosTypeOK
<1> QED
  BY <1>1, CatalogStays

\* One product is written.
LEMMA ProductStays ==
  ASSUME RubrosInv, UNCHANGED <<rubros, equivalence, amountVars>>, NEW code \in Codes, NEW product,
         product = NoProduct \/ Homed(product), catalog' = [catalog EXCEPT ![code] = product]
  PROVE  RubrosInv'
<1>1. /\ RubrosTypeOK /\ \A c \in KnownProducts : Homed(catalog[c])
  BY DEF RubrosInv
<1>2. catalog' \in [Codes -> Product \cup {NoProduct}]
  BY <1>1 DEF RubrosTypeOK, Homed
<1>3. \A c \in Codes : catalog'[c] # NoProduct => catalog'[c].rubro \in Homes
  BY <1>1 DEF RubrosTypeOK, Homed, KnownProducts
<1>4. equivalence' \in Homes
  BY <1>1 DEF RubrosTypeOK
<1> QED
  BY <1>2, <1>3, <1>4, SortedStays

LEMMA OneProductStays ==
  ASSUME RubrosInv, NEW code \in Codes,
         \/ \E flag \in BOOLEAN : ListBrings(code, flag) \/ IncorporateProduct(code, flag)
         \/ UndoRule(code)
         \/ Discontinue(code)
         \/ KeepActive(code)
         \/ \E r \in DOMAIN rubros : SetProductCategory(code, r)
  PROVE  RubrosInv'
<1>1. /\ RubrosTypeOK /\ \A c \in KnownProducts : Homed(catalog[c])
  BY DEF RubrosInv
<1>2. code \in KnownProducts => Homed(catalog[code])
  BY <1>1
<1>3. Homes \subseteq Nat /\ equivalence \in Homes /\ 0 \in Homes /\ Listed \subseteq Homes
  BY <1>1, HomesAreFinite DEF RubrosTypeOK, Homes
<1>4. \A flag, remembered \in BOOLEAN : Homed(ProductWith(flag, remembered))
  BY <1>3 DEF ProductWith, Homed, Product
<1>5. ASSUME NEW flag \in BOOLEAN, ListBrings(code, flag) PROVE RubrosInv'
  <2> DEFINE product == IF code \in KnownProducts THEN catalog[code] ELSE ProductWith(flag, FALSE)
  <2>1. Homed(product)
    BY <1>2, <1>4
  <2>2. catalog' = [catalog EXCEPT ![code] = Classified(product, flag)]
        /\ UNCHANGED <<rubros, equivalence, amountVars>>
    BY <1>5 DEF ListBrings
  <2> HIDE DEF product
  <2>3. Homed(Classified(product, flag))
    BY <1>3, <2>1 DEF Homed, Product, Classified
  <2> QED
    BY <2>2, <2>3, ProductStays
<1>6. ASSUME NEW flag \in BOOLEAN, IncorporateProduct(code, flag) PROVE RubrosInv'
  BY <1>4, <1>6, ProductStays DEF IncorporateProduct
<1>7. ASSUME UndoRule(code) PROVE RubrosInv'
  BY <1>7, ProductStays DEF UndoRule
<1>8. ASSUME NEW active \in BOOLEAN, code \in KnownProducts,
             catalog' = [catalog EXCEPT ![code].active = active],
             UNCHANGED <<rubros, equivalence, amountVars>>
      PROVE  RubrosInv'
  <2> DEFINE product == [catalog[code] EXCEPT !.active = active]
  <2>1. Homed(product)
    BY <1>2, <1>8 DEF Homed, Product
  <2>2. catalog' = [catalog EXCEPT ![code] = product]
    BY <1>1, <1>8 DEF RubrosTypeOK
  <2> HIDE DEF product
  <2> QED
    BY <1>8, <2>1, <2>2, ProductStays
<1>9. ASSUME NEW r \in DOMAIN rubros, SetProductCategory(code, r) PROVE RubrosInv'
  <2> DEFINE product == [catalog[code] EXCEPT !.rubro = r, !.byHand = TRUE, !.byForm = FALSE]
  <2>1. code \in KnownProducts /\ r \in Homes /\ r \in Nat
    BY <1>3, <1>9 DEF SetProductCategory
  <2>2. Homed(product)
    BY <1>2, <2>1 DEF Homed, Product
  <2>3. catalog' = [catalog EXCEPT ![code] = product] /\ UNCHANGED <<rubros, equivalence, amountVars>>
    BY <1>1, <1>9 DEF RubrosTypeOK, SetProductCategory
  <2> HIDE DEF product
  <2> QED
    BY <2>2, <2>3, ProductStays
<1> QED
  BY <1>5, <1>6, <1>7, <1>8, <1>9 DEF Discontinue, KeepActive

\* The form is answered, pointed elsewhere or forgotten, and its products follow.
LEMMA FormStays ==
  ASSUME RubrosInv,
         \/ \E r \in DOMAIN rubros : LearnCategoryAlias(r) \/ RepointCategoryAlias(r)
         \/ ForgetCategoryAlias
  PROVE  RubrosInv'
<1>1. /\ RubrosTypeOK /\ \A c \in KnownProducts : Homed(catalog[c])
  BY DEF RubrosInv
<1>2. Homes \subseteq Nat /\ 0 \in Homes /\ Listed \subseteq Homes
  BY <1>1, HomesAreFinite DEF RubrosTypeOK, Homes
<1>3. ASSUME NEW r \in Homes, NEW D, D \subseteq KnownProducts, NEW flag \in BOOLEAN,
             equivalence' = r, UNCHANGED <<rubros, amountVars>>,
             catalog' = [c \in Codes |->
                IF c \in D THEN [catalog[c] EXCEPT !.rubro = r, !.byForm = flag] ELSE catalog[c]]
      PROVE  RubrosInv'
  <2>1. ASSUME NEW c \in Codes PROVE /\ catalog'[c] \in Product \cup {NoProduct}
                                     /\ catalog'[c] # NoProduct => catalog'[c].rubro \in Homes
    <3>1. CASE c \in D
      <4>1. catalog[c] \in Product /\ r \in Nat
        BY <1>1, <1>2, <1>3, <3>1 DEF Homed
      <4>2. catalog'[c] = [catalog[c] EXCEPT !.rubro = r, !.byForm = flag]
        BY <1>3, <3>1
      <4> QED
        BY <1>3, <4>1, <4>2 DEF Product
    <3>2. CASE c \notin D
      <4>1. catalog'[c] = catalog[c]
        BY <1>3, <3>2
      <4> QED
        BY <1>1, <4>1 DEF RubrosTypeOK, KnownProducts, Homed
    <3> QED
      BY <3>1, <3>2
  <2>2. catalog' \in [Codes -> Product \cup {NoProduct}]
    BY <1>3, <2>1
  <2> QED
    BY <1>3, <2>1, <2>2, SortedStays
<1>4. ASSUME NEW r \in DOMAIN rubros, LearnCategoryAlias(r) PROVE RubrosInv'
  <2> DEFINE D == {c \in ActiveIn(0) : catalog[c].form}
  <2>1. D \subseteq KnownProducts /\ r \in Homes
    BY <1>2, <1>4 DEF ActiveIn, LearnCategoryAlias
  <2>2. catalog' = [c \in Codes |->
           IF c \in D THEN [catalog[c] EXCEPT !.rubro = r, !.byForm = TRUE] ELSE catalog[c]]
    BY <1>4 DEF LearnCategoryAlias
  <2> HIDE DEF D
  <2> QED
    BY <1>3, <1>4, <2>1, <2>2 DEF LearnCategoryAlias
<1>5. ASSUME NEW r \in DOMAIN rubros, RepointCategoryAlias(r) PROVE RubrosInv'
  <2>1. r \in Homes /\ ClassifiedByForm \subseteq KnownProducts
    BY <1>2, <1>5 DEF RepointCategoryAlias, ClassifiedByForm
  <2>2. \A c \in ClassifiedByForm : [catalog[c] EXCEPT !.rubro = r]
                                       = [catalog[c] EXCEPT !.rubro = r, !.byForm = TRUE]
    <3> TAKE c \in ClassifiedByForm
    <3>1. catalog[c] \in Product /\ catalog[c].byForm = TRUE
      BY <1>1, <2>1 DEF ClassifiedByForm, Homed, Product
    <3> QED
      BY <3>1 DEF Product
  <2>3. catalog' = [c \in Codes |->
           IF c \in ClassifiedByForm THEN [catalog[c] EXCEPT !.rubro = r, !.byForm = TRUE]
           ELSE catalog[c]]
    BY <1>5, <2>2 DEF RepointCategoryAlias
  <2> QED
    BY <1>3, <1>5, <2>1, <2>3 DEF RepointCategoryAlias
<1>6. ASSUME ForgetCategoryAlias PROVE RubrosInv'
  <2>1. ClassifiedByForm \subseteq KnownProducts
    BY DEF ClassifiedByForm
  <2> QED
    BY <1>2, <1>3, <1>6, <2>1 DEF ForgetCategoryAlias
<1> QED
  BY <1>4, <1>5, <1>6

-------------------------------------------------------------------------------
(* What arrives. *)

LEMMA TableWith ==
  ASSUME NEW table, NEW lines, IsTable(table), IsTable(lines)
  PROVE  IsTable(Upserted(table, lines))
<1> DEFINE u == Upserted(table, lines)
<1>1. DOMAIN u = DOMAIN lines \cup DOMAIN table
  BY DEF Upserted
<1>2. IsFiniteSet(DOMAIN lines \cup DOMAIN table)
  BY FS_Union DEF IsTable
<1>4. \A id \in DOMAIN u : u[id].amount \in Nat
  <2> TAKE id \in DOMAIN u
  <2>1. CASE id \in DOMAIN lines
    <3>1. u[id] = lines[id]
      BY <2>1 DEF Upserted
    <3> HIDE DEF u
    <3> QED
      BY <2>1, <3>1 DEF IsTable
  <2>2. CASE id \notin DOMAIN lines
    <3>1. id \in DOMAIN table /\ u[id] = table[id]
      BY <2>2 DEF Upserted
    <3> HIDE DEF u
    <3> QED
      BY <3>1 DEF IsTable
  <2> QED
    BY <2>1, <2>2
<1> HIDE DEF u
<1> QED
  BY <1>1, <1>2, <1>4 DEF IsTable, u

\* The lines of the screen, in some order.
LEMMA ScreenInOrder ==
  ASSUME NEW S, S \subseteq Bought
  PROVE  /\ Cardinality(S) \in Nat
         /\ SetToSeq(S) \in [1..Cardinality(S) -> S] /\ Len(SetToSeq(S)) = Cardinality(S)
<1>1. Cardinality(S) \in Nat /\ ExistsBijection(1..Cardinality(S), S)
  BY FS_Subset, FS_CardinalityType, RubrosAssumption
<1>2. \E f \in [1..Cardinality(S) -> S] : IsInjective(f)
  BY <1>1 DEF ExistsBijection, Bijection, Injection
<1>3. SetToSeq(S) \in [1..Cardinality(S) -> S]
  BY <1>2 DEF SetToSeq
<1> QED
  BY <1>1, <1>3

LEMMA ReadStays ==
  ASSUME RubrosInv, ReadOrderScreen
  PROVE  typed' \in Nat /\ IsTable(spend') /\ UNCHANGED <<rubros, catalog, equivalence, printed, revenue>>
<1> DEFINE S == {line \in Bought : printed[line] # NotPrinted}
           rows == SetToSeq(S)
           n == Cardinality(S)
           Amounted(m) == printed[rows[m]].amount # NoWorth
           ids == {typed + m : m \in {k \in DOMAIN rows : Amounted(k)}}
           lines == [id \in ids |-> [code |-> printed[rows[id - typed]].code,
                                     amount |-> printed[rows[id - typed]].amount]]
<1>1. /\ typed \in Nat /\ printed \in [Bought -> Line \cup {NotPrinted}] /\ IsTable(spend)
  BY DEF RubrosInv, RubrosTypeOK
<1>2. n \in Nat /\ rows \in [1..n -> S] /\ Len(rows) = n
  BY ScreenInOrder
<1>3. /\ typed' = typed + Len(rows) /\ spend' = Upserted(spend, lines)
      /\ UNCHANGED <<rubros, catalog, equivalence, printed, revenue>>
  BY DEF ReadOrderScreen
<1>4. ASSUME NEW id \in ids
      PROVE  id \in typed + 1 .. typed + n /\ printed[rows[id - typed]].amount \in Nat
  <2>1. PICK m \in DOMAIN rows : id = typed + m /\ Amounted(m)
    OBVIOUS
  <2>2. m \in 1..n /\ id - typed = m
    BY <1>1, <1>2, <2>1
  <2>3. rows[m] \in Bought /\ printed[rows[m]] # NotPrinted
    BY <1>2, <2>2
  <2>4. printed[rows[m]] \in Line
    BY <1>1, <2>3
  <2>5. printed[rows[m]].amount \in Nat
    BY <2>1, <2>4, WorthAssumption DEF Line
  <2> HIDE DEF rows, n
  <2> QED
    BY <1>1, <1>2, <2>2, <2>5
<1>5. IsFiniteSet(ids)
  <2>1. IsFiniteSet(typed + 1 .. typed + n)
    BY <1>1, <1>2, FS_Interval
  <2>2. ids \subseteq typed + 1 .. typed + n
    BY <1>4
  <2> HIDE DEF ids
  <2> QED
    BY <2>1, <2>2, FS_Subset
<1>6. IsTable(lines)
  <2>1. DOMAIN lines = ids /\ \A id \in ids : lines[id].amount = printed[rows[id - typed]].amount
    OBVIOUS
  <2> HIDE DEF lines, ids, rows
  <2> QED
    BY <1>4, <1>5, <2>1 DEF IsTable
<1> HIDE DEF lines, rows
<1> QED
  BY <1>1, <1>2, <1>3, <1>6, TableWith

LEMMA RevenueStays ==
  ASSUME RubrosInv, NEW dropped \in SUBSET Sold, NEW sold \in SUBSET Sold,
         NEW counted \in [sold -> [code : Codes \cup {NoCode}, amount : Worth]],
         RecordSaleRevenue(dropped, counted)
  PROVE  IsTable(revenue')
<1> DEFINE left == [sale \in DOMAIN revenue \ dropped |-> revenue[sale]]
<1>1. IsTable(left)
  <2>1. DOMAIN left = DOMAIN revenue \ dropped /\ \A sale \in DOMAIN left : left[sale] = revenue[sale]
    OBVIOUS
  <2>2. IsFiniteSet(DOMAIN revenue \ dropped)
    BY FS_Difference DEF RubrosInv, IsTable
  <2> HIDE DEF left
  <2> QED
    BY <2>1, <2>2 DEF RubrosInv, IsTable
<1>2. IsTable(counted)
  <2>1. IsFiniteSet(sold)
    BY FS_Subset, RubrosAssumption
  <2>2. \A sale \in sold : counted[sale].amount \in Nat
    BY WorthAssumption
  <2> QED
    BY <2>1, <2>2 DEF IsTable
<1>3. revenue' = Upserted(left, counted)
  BY DEF RecordSaleRevenue
<1> HIDE DEF left
<1> QED
  BY <1>1, <1>2, <1>3, TableWith

LEMMA AmountsStay ==
  ASSUME RubrosInv, AmountsArrive
  PROVE  RubrosInv'
<1>1. ASSUME UNCHANGED <<rubros, catalog, equivalence>>, typed' \in Nat,
             printed' \in [Bought -> Line \cup {NotPrinted}], IsTable(spend'), IsTable(revenue')
      PROVE  RubrosInv'
  <2>1. Homes' = Homes /\ KnownProducts' = KnownProducts
    BY <1>1 DEF Homes, Listed, KnownProducts
  <2> QED
    BY <1>1, <2>1 DEF RubrosInv, RubrosTypeOK, Homed, IsTable
<1>2. /\ typed \in Nat /\ printed \in [Bought -> Line \cup {NotPrinted}]
      /\ IsTable(spend) /\ IsTable(revenue)
  BY DEF RubrosInv, RubrosTypeOK
<1>3. ASSUME NEW line \in Bought, MoveOn(line) PROVE RubrosInv'
  <2>1. printed[line] \in Line /\ printed' = [printed EXCEPT ![line].moved = TRUE]
        /\ UNCHANGED <<rubros, catalog, equivalence, screens, typed, spend, revenue>>
    BY <1>2, <1>3 DEF MoveOn
  <2>2. [printed[line] EXCEPT !.moved = TRUE] \in Line
    BY <2>1 DEF Line
  <2>3. printed' \in [Bought -> Line \cup {NotPrinted}]
    BY <1>2, <2>1, <2>2
  <2> QED
    BY <1>1, <1>2, <2>1, <2>3
<1>4. ASSUME NEW line \in Bought, NEW code \in Codes \cup {NoCode},
             NEW amount \in Worth \cup {NoWorth}, PortalPrints(line, code, amount)
      PROVE  RubrosInv'
  <2>1. [code |-> code, amount |-> amount, moved |-> FALSE] \in Line
    BY DEF Line
  <2>2. printed' \in [Bought -> Line \cup {NotPrinted}]
    BY <1>2, <1>4, <2>1 DEF PortalPrints
  <2> QED
    BY <1>1, <1>2, <1>4, <2>2 DEF PortalPrints
<1>5. ASSUME ReadOrderScreen PROVE RubrosInv'
  BY <1>1, <1>2, <1>5, ReadStays
<1>6. ASSUME NEW dropped \in SUBSET Sold, NEW sold \in SUBSET Sold,
             NEW counted \in [sold -> [code : Codes \cup {NoCode}, amount : Worth]],
             RecordSaleRevenue(dropped, counted)
      PROVE  RubrosInv'
  <2>1. IsTable(revenue')
    BY <1>6, RevenueStays
  <2>2. UNCHANGED <<rubros, catalog, equivalence, printed, screens, typed, spend>>
    BY <1>6 DEF RecordSaleRevenue
  <2> QED
    BY <1>1, <1>2, <2>1, <2>2
<1> QED
  BY <1>3, <1>4, <1>5, <1>6 DEF AmountsArrive

-------------------------------------------------------------------------------
LEMMA RubrosInitInv ==
  ASSUME RubrosInit
  PROVE  RubrosInv
<1>1. rubros \in Seq(RubroNames \cup {Deleted}) /\ equivalence \in Homes
  BY EmptySeq DEF RubrosInit, Homes
<1>2. IsFiniteSet(DOMAIN <<>>) /\ DOMAIN <<>> = {}
  BY FS_EmptySet
<1>3. IsTable(<<>>)
  BY <1>2 DEF IsTable
<1> QED
  BY <1>1, <1>3 DEF RubrosInit, RubrosInv, RubrosTypeOK, KnownProducts

LEMMA RubrosInvStays ==
  ASSUME RubrosInv, [RubrosNext]_rubroVars
  PROVE  RubrosInv'
<1>1. ASSUME PeopleSort PROVE RubrosInv'
  BY <1>1, CreateStays, RenameStays, DeleteStays, OneProductStays, FormStays DEF PeopleSort
<1>2. CASE UNCHANGED rubroVars
  BY <1>2 DEF rubroVars, amountVars, RubrosInv, RubrosTypeOK, Homes, Listed, KnownProducts, Homed, IsTable
<1> QED
  BY <1>1, <1>2, AmountsStay DEF RubrosNext

THEOREM RubrosAreKept == RubrosSpec => []RubrosInv
<1>1. RubrosInit => RubrosInv
  BY RubrosInitInv
<1>2. RubrosInv /\ [RubrosNext]_rubroVars => RubrosInv'
  BY RubrosInvStays
<1> QED
  BY <1>1, <1>2, PTL DEF RubrosSpec

THEOREM NoRowIsLost == RubrosSpec => []CutsAddUp
<1>1. RubrosInv => CutsAddUp
  BY CutsFollow
<1> QED
  BY <1>1, RubrosAreKept, PTL
===============================================================================
