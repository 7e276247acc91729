\* The six parts: two clerks and the worker over two invoices and two vouchers;
\* three days; two rows of the portal; two orders; one card with two fields;
\* two rubros, one product, a line of an order and a sale.
CONSTANTS
    Parts = {"payments", "calendar", "invoices", "orders", "suppliers", "rubros"}
    i1 = i1  i2 = i2  n1 = n1  n2 = n2  s1 = s1  t1 = t1  t2 = t2  k1 = k1  k2 = k2
    Invoices = {i1, i2}
    NumberOf <- PaidNumber
    SupplierOf <- PaidSupplier
    TotalOf <- PaidTotal
    DaysOverdue <- Late
    Vouchers <- Published
    Contained <- Within
    Amounts = {1}
    Clerks = {c1, c2}
    MaxPayments = 3
    Nobody = Nobody
    Nothing = Nothing
    Bills = {b1}
    Notes = {m1}
    Terms = {1}
    LastDay = 2
    MaxMoves = 2
    MaxReceipts = 1
    NoDay = NoDay
    Suppliers = {s1}
    Texts = {t1, t2}
    KeyOf <- Key
    LegalName <- Legal
    Likeness <- Like
    Numbers = {n1}
    Totals = {1, 2}
    MaxInvoices = 2
    MaxAliases = 2
    Unknown = Unknown
    Buyers = {s1}
    OrderNumbers = {o1, o2}
    Names = {t1, t2}
    Whose <- Said
    Products = {p1}
    Statuses = {received, inTransit}
    Received = received
    Amount = {1, 2}
    Window = 0
    Horizon = 1
    Nil = Nil
    Cards = {s1}
    Fields = {taxId, termDays}
    Correctable = {termDays}
    Details = {d1, d2, d3}
    Silent = Silent
    RubroNames = {a1, a2}
    Codes = {g1}
    Bought = {l1}
    Worth = {1}
    Sold = {v1}
    NoCode = NoCode
    NoWorth = NoWorth
    MaxRubros = 2
    MaxScreens = 2
SPECIFICATION PurchasesSpec
SYMMETRY Interchangeable
INVARIANTS
    NoVoucherLost
    FilterShowsWhatTheRowSays
    DebtAddsUp
    UnattributedIsHeld
    DisputeIsAsked
    RepeatIsEarlier
    CorrectionStands
    ToldOfEachDifference
    CutsAddUp
PROPERTIES
    RescheduledStays
    LateStaysLate
    RejectedIsNotAskedAgain
\* The tables of the model are full, or the last day came: the system may stop.
CHECK_DEADLOCK FALSE
